---------------------------- MODULE TunnelProofs ----------------------------
(***************************************************************************)
(* Theorems about Tunnel, for any number of failing commands, statements   *)
(* and crashes, and whatever the other tunnel does meanwhile.              *)
(*                                                                         *)
(* What is on the routers follows from how far the two jobs are: Added     *)
(* says what the creation has made so far, Removed what the removal has    *)
(* left.  As long as the two have not met, the creation is over when the   *)
(* removal is asked for and adds nothing to what the removal takes.        *)
(***************************************************************************)
EXTENDS Tunnel, SchedulerProofs

\* The items that the steps of the two jobs work on.
Made(i)    == ItemOf(CreateKinds, i)
Removal(i) == ItemOf(RemoveKinds, i)

Requests == {"none", "counted", "found", "asked", "done"}
Records  == {"absent", "provisioning", "active", "error", "removing", "gone"}

TunnelTypeOK ==
  /\ task[create] = CreateTask /\ task[remove] = RemoveTask
  /\ config \subseteq Items
  /\ record \in Records
  /\ request \in [Jobs -> Requests]
  /\ clash \in Clashes
  /\ other \in {"absent", "stands", "refused", "gone"}

\* A job is not there before its form has handed it over, and the form of the
\* removal finds a row.
RequestsFit ==
  /\ \A j \in Jobs : pc[j] # "new" => request[j] = "done"
  /\ request[create] \in {"none", "counted"} => record = "absent"
  /\ request[create] # "found"
  /\ request[create] = "asked" \/ pc[create] # "new" => record # "absent"
  /\ record = "absent" => request[remove] = "none"
  /\ record = "gone" => request[remove] = "done"

\* Step i of a job is still to come; it has been executed and the loop goes on.
Ahead(j, i) ==
  \/ pc[j] \in {"new", "rows", "start"}
  \/ pc[j] \in {"open", "exec"} /\ i >= cur[j]
  \/ pc[j] \in {"record_ok", "progress", "record_failed"} /\ i > cur[j]

Behind(j, i) ==
  \/ pc[j] \in {"open", "exec", "record_failed"} /\ i < cur[j]
  \/ pc[j] \in {"record_ok", "progress"} /\ i <= cur[j]
  \/ pc[j] = "finish"

\* An item that is still to be made is not there, and one that has been made is, until
\* somebody removes it.
Added ==
  \A i \in 1..8 :
    /\ Ahead(create, i) => Made(i) \notin config \cup taken
    /\ Behind(create, i) /\ request[remove] = "none" => Made(i) \in config \cup taken

\* Nothing is there but by a step whose effect stands or whose revert was swallowed; no
\* step of the creation is without a revert.
Effects ==
  \A i \in 1..8 :
    /\ Made(i) \in config => i \in applied[create] \/ Made(i) \in swallowed
    /\ rows[create][i] # "revert_skipped"

\* Past its last step a creation that met no fault comes to its end.
Ends(j) ==
  \/ pc[j] \in {"record_ok", "progress"} /\ cur[j] = 9
  \/ pc[j] \in {"finish", "done", "lost"}

\* Past its last step a removal changes no row but that of this step.
Closes(j) ==
  \/ Ends(j)
  \/ pc[j] = "record_failed" /\ cur[j] = 9
  \/ pc[j] = "catch"

\* A creation that is being rolled back, or was, makes nothing any more.
Recedes(j) == pc[j] \in Rolling \cup {"catch", "done", "lost", "orphaned"}

Active ==
  /\ taken \cap config = {}
  /\ (record = "active" /\ request[remove] = "none" /\ faults = 0) =>
       Ends(create) /\ config = Items \ taken /\ keys

\* The numbers that the two tunnels got.
Numbers ==
  /\ other = "absent" =>
       otherIndex = 0 /\ ~otherLost /\ (request[create] # "none" => index = 0)
  /\ HasOther /\ ~recounted =>
       /\ request[create] = "none" => otherIndex = 0
       /\ HasRow \/ request[create] = "counted" => index # otherIndex

\* As long as the two jobs have not met, the creation is over once the removal is asked
\* for, and the keys it stored are in the payload.
Apart ==
  /\ 9 \in applied[create] => keys
  /\ request[remove] # "none" =>
       /\ request[create] = "done" /\ pc[create] \in Stopped
       /\ 9 \in applied[create] => keysGiven

\* What a step of the removal has left, if its row does not say that it failed.
Left(i) == Removal(i) \in config => rows[remove][i] = "failed" \/ (i <= 2 /\ ~keysGiven)

Removed ==
  /\ \A i \in 1..8 : Behind(remove, i) => Left(i)
  /\ record = "gone" =>
       /\ Closes(remove)
       /\ \A i \in 1..8 : Left(i)

\* Nobody puts back what another tunnel has lost.
Lost ==
  otherLost =>
    /\ Recedes(create) \/ (pc[create] = "new" /\ request[create] = "done")
    /\ other = "stands" => Shared(clash) \cap config = {}

MatterInv ==
  /\ TunnelTypeOK
  /\ RequestsFit
  /\ Added
  /\ Effects
  /\ Active
  /\ Numbers
  /\ ~overlapped => Apart /\ Removed /\ Lost

TunnelInv == IInv /\ MatterInv

-----------------------------------------------------------------------------
(* Lemmas *)

\* The two jobs are all there are.
LEMMA TheJobs ==
  /\ create \in Jobs /\ remove \in Jobs /\ create # remove
  /\ \A j \in Jobs : j = create \/ j = remove
  /\ Steps = 1..9
BY TunnelAssumption DEF Steps

\* Every item has its step in the creation and one in the removal, which looks for
\* the peers first; no peer is shared with another tunnel.
LEMMA TheItems ==
  /\ \A i \in 1..8 : Made(i) \in Items /\ Removal(i) \in Items
  /\ \A i, k \in 1..8 : Made(i) = Made(k) => i = k
  /\ \A i, k \in 1..8 : Removal(i) = Removal(k) => i = k
  /\ \A i \in 1..8 : Removal(i)[1] = "peer" <=> i <= 2
  /\ \A item \in Items : (\E i \in 1..8 : item = Made(i)) /\ (\E i \in 1..8 : item = Removal(i))
  /\ \A c \in Clashes : \A item \in Shared(c) : item \in Items /\ item[1] # "peer"
  /\ \A c \in Clashes : \A one, two \in Shared(c) : one = two
<1>1. /\ Made(1) = <<"interface", "local">> /\ Made(2) = <<"interface", "remote">>
      /\ Made(3) = <<"peer", "local">>      /\ Made(4) = <<"peer", "remote">>
      /\ Made(5) = <<"address", "local">>   /\ Made(6) = <<"address", "remote">>
      /\ Made(7) = <<"route", "local">>     /\ Made(8) = <<"route", "remote">>
  BY DEF Made, ItemOf, CreateKinds, Sides
<1>2. /\ Removal(1) = <<"peer", "local">>      /\ Removal(2) = <<"peer", "remote">>
      /\ Removal(3) = <<"route", "local">>     /\ Removal(4) = <<"route", "remote">>
      /\ Removal(5) = <<"address", "local">>   /\ Removal(6) = <<"address", "remote">>
      /\ Removal(7) = <<"interface", "local">> /\ Removal(8) = <<"interface", "remote">>
  BY DEF Removal, ItemOf, RemoveKinds, Sides
<1>3. \A i \in 1..8 : i \in {1, 2, 3, 4, 5, 6, 7, 8}
  OBVIOUS
<1>4. \A i \in 1..8 : Made(i) \in Items /\ Removal(i) \in Items
  BY <1>1, <1>2, <1>3 DEF Items
<1>5. \A i, k \in 1..8 : Made(i) = Made(k) => i = k
  BY <1>1, <1>3
<1>6. \A i, k \in 1..8 : Removal(i) = Removal(k) => i = k
  BY <1>2, <1>3
<1>7. \A i \in 1..8 : Removal(i)[1] = "peer" <=> i <= 2
  BY <1>2, <1>3
<1>8. \A item \in Items : (\E i \in 1..8 : item = Made(i)) /\ (\E i \in 1..8 : item = Removal(i))
  BY <1>1, <1>2 DEF Items
<1>9. \A c \in Clashes : \A item \in Shared(c) : item \in Items /\ item[1] # "peer"
  BY DEF Clashes, Shared, Items
<1>10. \A c \in Clashes : \A one, two \in Shared(c) : one = two
  BY DEF Clashes, Shared
<1>. QED BY <1>4, <1>5, <1>6, <1>7, <1>8, <1>9, <1>10

\* What the scheduler does between the calls of the steps of a job: no step comes back,
\* and none is left behind but one whose row says that it failed.
LEMMA Moves ==
  ASSUME IInv, NEW j \in Jobs, task[j].size = 9,
         pc[j] \notin {"exec", "revert"}, Advance(j) \/ StatementFails(j), NEW i \in 1..8
  PROVE  /\ applied' = applied /\ pc[j] \notin Stopped /\ pc'[j] # "new"
         /\ Ahead(j, i)' => Ahead(j, i)
         /\ Behind(j, i)' => Behind(j, i) \/ (task[j].policy = "continue" /\ rows'[j][i] = "failed")
         /\ Behind(j, i) /\ rows[j][i] = "failed" => rows'[j][i] = "failed"
         /\ rows'[j][i] = "revert_skipped" =>
              rows[j][i] = "revert_skipped" \/ task[j].revert[i] = "none"
         /\ Ends(j) => Ends(j)' \/ StatementFails(j)
         /\ Closes(j) /\ task[j].policy = "continue" => Closes(j)' /\ rows'[j][i] = rows[j][i]
         /\ Recedes(j) => Recedes(j)'
<1>0. /\ TypeOK /\ Steps = 1..9 /\ i \in Steps
      /\ pc[j] \in Forward \cup Reverting \cup {"begin_rollback"} => cur[j] \in 1..9
  BY AtWork, TheJobs DEF IInv, StepsOf
<1> USE <1>0 DEF TypeOK, Goto, Ahead, Behind, Ends, Closes, Recedes, Stopped, Forward,
        Reverting, Rolling
<1>1. CASE PersistSteps(j)
  BY <1>1 DEF PersistSteps
<1>2. CASE StartJob(j)
  BY <1>2 DEF StartJob
<1>3. CASE \/ FinishEmpty(j) \/ FinishFailed(j) \/ FinishSucceeded(j)
           \/ FinishRollback(j) \/ CatchJob(j)
  BY <1>3 DEF FinishEmpty, FinishFailed, FinishSucceeded, FinishRollback, CatchJob
<1>4. CASE OpenStep(j)
  BY <1>4 DEF OpenStep, SetRow
<1>5. CASE RecordSuccess(j)
  <2>1. rows[j][cur[j]] = "running"
    BY <1>5 DEF IInv, JobInv, StepFits, RecordSuccess
  <2>. QED BY <1>5, <2>1 DEF RecordSuccess, SetRow
<1>6. CASE RecordProgress(j)
  BY <1>6 DEF RecordProgress, NextStep
<1>7. CASE RecordFailure(j)
  <2>1. /\ cur[j] \in 1..9 /\ pc[j] = "record_failed" /\ applied' = applied
        /\ rows'[j][i] = IF i = cur[j] THEN "failed" ELSE rows[j][i]
    BY <1>7 DEF RecordFailure, SetRow
  <2>2. CASE task[j].policy = "continue"
    <3>1. NextStep(j)
      BY <1>7, <2>2 DEF RecordFailure
    <3>2. \/ pc'[j] = "open" /\ cur'[j] = cur[j] + 1 /\ cur[j] < 9
          \/ pc'[j] = "finish" /\ cur[j] = 9
      BY <2>1, <3>1 DEF NextStep
    <3>. QED BY <2>1, <2>2, <3>2
  <2>3. CASE task[j].policy # "continue"
    <3>1. pc'[j] \in {"finish_failed", "begin_rollback"}
      BY <1>7, <2>3 DEF RecordFailure
    <3>. QED BY <2>1, <2>3, <3>1
  <2>. QED BY <2>2, <2>3
<1>8. CASE BeginRollback(j)
  BY <1>8 DEF BeginRollback, NextRevert
<1>9. CASE SkipRevert(j)
  BY <1>9 DEF SkipRevert, NextRevert, SetRow
<1>10. CASE OpenRevert(j)
  BY <1>10 DEF OpenRevert, SetRow
<1>11. CASE RecordReverted(j)
  BY <1>11 DEF RecordReverted, SetRow, NextRevert
<1>12. CASE RecordRevertFailed(j)
  BY <1>12 DEF RecordRevertFailed, SetRow, NextRevert
<1>13. CASE StatementFails(j)
  BY <1>13 DEF StatementFails, UncaughtPoints, StepTryPoints, RevertTryPoints, persisted
<1>14. ~ExecuteOk(j) /\ ~ExecuteFails(j) /\ ~RevertOk(j) /\ ~RevertFails(j)
  BY DEF ExecuteOk, ExecuteFails, RevertOk, RevertFails
<1>. QED
  BY <1>1, <1>2, <1>3, <1>4, <1>5, <1>6, <1>7, <1>8, <1>9, <1>10, <1>11, <1>12, <1>13, <1>14
     DEF Advance

\* What the four history variables keep.
LEMMA Remembers ==
  ASSUME TunnelNext
  PROVE  /\ \A item \in swallowed : item \in swallowed'
         /\ \A i \in 1..8 : RemoveItemFails(i) => Made(i) \in swallowed'
         /\ ~overlapped' => ~overlapped /\ (~Pending(create)' \/ ~Pending(remove)')
         /\ taken' = taken \cup {item \in config \ config' : other' # other}
         /\ other' = other => taken' = taken
         /\ recounted' <=> (recounted \/ (request[create] = "counted" /\ other' # other))
<1>1. /\ swallowed' = swallowed
           \cup {ItemOf(CreateKinds, i) : i \in {k \in 1..8 : RemoveItemFails(k)}}
      /\ overlapped' = (overlapped \/ \A j \in Jobs : Pending(j)')
      /\ taken' = taken \cup {item \in config \ config' : other' # other}
      /\ recounted' = (recounted \/ (request[create] = "counted" /\ other' # other))
  BY DEF TunnelNext
<1>2. \A i \in 1..8 : RemoveItemFails(i) => Made(i) \in swallowed'
  BY <1>1, Zenon DEF Made
<1>3. ~overlapped' => ~overlapped /\ (~Pending(create)' \/ ~Pending(remove)')
  BY <1>1, TheJobs
<1>4. other' = other => {item \in config \ config' : other' # other} = {}
  OBVIOUS
<1>5. other' = other => taken' = taken
  BY <1>1, <1>4
<1>. QED BY <1>1, <1>2, <1>3, <1>5

\* The scheduler's variables only move by its own steps, but for a bound that a form
\* action or a death outside of its jobs uses up.
LEMMA SchedulerSteps ==
  ASSUME IInv, TunnelNext
  PROVE  \/ [Next]_vars
         \/ /\ UNCHANGED <<task, persisted, memory, applied, announced>>
            /\ faults' \in faults..MaxFaults /\ crashes' \in 0..MaxCrashes
<1>1. CASE CountTunnels \/ AskCreate \/ FindTunnel \/ AskRemove \/ OtherComes \/ OtherGoes
  BY <1>1 DEF CountTunnels, AskCreate, FindTunnel, AskRemove, OtherComes, OtherGoes
<1>2. CASE ProcessDies
  <2>1. CASE \E j \in Jobs : pc[j] \notin Stopped
    BY <1>2, <2>1 DEF ProcessDies, Next, Crash
  <2>2. CASE \A j \in Jobs : pc[j] \in Stopped
    <3>1. pc' = pc
      BY <1>2, <2>2 DEF ProcessDies, Die, IInv, TypeOK
    <3>. QED BY <1>2, <3>1, ConstantsAssumption DEF ProcessDies, IInv, TypeOK, memory, persisted
  <2>. QED BY <2>1, <2>2
<1>3. ASSUME NEW j \in Jobs, HandOver(j) \/ SchedulerStep(j)
      PROVE  [Next]_vars
  BY <1>3 DEF HandOver, SchedulerStep, Next
<1>4. ASSUME NEW j \in Jobs, HandOverFails(j)
      PROVE  /\ UNCHANGED <<task, persisted, memory, applied, announced>>
             /\ faults' \in faults..MaxFaults /\ crashes' \in 0..MaxCrashes
  BY <1>4, ConstantsAssumption DEF HandOverFails, IInv, TypeOK
<1>5. CASE TaskStep
  <2>1. Advance(create) \/ Advance(remove)
    BY <1>5 DEF TaskStep, AddItem, AddItemRefused, AddItemFails, RemoveItem, RemoveItemFails,
           CleanItem, CleanItemFails, MarkActive, MarkActiveFails, MarkError, DeleteRecord,
           DeleteRecordFails, Advance
  <2>. QED BY <2>1, TheJobs DEF Next
<1>. QED BY <1>1, <1>2, <1>3, <1>4, <1>5 DEF TunnelNext

LEMMA TunnelKeepsIInv ==
  ASSUME IInv, TunnelNext
  PROVE  IInv' /\ (faults' = 0 => faults = 0) /\ task' = task
<1>0. TypeOK
  BY DEF IInv
<1>1. CASE [Next]_vars
  <2>1. IInv'
    BY <1>1, NextIInv
  <2>2. task' = task
    BY <1>0, <1>1, Frame, TheJobs DEF Next, vars, Crash, CatchFails
  <2>3. faults' = 0 => faults = 0
    BY <1>0, <1>1, FaultsGrow, ConstantsAssumption DEF Next, vars, bounds, Crash, CatchFails, TypeOK
  <2>. QED BY <2>1, <2>2, <2>3
<1>2. CASE /\ UNCHANGED <<task, persisted, memory, applied, announced>>
           /\ faults' \in faults..MaxFaults /\ crashes' \in 0..MaxCrashes
  <2>1. TypeOK'
    BY <1>0, <1>2 DEF TypeOK, persisted, memory
  <2>2. ASSUME NEW j \in Jobs PROVE JobInv(j)'
    BY <1>2, <2>2 DEF IInv, persisted, memory, JobInv, StatusFits, StepFits, EffectsFit, WholeSoFar,
           RollbackFits, RowsTell, RowsSoFar, NothingElse, Whole, StepsOf
  <2>. QED BY <1>0, <1>2, <2>1, <2>2 DEF IInv, TypeOK
<1>. QED BY <1>1, <1>2, SchedulerSteps

LEMMA InitMatterInv == TunnelInit => MatterInv
<1> SUFFICES ASSUME TunnelInit PROVE MatterInv
  OBVIOUS
<1> USE TheJobs DEF TunnelInit, Init
<1>1. TunnelTypeOK /\ RequestsFit
  BY DEF TunnelTypeOK, RequestsFit, Records, Requests
<1>2. Added /\ Effects
  BY DEF Added, Effects, Behind
<1>3. Active /\ Numbers
  BY DEF Active, Numbers, HasOther, HasRow
<1>4. Apart /\ Removed /\ Lost
  BY DEF Apart, Removed, Lost, Behind
<1>. QED BY <1>1, <1>2, <1>3, <1>4 DEF MatterInv

\* The form actions touch the row, the request and the number.
LEMMA FormsKeep ==
  ASSUME TunnelInv, TunnelNext, CountTunnels \/ AskCreate \/ FindTunnel \/ AskRemove
  PROVE  MatterInv'
<1>1. /\ UNCHANGED vars /\ UNCHANGED <<config, keys, otherVars>>
      /\ other' = other /\ taken' = taken /\ (recounted' <=> recounted)
  BY Remembers DEF CountTunnels, AskCreate, FindTunnel, AskRemove, otherVars, otherRow, tunnelVars
<1>2. /\ UNCHANGED <<pc, cur, rows, applied, task, faults>>
      /\ UNCHANGED <<config, keys, clash, otherIndex, otherLost>>
  BY <1>1 DEF vars, persisted, memory, bounds, otherVars, otherRow
<1>3. \A j, i : (Ahead(j, i)' <=> Ahead(j, i)) /\ (Behind(j, i)' <=> Behind(j, i))
  BY <1>2 DEF Ahead, Behind
<1> USE <1>1, <1>2, <1>3, TheJobs, Remembers DEF TunnelInv, MatterInv, TunnelTypeOK, RequestsFit
<1>4. /\ record' \in Records /\ request' \in [Jobs -> Requests]
      /\ request[remove] # "none" => request'[remove] # "none"
      /\ request'[create] # "none" \/ request'[create] = request[create]
  BY DEF CountTunnels, AskCreate, FindTunnel, AskRemove, Records, Requests, tunnelVars
<1>5. RequestsFit'
  <2>1. CASE CountTunnels
    BY <2>1 DEF CountTunnels, tunnelVars, Requests
  <2>2. CASE AskCreate
    BY <2>2 DEF AskCreate, Requests
  <2>3. CASE FindTunnel
    BY <2>3 DEF FindTunnel, tunnelVars, Requests
  <2>4. CASE AskRemove
    BY <2>4 DEF AskRemove, Requests
  <2>. QED BY <2>1, <2>2, <2>3, <2>4
<1>6. Added' /\ Effects'
  BY <1>4 DEF Added, Effects
<1>7. Active'
  BY <1>4 DEF Active, Ends, CountTunnels, AskCreate, FindTunnel, AskRemove, tunnelVars
<1>8. Numbers'
  BY <1>4 DEF Numbers, HasOther, HasRow, CountAll, CountTunnels, AskCreate, FindTunnel, AskRemove, tunnelVars
<1>9. ASSUME ~overlapped' PROVE Apart' /\ Removed' /\ Lost'
  <2>1. ~overlapped /\ Apart /\ Removed /\ Lost
    BY <1>9
  <2>2. CASE CountTunnels
    <3>1. /\ record' = record /\ keysGiven' = keysGiven /\ request[create] = "none"
          /\ request' = [request EXCEPT ![create] = "counted"]
      BY <2>2 DEF CountTunnels, tunnelVars
    <3>. QED BY <2>1, <3>1 DEF Apart, Removed, Lost, Left, Ends, Closes, Recedes
  <2>3. CASE AskCreate
    <3>1. /\ record' = "provisioning" /\ keysGiven' = keysGiven /\ request[create] = "counted"
          /\ request' = [request EXCEPT ![create] = "asked"]
      BY <2>3 DEF AskCreate
    <3>. QED BY <2>1, <3>1 DEF Apart, Removed, Lost, Left, Ends, Closes, Recedes
  <2>4. CASE FindTunnel
    <3>1. /\ record' = record /\ keysGiven' = keys /\ request[remove] = "none"
          /\ record # "absent" /\ request' = [request EXCEPT ![remove] = "found"]
      BY <2>4 DEF FindTunnel, tunnelVars
    <3>2. request'[create] = "done" /\ pc[create] \in Stopped
      BY <1>9, <3>1 DEF Pending, UnderWay, Requests
    <3>. QED BY <2>1, <3>1, <3>2 DEF Apart, Removed, Lost, Left, Ends, Closes, Recedes, Behind
  <2>5. CASE AskRemove
    <3>1. /\ record' = "removing" /\ keysGiven' = keysGiven /\ request[remove] = "found"
          /\ request' = [request EXCEPT ![remove] = "asked"]
      BY <2>5 DEF AskRemove
    <3>. QED BY <2>1, <3>1 DEF Apart, Removed, Lost, Left, Ends, Closes, Recedes, Behind
  <2>. QED BY <2>2, <2>3, <2>4, <2>5
<1>. QED BY <1>4, <1>5, <1>6, <1>7, <1>8, <1>9
\* A job that is handed over is at its start, and so was before.
LEMMA HandOverKeeps ==
  ASSUME TunnelInv, TunnelNext, NEW j \in Jobs, HandOver(j) \/ HandOverFails(j)
  PROVE  MatterInv'
<1>1. /\ UNCHANGED <<tunnelVars, keysGiven, index, otherVars>>
      /\ other' = other /\ taken' = taken /\ (recounted' <=> recounted)
      /\ request[j] \in UnderWay /\ request' = [request EXCEPT ![j] = "done"]
  BY Remembers DEF HandOver, HandOverFails, UnderWay, otherVars, otherRow
<1>2. /\ UNCHANGED <<config, record, keys, keysGiven, index, clash, otherIndex, otherLost>>
      /\ UNCHANGED <<cur, rows, applied>>
      /\ pc[j] = "new" /\ (pc' = pc \/ pc' = [pc EXCEPT ![j] = "rows"])
      /\ pc' = pc \/ request[j] = "asked"
  BY <1>1 DEF HandOver, HandOverFails, UnderWay, Schedule, Goto, persisted, memory, tunnelVars,
         otherVars, otherRow, TunnelInv, MatterInv, RequestsFit
<1>3. task' = task /\ (faults' = 0 => faults = 0)
  BY TunnelKeepsIInv DEF TunnelInv
<1>4. pc \in [Jobs -> Points]
  BY DEF TunnelInv, IInv, TypeOK
<1>5. \A k \in Jobs, i \in 1..8 : (Ahead(k, i)' => Ahead(k, i)) /\ (Behind(k, i)' <=> Behind(k, i))
  BY <1>2, <1>4 DEF Ahead, Behind
<1>6. \A k \in Jobs : /\ Ends(k) => Ends(k)'
                      /\ Closes(k) => Closes(k)'
                      /\ Recedes(k) => Recedes(k)'
                      /\ k # j => pc'[k] = pc[k]
  BY <1>2, <1>4 DEF Ends, Closes, Recedes, Rolling, Reverting
<1> USE <1>1, <1>2, <1>3, <1>4, <1>5, <1>6, TheJobs, Remembers
        DEF TunnelInv, MatterInv, TunnelTypeOK, RequestsFit
<1>7. TunnelTypeOK' /\ RequestsFit'
  BY DEF Requests, UnderWay
<1>8. Added' /\ Effects'
  BY DEF Added, Effects, UnderWay
<1>9. Active' /\ Numbers'
  BY DEF Active, Numbers, HasOther, HasRow, UnderWay
<1>10. ASSUME ~overlapped' PROVE Apart' /\ Removed' /\ Lost'
  <2>1. ~overlapped /\ Apart /\ Removed /\ Lost
    BY <1>10
  <2>. QED BY <2>1 DEF Apart, Removed, Lost, Left, UnderWay
<1>. QED BY <1>7, <1>8, <1>9, <1>10

\* A death stops what runs and drops the forms that are under way.
LEMMA DeathKeeps ==
  ASSUME TunnelInv, TunnelNext, Die,
         \/ request' = request
         \/ request' = [j \in Jobs |-> IF request[j] \in UnderWay THEN "done" ELSE request[j]],
         UNCHANGED <<cur, rows, applied, tunnelVars, keysGiven, index, otherVars>>
  PROVE  MatterInv'
<1>1. /\ UNCHANGED <<config, record, keys, keysGiven, index, clash, other, otherIndex, otherLost>>
      /\ taken' = taken /\ (recounted' <=> recounted)
      /\ UNCHANGED <<cur, rows, applied>>
  BY Remembers DEF tunnelVars, otherVars, otherRow
<1>2. task' = task /\ (faults' = 0 => faults = 0)
  BY TunnelKeepsIInv DEF TunnelInv
<1>3. pc' = [j \in Jobs |-> IF pc[j] \in Stopped THEN pc[j] ELSE "lost"]
  BY DEF Die
<1>4. \A k \in Jobs, i \in 1..8 : (Ahead(k, i)' => Ahead(k, i)) /\ ~Behind(k, i)'
  BY <1>3 DEF Ahead, Behind, Stopped
<1>5. \A k \in Jobs : /\ Ends(k) => Ends(k)'
                      /\ Closes(k) => Closes(k)'
                      /\ Recedes(k) => Recedes(k)'
                      /\ pc[k] \in Stopped => pc'[k] = pc[k]
                      /\ pc'[k] = "new" <=> pc[k] = "new"
  BY <1>3 DEF Ends, Closes, Recedes, Rolling, Reverting, Stopped
<1>6. \A k \in Jobs : /\ request'[k] \in {request[k], "done"}
                      /\ request[k] \in {"none", "done"} => request'[k] = request[k]
  BY DEF UnderWay
<1>7. request' \in [Jobs -> Requests]
  BY DEF Requests, TunnelInv, MatterInv, TunnelTypeOK
<1> USE <1>1, <1>2, <1>4, <1>5, <1>6, <1>7, TheJobs, Remembers
        DEF TunnelInv, MatterInv, TunnelTypeOK, RequestsFit
<1>8. TunnelTypeOK' /\ RequestsFit'
  BY DEF Requests
<1>9. Added' /\ Effects'
  BY DEF Added, Effects
<1>10. Active' /\ Numbers'
  BY DEF Active, Numbers, HasOther, HasRow
<1>11. ASSUME ~overlapped' PROVE Apart' /\ Removed' /\ Lost'
  <2>1. ~overlapped /\ Apart /\ Removed /\ Lost
    BY <1>11
  <2>. QED BY <2>1 DEF Apart, Removed, Lost, Left
<1>. QED BY <1>8, <1>9, <1>10, <1>11
\* The scheduler's own steps move one job and leave the routers alone.
LEMMA SchedulerKeeps ==
  ASSUME TunnelInv, TunnelNext, NEW j \in Jobs, SchedulerStep(j)
  PROVE  MatterInv'
<1>1. /\ UNCHANGED <<config, record, keys, keysGiven, request, index>>
      /\ UNCHANGED <<clash, other, otherIndex, otherLost>>
      /\ taken' = taken /\ (recounted' <=> recounted)
      /\ UNCHANGED <<tunnelVars, keysGiven, index, otherVars>>
  BY Remembers DEF SchedulerStep, tunnelVars, callVars, otherVars, otherRow
<1>2. CASE CatchFails(j)
  BY <1>1, <1>2, DeathKeeps DEF CatchFails, persisted
<1>3. CASE Advance(j) \/ StatementFails(j)
  <2>1. /\ task' = task /\ (faults' = 0 => faults = 0)
        /\ StatementFails(j) => faults' # 0
    BY TunnelKeepsIInv, ConstantsAssumption DEF StatementFails, TunnelInv, IInv, TypeOK
  <2>2. \A k \in Jobs : task[k].size = 9 /\ (task[k].policy = "continue" <=> k = remove)
    BY TheJobs DEF TunnelInv, MatterInv, TunnelTypeOK, CreateTask, RemoveTask
  <2>3. pc[j] \notin {"exec", "revert"}
    BY <1>3 DEF SchedulerStep, StatementFails, CatchFails, UncaughtPoints, StepTryPoints,
           RevertTryPoints
  <2>4. IInv /\ TypeOK
    BY DEF TunnelInv, IInv
  <2>5. \A k \in Jobs \ {j} :
          /\ rows'[k] = rows[k] /\ pc'[k] = pc[k] /\ cur'[k] = cur[k] /\ applied'[k] = applied[k]
    BY <1>3, <2>4, Frame
  <2>6. /\ applied' = applied /\ pc[j] \notin Stopped /\ pc'[j] # "new"
        /\ Ends(j) /\ faults' = 0 => Ends(j)'
        /\ Recedes(j) => Recedes(j)'
        /\ Closes(j) /\ j = remove => Closes(j)'
    <3>1. 1 \in 1..8
      OBVIOUS
    <3>. QED BY <1>3, <2>1, <2>2, <2>3, <2>4, <3>1, Moves
  <2>7. \A i \in 1..8 :
          /\ Ahead(j, i)' => Ahead(j, i)
          /\ Behind(j, i)' => Behind(j, i) \/ (j = remove /\ rows'[j][i] = "failed")
          /\ Behind(j, i) /\ rows[j][i] = "failed" => rows'[j][i] = "failed"
          /\ rows'[j][i] = "revert_skipped" =>
              rows[j][i] = "revert_skipped" \/ task[j].revert[i] = "none"
          /\ Closes(j) /\ j = remove => rows'[j][i] = rows[j][i]
    BY <1>3, <2>2, <2>3, <2>4, Moves
  <2>8. \A k \in Jobs \ {j} : /\ \A i \in 1..8 : /\ Ahead(k, i)' <=> Ahead(k, i)
                                                 /\ Behind(k, i)' <=> Behind(k, i)
                              /\ Ends(k) => Ends(k)'
                              /\ Recedes(k) => Recedes(k)'
                              /\ Closes(k) => Closes(k)'
    BY <2>5 DEF Ahead, Behind, Ends, Closes, Recedes
  <2>9. \A i \in 1..8 : task[create].revert[i] # "none"
    BY TheJobs DEF TunnelInv, MatterInv, TunnelTypeOK, CreateTask
  <2> HIDE DEF CreateTask, RemoveTask
  <2> USE <1>1, <2>1, <2>5, <2>6, <2>7, <2>8, TheJobs, Remembers
          DEF TunnelInv, MatterInv, TunnelTypeOK, RequestsFit
  <2>10. TunnelTypeOK' /\ RequestsFit'
    BY DEF Stopped
  <2>11. Added' /\ Effects'
    BY <2>9 DEF Added, Effects
  <2>12. Active' /\ Numbers'
    BY DEF Active, Numbers, HasOther, HasRow
  <2>13. ASSUME ~overlapped' PROVE Apart' /\ Removed' /\ Lost'
    <3>1. ~overlapped /\ Apart /\ Removed /\ Lost
      BY <2>13
    <3>2. Apart' /\ Lost'
      BY <3>1 DEF Apart, Lost, Stopped
    <3>3. Removed'
      <4>1. ASSUME NEW i \in 1..8, Left(i), Behind(remove, i) \/ Closes(remove) PROVE Left(i)'
        BY <4>1 DEF Left
      <4>2. ASSUME NEW i \in 1..8, rows'[remove][i] = "failed" PROVE Left(i)'
        BY <4>2 DEF Left
      <4>. QED BY <3>1, <4>1, <4>2 DEF Removed
    <3>. QED BY <3>2, <3>3
  <2>. QED BY <2>10, <2>11, <2>12, <2>13
<1>. QED BY <1>2, <1>3 DEF SchedulerStep

\* The other tunnel comes and goes without the scheduler of this one.
LEMMA OtherKeeps ==
  ASSUME TunnelInv, TunnelNext, OtherComes \/ OtherGoes
  PROVE  MatterInv'
<1>1. /\ UNCHANGED vars /\ UNCHANGED <<record, keys, keysGiven, request, index, clash, otherLost>>
      /\ config' \subseteq config
      /\ other' # other
  BY DEF OtherComes, OtherGoes, HasOther, tunnelVars, callVars
<1>2. /\ UNCHANGED <<pc, cur, rows, applied, task, faults>>
      /\ UNCHANGED <<record, keys, keysGiven, request, index, clash, otherLost>>
      /\ config' \subseteq config
      /\ taken' = taken \cup (config \ config')
  BY <1>1, Remembers DEF vars, persisted, memory, bounds
<1>3. \A j, i : (Ahead(j, i)' <=> Ahead(j, i)) /\ (Behind(j, i)' <=> Behind(j, i))
  BY <1>2 DEF Ahead, Behind
<1>4. \A j : (Ends(j)' <=> Ends(j)) /\ (Closes(j)' <=> Closes(j)) /\ (Recedes(j)' <=> Recedes(j))
  BY <1>2 DEF Ends, Closes, Recedes
<1> USE <1>2, <1>3, <1>4, TheJobs, TheItems, Remembers
        DEF TunnelInv, MatterInv, TunnelTypeOK, RequestsFit
<1>5. TunnelTypeOK' /\ RequestsFit'
  BY DEF OtherComes, OtherGoes
<1>6. Added' /\ Effects'
  BY DEF Added, Effects
<1>7. Active'
  BY DEF Active
<1>8. Numbers'
  BY DEF Numbers, HasOther, HasRow, CountAll, OtherComes, OtherGoes, tunnelVars
<1>9. ASSUME ~overlapped' PROVE Apart' /\ Removed' /\ Lost'
  <2>1. ~overlapped /\ Apart /\ Removed /\ Lost
    BY <1>9
  <2>2. Apart' /\ Removed'
    BY <2>1 DEF Apart, Removed, Left
  <2>3. Lost'
    BY <2>1 DEF Lost, Numbers, OtherComes, OtherGoes
  <2>. QED BY <2>2, <2>3
<1>. QED BY <1>5, <1>6, <1>7, <1>8, <1>9
\* What a step that is executed, or taken back, does to the job: it leaves the other
\* job alone, and the rows.
LEMMA Executes ==
  ASSUME TunnelInv, NEW j \in Jobs, ExecuteOk(j) \/ ExecuteFails(j)
  PROVE  /\ UNCHANGED <<cur, rows>> /\ pc[j] = "exec" /\ cur[j] \in 1..9
         /\ pc'[j] \in {"record_ok", "record_failed"}
         /\ ExecuteOk(j) => pc'[j] = "record_ok" /\ applied'[j] = applied[j] \cup {cur[j]}
         /\ \A i : i # cur[j] => (i \in applied'[j] <=> i \in applied[j])
         /\ \A i : i \in applied[j] => i \in applied'[j]
         /\ pc'[j] = "record_ok" => ExecuteOk(j)
         /\ \A i \in 1..8 : /\ Ahead(j, i)' => Ahead(j, i) /\ i # cur[j]
                            /\ Behind(j, i)' => Behind(j, i) \/ (i = cur[j] /\ pc'[j] = "record_ok")
                            /\ i = cur[j] => Ahead(j, i) /\ ~Behind(j, i)
         /\ ~Ends(j) /\ ~Closes(j) /\ ~Recedes(j)
         /\ cur[j] = 9 => Closes(j)'
         /\ cur[j] = 9 /\ ExecuteOk(j) => Ends(j)' /\ \A i \in 1..8 : Behind(j, i)
         /\ \A k \in Jobs \ {j} :
              /\ pc'[k] = pc[k] /\ applied'[k] = applied[k]
              /\ \A i \in 1..8 : (Ahead(k, i)' <=> Ahead(k, i)) /\ (Behind(k, i)' <=> Behind(k, i))
              /\ Ends(k)' <=> Ends(k)
              /\ Closes(k)' <=> Closes(k)
              /\ Recedes(k)' <=> Recedes(k)
<1>1. TypeOK /\ pc[j] = "exec" /\ UNCHANGED <<cur, rows>>
  BY DEF TunnelInv, IInv, ExecuteOk, ExecuteFails, persisted
<1>2. cur[j] \in 1..9
  BY <1>1, AtWork, TheJobs DEF TunnelInv, Forward
<1>3. \A k \in Jobs \ {j} : pc'[k] = pc[k] /\ applied'[k] = applied[k]
  BY <1>1, Frame DEF Advance
<1>4. \A k \in Jobs \ {j} :
        /\ \A i \in 1..8 : (Ahead(k, i)' <=> Ahead(k, i)) /\ (Behind(k, i)' <=> Behind(k, i))
        /\ Ends(k)' <=> Ends(k)
        /\ Closes(k)' <=> Closes(k)
        /\ Recedes(k)' <=> Recedes(k)
  BY <1>1, <1>3 DEF Ahead, Behind, Ends, Closes, Recedes
<1>5. /\ pc'[j] \in {"record_ok", "record_failed"}
      /\ pc'[j] = "record_ok" => ExecuteOk(j)
      /\ ExecuteOk(j) => pc'[j] = "record_ok" /\ applied'[j] = applied[j] \cup {cur[j]}
      /\ \A i : i # cur[j] => (i \in applied'[j] <=> i \in applied[j])
      /\ \A i : i \in applied[j] => i \in applied'[j]
  BY <1>1 DEF TypeOK, ExecuteOk, ExecuteFails, Goto
<1>6. /\ \A i \in 1..8 : /\ Ahead(j, i)' => Ahead(j, i) /\ i # cur[j]
                         /\ Behind(j, i)' => Behind(j, i) \/ (i = cur[j] /\ pc'[j] = "record_ok")
                         /\ i = cur[j] => Ahead(j, i) /\ ~Behind(j, i)
      /\ ~Ends(j) /\ ~Closes(j) /\ ~Recedes(j)
      /\ cur[j] = 9 => Closes(j)'
      /\ cur[j] = 9 /\ pc'[j] = "record_ok" => Ends(j)' /\ \A i \in 1..8 : Behind(j, i)
  BY <1>1, <1>2, <1>5 DEF Ahead, Behind, Ends, Closes, Recedes, Rolling, Reverting
<1>. QED BY <1>1, <1>2, <1>3, <1>4, <1>5, <1>6

LEMMA TakesBack ==
  ASSUME TunnelInv, RevertOk(create)
  PROVE  /\ UNCHANGED <<cur, rows>> /\ pc[create] = "revert" /\ pc'[create] = "record_reverted"
         /\ \A i : i \in applied'[create] <=> i \in applied[create] /\ i # cur[create]
         /\ \A i \in 1..8 : ~Ahead(create, i)' /\ ~Behind(create, i)'
         /\ ~Ends(create) /\ Recedes(create) /\ Recedes(create)'
         /\ /\ pc'[remove] = pc[remove] /\ applied'[remove] = applied[remove]
            /\ \A i \in 1..8 : Behind(remove, i)' <=> Behind(remove, i)
            /\ Closes(remove)' <=> Closes(remove)
<1>1. /\ TypeOK /\ UNCHANGED <<cur, rows>>
      /\ pc[create] = "revert" /\ pc'[create] = "record_reverted"
      /\ \A i : i \in applied'[create] <=> i \in applied[create] /\ i # cur[create]
  BY TheJobs DEF TunnelInv, IInv, RevertOk, persisted, Goto, TypeOK
<1>2. pc'[remove] = pc[remove] /\ applied'[remove] = applied[remove]
  BY <1>1, Frame, TheJobs DEF Advance
<1>3. \A i \in 1..8 : ~Ahead(create, i)' /\ ~Behind(create, i)'
  BY <1>1 DEF Ahead, Behind
<1>4. \A i \in 1..8 : Behind(remove, i)' <=> Behind(remove, i)
  BY <1>1, <1>2 DEF Behind
<1>5. Closes(remove)' <=> Closes(remove)
  BY <1>1, <1>2 DEF Closes, Ends
<1>6. ~Ends(create) /\ Recedes(create) /\ Recedes(create)'
  BY <1>1 DEF Ends, Recedes, Rolling, Reverting
<1>. QED BY <1>1, <1>2, <1>3, <1>4, <1>5, <1>6
\* A step of the creation that works on an item adds that item or nothing.
LEMMA AddKeeps ==
  ASSUME TunnelInv, TunnelNext, UNCHANGED <<index, otherRow>>, NEW i \in 1..8,
         AddItem(i) \/ AddItemRefused(i) \/ AddItemFails(i)
  PROVE  MatterInv'
<1>1. /\ cur[create] = i
      /\ ExecuteOk(create) \/ ExecuteFails(create)
      /\ UNCHANGED <<record, keys, keysGiven, request, index, clash, other, otherIndex, otherLost>>
      /\ taken' = taken /\ (recounted' <=> recounted)
  BY Remembers DEF AddItem, AddItemRefused, AddItemFails, InStep, callVars, otherRow, tunnelVars
<1>2. \/ config' = config /\ ~ExecuteOk(create)
      \/ config' = config \cup {Made(i)} /\ i \in applied'[create]
  BY <1>1, Executes, TheJobs DEF AddItem, AddItemRefused, AddItemFails, Made, tunnelVars
<1>3. task' = task /\ (faults' = 0 => faults = 0)
  BY TunnelKeepsIInv DEF TunnelInv
<1>4. /\ UNCHANGED <<cur, rows>> /\ pc[create] = "exec" /\ pc'[create] # "new"
      /\ \A k \in 1..8 : k \in applied[create] => k \in applied'[create]
      /\ 9 \in applied'[create] <=> 9 \in applied[create]
      /\ pc'[create] = "record_ok" => ExecuteOk(create)
      /\ \A k \in 1..8 : /\ Ahead(create, k)' => Ahead(create, k) /\ k # i
                         /\ Behind(create, k)' =>
                              Behind(create, k) \/ (k = i /\ pc'[create] = "record_ok")
      /\ Ahead(create, i)
      /\ ~Ends(create) /\ ~Recedes(create)
      /\ pc'[remove] = pc[remove]
      /\ \A k \in 1..8 : Behind(remove, k)' <=> Behind(remove, k)
      /\ Closes(remove)' <=> Closes(remove)
  BY <1>1, Executes, TheJobs
<1>5. Made(i) \in Items /\ \A k \in 1..8 : Made(k) = Made(i) => k = i
  BY TheItems
<1> USE <1>1, <1>2, <1>3, <1>4, <1>5, TheJobs, Remembers
        DEF TunnelInv, MatterInv, TunnelTypeOK, RequestsFit
<1>6. TunnelTypeOK' /\ RequestsFit'
  OBVIOUS
<1>7. Added'
  BY DEF Added
<1>8. Effects'
  BY DEF Effects
<1>9. Active'
  BY DEF Active, Added
<1>10. Numbers'
  BY DEF Numbers, HasOther, HasRow
<1>11. ASSUME ~overlapped' PROVE Apart' /\ Removed' /\ Lost'
  <2>1. ~overlapped /\ Apart /\ Removed /\ Lost /\ request[remove] = "none" /\ pc[remove] = "new"
    BY <1>11 DEF Apart, Stopped
  <2>2. \A k \in 1..8 : ~Behind(remove, k)
    BY <2>1 DEF Behind
  <2>3. record # "gone" /\ ~otherLost
    BY <2>1 DEF Lost
  <2>. QED BY <2>1, <2>2, <2>3 DEF Apart, Removed, Lost
<1>. QED BY <1>6, <1>7, <1>8, <1>9, <1>10, <1>11

\* The last step of the creation writes the row.
LEMMA MarkKeeps ==
  ASSUME TunnelInv, TunnelNext, UNCHANGED <<index, otherRow>>, MarkActive \/ MarkActiveFails
  PROVE  MatterInv'
<1>1. /\ cur[create] = 9
      /\ ExecuteOk(create) \/ ExecuteFails(create)
      /\ UNCHANGED <<config, keysGiven, request, index, clash, other, otherIndex, otherLost>>
      /\ taken' = taken /\ (recounted' <=> recounted)
  BY Remembers DEF MarkActive, MarkActiveFails, InStep, callVars, otherRow, tunnelVars
<1>2. \/ /\ record' = (IF record = "gone" THEN record ELSE "active")
         /\ keys' = (record # "gone") /\ ExecuteOk(create)
      \/ record' = record /\ keys' = keys /\ 9 \notin applied'[create]
  BY DEF MarkActive, MarkActiveFails, SetRecord, tunnelVars
<1>3. task' = task /\ (faults' = 0 => faults = 0)
  BY TunnelKeepsIInv DEF TunnelInv
<1>4. /\ UNCHANGED <<cur, rows>> /\ pc[create] = "exec" /\ pc'[create] # "new"
      /\ \A k \in 1..8 : k \in applied[create] => k \in applied'[create]
      /\ \A k \in 1..8 : /\ Ahead(create, k)' => Ahead(create, k)
                         /\ Behind(create, k)' => Behind(create, k)
      /\ ExecuteOk(create) => Ends(create)' /\ \A k \in 1..8 : Behind(create, k)
      /\ ~Ends(create) /\ ~Recedes(create)
      /\ pc'[remove] = pc[remove]
      /\ \A k \in 1..8 : Behind(remove, k)' <=> Behind(remove, k)
  <2>1. \A k \in 1..8 : k # cur[create]
    BY <1>1
  <2>. QED BY <1>1, <2>1, Executes, TheJobs
<1> USE <1>1, <1>2, <1>3, <1>4, TheJobs, Remembers
        DEF TunnelInv, MatterInv, TunnelTypeOK, RequestsFit
<1>5. TunnelTypeOK' /\ RequestsFit'
  BY DEF Records
<1>6. Added'
  BY DEF Added
<1>7. Effects'
  BY DEF Effects
<1>8. Active'
  <2>1. ASSUME ExecuteOk(create), request[remove] = "none"
        PROVE  config = Items \ taken
    <3>1. \A k \in 1..8 : Made(k) \in config \cup taken
      BY <2>1 DEF Added
    <3>2. \A item \in Items : item \in config \cup taken
      BY <3>1, TheItems
    <3>. QED BY <3>2 DEF Active
  <2>. QED BY <2>1 DEF Active
<1>9. Numbers'
  BY DEF Numbers, HasOther, HasRow
<1>10. ASSUME ~overlapped' PROVE Apart' /\ Removed' /\ Lost'
  <2>1. ~overlapped /\ Apart /\ Removed /\ Lost /\ request[remove] = "none" /\ pc[remove] = "new"
    BY <1>10 DEF Apart, Stopped
  <2>2. \A k \in 1..8 : ~Behind(remove, k)
    BY <2>1 DEF Behind
  <2>3. record # "gone" /\ ~otherLost
    BY <2>1 DEF Lost
  <2>. QED BY <2>1, <2>2, <2>3 DEF Apart, Removed, Lost
<1>. QED BY <1>5, <1>6, <1>7, <1>8, <1>9, <1>10
\* Taking a step back removes its item, or nothing and remembers it.
LEMMA RemoveKeeps ==
  ASSUME TunnelInv, TunnelNext, UNCHANGED <<index, otherRow>>,
         \/ \E i \in 1..8 : RemoveItem(i) \/ RemoveItemFails(i)
         \/ MarkError
  PROVE  MatterInv'
<1>1. /\ RevertOk(create)
      /\ UNCHANGED <<keys, keysGiven, request, index, clash, other, otherIndex>>
      /\ config' \subseteq config
      /\ taken' = taken /\ (recounted' <=> recounted)
  BY Remembers DEF RemoveItem, RemoveItemFails, MarkError, callVars, otherRow, tunnelVars
<1>2. /\ record' = record \/ (record' = "error" /\ record # "gone")
      /\ record' = "gone" <=> record = "gone"
  BY DEF RemoveItem, RemoveItemFails, MarkError, SetRecord, tunnelVars
<1>3. \A k \in 1..8 : Made(k) \in config' => k # cur[create] \/ Made(k) \in swallowed'
  BY Remembers DEF RemoveItem, RemoveItemFails, MarkError, Made, InRevert
<1>4. /\ otherLost' => otherLost \/ other = "stands"
      /\ otherLost' => otherLost \/ \E item \in Shared(clash) : item \notin config'
  <2>1. ASSUME NEW i \in 1..8, RemoveItem(i)
        PROVE  otherLost' => \/ otherLost
                             \/ other = "stands" /\ Made(i) \in Shared(clash) /\ Made(i) \notin config'
    BY <2>1 DEF RemoveItem, Takes, Made
  <2>2. (MarkError \/ \E i \in 1..8 : RemoveItemFails(i)) => otherLost' = otherLost
    BY DEF RemoveItemFails, MarkError
  <2>. QED BY <2>1, <2>2
<1>5. task' = task /\ (faults' = 0 => faults = 0)
  BY TunnelKeepsIInv DEF TunnelInv
<1> USE <1>1, <1>2, <1>3, <1>4, <1>5, TakesBack, TheJobs, Remembers
        DEF TunnelInv, MatterInv, TunnelTypeOK, RequestsFit
<1>6. TunnelTypeOK' /\ RequestsFit'
  BY DEF Records
<1>7. Added'
  BY DEF Added
<1>8. Effects'
  BY DEF Effects
<1>9. Active'
  BY DEF Active
<1>10. Numbers'
  BY DEF Numbers, HasOther, HasRow
<1>11. ASSUME ~overlapped' PROVE Apart' /\ Removed' /\ Lost'
  <2>1. ~overlapped /\ Apart /\ Removed /\ Lost /\ request[remove] = "none" /\ pc[remove] = "new"
    BY <1>11 DEF Apart, Stopped
  <2>2. \A k \in 1..8 : ~Behind(remove, k)
    BY <2>1 DEF Behind
  <2>3. Lost'
    BY <2>1, TheItems DEF Lost
  <2>. QED BY <2>1, <2>2, <2>3 DEF Apart, Removed
<1>. QED BY <1>6, <1>7, <1>8, <1>9, <1>10, <1>11

\* A step of the removal takes its item, whoever made it.
LEMMA CleanKeeps ==
  ASSUME TunnelInv, TunnelNext, UNCHANGED <<index, otherRow>>,
         \/ \E i \in 1..8 : CleanItem(i) \/ CleanItemFails(i)
         \/ DeleteRecord \/ DeleteRecordFails
  PROVE  MatterInv'
<1>1. /\ ExecuteOk(remove) \/ ExecuteFails(remove)
      /\ UNCHANGED <<keys, keysGiven, request, index, clash, other, otherIndex>>
      /\ config' \subseteq config
      /\ taken' = taken /\ (recounted' <=> recounted)
  BY Remembers DEF CleanItem, CleanItemFails, DeleteRecord, DeleteRecordFails, Cleaned, callVars,
         otherRow, tunnelVars
<1>2. record' = record \/ (record' = "gone" /\ cur[remove] = 9 /\ ExecuteOk(remove))
  BY DEF CleanItem, CleanItemFails, DeleteRecord, DeleteRecordFails, InStep, tunnelVars
<1>3. \A k \in 1..8 :
        k = cur[remove] /\ ExecuteOk(remove) /\ Removal(k) \in config' => k <= 2 /\ ~keysGiven
  <2>1. ASSUME NEW i \in 1..8, CleanItem(i), Removal(i) \in config' PROVE i <= 2 /\ ~keysGiven
    BY <2>1, TheItems DEF CleanItem, Cleaned, Removal
  <2>2. \A i \in 1..8 : CleanItem(i) => cur[remove] = i
    BY DEF CleanItem, InStep
  <2>3. ASSUME NEW i \in 1..8, CleanItemFails(i) PROVE ~ExecuteOk(remove)
    <3>1. pc[remove] = "exec" /\ pc'[remove] = "record_failed"
      BY <2>3, TheJobs DEF CleanItemFails, ExecuteFails, Goto, TunnelInv, IInv, TypeOK
    <3>. QED BY <3>1, Executes, TheJobs
  <2>4. DeleteRecord \/ DeleteRecordFails => cur[remove] = 9
    BY DEF DeleteRecord, DeleteRecordFails, InStep
  <2>. QED BY <2>1, <2>2, <2>3, <2>4
<1>4. /\ otherLost' => otherLost \/ other = "stands"
      /\ otherLost' => otherLost \/ \E item \in Shared(clash) : item \notin config'
  <2>1. \A i \in 1..8 : Removal(i) \in Shared(clash) => Removal(i) \notin Cleaned(i)
    BY TheItems DEF Cleaned, Removal, TunnelInv, MatterInv, TunnelTypeOK
  <2>2. ASSUME NEW i \in 1..8, CleanItem(i) \/ CleanItemFails(i)
        PROVE  otherLost' =>
                 \/ otherLost
                 \/ other = "stands" /\ Removal(i) \in Shared(clash) /\ Removal(i) \notin config'
    BY <2>1, <2>2 DEF CleanItem, CleanItemFails, Takes, Removal
  <2>3. (DeleteRecord \/ DeleteRecordFails) => otherLost' = otherLost
    BY DEF DeleteRecord, DeleteRecordFails
  <2>. QED BY <2>2, <2>3
<1>5. task' = task /\ (faults' = 0 => faults = 0)
  BY TunnelKeepsIInv DEF TunnelInv
<1>6. /\ UNCHANGED <<cur, rows>> /\ pc[remove] = "exec" /\ pc'[remove] # "new"
      /\ pc'[remove] = "record_ok" => ExecuteOk(remove)
      /\ \A k \in 1..8 : Behind(remove, k)' =>
           Behind(remove, k) \/ (k = cur[remove] /\ pc'[remove] = "record_ok")
      /\ ~Closes(remove)
      /\ cur[remove] = 9 /\ ExecuteOk(remove) =>
           Closes(remove)' /\ \A k \in 1..8 : Behind(remove, k)
      /\ pc'[create] = pc[create] /\ applied'[create] = applied[create]
      /\ \A k \in 1..8 : /\ Ahead(create, k)' <=> Ahead(create, k)
                         /\ Behind(create, k)' <=> Behind(create, k)
      /\ (Ends(create)' <=> Ends(create)) /\ (Recedes(create)' <=> Recedes(create))
  BY <1>1, Executes, TheJobs
<1> USE <1>1, <1>2, <1>3, <1>4, <1>5, <1>6, TheJobs, Remembers
        DEF TunnelInv, MatterInv, TunnelTypeOK, RequestsFit
<1>7. TunnelTypeOK' /\ RequestsFit'
  BY DEF Records
<1>8. Added' /\ Effects'
  BY DEF Added, Effects
<1>9. Active'
  BY DEF Active
<1>10. Numbers'
  BY DEF Numbers, HasOther, HasRow
<1>11. ASSUME ~overlapped' PROVE Apart' /\ Removed' /\ Lost'
  <2>1. ~overlapped /\ Apart /\ Removed /\ Lost /\ request[remove] = "done" /\ record # "gone"
    BY <1>11 DEF Removed
  <2>2. Apart'
    BY <2>1 DEF Apart
  <2>3. Removed'
    BY <2>1 DEF Removed, Left
  <2>4. Lost'
    <3>1. request[create] = "done" /\ (pc[create] = "new" \/ Recedes(create))
      BY <2>1 DEF Apart, Recedes, Stopped
    <3>. QED BY <2>1, <3>1, TheItems DEF Lost
  <2>. QED BY <2>2, <2>3, <2>4
<1>. QED BY <1>7, <1>8, <1>9, <1>10, <1>11
LEMMA NextTunnelInv == TunnelInv /\ [TunnelNext]_allVars => TunnelInv'
<1>1. CASE TunnelInv /\ TunnelNext
  <2>1. IInv'
    BY <1>1, TunnelKeepsIInv DEF TunnelInv
  <2>2. CASE CountTunnels \/ AskCreate \/ FindTunnel \/ AskRemove
    BY <1>1, <2>1, <2>2, FormsKeep DEF TunnelInv
  <2>3. CASE ProcessDies
    BY <1>1, <2>1, <2>3, DeathKeeps DEF TunnelInv, ProcessDies, persisted
  <2>4. CASE OtherComes \/ OtherGoes
    BY <1>1, <2>1, <2>4, OtherKeeps DEF TunnelInv
  <2>5. CASE TaskStep /\ UNCHANGED <<index, otherRow>>
    <3>1. ASSUME NEW i \in Steps, AddItem(i) \/ AddItemRefused(i) \/ AddItemFails(i)
          PROVE  MatterInv'
      <4>1. i \in 1..8
        BY <3>1 DEF AddItem, AddItemRefused, AddItemFails
      <4>. QED BY <1>1, <2>5, <3>1, <4>1, AddKeeps
    <3>2. ASSUME NEW i \in Steps, RemoveItem(i) \/ RemoveItemFails(i) PROVE MatterInv'
      <4>1. i \in 1..8
        BY <3>2 DEF RemoveItem, RemoveItemFails
      <4>. QED BY <1>1, <2>5, <3>2, <4>1, RemoveKeeps
    <3>3. ASSUME NEW i \in Steps, CleanItem(i) \/ CleanItemFails(i) PROVE MatterInv'
      <4>1. i \in 1..8
        BY <3>3 DEF CleanItem, CleanItemFails
      <4>. QED BY <1>1, <2>5, <3>3, <4>1, CleanKeeps
    <3>4. ASSUME MarkActive \/ MarkActiveFails PROVE MatterInv'
      BY <1>1, <2>5, <3>4, MarkKeeps
    <3>5. ASSUME MarkError PROVE MatterInv'
      BY <1>1, <2>5, <3>5, RemoveKeeps
    <3>6. ASSUME DeleteRecord \/ DeleteRecordFails PROVE MatterInv'
      BY <1>1, <2>5, <3>6, CleanKeeps
    <3>. QED BY <2>1, <2>5, <3>1, <3>2, <3>3, <3>4, <3>5, <3>6 DEF TaskStep, TunnelInv
  <2>6. ASSUME NEW j \in Jobs, HandOver(j) \/ HandOverFails(j) PROVE MatterInv'
    BY <1>1, <2>6, HandOverKeeps
  <2>7. ASSUME NEW j \in Jobs, SchedulerStep(j) PROVE MatterInv'
    BY <1>1, <2>7, SchedulerKeeps
  <2>. QED BY <1>1, <2>1, <2>2, <2>3, <2>4, <2>5, <2>6, <2>7 DEF TunnelNext, TunnelInv
<1>2. CASE TunnelInv /\ UNCHANGED allVars
  <2>1. IInv'
    BY <1>2, NextIInv DEF allVars, TunnelInv
  <2>2. MatterInv'
    BY <1>2 DEF allVars, vars, persisted, memory, bounds, tunnelVars, callVars, otherVars,
           otherRow, history, TunnelInv, MatterInv, TunnelTypeOK, RequestsFit, Added, Effects,
           Active, Numbers, Apart, Removed, Lost, Left, Ahead, Behind, Ends, Closes, Recedes,
           HasOther, HasRow
  <2>. QED BY <2>1, <2>2 DEF TunnelInv
<1>. QED BY <1>1, <1>2

-----------------------------------------------------------------------------
(* Theorems *)

\* The invariant that the two properties rest on holds of every run of Tunnel.
THEOREM TunnelIsSound == TunnelSpec => []TunnelInv
<1>1. TunnelInit => TunnelInv
  BY InitIInv, InitMatterInv DEF TunnelInit, TunnelInv
<1>. QED BY <1>1, NextTunnelInv, PTL DEF TunnelSpec

\* A tunnel that says 'active' is whole: no item is missing that the removal of another
\* tunnel has not taken, the keys are stored, and its addresses are its own.
THEOREM ActiveTunnelsAreWhole == TunnelSpec => []ActiveIsWhole
<1>1. TunnelInv => ActiveIsWhole
  BY DEF TunnelInv, MatterInv, Active, Numbers, ActiveIsWhole, HasRow, HasOther
<1>. QED BY <1>1, TunnelIsSound, PTL

\* What is left on the routers after a rollback or a removal is what the rows, the keys
\* and the swallowed errors account for, whatever fails and whenever the process dies.
THEOREM TheRestIsAccountedFor == TunnelSpec => []RestIsAccountedFor
<1>1. TunnelInv => RestIsAccountedFor
  <2> SUFFICES ASSUME TunnelInv PROVE RestIsAccountedFor
    OBVIOUS
  <2> USE TheJobs DEF TunnelInv, MatterInv
  <2>1. ASSUME status[create] = "reverted", NEW i \in 1..8, Made(i) \in config
        PROVE  rows[create][i] = "failed" \/ Made(i) \in swallowed
    BY <2>1 DEF Effects, IInv, JobInv, NothingElse
  <2>2. ASSUME record = "gone", ~overlapped, NEW i \in 1..8, Removal(i) \in config
        PROVE  \/ rows[remove][i] = "failed"
               \/ Removal(i)[1] = "peer" /\ ~keysGiven /\ status[create] # "succeeded"
    <3>1. Removed /\ Apart /\ request[remove] = "done"
      BY <2>2 DEF RequestsFit
    <3>2. status[create] = "succeeded" => 9 \in applied[create]
      BY DEF IInv, JobInv, Whole, TunnelTypeOK, CreateTask, StepsOf
    <3>. QED BY <2>2, <3>1, <3>2, TheItems DEF Removed, Left, Apart
  <2>3. other = "stands" /\ otherLost /\ ~overlapped => Shared(clash) \cap config = {}
    BY DEF Lost
  <2>. QED BY <2>1, <2>2, <2>3 DEF RestIsAccountedFor, Made, Removal
<1>. QED BY <1>1, TunnelIsSound, PTL
=============================================================================
