------------------------------- MODULE Tunnel -------------------------------
(***************************************************************************)
(* A WireGuard tunnel between two routers: the form actions that create    *)
(* and remove it, and the tasks they hand to the scheduler of module       *)
(* Scheduler, devices.vpn.create-wireguard-tunnel and                      *)
(* devices.vpn.delete-wireguard-tunnel.  One tunnel is created once and    *)
(* removed at most once, at any moment after its row exists.  Another      *)
(* tunnel of the local router, to a third one, stands or comes and goes    *)
(* meanwhile: the two may get the same addresses, and a command that names *)
(* an item of one may hit the other's.  Of the other only its row and the  *)
(* items of the local router are followed.  Definitions whose name begins  *)
(* with Bug are mutants: see Scheduler.                                    *)
(***************************************************************************)
EXTENDS Scheduler, Sequences

CONSTANTS
  create, remove,  \* the two jobs
  MaxFailures      \* bound on the router commands that fail

ASSUME TunnelAssumption ==
  Jobs = {create, remove} /\ create # remove /\ MaxSteps = 9 /\ MaxFailures \in Nat

Sides == <<"local", "remote">>
Items == {"interface", "peer", "address", "route"} \X {"local", "remote"}

\* Eight steps work on an item of one side each, the ninth on the row.
CreateKinds == <<"interface", "peer", "address", "route">>
RemoveKinds == <<"peer", "route", "address", "interface">>
ItemOf(kinds, i) == <<kinds[(i + 1) \div 2], Sides[2 - (i % 2)]>>

\* What the two tunnels have in common on the local router: nothing, the range
\* behind it, or the name of the interface, which is cut from the other side's.
Clashes   == {"none", "route", "interface"}
Shared(c) == {<<c, "local">>} \cap Items

CreateTask == [policy |-> "rollback", size |-> 9, revert |-> [i \in Steps |-> "best_effort"]]
RemoveTask == [policy |-> "continue", size |-> 9, revert |-> [i \in Steps |-> "none"]]

VARIABLES
  config,     \* items of the tunnel that stand on the routers
  record,     \* vpn_tunnels.status, "absent" before the row and "gone" after it
  keys,       \* are the public keys of the two interfaces in the row
  keysGiven,  \* ... and in the payload of the removal
  request,    \* where the form action for each job is suspended
  index,      \* the /30 of the tunnel: how many rows there were when the form counted
  clash,      \* what the other tunnel shares with this one, of Clashes
  other,      \* its row: "absent", "stands", "refused" (without items), "gone"
  otherIndex, \* its /30
  otherLost,  \* has the item it shares been taken from it
  failures,   \* bound
  swallowed,  \* history: items whose revert failed without saying so
  overlapped, \* history: have the two jobs worked at the same time
  taken,      \* history: items that the removal of the other tunnel took
  recounted   \* history: may two tunnels have been counted with the same number

tunnelVars == <<config, record, keys>>
callVars   == <<keysGiven, request>>
otherRow   == <<clash, other, otherIndex>>
otherVars  == <<otherRow, otherLost>>
history    == <<swallowed, overlapped, taken, recounted>>
allVars    == <<vars, tunnelVars, callVars, index, otherVars, failures, history>>

TunnelInit ==
  /\ Init
  /\ task = [j \in Jobs |-> IF j = create THEN CreateTask ELSE RemoveTask]
  /\ config = {}
  /\ record = "absent"
  /\ keys = FALSE
  /\ keysGiven = FALSE
  /\ request = [j \in Jobs |-> "none"]
  /\ failures = 0
  /\ index = 0
  /\ clash \in Clashes
  \* it stands alone, with the second /30 when the first tunnel is gone
  /\ other \in {"absent", "stands"}
  /\ otherIndex \in {0, 1} /\ (other = "absent" => otherIndex = 0)
  /\ otherLost = FALSE
  /\ swallowed = {} /\ taken = {}
  /\ overlapped = FALSE
  /\ recounted = (otherIndex = 1)

InStep(j, i)   == pc[j] = "exec" /\ cur[j] = i
InRevert(j, i) == pc[j] = "revert" /\ cur[j] = i
Fails == failures < MaxFailures /\ failures' = failures + 1
SetRecord(s) == record' = IF record = "gone" THEN record ELSE s

-----------------------------------------------------------------------------
(* The form actions *)

HasRow  == record \notin {"absent", "gone"}
HasOther == other \in {"stands", "refused"}
CountAll == (IF HasRow THEN 1 ELSE 0) + (IF HasOther THEN 1 ELSE 0)

\* countAll and allocateTunnelCidr, after the checks on the two devices.
CountTunnels ==
  /\ request[create] = "none"
  /\ index' = CountAll
  /\ request' = [request EXCEPT ![create] = "counted"]
  /\ UNCHANGED <<vars, tunnelVars, keysGiven, otherVars, failures>>

\* VpnRepository.createTunnel
AskCreate ==
  /\ request[create] = "counted"
  /\ record' = "provisioning"
  /\ request' = [request EXCEPT ![create] = "asked"]
  /\ UNCHANGED <<vars, config, keys, keysGiven, index, otherVars, failures>>

\* findTunnelById, whose row the payload will be made of.  A tunnel that is still
\* being created may be removed.
FindTunnel ==
  /\ request[remove] = "none"
  /\ record \notin {"absent", "removing"}
  /\ keysGiven' = keys
  /\ request' = [request EXCEPT ![remove] = "found"]
  /\ UNCHANGED <<vars, tunnelVars, index, otherVars, failures>>

\* updateTunnelStatus('removing'), whatever the row has come to say.
AskRemove ==
  /\ request[remove] = "found"
  /\ record' = "removing"
  /\ request' = [request EXCEPT ![remove] = "asked"]
  /\ UNCHANGED <<vars, config, keys, keysGiven, index, otherVars, failures>>

\* The form action hands the task to the scheduler.
HandOver(j) ==
  /\ request[j] = "asked"
  /\ Schedule(j)
  /\ request' = [request EXCEPT ![j] = "done"]
  /\ UNCHANGED <<tunnelVars, keysGiven, index, otherVars, failures>>

\* ... or a statement throws before the row of the job is there.
UnderWay == {"counted", "found", "asked"}
HandOverFails(j) ==
  /\ request[j] \in UnderWay
  /\ faults < MaxFaults /\ faults' = faults + 1
  /\ request' = [request EXCEPT ![j] = "done"]
  /\ UNCHANGED <<task, persisted, memory, applied, announced, crashes,
                 tunnelVars, keysGiven, index, otherVars, failures>>

-----------------------------------------------------------------------------
(* The other tunnel *)

\* The same form and task, seen from here: its interface is refused if the name
\* is taken, and then its creation is rolled back.
OtherComes ==
  /\ other = "absent"
  /\ otherIndex' = CountAll
  /\ other' = IF clash = "interface" /\ Shared(clash) \subseteq config THEN "refused" ELSE "stands"
  /\ UNCHANGED <<vars, tunnelVars, callVars, index, clash, otherLost, failures>>

\* The same removal: an interface is found by its name, a route by its range.
OtherGoes ==
  /\ HasOther
  /\ other' = "gone"
  /\ config' = config \ Shared(clash)
  /\ UNCHANGED <<vars, record, keys, callVars, index, clash, otherIndex, otherLost, failures>>

\* ... and so does this tunnel's removal or rollback with the other's.
Takes(item) == otherLost' = (otherLost \/ (other = "stands" /\ item \in Shared(clash)))

-----------------------------------------------------------------------------
(* The steps of the creation *)

\* RouterOS takes a peer, an address or a route only for an interface it has, and
\* an interface only by a name that is free.
CanAdd(item) ==
  IF item[1] = "interface"
  THEN ~(clash = "interface" /\ item \in Shared(clash) /\ other = "stands" /\ ~otherLost)
  ELSE <<"interface", item[2]>> \in config

\* One SSH command, and for an interface a request that reads its public key.
AddItem(i) ==
  /\ InStep(create, i) /\ i \in 1..8
  /\ LET item == ItemOf(CreateKinds, i)
     IN  /\ CanAdd(item)
         /\ config' = config \cup {item}
  /\ ExecuteOk(create)
  /\ UNCHANGED <<record, keys, callVars, otherLost, failures>>

AddItemRefused(i) ==
  /\ InStep(create, i) /\ i \in 1..8
  /\ ~CanAdd(ItemOf(CreateKinds, i))
  /\ ExecuteFails(create) /\ i \notin applied'[create]
  /\ UNCHANGED <<tunnelVars, callVars, otherLost, failures>>

\* An interface whose key cannot be read has been created all the same.
AddItemFails(i) ==
  /\ InStep(create, i) /\ i \in 1..8
  /\ Fails
  /\ ExecuteFails(create)
  /\ i \in applied'[create] => CanAdd(ItemOf(CreateKinds, i))
  /\ config' = IF i \in applied'[create] THEN config \cup {ItemOf(CreateKinds, i)} ELSE config
  /\ UNCHANGED <<record, keys, callVars, otherLost>>

\* the keys not stored
BugMarkActive ==
  /\ InStep(create, 9)
  /\ SetRecord("active")
  /\ ExecuteOk(create)
  /\ UNCHANGED <<config, keys, callVars, otherLost, failures>>

\* VpnRepository.updateTunnelStatus('active') with the keys; a row that is gone
\* is not updated, and nobody notices.
MarkActive ==
  /\ InStep(create, 9)
  /\ SetRecord("active")
  /\ keys' = (record # "gone")
  /\ ExecuteOk(create)
  /\ UNCHANGED <<config, callVars, otherLost, failures>>

MarkActiveFails ==
  /\ InStep(create, 9)
  /\ Fails
  /\ ExecuteFails(create) /\ 9 \notin applied'[create]
  /\ UNCHANGED <<tunnelVars, callVars, otherLost>>

\* the revert of the steps for the routes forgotten
BugRemoveItem(i) ==
  /\ InRevert(create, i) /\ i \in 1..8
  /\ config' = IF i > 6 THEN config ELSE config \ {ItemOf(CreateKinds, i)}
  /\ Takes(ItemOf(CreateKinds, i))
  /\ RevertOk(create)
  /\ UNCHANGED <<record, keys, callVars, failures>>

RemoveItem(i) ==
  /\ InRevert(create, i) /\ i \in 1..8
  /\ config' = config \ {ItemOf(CreateKinds, i)}
  /\ Takes(ItemOf(CreateKinds, i))
  /\ RevertOk(create)
  /\ UNCHANGED <<record, keys, callVars, failures>>

\* Every revert swallows its error: the scheduler takes it for done.
RemoveItemFails(i) ==
  /\ InRevert(create, i) /\ i \in 1..8
  /\ Fails
  /\ RevertOk(create)
  /\ UNCHANGED <<tunnelVars, callVars, otherLost>>

MarkError ==
  /\ InRevert(create, 9)
  /\ SetRecord("error")
  /\ RevertOk(create)
  /\ UNCHANGED <<config, keys, callVars, otherLost, failures>>

-----------------------------------------------------------------------------
(* The steps of the removal *)

\* A peer is found by the public key of the other side, everything else by name
\* or address: a removal without keys finds no peer, and succeeds.
Cleaned(i) ==
  LET item == ItemOf(RemoveKinds, i)
  IN  IF item[1] = "peer" /\ ~keysGiven THEN config ELSE config \ {item}

CleanItem(i) ==
  /\ InStep(remove, i) /\ i \in 1..8
  /\ config' = Cleaned(i)
  /\ Takes(ItemOf(RemoveKinds, i))
  /\ ExecuteOk(remove)
  /\ UNCHANGED <<record, keys, callVars, failures>>

CleanItemFails(i) ==
  /\ InStep(remove, i) /\ i \in 1..8
  /\ Fails
  /\ ExecuteFails(remove)
  /\ IF i \in applied'[remove]
     THEN config' = Cleaned(i) /\ Takes(ItemOf(RemoveKinds, i))
     ELSE UNCHANGED <<config, otherLost>>
  /\ UNCHANGED <<record, keys, callVars>>

\* VpnRepository.deleteTunnel, whatever became of the steps before.
DeleteRecord ==
  /\ InStep(remove, 9)
  /\ record' = "gone"
  /\ ExecuteOk(remove)
  /\ UNCHANGED <<config, keys, callVars, otherLost, failures>>

DeleteRecordFails ==
  /\ InStep(remove, 9)
  /\ Fails
  /\ ExecuteFails(remove) /\ 9 \notin applied'[remove]
  /\ UNCHANGED <<tunnelVars, callVars, otherLost>>

-----------------------------------------------------------------------------
TaskStep ==
  \/ \E i \in Steps : \/ AddItem(i) \/ AddItemRefused(i) \/ AddItemFails(i)
                      \/ RemoveItem(i) \/ RemoveItemFails(i)
                      \/ CleanItem(i) \/ CleanItemFails(i)
  \/ MarkActive \/ MarkActiveFails \/ MarkError
  \/ DeleteRecord \/ DeleteRecordFails

\* The scheduler's own steps leave the tunnel alone.
SchedulerStep(j) ==
  /\ \/ StatementFails(j) \/ CatchFails(j)
     \/ pc[j] \notin {"exec", "revert"} /\ Advance(j)
  /\ UNCHANGED <<tunnelVars, callVars, index, otherVars, failures>>

\* A form action that is under way when the process dies is lost.
ProcessDies ==
  /\ crashes < MaxCrashes /\ crashes' = crashes + 1
  /\ \E j \in Jobs : pc[j] \notin Stopped \/ request[j] \in UnderWay
  /\ Die
  /\ request' = [j \in Jobs |-> IF request[j] \in UnderWay THEN "done" ELSE request[j]]
  /\ UNCHANGED <<task, persisted, cur, completed, rollbackFailed, applied, announced,
                 faults, tunnelVars, keysGiven, index, otherVars, failures>>

Pending(j) == request[j] \in UnderWay \/ pc[j] \notin Stopped
Settled    == \A j \in Jobs : ~Pending(j)

TunnelNext ==
  /\ \/ CountTunnels \/ AskCreate \/ FindTunnel \/ AskRemove \/ ProcessDies
     \/ OtherComes \/ OtherGoes
     \/ TaskStep /\ UNCHANGED <<index, otherRow>>
     \/ \E j \in Jobs : HandOver(j) \/ HandOverFails(j) \/ SchedulerStep(j)
  /\ swallowed' = swallowed \cup {ItemOf(CreateKinds, i) : i \in {k \in 1..8 : RemoveItemFails(k)}}
  /\ overlapped' = (overlapped \/ \A j \in Jobs : Pending(j)')
  /\ taken' = taken \cup {item \in config \ config' : other' # other}
  /\ recounted' = (recounted \/ (request[create] = "counted" /\ other' # other))

TunnelSpec == TunnelInit /\ [][TunnelNext]_allVars

-----------------------------------------------------------------------------
(* Properties *)

\* A tunnel that says 'active', and that nobody has asked to remove, has its two
\* interfaces, peers, addresses and routes, but for one that the removal of another
\* tunnel has taken; it has the keys that will be needed to remove the peers; and its
\* addresses are its own, unless a tunnel had gone before or another one was made
\* between the count of its form and its row.
ActiveIsWhole ==
  (record = "active" /\ request[remove] = "none" /\ Settled /\ faults = 0) =>
    /\ config = Items \ taken /\ keys
    /\ (HasOther /\ ~recounted) => index # otherIndex

\* What is left on the routers is accounted for.  After a creation that was
\* rolled back it is the item of the step that failed and those whose revert
\* swallowed an error; after a removal that did not meet the creation, what a
\* failed step should have removed, and the peers of a creation that never came
\* to store its keys.  Another tunnel has lost the item that both name only when
\* this one has none, or was removed while it was created.
RestIsAccountedFor ==
  /\ (status[create] = "reverted" /\ request[remove] = "none") =>
       \A i \in 1..8 : ItemOf(CreateKinds, i) \in config =>
         rows[create][i] = "failed" \/ ItemOf(CreateKinds, i) \in swallowed
  /\ (record = "gone" /\ Settled /\ ~overlapped) =>
       \A i \in 1..8 : ItemOf(RemoveKinds, i) \in config =>
         \/ rows[remove][i] = "failed"
         \/ ItemOf(RemoveKinds, i)[1] = "peer" /\ ~keysGiven /\ status[create] # "succeeded"
  /\ (other = "stands" /\ otherLost /\ ~overlapped) => Shared(clash) \cap config = {}
=============================================================================
