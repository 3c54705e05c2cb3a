----------------------------- MODULE Monitoring -----------------------------
(***************************************************************************)
(* The polls of one adopted device: pollAll and collectDevice of the       *)
(* monitoring service, the connection status and the clients they write,   *)
(* emitDeviceUpdated, and the listener of the syslog service that turns    *)
(* updates into log rows.                                                  *)
(*                                                                         *)
(* setInterval starts a poll whether or not the one before has ended, and  *)
(* tasks and handlers announce updates of the device meanwhile: each       *)
(* element of Polls and Others is one chain of awaits that may be under    *)
(* way.  An action is one awaited call with the code that follows it,      *)
(* except that emitDeviceUpdated reads the device in one action and emits  *)
(* what it has read in another: the pool may answer two reads out of order.*)
(* Definitions whose name begins with Bug are mutants.                     *)
(***************************************************************************)
EXTENDS Integers

CONSTANTS
  Polls,       \* polls that may be under way at the same time
  Others,      \* other callers of emitDeviceUpdated
  Macs,        \* clients of the device
  MaxTroubles  \* bound on the statements that throw, the requests lost and
               \* the restarts of the process, all together

Chains == Polls \cup Others

ASSUME MonitoringAssumption == MaxTroubles \in Nat

VARIABLES
  \* the router and the credential store
  up,          \* the router answers
  credential,  \* the device has an active read_only credential
  present,     \* the clients the router reports
  \* persisted
  status,      \* devices.connectionStatus
  active,      \* device_clients with active = true
  log,         \* the latest row of the syslog about the connection
  \* in the memory of the process
  lastStatus,  \* the map of that name in the syslog service
  pc,          \* where each chain is suspended
  outcome,     \* what collectDevice makes of the poll
  seen,        \* clientMap
  read,        \* the status emitDeviceUpdated has read
  entry,       \* the row a listener is about to insert
  \* history and bounds
  crossed,     \* have two chains been under way together
  losses, restarts

device == <<up, credential, present>>
chain  == <<outcome, seen, read>>
bounds == <<crossed, losses, restarts>>
monitoringVars == <<device, status, active, log, lastStatus, pc, chain, entry, bounds>>

States == {"unknown", "online", "offline"}
Rows   == {"none", "online", "offline"}

MonitoringInit ==
  /\ up \in BOOLEAN
  /\ credential = TRUE
  /\ present \in SUBSET Macs
  /\ status \in States
  /\ active = {}
  /\ log = "none"
  /\ lastStatus = "none"
  /\ pc = [p \in Chains |-> "idle"]
  /\ outcome = [p \in Chains |-> "none"]
  /\ seen = [p \in Chains |-> {}]
  /\ read = [p \in Chains |-> "none"]
  /\ entry = [p \in Chains |-> "none"]
  /\ crossed = FALSE
  /\ losses = 0
  /\ restarts = 0

UnderWay(p)       == pc[p] # "idle" \/ entry[p] # "none"
Trouble           == losses + restarts < MaxTroubles
Quiet             == \A p \in Chains : ~UnderWay(p)
MovesTo(p, point) == pc' = [pc EXCEPT ![p] = point]
Start(p) ==
  /\ ~UnderWay(p)
  /\ crossed' = (crossed \/ \E other \in Chains \ {p} : UnderWay(other))
  /\ UNCHANGED <<losses, restarts>>

\* The chain is over: what it held is garbage.
End(p) ==
  /\ MovesTo(p, "idle")
  /\ outcome' = [outcome EXCEPT ![p] = "none"]
  /\ seen' = [seen EXCEPT ![p] = {}]
  /\ read' = [read EXCEPT ![p] = "none"]

-----------------------------------------------------------------------------
\* pollAll lists the devices, collectDevice reads the credentials of this one
\* and gives up without an active read_only credential.
Poll(p) ==
  /\ Start(p)
  /\ credential
  /\ MovesTo(p, "request")
  /\ UNCHANGED <<device, status, active, log, lastStatus, chain, entry>>

\* Promise.allSettled over the requests: the one for the system resource tells
\* online from offline, those for ARP, DHCP and CAPsMAN make up clientMap.
Answer(p) ==
  /\ pc[p] = "request"
  /\ outcome' = [outcome EXCEPT ![p] = IF up THEN "online" ELSE "offline"]
  /\ seen' = [seen EXCEPT ![p] = IF up THEN present ELSE {}]
  /\ MovesTo(p, IF up THEN "metric" ELSE "status")
  /\ UNCHANGED <<device, status, active, log, lastStatus, read, entry, bounds>>

\* Single requests may time out: what they would have told is missing.
AnswerPartly(p) ==
  /\ pc[p] = "request" /\ up
  /\ Trouble /\ losses' = losses + 1
  /\ \E result \in {"online", "offline"}, told \in SUBSET present :
       /\ outcome' = [outcome EXCEPT ![p] = result]
       /\ seen' = [seen EXCEPT ![p] = told]
       /\ MovesTo(p, IF result = "online" THEN "metric" ELSE "status")
  /\ UNCHANGED <<device, status, active, log, lastStatus, read, entry,
                 crossed, restarts>>

\* MetricsRepository.insertDeviceMetric
RecordMetric(p) ==
  /\ pc[p] = "metric"
  /\ MovesTo(p, "status")
  /\ UNCHANGED <<device, status, active, log, lastStatus, chain, entry, bounds>>

\* the branch for a rejected request forgotten, as the comment there warns
BugUpdateStatus(p) ==
  /\ pc[p] = "status"
  /\ status' = IF outcome[p] = "offline" THEN status ELSE "online"
  /\ MovesTo(p, "read")
  /\ UNCHANGED <<device, active, log, lastStatus, chain, entry, bounds>>

\* emitDeviceUpdated forgotten for a device that is online
BugUpdateSilently(p) ==
  /\ pc[p] = "status"
  /\ status' = IF outcome[p] = "online" THEN "online" ELSE "offline"
  /\ MovesTo(p, IF outcome[p] = "online" THEN "inactive" ELSE "read")
  /\ UNCHANGED <<device, active, log, lastStatus, chain, entry, bounds>>

\* DeviceRepository.updateTelemetryState
UpdateStatus(p) ==
  /\ pc[p] = "status"
  /\ status' = IF outcome[p] = "online" THEN "online" ELSE "offline"
  /\ MovesTo(p, "read")
  /\ UNCHANGED <<device, active, log, lastStatus, chain, entry, bounds>>

\* emitDeviceUpdated: TelemetryRepository.getDeviceById
ReadDevice(p) ==
  /\ pc[p] = "read"
  /\ read' = [read EXCEPT ![p] = status]
  /\ MovesTo(p, "emit")
  /\ UNCHANGED <<device, status, active, log, lastStatus, outcome, seen, entry,
                 bounds>>

\* The listener of the syslog service, up to its first await: it logs the
\* transitions it knows of, but not that a device it sees first is online.
Notice(p, s) ==
  /\ lastStatus' = s
  /\ entry' = IF s # lastStatus /\ s # "unknown" /\ ~(lastStatus = "none" /\ s = "online")
              THEN [entry EXCEPT ![p] = s] ELSE entry

\* emitDeviceUpdated: the device.updated event.  A poll that met an error, and
\* any other caller, ends here; the others go on, with the interface metrics
\* if the router has told them.
Emit(p) ==
  /\ pc[p] = "emit"
  /\ entry[p] = "none"
  /\ Notice(p, read[p])
  /\ \/ outcome[p] = "error" /\ End(p)
     \/ outcome[p] # "error" /\ read' = [read EXCEPT ![p] = "none"]
        /\ (MovesTo(p, "ports") \/ MovesTo(p, "inactive")) /\ UNCHANGED <<outcome, seen>>
  /\ UNCHANGED <<device, status, active, log, bounds>>

\* MetricsRepository.insertInterfaceMetrics
RecordPorts(p) ==
  /\ pc[p] = "ports"
  /\ MovesTo(p, "inactive")
  /\ UNCHANGED <<device, status, active, log, lastStatus, chain, entry, bounds>>

\* the call forgotten
BugMarkInactive(p) ==
  /\ pc[p] = "inactive"
  /\ MovesTo(p, "upsert")
  /\ UNCHANGED <<device, status, active, log, lastStatus, chain, entry, bounds>>

\* ClientRepository.markInactiveForDevice
MarkInactive(p) ==
  /\ pc[p] = "inactive"
  /\ active' = {}
  /\ MovesTo(p, "upsert")
  /\ UNCHANGED <<device, status, log, lastStatus, chain, entry, bounds>>

\* ClientRepository.upsertForDevice
UpsertClients(p) ==
  /\ pc[p] = "upsert"
  /\ active' = active \cup seen[p]
  /\ End(p)
  /\ UNCHANGED <<device, status, log, lastStatus, entry, bounds>>

\* SyslogRepository.insert
WriteEntry(p) ==
  /\ entry[p] # "none"
  /\ log' = entry[p]
  /\ entry' = [entry EXCEPT ![p] = "none"]
  /\ UNCHANGED <<device, status, active, lastStatus, pc, chain, bounds>>

-----------------------------------------------------------------------------
(* Others *)

\* A task or a handler that ends with emitDeviceUpdated, like the rotation of
\* the secret.
Touch(p) ==
  /\ Start(p)
  /\ MovesTo(p, "read")
  /\ outcome' = [outcome EXCEPT ![p] = "error"]
  /\ UNCHANGED <<device, status, active, log, lastStatus, seen, read, entry>>

\* A statement throws.  Inside the try the device is written off as offline;
\* in the catch, and before the try, the chain is dropped.
ChainFails(p) ==
  /\ Trouble /\ losses' = losses + 1
  /\ \/ /\ outcome[p] \in {"online", "offline"}
        /\ pc[p] \in {"metric", "status", "read", "ports", "inactive", "upsert"}
        /\ outcome' = [outcome EXCEPT ![p] = "error"]
        /\ seen' = [seen EXCEPT ![p] = {}]
        /\ MovesTo(p, "status")
        /\ UNCHANGED read
     \/ outcome[p] = "error" /\ pc[p] \in {"status", "read"} /\ End(p)
  /\ UNCHANGED <<device, status, active, log, lastStatus, entry, crossed, restarts>>

\* writeEvent swallows the error of its statement.
EntryFails(p) ==
  /\ entry[p] # "none"
  /\ Trouble /\ losses' = losses + 1
  /\ entry' = [entry EXCEPT ![p] = "none"]
  /\ UNCHANGED <<device, status, active, log, lastStatus, pc, chain, crossed, restarts>>

Restart ==
  /\ Trouble /\ restarts' = restarts + 1
  /\ lastStatus' = "none"
  /\ pc' = [p \in Chains |-> "idle"]
  /\ outcome' = [p \in Chains |-> "none"]
  /\ seen' = [p \in Chains |-> {}]
  /\ read' = [p \in Chains |-> "none"]
  /\ entry' = [p \in Chains |-> "none"]
  /\ UNCHANGED <<device, status, active, log, crossed, losses>>

\* The router goes down or comes back, its clients come and go, and a task
\* deactivates or stores the credential.
Surroundings ==
  /\ \/ up' = ~up /\ UNCHANGED <<credential, present>>
     \/ credential' = ~credential /\ UNCHANGED <<up, present>>
     \/ \E m \in Macs : present' \in {present \cup {m}, present \ {m}}
                        /\ UNCHANGED <<up, credential>>
  /\ UNCHANGED <<status, active, log, lastStatus, pc, chain, entry, bounds>>

-----------------------------------------------------------------------------
\* An await of the chain settles.
Step(p) ==
  \/ Answer(p) \/ RecordMetric(p) \/ UpdateStatus(p) \/ ReadDevice(p) \/ Emit(p)
  \/ RecordPorts(p) \/ MarkInactive(p) \/ UpsertClients(p)

MonitoringNext ==
  \/ \E p \in Polls : Poll(p)
  \/ \E p \in Others : Touch(p)
  \/ \E p \in Chains : \/ Step(p) \/ WriteEntry(p)
                       \/ AnswerPartly(p) \/ ChainFails(p) \/ EntryFails(p)
  \/ Restart \/ Surroundings

MonitoringSpec == MonitoringInit /\ [][MonitoringNext]_monitoringVars

\* The interval fires for ever, and every statement and every request settles:
\* the client has a timeout.
MonitoringFairSpec ==
  /\ MonitoringSpec
  /\ WF_monitoringVars(\E p \in Polls : Poll(p))
  /\ \A p \in Chains : WF_monitoringVars(Step(p)) /\ WF_monitoringVars(WriteEntry(p))

-----------------------------------------------------------------------------
(* Properties *)

\* When nothing is under way, nothing overlapped and nothing failed, the syslog
\* service knows the status that is stored, and the log says it too.
LogFollowsStatus ==
  (Quiet /\ ~crossed /\ losses = 0 /\ lastStatus # "none") =>
    /\ lastStatus = status
    /\ status = "offline" => log = "offline"
    /\ log = "offline" => status # "online" \/ restarts > 0

\* Once the router stays up, or stays down, and the credential stays, the status
\* and what the syslog knows settle on it, whatever overlapped or failed before.
StatusSettles ==
  /\ <>[](up /\ credential) => <>[](status = "online" /\ lastStatus = "online")
  /\ <>[](~up /\ credential) => <>[](status = "offline" /\ lastStatus = "offline")

\* While a router stays up, a client that has left for good stays off the list,
\* and one that stays comes back to it with every poll.
ClientsSettle ==
  \A m \in Macs :
    /\ <>[](up /\ credential /\ m \notin present) => <>[](m \notin active)
    /\ <>[](up /\ credential /\ m \in present) => []<>(m \in active)
=============================================================================
