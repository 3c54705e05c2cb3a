------------------------------- MODULE Mirror -------------------------------
(***************************************************************************)
(* The tables in which the monitoring service mirrors a router: the rows   *)
(* of one device in firewall_rules, vlans, wg_interfaces, wg_peers or      *)
(* device_interfaces.  A collection reads the router's list once and then  *)
(* starts statements that nobody waits for: collectDevice returns, and the *)
(* next collection may start its own while they are pending.  Definitions  *)
(* whose name begins with Bug are mutants.                                 *)
(***************************************************************************)
EXTENDS Integers

CONSTANTS
  Collections,  \* collections whose statements may be pending together
  Ids,          \* the router's ids (the names, for interfaces) of the entries
  Contents,     \* what an entry says
  Absent,       \* no entry
  MaxFaults     \* bound on the number of statements that throw

ASSUME MirrorAssumption == Absent \notin Contents /\ MaxFaults \in Nat

\* How a table is brought up to date.  "rowwise" (firewall_rules, vlans): an
\* upsert per entry, and beside them a select of the rows and a delete for
\* each that is not to be kept.  "keeping" (wg_interfaces, wg_peers): the same
\* with a single delete.  "replace" (device_interfaces): one upsert of all
\* entries, and a delete after it.
Styles == {"rowwise", "keeping", "replace"}
Table  == [Ids -> Contents \cup {Absent}]

VARIABLES
  style,    \* the table it is
  router,   \* the router's list
  rows,     \* the rows of the device
  found,    \* the list each collection has read
  upserts,  \* the entries whose upsert is pending
  delete,   \* how far the delete has come
  doomed,   \* ids that the rowwise delete has selected
  last,     \* history: the list the latest collection has read, while none raced
  raced,    \* history: have two collections had statements pending together
  faults

vars == <<style, router, rows, found, upserts, delete, doomed, last, raced, faults>>

Empty    == [i \in Ids |-> Absent]
Listed(t) == {i \in Ids : t[i] # Absent}
Busy(c)  == upserts[c] # {} \/ delete[c] # "none"
Quiet    == \A c \in Collections : ~Busy(c)

Init ==
  /\ style \in Styles
  /\ router \in Table
  /\ rows = Empty
  /\ found = [c \in Collections |-> Empty]
  /\ upserts = [c \in Collections |-> {}]
  /\ delete = [c \in Collections |-> "none"]
  /\ doomed = [c \in Collections |-> {}]
  /\ last = Empty
  /\ raced = FALSE
  /\ faults = 0

SetDelete(c, point) == delete' = [delete EXCEPT ![c] = point]

-----------------------------------------------------------------------------
\* the delete not started
BugCollect(c) ==
  /\ ~Busy(c)
  /\ upserts' = [upserts EXCEPT ![c] = Listed(router)]
  /\ raced' = (raced \/ \E other \in Collections \ {c} : Busy(other))
  /\ last' = IF raced' THEN Empty ELSE router
  /\ UNCHANGED <<style, router, rows, delete, doomed, faults>>

\* The request has been answered: the upserts and the delete are started.  An
\* empty list is only a delete.
Collect(c) ==
  /\ ~Busy(c)
  /\ upserts' = [upserts EXCEPT ![c] = Listed(router)]
  /\ \/ style = "replace" /\ router # Empty /\ SetDelete(c, "after upsert")
     \/ style = "rowwise" /\ router # Empty /\ SetDelete(c, "select")
     \/ (style = "keeping" \/ router = Empty) /\ SetDelete(c, "delete")
  /\ raced' = (raced \/ \E other \in Collections \ {c} : Busy(other))
  /\ last' = IF raced' THEN Empty ELSE router
  /\ UNCHANGED <<style, router, rows, doomed, faults>>

\* the conflict does nothing
BugUpsert(c) ==
  /\ style # "replace"
  /\ \E i \in upserts[c] :
       /\ rows' = [rows EXCEPT ![i] = IF @ = Absent THEN found[c][i] ELSE @]
       /\ upserts' = [upserts EXCEPT ![c] = @ \ {i}]
  /\ UNCHANGED <<style, router, delete, doomed, last, raced, faults>>

\* FirewallRepository.upsert and the like: the pool may run them in any order.
Upsert(c) ==
  /\ style # "replace"
  /\ \E i \in upserts[c] :
       /\ rows' = [rows EXCEPT ![i] = found[c][i]]
       /\ upserts' = [upserts EXCEPT ![c] = @ \ {i}]
  /\ UNCHANGED <<style, router, delete, doomed, last, raced, faults>>

\* DeviceRepository.replaceInterfaces: the insert of all rows.
UpsertAll(c) ==
  /\ style = "replace" /\ upserts[c] # {}
  /\ rows' = [i \in Ids |-> IF i \in upserts[c] THEN found[c][i] ELSE rows[i]]
  /\ upserts' = [upserts EXCEPT ![c] = {}]
  /\ SetDelete(c, "delete")
  /\ UNCHANGED <<style, router, doomed, last, raced, faults>>

\* keepRouterIds not looked at
BugSelect(c) ==
  /\ delete[c] = "select"
  /\ LET ids == Listed(rows)
     IN  doomed' = [doomed EXCEPT ![c] = ids] /\ SetDelete(c, IF ids = {} THEN "none" ELSE "rows")
  /\ UNCHANGED <<style, router, rows, upserts, last, raced, faults>>

\* deleteByDeviceExcluding: the rows that are not to be kept.
Select(c) ==
  /\ delete[c] = "select"
  /\ LET ids == Listed(rows) \ Listed(found[c])
     IN  doomed' = [doomed EXCEPT ![c] = ids] /\ SetDelete(c, IF ids = {} THEN "none" ELSE "rows")
  /\ UNCHANGED <<style, router, rows, upserts, last, raced, faults>>

\* ... are deleted one by one.
DeleteRow(c) ==
  /\ delete[c] = "rows"
  /\ \E i \in doomed[c] :
       /\ rows' = [rows EXCEPT ![i] = Absent]
       /\ doomed' = [doomed EXCEPT ![c] = @ \ {i}]
       /\ SetDelete(c, IF doomed[c] = {i} THEN "none" ELSE "rows")
  /\ UNCHANGED <<style, router, upserts, last, raced, faults>>

\* deleteByDevice, and the deletes that exclude with notInArray.
DeleteOthers(c) ==
  /\ delete[c] = "delete"
  /\ rows' = [i \in Ids |-> IF found[c][i] = Absent THEN Absent ELSE rows[i]]
  /\ SetDelete(c, "none")
  /\ UNCHANGED <<style, router, upserts, doomed, last, raced, faults>>

\* A statement throws, and what was to follow it is dropped by the .catch: the
\* other deletes, or the delete after the upsert of the interfaces.
StatementFails(c) ==
  /\ faults < MaxFaults /\ faults' = faults + 1
  /\ \/ /\ \E i \in upserts[c] :
             upserts' = [upserts EXCEPT ![c] = IF style = "replace" THEN {} ELSE @ \ {i}]
        /\ SetDelete(c, IF style = "replace" THEN "none" ELSE delete[c])
        /\ UNCHANGED doomed
     \/ /\ delete[c] \in {"select", "rows", "delete"}
        /\ SetDelete(c, "none")
        /\ doomed' = [doomed EXCEPT ![c] = {}]
        /\ UNCHANGED upserts
  /\ UNCHANGED <<style, router, rows, last, raced>>

\* An operator, or a task, changes the router.
Configure ==
  /\ \E i \in Ids, x \in Contents \cup {Absent} : router' = [router EXCEPT ![i] = x]
  /\ UNCHANGED <<style, rows, upserts, delete, doomed, last, raced, faults>>

Statement(c) ==
  Upsert(c) \/ UpsertAll(c) \/ Select(c) \/ DeleteRow(c) \/ DeleteOthers(c)

\* A collection reads the list once; what it has read is garbage when its
\* statements have run.
Read ==
  found' = [c \in Collections |-> IF Busy(c)' /\ Busy(c) THEN found[c]
                                 ELSE IF Busy(c)' THEN router ELSE Empty]

Next ==
  /\ \/ \E c \in Collections : Collect(c) \/ Statement(c) \/ StatementFails(c)
     \/ Configure
  /\ Read

Spec == Init /\ [][Next]_vars

\* The device is polled for ever, and every statement that is pending is run:
\* the upserts are independent of each other and of the deletes.
FairSpec ==
  /\ Spec
  /\ WF_vars((\E c \in Collections : Collect(c)) /\ Read)
  /\ \A c \in Collections :
       /\ WF_vars((Upsert(c) \/ UpsertAll(c)) /\ Read)
       /\ WF_vars((Select(c) \/ DeleteRow(c) \/ DeleteOthers(c)) /\ Read)

-----------------------------------------------------------------------------
(* Properties *)

TypeOK ==
  /\ style \in Styles
  /\ router \in Table /\ rows \in Table /\ last \in Table
  /\ found \in [Collections -> Table]
  /\ upserts \in [Collections -> SUBSET Ids]
  /\ delete \in [Collections -> {"none", "after upsert", "select", "rows", "delete"}]
  /\ doomed \in [Collections -> SUBSET Ids]
  /\ \A c \in Collections :
       /\ upserts[c] \subseteq Listed(found[c])
       /\ doomed[c] \cap Listed(found[c]) = {}
       /\ delete[c] = "rows" <=> doomed[c] # {}
       /\ delete[c] = "after upsert" <=> style = "replace" /\ upserts[c] # {}
  /\ raced \in BOOLEAN
  /\ faults \in 0..MaxFaults

\* Collections that do not overlap leave exactly what the last one has read.
MirrorsLastCollection ==
  (Quiet /\ ~raced /\ faults = 0) => rows = last

\* However collections overlap and fail, a row disappears only by a collection
\* that has not found it: an entry that every collection finds is never lost
\* from the table, not even for the time between two statements.
OnlyMissingRowsGo ==
  [][\A i \in Ids : (rows[i] # Absent /\ rows'[i] = Absent) =>
       \E c \in Collections : Busy(c) /\ found[c][i] = Absent]_vars

\* Once an entry of the router no longer changes, its row settles on it, or
\* stays away with it, whatever late statements of earlier collections deleted
\* or brought back before.
MirrorSettles ==
  \A i \in Ids : \A x \in Contents \cup {Absent} :
    <>[](router[i] = x) => <>[](rows[i] = x)
=============================================================================
