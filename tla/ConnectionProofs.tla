-------------------------- MODULE ConnectionProofs --------------------------
(***************************************************************************)
(* Theorems about the three parts that keep a connection to a router: the  *)
(* enrolment and the agent (Agent), the status of a device and its syslog  *)
(* (Monitoring), the terminal (Terminal), for any number of routers,       *)
(* tokens, calls, sessions, polls and failures.                            *)
(*                                                                         *)
(* None of the properties is inductive.  Each part has its invariant:      *)
(* AgentInv, which says for each call under way, at each of its            *)
(* statements, what was stored for it; MonitoringInv, which says what the  *)
(* log is about to tell; SessionInv, which says for each stage of a        *)
(* session what may already have happened to it.                           *)
(***************************************************************************)
EXTENDS Agent, Monitoring, Terminal,
        FiniteSetTheorems, SequenceTheorems, WellFoundedInduction, TLAPS

-----------------------------------------------------------------------------
(* Terminal: the listeners and the timer come after an await, closeSession *)
(* may be called by four parties, and whoever sets `closed` has stopped    *)
(* the shell.                                                              *)

TimerStates == {"off", "on", "due"}

TerminalTypeOK ==
  /\ stage \in [Sessions -> Stages]
  /\ closed \in [Sessions -> BOOLEAN]
  /\ timer \in [Sessions -> TimerStates]
  /\ shell \in [Sessions -> Shells]
  /\ sock \in [Sessions -> SocketStates]

\* Nothing ends a session before its listeners are there, and a session without a
\* shell of its own has none that runs.
SessionFits(s) ==
  /\ sock[s] \in {"none", "asked", "opening"} => stage[s] = "none"
  /\ stage[s] \in {"none", "keys", "opening", "failing"} => ~closed[s] /\ timer[s] = "off"
  /\ shell[s] = "running" => stage[s] \in {"opening", "live", "failing"}
  /\ stage[s] = "live" /\ shell[s] = "running" => ~closed[s]
  /\ stage[s] = "live" /\ ~closed[s] => timer[s] # "off"

SessionInv == TerminalTypeOK /\ \A s \in Sessions : SessionFits(s)

session == <<stage, closed, timer, shell>>

\* closeSession leaves a session closed and its shell at its end.
LEMMA Closes ==
  ASSUME TerminalTypeOK, NEW s \in Sessions, NEW before, CloseSession(s, before)
  PROVE  /\ closed' \in [Sessions -> BOOLEAN] /\ timer' \in [Sessions -> TimerStates]
         /\ shell' \in [Sessions -> Shells]
         /\ closed'[s]
         /\ ~closed[s] => shell'[s] # "running"
         /\ closed[s] => shell'[s] = shell[s]
         /\ \A k \in Sessions \ {s} :
              closed'[k] = closed[k] /\ timer'[k] = timer[k] /\ shell'[k] = shell[k]
<1> USE DEF TerminalTypeOK, TimerStates, Shells
<1>1. CASE closed[s]
  BY <1>1 DEF CloseSession
<1>2. CASE ~closed[s]
  BY <1>2 DEF CloseSession
<1> QED BY <1>1, <1>2

LEMMA InitSessionInv == TerminalInit => SessionInv
BY DEF TerminalInit, SessionInv, TerminalTypeOK, SessionFits, Stages, TimerStates, Shells,
   SocketStates

LEMMA NextSessionInv == SessionInv /\ [TerminalNext]_terminalVars => SessionInv'
<1> SUFFICES ASSUME SessionInv, [TerminalNext]_terminalVars PROVE SessionInv'
  OBVIOUS
<1> USE DEF SessionInv, TerminalTypeOK, SessionFits, Stages, TimerStates, Shells, SocketStates,
            SetStage, SetSocket
<1>1. ASSUME UNCHANGED session, sock' \in [Sessions -> SocketStates],
             \A s \in Sessions :
               sock'[s] \in {"none", "asked", "opening"} => sock[s] \in {"none", "asked", "opening"}
      PROVE  SessionInv'
  BY <1>1 DEF session
<1>2. ASSUME NEW s \in Sessions, Connect(s) \/ Refused(s) \/ Answered(s) \/ SocketFails(s)
               \/ Receive(s) \/ PaneHearsClose(s) \/ Disconnect(s) \/ SocketLost(s)
               \/ EndRecorded(s)
      PROVE  SessionInv'
  <2>1. UNCHANGED session
    BY <1>2 DEF session, server, Connect, Refused, Answered, SocketFails, Receive,
       PaneHearsClose, Disconnect, SocketLost, EndRecorded
  <2>2. /\ sock' \in [Sessions -> SocketStates]
        /\ \A k \in Sessions : sock'[k] \in {"none", "asked", "opening"} =>
                              sock[k] \in {"none", "asked", "opening"}
    BY <1>2 DEF Connect, Refused, Answered, SocketFails, Receive, PaneHearsClose, Disconnect,
       SocketLost, EndRecorded
  <2> QED BY <1>1, <2>1, <2>2
<1>3. ASSUME NEW s \in Sessions, SocketOpens(s) PROVE SessionInv'
  BY <1>3 DEF SocketOpens
<1>4. ASSUME NEW s \in Sessions, Spawn(s) PROVE SessionInv'
  BY <1>4 DEF Spawn
<1>5. ASSUME NEW s \in Sessions, Opened(s) PROVE SessionInv'
  BY <1>5 DEF Opened
<1>6. ASSUME NEW s \in Sessions, SetupFails(s) PROVE SessionInv'
  BY <1>6 DEF SetupFails
<1>7. ASSUME NEW s \in Sessions, FailureRecorded(s) PROVE SessionInv'
  BY <1>7, Closes DEF FailureRecorded
<1>8. ASSUME NEW s \in Sessions, ShellExits(s) PROVE SessionInv'
  BY <1>8 DEF ShellExits
<1>9. ASSUME NEW s \in Sessions, ShellReported(s) PROVE SessionInv'
  BY ZenonT(60), <1>9 DEF ShellReported
<1>10. ASSUME NEW s \in Sessions, ShellErrors(s) PROVE SessionInv'
  BY <1>10, Closes DEF ShellErrors
<1>11. ASSUME NEW s \in Sessions, ServerHearsClose(s) PROVE SessionInv'
  BY <1>11, Closes DEF ServerHearsClose
<1>12. ASSUME NEW s \in Sessions, Input(s) \/ IdleTimePasses(s) PROVE SessionInv'
  BY <1>12 DEF Input, IdleTimePasses
<1>13. ASSUME NEW s \in Sessions, TimesOut(s) PROVE SessionInv'
  BY <1>13, Closes DEF TimesOut
<1>14. CASE CloseTab
  BY <1>1, <1>14 DEF CloseTab, server, session
<1>15. CASE Die
  BY <1>15 DEF Die
<1>16. CASE UNCHANGED terminalVars
  BY <1>1, <1>16 DEF terminalVars, server, session
<1> QED BY <1>2, <1>3, <1>4, <1>5, <1>6, <1>7, <1>8, <1>9, <1>10, <1>11, <1>12, <1>13,
           <1>14, <1>15, <1>16 DEF TerminalNext

\* No shell that runs is left to itself, however the session's parties end it and
\* whatever report finds no listener.
THEOREM RunningShellsAreWatched == TerminalSpec => []ShellsAreWatched
<1>1. SessionInv => ShellsAreWatched
  BY DEF SessionInv, TerminalTypeOK, SessionFits, ShellsAreWatched, Stages
<1> QED BY <1>1, InitSessionInv, NextSessionInv, PTL DEF TerminalSpec

-----------------------------------------------------------------------------
(* Monitoring: what the chains of polls and the listener of the log will   *)
(* have told once they end.                                                *)

Points   == {"idle", "request", "metric", "status", "read", "emit", "ports", "inactive", "upsert"}
Outcomes == {"none", "online", "offline", "error"}

MonitoringTypeOK ==
  /\ pc \in [Chains -> Points]
  /\ outcome \in [Chains -> Outcomes]
  /\ status \in States
  /\ lastStatus \in States \cup {"none"}
  /\ read \in [Chains -> States \cup {"none"}]
  /\ log \in Rows
  /\ entry \in [Chains -> Rows]
  /\ losses \in Nat /\ restarts \in Nat

\* A chain that is alone tells what is stored, and has told it unless it is about to.
TellsStatus ==
  /\ \A p, q \in Chains : UnderWay(p) /\ UnderWay(q) => p = q
  /\ \A p \in Chains : pc[p] = "emit" => read[p] = status
  /\ (lastStatus # "none" /\ \A p \in Chains : pc[p] \notin {"read", "emit"}) =>
       lastStatus = status
  /\ status = "unknown" => lastStatus \in {"none", "unknown"}

\* What the log says once the row that a listener is about to insert is there.
LogWillSay(s) ==
  /\ \A p \in Chains : entry[p] \in {"none", s}
  /\ (\A p \in Chains : entry[p] = "none") => log = s

LogWillNotSay(s) ==
  /\ \A p \in Chains : entry[p] # s
  /\ (\A p \in Chains : entry[p] = "none") => log # s

\* After a restart the log may be ahead of what the syslog service knows.
LogFits ==
  /\ lastStatus = "offline" => LogWillSay("offline")
  /\ lastStatus = "online" /\ restarts = 0 => LogWillNotSay("offline")
  /\ lastStatus \in {"none", "unknown"} /\ restarts = 0 => LogWillSay("none")

MonitoringInv == MonitoringTypeOK /\ (~crossed /\ losses = 0 => TellsStatus /\ LogFits)

LEMMA InitMonitoringInv == MonitoringInit => MonitoringInv
BY DEF MonitoringInit, MonitoringInv, MonitoringTypeOK, TellsStatus, LogFits, LogWillSay,
       LogWillNotSay, Points, Outcomes, States, Rows, UnderWay

\* A step that neither tells nor writes, at whose end nobody but the chain that takes it
\* is under way.
LEMMA QuietStep ==
  ASSUME MonitoringInv, NEW p \in Chains, MonitoringTypeOK',
         UNCHANGED <<status, lastStatus, log, entry, restarts>>,
         crossed => crossed', losses' = 0 => losses = 0,
         ~crossed' => UnderWay(p) \/ \A q \in Chains : ~UnderWay(q),
         \A q \in Chains \ {p} : pc'[q] = pc[q] /\ read'[q] = read[q],
         pc'[p] = "emit" => read'[p] = status,
         pc[p] \in {"read", "emit"} => pc'[p] \in {"read", "emit"} \/ losses' # 0
  PROVE  MonitoringInv'
<1> SUFFICES ASSUME ~crossed', losses' = 0 PROVE TellsStatus' /\ LogFits'
  BY DEF MonitoringInv
<1>1. TellsStatus /\ LogFits
  BY DEF MonitoringInv
<1>2. \A q \in Chains : UnderWay(q)' => q = p \/ UnderWay(q)
  BY DEF UnderWay
<1>3. TellsStatus'
  BY <1>1, <1>2 DEF TellsStatus
<1>4. LogFits'
  BY <1>1 DEF LogFits, LogWillSay, LogWillNotSay
<1>. QED BY <1>3, <1>4

LEMMA NextMonitoringInv ==
  MonitoringInv /\ [MonitoringNext]_monitoringVars => MonitoringInv'
<1> SUFFICES ASSUME MonitoringInv, [MonitoringNext]_monitoringVars PROVE MonitoringInv'
  OBVIOUS
<1> USE DEF Points, Outcomes, States, Rows
<1>0. MonitoringTypeOK /\ Polls \subseteq Chains /\ Others \subseteq Chains
  BY DEF MonitoringInv, Chains
<1>1. ASSUME NEW p \in Polls, Poll(p) PROVE MonitoringInv'
  <2>1. MonitoringTypeOK'
    BY <1>0, <1>1 DEF Poll, Start, MovesTo, MonitoringTypeOK, chain, device
  <2>. QED
    BY ZenonT(60), <1>0, <1>1, <2>1, QuietStep
       DEF Poll, Start, MovesTo, MonitoringTypeOK, chain, UnderWay
<1>2. ASSUME NEW p \in Others, Touch(p) PROVE MonitoringInv'
  <2>1. MonitoringTypeOK'
    BY <1>0, <1>2 DEF Touch, Start, MovesTo, MonitoringTypeOK
  <2>. QED
    BY ZenonT(60), <1>0, <1>2, <2>1, QuietStep DEF Touch, Start, MovesTo, MonitoringTypeOK, UnderWay
<1>3. ASSUME NEW p \in Chains, Answer(p) \/ AnswerPartly(p) \/ RecordMetric(p) \/ ReadDevice(p)
               \/ RecordPorts(p) \/ MarkInactive(p) \/ UpsertClients(p) \/ ChainFails(p)
      PROVE  MonitoringInv'
  <2>1. MonitoringTypeOK'
    BY <1>0, <1>3 DEF Answer, AnswerPartly, RecordMetric, ReadDevice, RecordPorts, MarkInactive,
       UpsertClients, ChainFails, End, MovesTo, MonitoringTypeOK, chain, bounds
  <2>2. UNCHANGED <<status, lastStatus, log, entry, restarts, crossed>>
    BY <1>3 DEF Answer, AnswerPartly, RecordMetric, ReadDevice, RecordPorts, MarkInactive,
       UpsertClients, ChainFails, bounds
  <2>3. losses' = 0 => losses = 0 /\ ~ChainFails(p)
    BY <1>0, <1>3 DEF Answer, AnswerPartly, RecordMetric, ReadDevice, RecordPorts, MarkInactive,
       UpsertClients, ChainFails, bounds, MonitoringTypeOK
  <2>4. UnderWay(p)
    BY <1>0, <1>3 DEF Answer, AnswerPartly, RecordMetric, ReadDevice, RecordPorts, MarkInactive,
       UpsertClients, ChainFails, UnderWay
  <2>5. \A q \in Chains \ {p} : pc'[q] = pc[q] /\ read'[q] = read[q]
    BY <1>0, <1>3 DEF Answer, AnswerPartly, RecordMetric, ReadDevice, RecordPorts, MarkInactive,
       UpsertClients, ChainFails, End, MovesTo, MonitoringTypeOK, chain
  <2>6. /\ pc'[p] = "emit" => read'[p] = status
        /\ pc[p] \in {"read", "emit"} => pc'[p] \in {"read", "emit"} \/ losses' # 0
    BY <1>0, <1>3, <2>3 DEF Answer, AnswerPartly, RecordMetric, ReadDevice, RecordPorts,
       MarkInactive, UpsertClients, ChainFails, End, MovesTo, MonitoringTypeOK, chain
  <2>. QED
    BY <2>1, <2>2, <2>3, <2>4, <2>5, <2>6, QuietStep
<1>4. ASSUME NEW p \in Chains, UpdateStatus(p) PROVE MonitoringInv'
  <2>1. MonitoringTypeOK'
    BY <1>0, <1>4 DEF UpdateStatus, MovesTo, MonitoringTypeOK, chain, bounds
  <2>2. ASSUME ~crossed', losses' = 0 PROVE TellsStatus' /\ LogFits'
    <3>1. TellsStatus /\ LogFits
      BY <1>4, <2>2 DEF UpdateStatus, bounds, MonitoringInv
    <3>2. TellsStatus'
      BY <1>0, <1>4, <3>1 DEF UpdateStatus, MovesTo, chain, TellsStatus, UnderWay, MonitoringTypeOK
    <3>3. LogFits'
      BY <1>4, <3>1 DEF UpdateStatus, bounds, LogFits, LogWillSay, LogWillNotSay
    <3>. QED BY <3>2, <3>3
  <2>. QED BY <2>1, <2>2 DEF MonitoringInv
<1>5. ASSUME NEW p \in Chains, Emit(p) PROVE MonitoringInv'
  <2>1. MonitoringTypeOK'
    BY <1>0, <1>5 DEF Emit, Notice, End, MovesTo, MonitoringTypeOK, bounds
  <2>2. ASSUME ~crossed', losses' = 0 PROVE TellsStatus' /\ LogFits'
    <3>1. TellsStatus /\ LogFits
      BY <1>5, <2>2 DEF Emit, bounds, MonitoringInv
    <3>2. /\ pc[p] = "emit" /\ entry[p] = "none" /\ lastStatus' = status
          /\ pc'[p] \notin {"read", "emit"} /\ UNCHANGED <<status, log, restarts>>
          /\ \A q \in Chains \ {p} : pc'[q] = pc[q] /\ entry'[q] = entry[q] /\ read'[q] = read[q]
      BY <1>0, <1>5, <3>1
         DEF Emit, Notice, End, MovesTo, MonitoringTypeOK, TellsStatus, bounds
    <3>3. \A q \in Chains \ {p} : pc[q] = "idle" /\ entry[q] = "none"
      BY <3>1, <3>2 DEF TellsStatus, UnderWay
    <3>4. TellsStatus'
      BY <1>0, <3>2, <3>3 DEF TellsStatus, UnderWay
    <3>5. entry'[p] = IF status # lastStatus /\ status # "unknown"
                         /\ ~(lastStatus = "none" /\ status = "online") THEN status ELSE "none"
      BY <1>0, <1>5, <3>1, <3>2 DEF Emit, Notice, TellsStatus, MonitoringTypeOK
    <3>6. /\ lastStatus = "offline" => log = "offline"
          /\ lastStatus = "online" /\ restarts = 0 => log # "offline"
          /\ lastStatus \in {"none", "unknown"} /\ restarts = 0 => log = "none"
      BY <3>1, <3>2, <3>3 DEF LogFits, LogWillSay, LogWillNotSay
    <3>7. LogFits'
      BY <1>0, <3>1, <3>2, <3>3, <3>5, <3>6
         DEF LogFits, LogWillSay, LogWillNotSay, MonitoringTypeOK, TellsStatus
    <3>. QED BY <3>4, <3>7
  <2>. QED BY <2>1, <2>2 DEF MonitoringInv
<1>6. ASSUME NEW p \in Chains, WriteEntry(p) PROVE MonitoringInv'
  <2>1. MonitoringTypeOK'
    BY <1>0, <1>6 DEF WriteEntry, MonitoringTypeOK, chain, bounds
  <2>2. ASSUME ~crossed', losses' = 0 PROVE TellsStatus' /\ LogFits'
    <3>1. TellsStatus /\ LogFits
      BY <1>6, <2>2 DEF WriteEntry, bounds, MonitoringInv
    <3>2. TellsStatus'
      BY <1>0, <1>6, <3>1 DEF WriteEntry, chain, TellsStatus, UnderWay, MonitoringTypeOK
    <3>3. \A q \in Chains \ {p} : entry[q] = "none" /\ entry'[q] = "none"
      BY <1>0, <1>6, <3>1 DEF WriteEntry, TellsStatus, UnderWay, MonitoringTypeOK
    <3>4. /\ entry[p] # "none" /\ log' = entry[p] /\ entry'[p] = "none"
          /\ UNCHANGED <<lastStatus, restarts>>
      BY <1>0, <1>6 DEF WriteEntry, bounds, MonitoringTypeOK
    <3>5. LogFits'
      BY <3>1, <3>3, <3>4 DEF LogFits, LogWillSay, LogWillNotSay
    <3>. QED BY <3>2, <3>5
  <2>. QED BY <2>1, <2>2 DEF MonitoringInv
<1>7. ASSUME NEW p \in Chains, EntryFails(p) PROVE MonitoringInv'
  <2>1. MonitoringTypeOK' /\ losses' # 0
    BY <1>0, <1>7 DEF EntryFails, MonitoringTypeOK, chain
  <2>. QED BY <2>1 DEF MonitoringInv
<1>8. CASE Restart
  <2>1. MonitoringTypeOK'
    BY <1>0, <1>8 DEF Restart, MonitoringTypeOK
  <2>2. restarts' # 0
    BY <1>0, <1>8 DEF Restart, MonitoringTypeOK
  <2>3. TellsStatus' /\ LogFits'
    BY <1>8, <2>2 DEF Restart, TellsStatus, LogFits, UnderWay
  <2>. QED BY <2>1, <2>3 DEF MonitoringInv
<1>9. CASE Surroundings \/ UNCHANGED monitoringVars
  <2>1. UNCHANGED <<status, active, log, lastStatus, pc, chain, entry, bounds>>
    BY <1>9 DEF Surroundings, monitoringVars
  <2>. QED
    BY <2>1 DEF chain, bounds, MonitoringInv, MonitoringTypeOK, TellsStatus, LogFits, LogWillSay,
       LogWillNotSay, UnderWay
<1>. QED
  BY <1>1, <1>2, <1>3, <1>4, <1>5, <1>6, <1>7, <1>8, <1>9 DEF MonitoringNext, Step

\* When a device is left alone the syslog service knows its status and the log tells it,
\* for any number of polls, other callers and clients, however often the process restarts.
THEOREM TheLogFollows == MonitoringSpec => []LogFollowsStatus
<1>1. MonitoringInv => LogFollowsStatus
  BY DEF MonitoringInv, MonitoringTypeOK, TellsStatus, LogFits, LogWillSay, LogWillNotSay,
         LogFollowsStatus, Quiet, UnderWay, States
<1>. QED BY <1>1, InitMonitoringInv, NextMonitoringInv, PTL DEF MonitoringSpec

-----------------------------------------------------------------------------
(* Agent: the rows, the tokens, the calls of the three routes.              *)

DeviceStates == {"discovered", "inventoried", "fully_managed"}
Hosts  == {Pending(t) : t \in Tokens} \cup {Address(r) : r \in Routers}
          \cup {Serial(r) : r \in Routers}
Row == [host : Hosts, site : BOOLEAN, state : DeviceStates, agent : Nat,
        creds : [Purposes -> Nat], checked : BOOLEAN, madeWith : Nat]

PasteStages   == {"find_token", "placeholder", "agent_token", "claim", "answer"}
CheckinStages == {"find_device", "read_host", "record"}
EnrollStages  == {"find_token", "existing", "upsert", "answer"}
AckStages     == {"find_device", "drop_read_only", "add_read_only", "drop_write", "add_write",
                  "promote", "agent_token", "list_tokens", "claim", "answer"}
CallStages    == PasteStages \cup CheckinStages \cup EnrollStages \cup AckStages
Call == [kind : {"bootstrap", "checkin", "enroll", "ack"}, by : Routers, token : Nat,
         at : CallStages, row : Nat,
         seen : DeviceStates \cup {"nothing", "placeholder", "host"}, site : BOOLEAN]

AgentTypeOK ==
  /\ token \in [Tokens -> {"none", "free", "expired", "claimed"}]
  /\ rows \in Seq(Row)
  /\ calls \in [Slots -> Call \cup {Free}]
  /\ agent \in [Routers -> Nat]
  /\ script \in [Routers -> {"off", "idle", "enroll", "approved", "ack", "done"}]
  /\ given \in [Routers -> Tokens \cup {Nobody}]
  /\ pasted \in 0..MaxJoins

\* The token of the bootstrap call that made a row, if one did.
Pasted(row) == IF row.host[1] = "serial" THEN Nobody ELSE row.madeWith

\* A row is the placeholder of a token, which a check-in may have given an address, or
\* the device of a router that enrolled; no two have the same host.
RowsFit ==
  \A i \in DOMAIN rows :
    /\ \A k \in DOMAIN rows : rows[i].host = rows[k].host => i = k
    /\ \/ Pasted(rows[i]) = Nobody /\ rows[i].agent \in {Nobody, Unseen}
          /\ \E r \in Looping : rows[i].host = Serial(r)
       \/ Pasted(rows[i]) \in Tokens /\ rows[i].agent \in 0..pasted
          /\ \/ rows[i].host = Pending(Pasted(rows[i]))
             \/ \E r \in Routers : rows[i].host = Address(r)

\* The bootstrap calls that are past the check of their token.
Using(c, t) == Busy(c) /\ calls[c].token = t /\ calls[c].at # "find_token"

\* Whatever is still to come, nothing is made with the token any more.
Spent(t) == token[t] = "claimed" /\ \A c \in PasteSlots : ~Using(c, t)

PasteFits(c) ==
  Busy(c) =>
    /\ calls[c].kind = "bootstrap" /\ calls[c].at \in PasteStages
    /\ c[2] <= pasted /\ calls[c].token \in Tokens
    /\ \A i \in DOMAIN rows : rows[i].agent = c[2] => Pasted(rows[i]) = calls[c].token
    /\ calls[c].at \in {"agent_token", "claim", "answer"} =>
         /\ calls[c].row \in DOMAIN rows
         /\ Pasted(rows[calls[c].row]) = calls[c].token
    /\ calls[c].at \in {"claim", "answer"} /\ calls[c].token \notin shared =>
         rows[calls[c].row].agent = c[2]
    /\ calls[c].at = "answer" => token[calls[c].token] = "claimed"

\* A token that two calls did not use at once.
TokenFits(t) ==
  /\ \A c, d \in PasteSlots : Using(c, t) /\ Using(d, t) => c = d
  /\ \A i, k \in DOMAIN rows : Pasted(rows[i]) = t /\ Pasted(rows[k]) = t => i = k
  /\ \A i \in DOMAIN rows : Pasted(rows[i]) = t /\ rows[i].host # Pending(t) => Spent(t)

\* An agent token that a router was given.
Served(a) ==
  /\ a \in 1..pasted /\ ~Busy(<<"paste", a>>)
  /\ \A i \in DOMAIN rows :
       rows[i].agent = a /\ Pasted(rows[i]) \notin shared => Spent(Pasted(rows[i]))

CheckinFits(c) ==
  Busy(c) =>
    /\ calls[c].kind = "checkin" /\ calls[c].at \in CheckinStages /\ calls[c].by = c[2]
    /\ Served(calls[c].token)
    /\ calls[c].at # "find_device" =>
         /\ calls[c].row \in DOMAIN rows
         /\ Pasted(rows[calls[c].row]) \in Tokens
         /\ Pasted(rows[calls[c].row]) \notin shared => Spent(Pasted(rows[calls[c].row]))

AgentFits(r) ==
  agent[r] # Nobody =>
    /\ Served(agent[r])
    /\ shared = {} => \E i \in DOMAIN rows : rows[i].agent = agent[r]

\* The device of a router was made with the token in its script.
RowJoins(r) ==
  \A i \in DOMAIN rows :
    rows[i].host = Serial(r) => rows[i].madeWith = given[r] /\ script[r] # "off"

ScriptCallFits(c) ==
  Busy(c) =>
    /\ calls[c].by = c[2] /\ script[c[2]] # "off"
    /\ \/ /\ calls[c].kind = "enroll" /\ calls[c].at \in EnrollStages
          /\ calls[c].token = given[c[2]]
          /\ calls[c].seen \in DeviceStates \cup {"nothing"}
       \/ /\ calls[c].kind = "ack" /\ calls[c].at \in AckStages
          /\ calls[c].at # "find_device" =>
               calls[c].row \in DOMAIN rows /\ rows[calls[c].row].host = Serial(calls[c].by)

\* How far an acknowledgement has come, when nobody else works on the device.
Counts(row, at) ==
  /\ at = "add_read_only" => row.creds["read_only"] = 0
  /\ at \in {"drop_write", "add_write", "promote", "agent_token", "list_tokens",
             "claim", "answer"} =>
       row.creds["read_only"] = 1
  /\ at = "add_write" => row.creds["write"] = 0
  /\ at \in {"promote", "agent_token", "list_tokens",
             "claim", "answer"} => row.creds["write"] = 1
  /\ at \in {"list_tokens", "claim", "answer"} => row.agent = Unseen

Acknowledged(r, at) == Known(r) /\ Counts(EnrolRow(r), at)

ScriptFits(r) ==
  LET c == <<"script", r>>
  IN  /\ ~Busy(<<"late", r>>)
      /\ Busy(c) <=> script[r] \in {"enroll", "ack"}
      /\ Busy(c) => calls[c].kind = script[r]
      /\ Reaches(c, "enroll", "upsert") =>
           calls[c].seen = IF Known(r) THEN EnrolRow(r).state ELSE "nothing"
      /\ Busy(c) /\ calls[c].kind = "ack" /\ calls[c].at # "find_device" =>
           Acknowledged(r, calls[c].at)
      /\ script[r] = "done" => Acknowledged(r, "answer")

TokenInv ==
  /\ RowsFit
  /\ \A c \in PasteSlots : PasteFits(c)
  /\ \A t \in Tokens \ shared : TokenFits(t)
  /\ \A c \in AgentSlots : CheckinFits(c)
  /\ \A r \in Routers : AgentFits(r)

RouterFits(r) ==
  /\ ScriptCallFits(<<"script", r>>)
  /\ ScriptCallFits(<<"late", r>>)
  /\ RowJoins(r)
  /\ r \notin raced => ScriptFits(r)

ScriptInv == \A r \in Looping : RouterFits(r)

AgentInv == AgentTypeOK /\ TokenInv /\ ScriptInv

-----------------------------------------------------------------------------
(* Lemmas *)

\* The calls of a paste, of an agent and of a script never meet in a slot.
LEMMA TheSlots ==
  /\ \A n \in Pastes : <<"paste", n>> \in PasteSlots
  /\ \A r \in Routers : <<"agent", r>> \in AgentSlots
  /\ \A r \in Looping : <<"script", r>> \in ScriptSlots /\ <<"late", r>> \in ScriptSlots
  /\ \A c \in PasteSlots : c[2] \in Pastes /\ c = <<"paste", c[2]>>
  /\ \A c \in AgentSlots : c[2] \in Routers /\ c = <<"agent", c[2]>>
  /\ \A c \in ScriptSlots :
       c[2] \in Looping /\ c[1] \in {"script", "late"}
       /\ (c = <<"script", c[2]>> \/ c = <<"late", c[2]>>)
  /\ PasteSlots \subseteq Slots /\ AgentSlots \subseteq Slots /\ ScriptSlots \subseteq Slots
  /\ PasteSlots \cap AgentSlots = {} /\ PasteSlots \cap ScriptSlots = {}
  /\ AgentSlots \cap ScriptSlots = {}
  /\ Slots = PasteSlots \cup AgentSlots \cup ScriptSlots
BY DEF PasteSlots, AgentSlots, ScriptSlots, Slots

\* Hosts of the three kinds differ, and those of tokens and of serials differ by what
\* they are made of.
LEMMA TheHosts ==
  /\ \A t \in Tokens : Pending(t) \in Hosts
  /\ \A r \in Routers : Address(r) \in Hosts /\ Serial(r) \in Hosts
  /\ \A t, u : Pending(t) = Pending(u) => t = u
  /\ \A r, q : Serial(r) = Serial(q) => r = q
  /\ \A t, r : Pending(t) # Serial(r) /\ Pending(t) # Address(r)
  /\ \A q, r : Serial(q) # Address(r)
  /\ Looping \subseteq Routers /\ Nobody \notin Tokens /\ Nobody \notin Pastes
  /\ Unseen \notin 0..MaxJoins
  /\ MaxJoins \in Nat /\ MaxTokens \in Nat /\ IsFiniteSet(Routers)
BY AgentAssumption DEF Pending, Address, Serial, Hosts, Nobody, Tokens, Pastes, Unseen

\* The only row of a host.
LEMMA RowOfIs ==
  ASSUME RowsFit, NEW i \in DOMAIN rows
  PROVE  At(rows[i].host) = {i} /\ RowOf(rows[i].host) = i
<1>1. At(rows[i].host) = {i}
  BY DEF RowsFit, At
<1>. QED BY <1>1 DEF RowOf

LEMMA RowOfFound ==
  ASSUME NEW host, At(host) # {}
  PROVE  RowOf(host) \in DOMAIN rows /\ rows[RowOf(host)].host = host
BY DEF At, RowOf

LEMMA TheRows ==
  ASSUME AgentTypeOK
  PROVE  /\ Len(rows) \in Nat /\ DOMAIN rows = 1..Len(rows)
         /\ \A i \in DOMAIN rows : rows[i] \in Row
BY LenProperties, ElementOfSeq DEF AgentTypeOK

\* One row replaced.
LEMMA Replaced ==
  ASSUME AgentTypeOK, NEW k \in DOMAIN rows, NEW row \in Row, rows' = [rows EXCEPT ![k] = row]
  PROVE  /\ rows' \in Seq(Row) /\ DOMAIN rows' = DOMAIN rows
         /\ rows'[k] = row /\ \A i \in DOMAIN rows \ {k} : rows'[i] = rows[i]
<1>1. k \in 1..Len(rows) /\ rows \in Seq(Row) /\ DOMAIN rows = 1..Len(rows)
  BY TheRows DEF AgentTypeOK
<1>2. rows' \in Seq(Row)
  BY <1>1, ExceptSeq
<1>. QED BY <1>1, <1>2

\* The device that a router enrolled as is what it was.
SameRow(q) ==
  /\ \A i \in At(Serial(q)) : i \in DOMAIN rows' /\ rows'[i] = rows[i]
  /\ \A i \in DOMAIN rows' : rows'[i].host = Serial(q) => i \in At(Serial(q))

LEMMA RowStays ==
  ASSUME NEW q, SameRow(q)
  PROVE  /\ (Known(q)' <=> Known(q)) /\ RowOf(Serial(q))' = RowOf(Serial(q))
         /\ Known(q) => EnrolRow(q)' = EnrolRow(q)
<1>1. At(Serial(q))' = At(Serial(q))
  BY DEF At, SameRow, Serial
<1>2. RowOf(Serial(q))' = RowOf(Serial(q))
  BY <1>1 DEF RowOf, Serial
<1>3. At(Serial(q)) # {} => RowOf(Serial(q)) \in At(Serial(q))
  BY DEF RowOf
<1>. QED BY <1>1, <1>2, <1>3 DEF Known, EnrolRow, SameRow, Serial

\* A row kept, but for its site and its state.
KeptBut(i) ==
  /\ rows'[i].host = rows[i].host /\ rows'[i].agent = rows[i].agent
  /\ rows'[i].madeWith = rows[i].madeWith /\ rows'[i].creds = rows[i].creds
  /\ Pasted(rows'[i]) = Pasted(rows[i])

\* What the insert or the update leaves: k is the row of the host.
Upserts(host, state, t, k) ==
  /\ rows' \in Seq(Row) /\ DOMAIN rows' = DOMAIN rows \cup {k}
  /\ \A i \in DOMAIN rows : KeptBut(i) /\ (i # k => rows'[i] = rows[i])
  /\ rows'[k].host = host /\ rows'[k].state = state
  /\ At(host) # {} => k = RowOf(host) /\ k \in DOMAIN rows
  /\ At(host) = {} => k \notin DOMAIN rows /\ rows'[k].agent = Nobody /\ rows'[k].madeWith = t

LEMMA Upserted ==
  ASSUME AgentTypeOK, RowsFit, NEW host \in Hosts, NEW site \in BOOLEAN, NEW state \in DeviceStates,
         NEW t \in Tokens \cup {Nobody}, Upsert(host, site, state, t),
         NEW k, k = UpsertedRow(host)
  PROVE  Upserts(host, state, t, k)
<1>0. Len(rows) \in Nat /\ DOMAIN rows = 1..Len(rows) /\ rows \in Seq(Row)
      /\ \A i \in DOMAIN rows : rows[i] \in Row
  BY TheRows DEF AgentTypeOK
<1>1. CASE At(host) = {}
  <2> DEFINE new == Blank(host, site, state, t)
  <2>1. /\ new \in Row /\ new.host = host /\ new.state = state /\ new.agent = Nobody
        /\ new.madeWith = t
    BY AgentAssumption DEF Blank, Row, Nobody, Tokens
  <2> HIDE DEF new
  <2>2. rows' = Append(rows, new) /\ k = Len(rows) + 1
    BY <1>1 DEF Upsert, UpsertedRow, new
  <2>3. rows' \in Seq(Row) /\ Len(rows') = Len(rows) + 1 /\ rows'[k] = new
        /\ \A i \in 1..Len(rows) : rows'[i] = rows[i]
    BY <1>0, <2>1, <2>2, AppendProperties
  <2>4. DOMAIN rows' = 1..(Len(rows) + 1)
    BY <2>3, LenProperties
  <2>. QED BY <1>0, <1>1, <2>1, <2>2, <2>3, <2>4 DEF KeptBut, Upserts
<1>2. CASE At(host) # {}
  <2>1. k = RowOf(host) /\ k \in DOMAIN rows /\ rows[k].host = host /\ rows[k] \in Row
    BY <1>0, <1>2, RowOfFound DEF UpsertedRow
  <2> DEFINE new == [rows[k] EXCEPT !.site = site, !.state = state]
  <2>2. /\ new \in Row /\ new.host = host /\ new.state = state /\ new.agent = rows[k].agent
        /\ new.madeWith = rows[k].madeWith /\ new.creds = rows[k].creds
        /\ Pasted(new) = Pasted(rows[k])
    BY <2>1 DEF Row, Pasted
  <2>3. rows' = [rows EXCEPT ![k] = new]
    BY <1>0, <1>2, <2>1 DEF Upsert
  <2> HIDE DEF new
  <2>4. /\ rows' \in Seq(Row) /\ DOMAIN rows' = DOMAIN rows
        /\ rows'[k] = new /\ \A i \in DOMAIN rows \ {k} : rows'[i] = rows[i]
    BY <2>1, <2>2, <2>3, Replaced
  <2>. QED BY <1>2, <2>1, <2>2, <2>4 DEF KeptBut, Upserts
<1>. QED BY <1>1, <1>2

\* There is an oldest token, where there is one.
LEMMA TheOldest ==
  ASSUME NEW S \in SUBSET Nat, S # {}
  PROVE  (CHOOSE t \in S : \A u \in S : t <= u) \in S
<1> DEFINE R == OpToRel(<, Nat)
<1>1. IsWellFoundedOn(R, Nat)
  BY NatLessThanWellFounded
<1>2. \A x, y \in Nat : x < y => <<x, y>> \in R
  BY DEF OpToRel
<1> HIDE DEF R
<1>3. PICK x \in S : \A y \in S : ~ (<<y, x>> \in R)
  BY <1>1, WFMin
<1>4. \A y \in S : ~(y < x)
  BY <1>2, <1>3
<1>5. \A y \in S : x <= y
  BY <1>4
<1>. QED BY <1>5

\* A free slot is no call, and a busy one holds a call.
LEMMA TheCall ==
  ASSUME AgentTypeOK, NEW c \in Slots
  PROVE  /\ Free \notin Call
         /\ Busy(c) => calls[c] \in Call
         /\ ~Busy(c) => calls[c] = Free
<1>1. Free \notin Call
  <2>1. \A call \in Call : call.kind # "free"
    BY DEF Call
  <2>. QED BY <2>1 DEF Free
<1>. QED BY <1>1 DEF AgentTypeOK, Busy

\* One slot changes.
LEMMA SlotChanges ==
  ASSUME AgentTypeOK, NEW c \in Slots, NEW new \in Call \cup {Free},
         calls' = [calls EXCEPT ![c] = new]
  PROVE  /\ calls' \in [Slots -> Call \cup {Free}]
         /\ calls'[c] = new /\ (new \in Call => Busy(c)') /\ (new = Free => ~Busy(c)')
         /\ \A d \in Slots \ {c} : calls'[d] = calls[d] /\ (Busy(d)' <=> Busy(d))
BY TheCall DEF AgentTypeOK, Busy

\* A call begins.
LEMMA Begins ==
  ASSUME AgentTypeOK, NEW c \in Slots, NEW kind \in {"bootstrap", "checkin", "enroll", "ack"},
         NEW r \in Routers, NEW t \in Nat, NEW at \in CallStages, Begin(c, kind, r, t, at)
  PROVE  /\ calls' \in [Slots -> Call \cup {Free}] /\ Busy(c)'
         /\ calls'[c].kind = kind /\ calls'[c].by = r /\ calls'[c].token = t /\ calls'[c].at = at
         /\ calls'[c].seen = "nothing"
         /\ \A d \in Slots \ {c} : calls'[d] = calls[d] /\ (Busy(d)' <=> Busy(d))
<1> DEFINE new == [kind |-> kind, by |-> r, token |-> t, at |-> at,
                   row |-> 0, seen |-> "nothing", site |-> FALSE]
<1>1. new \in Call
  BY DEF Call
<1>2. /\ new.kind = kind /\ new.by = r /\ new.token = t /\ new.at = at /\ new.seen = "nothing"
      /\ calls' = [calls EXCEPT ![c] = new]
  BY DEF Begin
<1> HIDE DEF new
<1>. QED BY <1>1, <1>2, SlotChanges

\* A call goes on.  What it does not change, it keeps.
GoesOn(c) ==
  /\ calls' \in [Slots -> Call \cup {Free}] /\ Busy(c) /\ Busy(c)'
  /\ calls'[c].kind = calls[c].kind /\ calls'[c].by = calls[c].by
  /\ \A d \in Slots \ {c} : calls'[d] = calls[d] /\ (Busy(d)' <=> Busy(d))

LEMMA Goes ==
  ASSUME AgentTypeOK, NEW c \in Slots, Busy(c), NEW new \in Call,
         new.kind = calls[c].kind, new.by = calls[c].by, calls' = [calls EXCEPT ![c] = new]
  PROVE  GoesOn(c) /\ calls'[c] = new
BY SlotChanges DEF GoesOn

LEMMA GoesTo ==
  ASSUME AgentTypeOK, NEW c \in Slots, Busy(c), NEW at \in CallStages, calls' = Goto(c, at)
  PROVE  /\ GoesOn(c) /\ calls'[c].at = at /\ calls'[c].token = calls[c].token
         /\ calls'[c].row = calls[c].row /\ calls'[c].seen = calls[c].seen
         /\ calls'[c].site = calls[c].site
<1> DEFINE new == [calls[c] EXCEPT !.at = at]
<1>1. calls[c] \in Call /\ calls \in [Slots -> Call \cup {Free}]
  BY TheCall DEF AgentTypeOK
<1>2. /\ new \in Call /\ new.kind = calls[c].kind /\ new.by = calls[c].by /\ new.at = at
      /\ new.token = calls[c].token /\ new.row = calls[c].row /\ new.seen = calls[c].seen
      /\ new.site = calls[c].site
  BY <1>1 DEF Call
<1>3. calls' = [calls EXCEPT ![c] = new]
  BY <1>1 DEF Goto
<1> HIDE DEF new
<1>. QED BY <1>2, <1>3, Goes

\* ... with something it has read.
LEMMA GoesWithRow ==
  ASSUME AgentTypeOK, NEW c \in Slots, Busy(c), NEW at \in CallStages, NEW k \in Nat,
         calls' = [calls EXCEPT ![c].at = at, ![c].row = k]
  PROVE  /\ GoesOn(c) /\ calls'[c].at = at /\ calls'[c].token = calls[c].token
         /\ calls'[c].row = k
<1> DEFINE new == [calls[c] EXCEPT !.at = at, !.row = k]
<1>1. calls[c] \in Call /\ calls \in [Slots -> Call \cup {Free}]
  BY TheCall DEF AgentTypeOK
<1>2. /\ new \in Call /\ new.kind = calls[c].kind /\ new.by = calls[c].by /\ new.at = at
      /\ new.token = calls[c].token /\ new.row = k
  BY <1>1 DEF Call
<1>3. calls' = [calls EXCEPT ![c] = new]
  BY <1>1
<1> HIDE DEF new
<1>. QED BY <1>2, <1>3, Goes

LEMMA GoesWithState ==
  ASSUME AgentTypeOK, NEW c \in Slots, Busy(c), NEW at \in CallStages,
         NEW found \in DeviceStates \cup {"nothing", "placeholder", "host"}, NEW site \in BOOLEAN,
         calls' = [calls EXCEPT ![c].at = at, ![c].site = site, ![c].seen = found]
  PROVE  /\ GoesOn(c) /\ calls'[c].at = at /\ calls'[c].seen = found
         /\ calls'[c].token = calls[c].token
<1> DEFINE new == [calls[c] EXCEPT !.at = at, !.site = site, !.seen = found]
<1>1. calls[c] \in Call /\ calls \in [Slots -> Call \cup {Free}]
  BY TheCall DEF AgentTypeOK
<1>2. /\ new \in Call /\ new.kind = calls[c].kind /\ new.by = calls[c].by /\ new.at = at
      /\ new.seen = found /\ new.token = calls[c].token
  BY <1>1 DEF Call
<1>3. calls' = [calls EXCEPT ![c] = new]
  BY <1>1
<1> HIDE DEF new
<1>. QED BY <1>2, <1>3, Goes

LEMMA GoesHavingSeen ==
  ASSUME AgentTypeOK, NEW c \in Slots, Busy(c), NEW at \in CallStages,
         NEW found \in DeviceStates \cup {"nothing", "placeholder", "host"},
         calls' = [calls EXCEPT ![c].at = at, ![c].seen = found]
  PROVE  /\ GoesOn(c) /\ calls'[c].at = at /\ calls'[c].seen = found
         /\ calls'[c].token = calls[c].token /\ calls'[c].row = calls[c].row
<1> DEFINE new == [calls[c] EXCEPT !.at = at, !.seen = found]
<1>1. calls[c] \in Call /\ calls \in [Slots -> Call \cup {Free}]
  BY TheCall DEF AgentTypeOK
<1>2. /\ new \in Call /\ new.kind = calls[c].kind /\ new.by = calls[c].by /\ new.at = at
      /\ new.seen = found /\ new.token = calls[c].token /\ new.row = calls[c].row
  BY <1>1 DEF Call
<1>3. calls' = [calls EXCEPT ![c] = new]
  BY <1>1
<1> HIDE DEF new
<1>. QED BY <1>2, <1>3, Goes

LEMMA GoesWithToken ==
  ASSUME AgentTypeOK, NEW c \in Slots, Busy(c), NEW at \in CallStages, NEW t \in Nat,
         calls' = [calls EXCEPT ![c].at = at, ![c].token = t]
  PROVE  /\ GoesOn(c) /\ calls'[c].at = at /\ calls'[c].token = t
         /\ calls'[c].row = calls[c].row /\ calls'[c].seen = calls[c].seen
<1> DEFINE new == [calls[c] EXCEPT !.at = at, !.token = t]
<1>1. calls[c] \in Call /\ calls \in [Slots -> Call \cup {Free}]
  BY TheCall DEF AgentTypeOK
<1>2. /\ new \in Call /\ new.kind = calls[c].kind /\ new.by = calls[c].by /\ new.at = at
      /\ new.token = t /\ new.row = calls[c].row /\ new.seen = calls[c].seen
  BY <1>1 DEF Call
<1>3. calls' = [calls EXCEPT ![c] = new]
  BY <1>1
<1> HIDE DEF new
<1>. QED BY <1>2, <1>3, Goes

\* A call is over.
Ends(c) ==
  /\ calls' \in [Slots -> Call \cup {Free}] /\ ~Busy(c)'
  /\ \A d \in Slots \ {c} : calls'[d] = calls[d] /\ (Busy(d)' <=> Busy(d))

LEMMA Freed ==
  ASSUME AgentTypeOK, NEW c \in Slots, calls' = [calls EXCEPT ![c] = Free]
  PROVE  Ends(c)
BY SlotChanges DEF Ends

-----------------------------------------------------------------------------
(* Steps beside the install tokens, and beside the scripts *)

\* A step that makes nothing with a token and begins no call of a paste or of an agent.
LEMMA BesideTokens ==
  ASSUME AgentTypeOK, TokenInv, UNCHANGED <<agent, shared, pasted>>,
         \A i \in DOMAIN rows :
           /\ i \in DOMAIN rows'
           /\ rows'[i].host = rows[i].host /\ Pasted(rows'[i]) = Pasted(rows[i])
           /\ \/ rows'[i].agent = rows[i].agent
              \/ Pasted(rows[i]) = Nobody /\ rows'[i].agent = Unseen,
         \A k \in DOMAIN rows' \ DOMAIN rows :
           /\ Pasted(rows'[k]) = Nobody /\ rows'[k].agent = Nobody
           /\ \E r \in Looping : rows'[k].host = Serial(r)
           /\ \A i \in DOMAIN rows' : rows'[i].host = rows'[k].host => i = k,
         \A c \in PasteSlots \cup AgentSlots :
           ~Busy(c)' \/ (calls'[c] = calls[c] /\ Busy(c)),
         \A t \in Tokens : token[t] = "claimed" => token'[t] = "claimed"
  PROVE  TokenInv'
<1>0. /\ RowsFit /\ pasted \in 0..MaxJoins /\ Unseen \notin 0..MaxJoins /\ Nobody \notin Tokens
      /\ MaxJoins \in Nat
  BY TheHosts DEF TokenInv, AgentTypeOK
<1>1. RowsFit'
  BY <1>0 DEF RowsFit
<1>2. \A c \in PasteSlots : \A t : Using(c, t)' => Using(c, t)
  BY DEF Using
<1>3. \A t \in Tokens : Spent(t) => Spent(t)'
  BY <1>2 DEF Spent
<1>4. \A i \in DOMAIN rows' : Pasted(rows'[i]) \in Tokens => i \in DOMAIN rows
  BY <1>0
<1>5. ASSUME NEW c \in PasteSlots PROVE PasteFits(c)'
  <2> SUFFICES ASSUME Busy(c)' PROVE PasteFits(c)'
    BY DEF PasteFits
  <2>1. calls'[c] = calls[c] /\ PasteFits(c) /\ Busy(c) /\ c[2] \in Pastes /\ c[2] # Nobody
        /\ c[2] # Unseen
    BY TheSlots, TheHosts DEF TokenInv, Pastes
  <2>2. \A i \in DOMAIN rows' : rows'[i].agent = c[2] => i \in DOMAIN rows /\ rows[i].agent = c[2]
    BY <2>1
  <2>3. calls[c].token \in Tokens
    BY <2>1 DEF PasteFits
  <2>4. calls[c].at \in {"agent_token", "claim", "answer"} =>
          rows'[calls[c].row].agent = rows[calls[c].row].agent
    BY <1>0, <2>1, <2>3 DEF PasteFits
  <2>. QED BY <2>1, <2>2, <2>3, <2>4 DEF PasteFits
<1>6. ASSUME NEW t \in Tokens \ shared PROVE TokenFits(t)'
  BY <1>2, <1>3, <1>4 DEF TokenInv, TokenFits
<1>7. ASSUME NEW a, Served(a) PROVE Served(a)'
  <2>1. a \in 1..pasted /\ a # Nobody /\ a # Unseen /\ a \in Pastes /\ <<"paste", a>> \in PasteSlots
    BY <1>0, <1>7, TheSlots, TheHosts DEF Served, Pastes, Nobody
  <2>2. ~Busy(<<"paste", a>>)'
    BY <1>7, <2>1 DEF Served
  <2>3. ASSUME NEW i \in DOMAIN rows', rows'[i].agent = a, Pasted(rows'[i]) \notin shared
        PROVE  Spent(Pasted(rows[i]))'
    <3>1. i \in DOMAIN rows /\ rows[i].agent = a /\ Pasted(rows[i]) \in Tokens
      BY <1>0, <2>1, <2>3 DEF RowsFit
    <3>2. Spent(Pasted(rows[i]))
      BY <1>7, <2>3, <3>1 DEF Served
    <3>. QED BY <1>3, <3>1, <3>2 DEF Spent, Using
  <2>. QED BY <2>1, <2>2, <2>3 DEF Served, Spent, Using
<1>8. ASSUME NEW c \in AgentSlots PROVE CheckinFits(c)'
  <2> SUFFICES ASSUME Busy(c)' PROVE CheckinFits(c)'
    BY DEF CheckinFits
  <2>1. calls'[c] = calls[c] /\ CheckinFits(c) /\ Busy(c)
    BY DEF TokenInv
  <2>. QED BY <1>3, <1>7, <2>1 DEF CheckinFits
<1>9. ASSUME NEW r \in Routers PROVE AgentFits(r)'
  <2> SUFFICES ASSUME agent[r] # Nobody PROVE AgentFits(r)'
    BY DEF AgentFits
  <2>1. AgentFits(r) /\ Served(agent[r]) /\ agent[r] \in 1..pasted
    BY DEF TokenInv, AgentFits, Served
  <2>2. \A i \in DOMAIN rows : rows[i].agent = agent[r] => rows'[i].agent = agent[r]
    BY <1>0, <2>1 DEF RowsFit, Nobody
  <2>. QED BY <1>7, <2>1, <2>2 DEF AgentFits
<1>. QED BY <1>1, <1>5, <1>6, <1>8, <1>9 DEF TokenInv

-----------------------------------------------------------------------------
(* Bootstrap calls and check-ins *)

\* What they leave alone: the scripts, their calls and their devices.
LeavesScripts ==
  /\ script' = script /\ given' = given /\ raced' = raced
  /\ \A d \in ScriptSlots : calls'[d] = calls[d]
  /\ \A q \in Routers : SameRow(q)

LEMMA Leaves ==
  ASSUME NEW c \in PasteSlots \cup AgentSlots, \A d \in Slots \ {c} : calls'[d] = calls[d],
         script' = script, given' = given, raced' = raced
  PROVE  /\ (\A q \in Routers : SameRow(q)) => LeavesScripts
         /\ rows' = rows => LeavesScripts
<1>1. \A d \in ScriptSlots : d \in Slots /\ d # c
  BY TheSlots
<1>2. rows' = rows => \A q \in Routers : SameRow(q)
  BY DEF SameRow, At
<1>. QED BY <1>1, <1>2 DEF LeavesScripts

\* What a step of a bootstrap call must respect, so that the agents that are installed
\* go on: what is spent stays so, and only a row whose token is in use gets an agent.
LEMMA AgentsGoOn ==
  ASSUME AgentTypeOK, TokenInv, shared \subseteq shared', pasted' \in Nat, pasted <= pasted',
         \A t \in Tokens : Spent(t) => Spent(t)',
         \A c \in PasteSlots : c[2] <= pasted /\ Busy(c)' => Busy(c),
         \A i \in DOMAIN rows :
           /\ i \in DOMAIN rows' /\ Pasted(rows'[i]) = Pasted(rows[i])
           /\ \/ rows'[i].agent = rows[i].agent
              \/ /\ ~Spent(Pasted(rows[i]))
                 /\ \E c \in PasteSlots : Busy(c) /\ rows'[i].agent = c[2],
         \A k \in DOMAIN rows' \ DOMAIN rows : rows'[k].agent = Nobody
  PROVE  /\ \A a : Served(a) => Served(a)'
         /\ \A c \in AgentSlots :
              ~Busy(c)' \/ (calls'[c] = calls[c] /\ (Busy(c)' <=> Busy(c))) => CheckinFits(c)'
         /\ \A r \in Routers : agent'[r] = agent[r] => AgentFits(r)'
<1>0. /\ RowsFit /\ pasted \in 0..MaxJoins /\ Unseen \notin 0..MaxJoins /\ Nobody \notin Tokens
      /\ MaxJoins \in Nat
  BY TheHosts DEF TokenInv, AgentTypeOK
<1>1. ASSUME NEW a, Served(a) PROVE Served(a)'
  <2>1. a \in 1..pasted /\ a # Nobody /\ a # Unseen /\ a \in Pastes /\ <<"paste", a>> \in PasteSlots
    BY <1>0, <1>1, TheSlots DEF Served, Pastes, Nobody
  <2>2. ~Busy(<<"paste", a>>)' /\ ~Busy(<<"paste", a>>) /\ a \in 1..pasted'
    BY <1>0, <1>1, <2>1 DEF Served
  <2>3. ASSUME NEW i \in DOMAIN rows', rows'[i].agent = a, Pasted(rows'[i]) \notin shared
        PROVE  Spent(Pasted(rows[i]))'
    <3>1. i \in DOMAIN rows
      BY <2>1, <2>3
    <3>2. \A c \in PasteSlots : c[2] = a => ~Busy(c)
      BY <2>2, TheSlots
    <3>3. rows[i].agent = a
      BY <2>3, <3>1, <3>2
    <3>4. Pasted(rows[i]) \in Tokens /\ Pasted(rows'[i]) = Pasted(rows[i])
      BY <1>0, <2>1, <3>1, <3>3 DEF RowsFit
    <3>5. Spent(Pasted(rows[i]))
      BY <1>1, <2>3, <3>1, <3>3, <3>4 DEF Served
    <3>. QED BY <3>4, <3>5 DEF Spent, Using
  <2>. QED BY <2>1, <2>2, <2>3 DEF Served, Spent, Using
<1>2. ASSUME NEW c \in AgentSlots, ~Busy(c)' \/ (calls'[c] = calls[c] /\ (Busy(c)' <=> Busy(c)))
      PROVE  CheckinFits(c)'
  <2>1. CheckinFits(c)
    BY DEF TokenInv
  <2>. QED BY <1>1, <1>2, <2>1 DEF CheckinFits
<1>3. ASSUME NEW r \in Routers, agent'[r] = agent[r] PROVE AgentFits(r)'
  <2>0. PICK a : a = agent[r]
    OBVIOUS
  <2> SUFFICES ASSUME a # Nobody PROVE AgentFits(r)'
    BY <1>3, <2>0 DEF AgentFits
  <2>1. Served(a) /\ Served(a)'
    BY <1>1, <2>0 DEF TokenInv, AgentFits
  <2>2. ASSUME shared' = {} PROVE \E i \in DOMAIN rows' : rows'[i].agent = a
    <3>1. PICK i \in DOMAIN rows : rows[i].agent = a
      BY <2>0, <2>2 DEF TokenInv, AgentFits
    <3>2. Spent(Pasted(rows[i]))
      BY <2>1, <2>2, <3>1 DEF Served
    <3>. QED BY <3>1, <3>2
  <2>. QED BY <1>3, <2>0, <2>1, <2>2 DEF AgentFits, Served
<1>. QED BY <1>1, <1>2, <1>3

\* Of a bootstrap call at work.
LEMMA TheBootstrap ==
  ASSUME AgentTypeOK, TokenInv, NEW c \in PasteSlots, Busy(c)
  PROVE  /\ c \in Slots /\ calls[c] \in Call /\ PasteFits(c) /\ calls[c].token \in Tokens
         /\ c[2] \in 1..pasted /\ c[2] # Nobody /\ c[2] # Unseen
         /\ \A d \in PasteSlots : d[2] = c[2] => d = c
         /\ calls[c].at # "find_token" => ~Spent(calls[c].token)
<1>1. PasteFits(c) /\ c \in Slots /\ calls[c] \in Call /\ c[2] \in Pastes /\ MaxJoins \in Nat
      /\ c[2] # Unseen
  BY TheSlots, TheHosts, TheCall DEF TokenInv, Pastes
<1>2. pasted \in Nat /\ c[2] <= pasted
  BY <1>1 DEF PasteFits, AgentTypeOK
<1>3. \A d \in PasteSlots : d[2] = c[2] => d = c
  BY TheSlots
<1>4. c[2] \in 1..pasted /\ c[2] # Nobody
  BY <1>1, <1>2 DEF Pastes, Nobody
<1>5. calls[c].token \in Tokens
  BY <1>1 DEF PasteFits
<1>6. calls[c].at # "find_token" => ~Spent(calls[c].token)
  BY DEF Spent, Using
<1>. QED BY <1>1, <1>3, <1>4, <1>5, <1>6

LEMMA PasteKeeps ==
  ASSUME AgentTypeOK, TokenInv, NEW r \in Routers, NEW t \in Tokens, Paste(r, t)
  PROVE  AgentTypeOK' /\ TokenInv' /\ LeavesScripts
<1>1. pasted \in 0..MaxJoins /\ MaxJoins \in Nat /\ pasted' = pasted + 1 /\ pasted < MaxJoins
  <2>1. {q \in Routers : script[q] # "off"} \subseteq Routers
    OBVIOUS
  <2>2. Cardinality({q \in Routers : script[q] # "off"}) \in Nat
    BY <2>1, TheHosts, FS_Subset, FS_CardinalityType
  <2>. QED BY <2>2, TheHosts DEF AgentTypeOK, Paste, Joins
<1>a. PICK c : c = <<"paste", pasted + 1>>
  OBVIOUS
<1>2. c \in PasteSlots /\ c \in Slots /\ c[2] = pasted + 1 /\ c[2] # Unseen /\ c[2] \in Nat
      /\ \A d \in PasteSlots : d # c => d[2] # c[2]
  BY <1>1, <1>a, TheSlots, TheHosts DEF Pastes
<1>3. UNCHANGED <<token, rows, agent, script, given, shared, raced>>
  BY DEF Paste, store, router
<1>4. t \in Nat
  BY DEF Tokens
<1>5. /\ calls' \in [Slots -> Call \cup {Free}] /\ Busy(c)'
      /\ calls'[c].kind = "bootstrap" /\ calls'[c].token = t /\ calls'[c].at = "find_token"
      /\ \A d \in Slots \ {c} : calls'[d] = calls[d] /\ (Busy(d)' <=> Busy(d))
  <2>1. Begin(c, "bootstrap", r, t, "find_token")
    BY <1>a DEF Paste
  <2>2. "find_token" \in CallStages
    BY DEF CallStages, PasteStages
  <2>. QED BY <1>2, <1>4, <2>1, <2>2, Begins
<1>6. AgentTypeOK'
  BY <1>1, <1>3, <1>5 DEF AgentTypeOK
<1>7. RowsFit' /\ \A i \in DOMAIN rows : rows[i].agent # c[2]
  <2>1. RowsFit
    BY DEF TokenInv
  <2>. QED BY <1>1, <1>2, <1>3, <2>1 DEF RowsFit, Nobody
<1>8. \A d \in PasteSlots : d \in Slots
  BY TheSlots
<1>9. \A d \in PasteSlots : \A u : Using(d, u)' <=> (Using(d, u) /\ d # c)
  BY <1>5, <1>8 DEF Using
<1>10. ~Busy(c)
  <2>1. Busy(c) => c[2] <= pasted
    BY <1>2 DEF TokenInv, PasteFits
  <2>. QED BY <1>1, <1>2, <2>1
<1>11. \A d \in PasteSlots : \A u : Using(d, u)' <=> Using(d, u)
  BY <1>9, <1>10 DEF Using
<1>12. \A u \in Tokens : Spent(u) => Spent(u)'
  BY <1>3, <1>11 DEF Spent
<1>13. ASSUME NEW d \in PasteSlots PROVE PasteFits(d)'
  <2>1. CASE d = c
    BY <1>1, <1>2, <1>3, <1>5, <1>7, <2>1 DEF PasteFits, PasteStages
  <2>2. CASE d # c
    <3>1. PasteFits(d) /\ calls'[d] = calls[d] /\ (Busy(d)' <=> Busy(d)) /\ d[2] \in Nat
      BY <1>5, <1>8, <2>2, TheSlots DEF TokenInv, Pastes
    <3>. QED BY <1>1, <1>3, <3>1 DEF PasteFits
  <2>. QED BY <2>1, <2>2
<1>14. ASSUME NEW u \in Tokens \ shared PROVE TokenFits(u)'
  BY <1>3, <1>11, <1>12, <1>14 DEF TokenInv, TokenFits
<1>15. \A d \in AgentSlots : calls'[d] = calls[d] /\ (Busy(d)' <=> Busy(d))
  BY <1>2, <1>5, TheSlots
<1>16. \A d \in PasteSlots : d[2] <= pasted /\ Busy(d)' => Busy(d)
  BY <1>1, <1>2, <1>5, <1>8
<1>17. (\A d \in AgentSlots : CheckinFits(d)') /\ \A q \in Routers : AgentFits(q)'
  BY <1>1, <1>3, <1>12, <1>15, <1>16, AgentsGoOn
<1>18. LeavesScripts
  BY <1>2, <1>3, <1>5, Leaves
<1>. QED BY <1>3, <1>6, <1>7, <1>13, <1>14, <1>17, <1>18 DEF TokenInv

\* Of the other calls, when one call of a paste goes on.
LEMMA TheOthers ==
  ASSUME NEW c \in PasteSlots, GoesOn(c) \/ Ends(c)
  PROVE  /\ \A d \in PasteSlots \ {c} :
              calls'[d] = calls[d] /\ (Busy(d)' <=> Busy(d)) /\ d[2] # c[2]
              /\ \A u : Using(d, u)' <=> Using(d, u)
         /\ \A d \in AgentSlots : calls'[d] = calls[d] /\ (Busy(d)' <=> Busy(d))
<1>1. \A d \in Slots \ {c} : calls'[d] = calls[d] /\ (Busy(d)' <=> Busy(d))
  BY DEF GoesOn, Ends
<1>2. \A d \in PasteSlots \ {c} : d \in Slots /\ d[2] # c[2]
  BY TheSlots
<1>3. \A d \in AgentSlots : d \in Slots /\ d # c
  BY TheSlots
<1>. QED BY <1>1, <1>2, <1>3 DEF Using

\* The parts of the rest, when a call is over and nothing is stored.
LEMMA TokensStay ==
  ASSUME AgentTypeOK, TokenInv, NEW c \in Slots, calls' = [calls EXCEPT ![c] = Free],
         UNCHANGED <<store, agent, given, shared, pasted>>,
         script' \in [Routers -> {"off", "idle", "enroll", "approved", "ack", "done"}]
  PROVE  AgentTypeOK' /\ TokenInv'
<1>1. Ends(c)
  BY Freed
<1>2. AgentTypeOK'
  BY <1>1 DEF AgentTypeOK, Ends, store
<1>3. \A d \in PasteSlots \cup AgentSlots : d \in Slots
  BY TheSlots
<1>4. \A d \in PasteSlots \cup AgentSlots : ~Busy(d)' \/ (calls'[d] = calls[d] /\ Busy(d))
  BY <1>1, <1>3 DEF Ends
<1>5. TokenInv'
  BY <1>4, BesideTokens DEF store
<1>. QED BY <1>2, <1>5

LEMMA RefuseKeeps ==
  ASSUME AgentTypeOK, TokenInv, NEW c \in Slots, Refuse(c) \/ StatementFails(c)
  PROVE  /\ AgentTypeOK' /\ TokenInv'
         /\ c \in PasteSlots \cup AgentSlots => LeavesScripts
<1>1. script' \in [Routers -> {"off", "idle", "enroll", "approved", "ack", "done"}]
  BY DEF Refuse, StatementFails, Heard, AgentTypeOK
<1>2. ASSUME c \in PasteSlots \cup AgentSlots PROVE LeavesScripts
  <2>1. c[1] # "script"
    BY <1>2, TheSlots
  <2>2. script' = script /\ given' = given /\ raced' = raced /\ rows' = rows
        /\ calls' = [calls EXCEPT ![c] = Free]
    BY <2>1 DEF Refuse, StatementFails, Heard, store
  <2>3. Ends(c)
    BY <2>2, Freed
  <2>. QED BY <1>2, <2>2, <2>3, Leaves DEF Ends
<1>. QED BY <1>1, <1>2, TokensStay DEF Refuse, StatementFails

LEMMA FindTokenKeeps ==
  ASSUME AgentTypeOK, TokenInv, NEW c \in PasteSlots, BootstrapFindToken(c)
  PROVE  AgentTypeOK' /\ TokenInv' /\ LeavesScripts
<1>0. Busy(c) /\ calls[c].kind = "bootstrap" /\ calls[c].at = "find_token"
  BY DEF BootstrapFindToken, Reaches
<1> DEFINE t == calls[c].token
<1>1. c \in Slots /\ PasteFits(c) /\ t \in Tokens /\ c[2] # Nobody /\ c[2] # Unseen
  BY <1>0, TheBootstrap
<1>2. CASE ~Valid(t)
  BY <1>1, <1>2, RefuseKeeps DEF BootstrapFindToken
<1>3. CASE Valid(t)
  <2>0. PICK u \in Tokens : u = t
    BY <1>1
  <2>1. /\ calls' = Goto(c, "placeholder")
        /\ shared' = IF InUse(c, u) THEN shared \cup {u} ELSE shared
        /\ token' = token /\ rows' = rows /\ agent' = agent /\ pasted' = pasted
        /\ given' = given /\ script' = script /\ raced' = raced /\ token[u] = "free"
    BY <1>3, <2>0 DEF BootstrapFindToken, store, router, Valid
  <2>2. /\ GoesOn(c) /\ calls'[c].at = "placeholder" /\ calls'[c].token = u
    BY <1>0, <1>1, <2>0, <2>1, GoesTo DEF CallStages, PasteStages
  <2>3. AgentTypeOK'
    BY <2>1, <2>2 DEF AgentTypeOK, GoesOn
  <2>4. /\ \A d \in PasteSlots \ {c} : /\ calls'[d] = calls[d] /\ (Busy(d)' <=> Busy(d))
                                       /\ \A w : Using(d, w)' <=> Using(d, w)
        /\ \A d \in AgentSlots : calls'[d] = calls[d] /\ (Busy(d)' <=> Busy(d))
    BY <2>2, TheOthers
  <2>5. Busy(c) /\ Busy(c)' /\ calls'[c].kind = "bootstrap"
    BY <1>0, <2>2 DEF GoesOn
  <2>6. \A w : Using(c, w)' <=> w = u
    BY <2>2, <2>5 DEF Using
  <2>7. ~Spent(u)
    BY <2>1 DEF Spent
  <2>8. \A w \in Tokens : Spent(w) => Spent(w)'
    BY <2>1, <2>4, <2>6, <2>7 DEF Spent
  <2>9. RowsFit'
    BY <2>1 DEF TokenInv, RowsFit
  <2>10. ASSUME NEW d \in PasteSlots PROVE PasteFits(d)'
    <3>1. CASE d = c
      BY <1>0, <1>1, <2>0, <2>1, <2>2, <2>5, <3>1 DEF PasteFits, PasteStages
    <3>2. CASE d # c
      <4>1. PasteFits(d) /\ calls'[d] = calls[d] /\ (Busy(d)' <=> Busy(d))
            /\ shared \subseteq shared'
        BY <2>1, <2>4, <3>2 DEF TokenInv
      <4>. QED BY <2>1, <4>1 DEF PasteFits
    <3>. QED BY <3>1, <3>2
  <2>11. ASSUME NEW w \in Tokens \ shared' PROVE TokenFits(w)'
    <3>1. TokenFits(w)
      BY <2>1 DEF TokenInv
    <3>2. CASE w # u
      BY <2>1, <2>4, <2>6, <2>8, <3>1, <3>2 DEF TokenFits
    <3>3. CASE w = u
      <4>1. \A d \in PasteSlots \ {c} : ~Using(d, w)
        BY <2>1, <3>3 DEF InUse, Using
      <4>2. \A d \in PasteSlots : Using(d, w)' => d = c
        BY <2>4, <4>1
      <4>. QED BY <2>1, <2>7, <3>1, <3>3, <4>2 DEF TokenFits
    <3>. QED BY <3>2, <3>3
  <2>12. pasted \in Nat /\ shared \subseteq shared'
    BY <2>1 DEF AgentTypeOK
  <2>13. (\A d \in AgentSlots : CheckinFits(d)') /\ \A r \in Routers : AgentFits(r)'
    BY <2>1, <2>4, <2>5, <2>8, <2>12, AgentsGoOn
  <2>14. LeavesScripts
    BY <2>1, <2>2, Leaves DEF GoesOn
  <2>. QED BY <2>3, <2>9, <2>10, <2>11, <2>13, <2>14 DEF TokenInv
<1>. QED BY <1>2, <1>3

LEMMA PlaceholderKeeps ==
  ASSUME AgentTypeOK, TokenInv, NEW c \in PasteSlots, BootstrapPlaceholder(c)
  PROVE  AgentTypeOK' /\ TokenInv' /\ LeavesScripts
<1>0. Busy(c) /\ calls[c].kind = "bootstrap" /\ calls[c].at = "placeholder"
  BY DEF BootstrapPlaceholder, Reaches
<1>1. /\ c \in Slots /\ PasteFits(c) /\ calls[c].token \in Tokens
      /\ c[2] # Nobody /\ c[2] # Unseen /\ ~Spent(calls[c].token)
  BY <1>0, TheBootstrap
<1>2. PICK t \in Tokens : t = calls[c].token
  BY <1>1
<1>3. /\ Upsert(Pending(t), TRUE, "discovered", t)
      /\ calls' = [calls EXCEPT ![c].at = "agent_token", ![c].row = UpsertedRow(Pending(t))]
      /\ token' = token /\ agent' = agent /\ script' = script /\ given' = given
      /\ shared' = shared /\ pasted' = pasted /\ raced' = raced
  BY <1>2 DEF BootstrapPlaceholder, Keep, router
<1>20. token' = token /\ shared' = shared /\ pasted' = pasted /\ agent' = agent
  BY <1>3
<1>4. PICK k : k = UpsertedRow(Pending(t))
  OBVIOUS
<1>5. /\ rows' \in Seq(Row) /\ DOMAIN rows' = DOMAIN rows \cup {k}
      /\ \A i \in DOMAIN rows : KeptBut(i) /\ (i # k => rows'[i] = rows[i])
      /\ rows'[k].host = Pending(t)
      /\ At(Pending(t)) # {} => k = RowOf(Pending(t)) /\ k \in DOMAIN rows
      /\ At(Pending(t)) = {} =>
           k \notin DOMAIN rows /\ rows'[k].agent = Nobody /\ Pasted(rows'[k]) = t
  <2>0. \A row : row.host = Pending(t) => Pasted(row) = row.madeWith
    BY DEF Pasted, Pending
  <2>1. RowsFit /\ Pending(t) \in Hosts /\ "discovered" \in DeviceStates
        /\ t \in Tokens \cup {Nobody}
        /\ TRUE \in BOOLEAN
    BY TheHosts DEF TokenInv, DeviceStates
  <2>2. PICK host \in Hosts : host = Pending(t)
    BY <2>1
  <2>3. PICK yes \in BOOLEAN : yes = TRUE
    BY <2>1
  <2>4. Upsert(host, yes, "discovered", t)
    BY <1>3, <2>2, <2>3
  <2>5. k = UpsertedRow(host)
    BY <1>4, <2>2
  <2>6. PICK state \in DeviceStates : state = "discovered"
    BY <2>1
  <2>7. Upsert(host, yes, state, t)
    BY <2>4, <2>6
  <2>8. Upserts(host, state, t, k)
    BY <2>1, <2>5, <2>7, Upserted
  <2>. QED BY <2>0, <2>2, <2>8 DEF Upserts
<1>6. k \in Nat
  <2>1. k \in DOMAIN rows' /\ DOMAIN rows' = 1..Len(rows') /\ Len(rows') \in Nat
    BY <1>5, LenProperties
  <2>. QED BY <2>1
<1>7. /\ GoesOn(c) /\ calls'[c].at = "agent_token" /\ calls'[c].token = t /\ calls'[c].row = k
  BY ZenonT(60), <1>0, <1>1, <1>2, <1>3, <1>4, <1>6, GoesWithRow DEF CallStages, PasteStages
<1>8. AgentTypeOK'
  BY <1>3, <1>5, <1>7 DEF AgentTypeOK, GoesOn
<1>9. /\ \A d \in PasteSlots \ {c} : /\ calls'[d] = calls[d] /\ (Busy(d)' <=> Busy(d))
                                     /\ \A w : Using(d, w)' <=> Using(d, w)
      /\ \A d \in AgentSlots : calls'[d] = calls[d] /\ (Busy(d)' <=> Busy(d))
  BY <1>7, TheOthers
<1>10. Busy(c) /\ Busy(c)' /\ calls'[c].kind = "bootstrap"
  BY <1>0, <1>7 DEF GoesOn
<1>11. \A d \in PasteSlots : \A w : Using(d, w)' <=> Using(d, w)
  BY <1>0, <1>2, <1>7, <1>9, <1>10 DEF Using
<1>12. \A w \in Tokens : Spent(w) <=> Spent(w)'
  BY <1>3, <1>11 DEF Spent
<1>13. /\ \A i \in DOMAIN rows : /\ i \in DOMAIN rows' /\ rows'[i].host = rows[i].host
                                 /\ rows'[i].agent = rows[i].agent
                                 /\ Pasted(rows'[i]) = Pasted(rows[i])
       /\ \A i \in DOMAIN rows' \ DOMAIN rows : i = k /\ rows'[i].agent = Nobody
          /\ At(Pending(t)) = {}
  BY <1>5 DEF KeptBut
<1>14. k \in DOMAIN rows' /\ Pasted(rows'[k]) = t
  <2>1. CASE At(Pending(t)) = {}
    BY <1>5, <2>1
  <2>2. CASE At(Pending(t)) # {}
    <3>1. k \in DOMAIN rows /\ rows[k].host = Pending(t)
      BY <1>5, <2>2, RowOfFound
    <3>2. Pasted(rows[k]) = t
      BY <3>1, TheHosts DEF TokenInv, RowsFit
    <3>. QED BY <1>13, <3>1, <3>2
  <2>. QED BY <2>1, <2>2
<1>15. RowsFit'
  <2>1. \A i \in DOMAIN rows' : i \in DOMAIN rows \/ (i = k /\ At(Pending(t)) = {})
    BY <1>13
  <2>2. \A i \in DOMAIN rows : At(Pending(t)) = {} => rows[i].host # Pending(t)
    BY DEF At
  <2>3. \A i, j \in DOMAIN rows' : rows'[i].host = rows'[j].host => i = j
    BY <1>5, <1>13, <2>1, <2>2 DEF TokenInv, RowsFit
  <2>4. pasted \in Nat
    BY DEF AgentTypeOK
  <2>5. ASSUME NEW i \in DOMAIN rows', i \notin DOMAIN rows
        PROVE  Pasted(rows'[i]) \in Tokens /\ rows'[i].agent \in 0..pasted'
               /\ rows'[i].host = Pending(Pasted(rows'[i]))
    BY <1>3, <1>5, <1>13, <1>14, <2>4, <2>5 DEF Nobody
  <2>6. \A i \in DOMAIN rows : \/ Pasted(rows[i]) = Nobody /\ rows[i].agent \in {Nobody, Unseen}
                                  /\ \E r \in Looping : rows[i].host = Serial(r)
                               \/ Pasted(rows[i]) \in Tokens /\ rows[i].agent \in 0..pasted
                                  /\ \/ rows[i].host = Pending(Pasted(rows[i]))
                                     \/ \E r \in Routers : rows[i].host = Address(r)
    BY DEF TokenInv, RowsFit
  <2>. QED BY <1>3, <1>13, <2>3, <2>5, <2>6 DEF RowsFit
<1>16. ASSUME NEW d \in PasteSlots PROVE PasteFits(d)'
  <2>0. \A i \in DOMAIN rows' : rows'[i].agent # Nobody =>
          i \in DOMAIN rows /\ rows[i].agent = rows'[i].agent
    BY <1>13
  <2>1. CASE d = c
    BY ZenonT(60), <1>1, <1>2, <1>3, <1>7, <1>10, <1>13, <1>14, <2>0, <2>1
         DEF PasteFits, PasteStages
  <2>2. CASE d # c
    <3>1. PasteFits(d) /\ calls'[d] = calls[d] /\ (Busy(d)' <=> Busy(d)) /\ d[2] # Nobody
      BY <1>9, <2>2, TheSlots, TheHosts DEF TokenInv
    <3>. QED BY <1>20, <1>13, <2>0, <3>1 DEF PasteFits
  <2>. QED BY <2>1, <2>2
<1>17. ASSUME NEW w \in Tokens \ shared' PROVE TokenFits(w)'
  <2>1. TokenFits(w)
    BY <1>3 DEF TokenInv
  <2>2. \A i \in DOMAIN rows : At(Pending(t)) = {} => Pasted(rows[i]) # t \/ w # t
    BY <1>1, <1>2, <2>1 DEF TokenFits, At
  <2>3. \A i, j \in DOMAIN rows' : Pasted(rows'[i]) = w /\ Pasted(rows'[j]) = w => i = j
    BY <1>13, <1>14, <2>1, <2>2 DEF TokenFits
  <2>4. \A i \in DOMAIN rows' : Pasted(rows'[i]) = w /\ rows'[i].host # Pending(w) => Spent(w)
    BY <1>5, <1>13, <1>14, <2>1 DEF TokenFits
  <2>. QED BY <1>11, <1>12, <2>1, <2>3, <2>4 DEF TokenFits
<1>18. pasted \in Nat
  BY DEF AgentTypeOK
<1>19. (\A d \in AgentSlots : CheckinFits(d)') /\ \A r \in Routers : AgentFits(r)'
  BY <1>20, <1>9, <1>10, <1>12, <1>13, <1>18, AgentsGoOn
<1>21. LeavesScripts
  <2>1. ASSUME NEW q \in Routers PROVE SameRow(q)
    <3>1. Serial(q) # Pending(t)
      BY TheHosts
    <3>. QED BY <1>5, <1>13, <3>1 DEF SameRow, At
  <2>2. \A d \in Slots \ {c} : calls'[d] = calls[d]
    BY <1>7 DEF GoesOn
  <2>. QED BY <1>3, <2>1, <2>2, Leaves
<1>. QED BY <1>8, <1>15, <1>16, <1>17, <1>19, <1>21 DEF TokenInv

LEMMA AgentTokenKeeps ==
  ASSUME AgentTypeOK, TokenInv, NEW c \in PasteSlots, BootstrapAgentToken(c)
  PROVE  AgentTypeOK' /\ TokenInv' /\ LeavesScripts
<1>0. Busy(c) /\ calls[c].kind = "bootstrap" /\ calls[c].at = "agent_token"
  BY DEF BootstrapAgentToken, Reaches
<1>1. /\ c \in Slots /\ PasteFits(c) /\ calls[c].token \in Tokens /\ c[2] \in 1..pasted
      /\ c[2] # Nobody /\ c[2] # Unseen /\ ~Spent(calls[c].token)
  BY <1>0, TheBootstrap
<1>2. PICK t \in Tokens : t = calls[c].token
  BY <1>1
<1>3. PICK k \in DOMAIN rows : k = calls[c].row /\ Pasted(rows[k]) = t
  BY <1>0, <1>1, <1>2 DEF PasteFits
<1>4. /\ calls' = Goto(c, "claim") /\ token' = token /\ agent' = agent /\ script' = script
      /\ given' = given /\ shared' = shared /\ pasted' = pasted /\ raced' = raced
  BY DEF BootstrapAgentToken, Keep, router
<1>5. /\ rows' \in Seq(Row) /\ DOMAIN rows' = DOMAIN rows
      /\ \A i \in DOMAIN rows \ {k} : rows'[i] = rows[i]
      /\ rows'[k].host = rows[k].host /\ Pasted(rows'[k]) = Pasted(rows[k])
      /\ rows'[k].agent = c[2]
  <2> DEFINE new == [rows[k] EXCEPT !.agent = c[2]]
  <2>1. rows[k] \in Row /\ c[2] \in Nat
    BY <1>1, TheRows DEF AgentTypeOK
  <2>2. new \in Row /\ new.host = rows[k].host /\ Pasted(new) = Pasted(rows[k])
        /\ new.agent = c[2]
    BY <2>1 DEF Row, Pasted
  <2>3. rows' = [rows EXCEPT ![k] = new]
    BY <1>3 DEF BootstrapAgentToken
  <2> HIDE DEF new
  <2>. QED BY <2>2, <2>3, Replaced
<1>6. GoesOn(c) /\ calls'[c].at = "claim" /\ calls'[c].token = t /\ calls'[c].row = k
  BY <1>0, <1>1, <1>2, <1>3, <1>4, GoesTo DEF CallStages, PasteStages
<1>7. AgentTypeOK'
  BY <1>4, <1>5, <1>6 DEF AgentTypeOK, GoesOn
<1>8. /\ \A d \in PasteSlots \ {c} : /\ calls'[d] = calls[d] /\ (Busy(d)' <=> Busy(d))
                                        /\ d[2] # c[2]
                                     /\ \A w : Using(d, w)' <=> Using(d, w)
      /\ \A d \in AgentSlots : calls'[d] = calls[d] /\ (Busy(d)' <=> Busy(d))
  BY <1>6, TheOthers
<1>9. Busy(c) /\ Busy(c)' /\ calls'[c].kind = "bootstrap"
  BY <1>0, <1>6 DEF GoesOn
<1>10. Using(c, t) /\ \A d \in PasteSlots : \A w : Using(d, w)' <=> Using(d, w)
  BY <1>0, <1>2, <1>6, <1>8, <1>9 DEF Using
<1>11. \A w \in Tokens : Spent(w) <=> Spent(w)'
  BY <1>4, <1>10 DEF Spent
<1>12. /\ \A i \in DOMAIN rows : /\ i \in DOMAIN rows' /\ rows'[i].host = rows[i].host
                                 /\ Pasted(rows'[i]) = Pasted(rows[i])
                                 /\ rows'[i].agent = rows[i].agent
                                    \/ (i = k /\ rows'[i].agent = c[2])
       /\ \A i \in DOMAIN rows' : i \in DOMAIN rows
  BY <1>5
<1>13. RowsFit'
  <2>1. t # Nobody /\ RowsFit /\ pasted' = pasted
    BY <1>4, TheHosts DEF TokenInv
  <2>2. \A i, j \in DOMAIN rows' : rows'[i].host = rows'[j].host => i = j
    BY <1>12, <2>1 DEF RowsFit
  <2>3. PICK a \in 1..pasted : a = c[2]
    BY <1>1
  <2>4. a \in 0..pasted
    BY DEF AgentTypeOK
  <2>. QED BY <1>3, <1>12, <2>1, <2>2, <2>3, <2>4 DEF RowsFit
<1>14. ASSUME NEW d \in PasteSlots PROVE PasteFits(d)'
  <2>1. CASE d = c
    <3>1. \A i \in DOMAIN rows' : rows'[i].agent = c[2] => Pasted(rows'[i]) = t
      BY <1>1, <1>2, <1>3, <1>9, <1>12 DEF PasteFits
    <3>. QED BY <1>1, <1>3, <1>4, <1>5, <1>6, <1>9, <2>1, <3>1 DEF PasteFits, PasteStages
  <2>2. CASE d # c
    <3>1. PasteFits(d) /\ calls'[d] = calls[d] /\ (Busy(d)' <=> Busy(d)) /\ d[2] # c[2]
      BY <1>8, <2>2 DEF TokenInv
    <3>2. SUFFICES ASSUME Busy(d) PROVE PasteFits(d)'
      BY <3>1 DEF PasteFits
    <3>3. \A i \in DOMAIN rows' : rows'[i].agent = d[2] => Pasted(rows'[i]) = calls[d].token
      BY <1>12, <3>1, <3>2 DEF PasteFits
    <3>4. ASSUME calls[d].at \in {"claim", "answer"}, calls[d].token \notin shared
          PROVE  rows'[calls[d].row].agent = d[2]
      <4>1. rows[calls[d].row].agent = d[2] /\ calls[d].row \in DOMAIN rows
            /\ Pasted(rows[calls[d].row]) = calls[d].token /\ calls[d].token \in Tokens
        BY <3>1, <3>2, <3>4 DEF PasteFits
      <4>2. Using(d, calls[d].token)
        BY <3>2, <3>4 DEF Using
      <4>3. calls[d].row # k
        BY <1>3, <1>10, <2>2, <3>4, <4>1, <4>2 DEF TokenInv, TokenFits
      <4>. QED BY <1>12, <4>1, <4>3
    <3>. QED BY <1>4, <1>12, <3>1, <3>3, <3>4 DEF PasteFits
  <2>. QED BY <2>1, <2>2
<1>15. ASSUME NEW w \in Tokens \ shared' PROVE TokenFits(w)'
  <2>1. TokenFits(w)
    BY <1>4 DEF TokenInv
  <2>. QED BY <1>10, <1>11, <1>12, <2>1 DEF TokenFits
<1>16. pasted \in Nat /\ shared \subseteq shared'
  BY <1>4 DEF AgentTypeOK
<1>17. \A i \in DOMAIN rows : /\ i \in DOMAIN rows' /\ Pasted(rows'[i]) = Pasted(rows[i])
                              /\ \/ rows'[i].agent = rows[i].agent
                                 \/ /\ ~Spent(Pasted(rows[i]))
                                    /\ \E d \in PasteSlots : Busy(d) /\ rows'[i].agent = d[2]
  BY <1>1, <1>2, <1>3, <1>9, <1>12
<1>18. (\A d \in AgentSlots : CheckinFits(d)') /\ \A r \in Routers : AgentFits(r)'
  <2>1. \A i \in DOMAIN rows' \ DOMAIN rows : rows'[i].agent = Nobody
    BY <1>12
  <2>2. \A d \in PasteSlots : d[2] <= pasted /\ Busy(d)' => Busy(d)
    BY <1>8, <1>9
  <2>3. pasted' \in Nat /\ pasted <= pasted' /\ \A w \in Tokens : Spent(w) => Spent(w)'
    BY <1>4, <1>11, <1>16
  <2>4. /\ \A d \in AgentSlots :
              ~Busy(d)' \/ (calls'[d] = calls[d] /\ (Busy(d)' <=> Busy(d))) => CheckinFits(d)'
        /\ \A r \in Routers : agent'[r] = agent[r] => AgentFits(r)'
    BY <1>16, <1>17, <2>1, <2>2, <2>3, AgentsGoOn
  <2>. QED BY <1>4, <1>8, <2>4
<1>19. LeavesScripts
  <2>1. ASSUME NEW q \in Routers PROVE SameRow(q)
    <3>1. rows[k].host # Serial(q)
      BY <1>3, TheHosts DEF TokenInv, RowsFit
    <3>. QED BY <1>5, <3>1 DEF SameRow, At
  <2>2. \A d \in Slots \ {c} : calls'[d] = calls[d]
    BY <1>6 DEF GoesOn
  <2>. QED BY <1>4, <2>1, <2>2, Leaves
<1>. QED BY <1>7, <1>13, <1>14, <1>15, <1>18, <1>19 DEF TokenInv

LEMMA ClaimKeeps ==
  ASSUME AgentTypeOK, TokenInv, NEW c \in PasteSlots, BootstrapClaim(c)
  PROVE  AgentTypeOK' /\ TokenInv' /\ LeavesScripts
<1>0. Busy(c) /\ calls[c].kind = "bootstrap" /\ calls[c].at = "claim"
  BY DEF BootstrapClaim, Reaches
<1>1. c \in Slots /\ PasteFits(c) /\ calls[c].token \in Tokens
  BY <1>0, TheBootstrap
<1>2. PICK t \in Tokens : t = calls[c].token
  BY <1>1
<1>3. /\ calls' = Goto(c, "answer") /\ rows' = rows /\ agent' = agent /\ script' = script
      /\ given' = given /\ shared' = shared /\ pasted' = pasted /\ raced' = raced
      /\ token' = [token EXCEPT ![t] = "claimed"]
  BY <1>2 DEF BootstrapClaim, claimToken, Keep, router
<1>4. /\ GoesOn(c) /\ calls'[c].at = "answer" /\ calls'[c].token = t /\ calls'[c].row = calls[c].row
  BY <1>0, <1>1, <1>2, <1>3, GoesTo DEF CallStages, PasteStages
<1>5. AgentTypeOK'
  BY <1>3, <1>4 DEF AgentTypeOK, GoesOn
<1>6. /\ \A d \in PasteSlots \ {c} : /\ calls'[d] = calls[d] /\ (Busy(d)' <=> Busy(d))
                                     /\ \A w : Using(d, w)' <=> Using(d, w)
      /\ \A d \in AgentSlots : calls'[d] = calls[d] /\ (Busy(d)' <=> Busy(d))
  BY <1>4, TheOthers
<1>7. Busy(c) /\ Busy(c)' /\ calls'[c].kind = "bootstrap"
  BY <1>0, <1>4 DEF GoesOn
<1>8. \A d \in PasteSlots : \A w : Using(d, w)' <=> Using(d, w)
  BY <1>0, <1>2, <1>4, <1>6, <1>7 DEF Using
<1>9. token'[t] = "claimed" /\ \A w \in Tokens : token[w] = "claimed" => token'[w] = "claimed"
  BY <1>3 DEF AgentTypeOK
<1>10. \A w \in Tokens : Spent(w) => Spent(w)'
  BY <1>8, <1>9 DEF Spent
<1>11. RowsFit'
  BY <1>3 DEF TokenInv, RowsFit
<1>12. ASSUME NEW d \in PasteSlots PROVE PasteFits(d)'
  <2>1. CASE d = c
    BY <1>0, <1>1, <1>2, <1>3, <1>4, <1>7, <1>9, <2>1 DEF PasteFits, PasteStages
  <2>2. CASE d # c
    <3>1. PasteFits(d) /\ calls'[d] = calls[d] /\ (Busy(d)' <=> Busy(d))
      BY <1>6, <2>2 DEF TokenInv
    <3>. QED BY <1>3, <1>9, <3>1 DEF PasteFits
  <2>. QED BY <2>1, <2>2
<1>13. ASSUME NEW w \in Tokens \ shared' PROVE TokenFits(w)'
  <2>1. TokenFits(w)
    BY <1>3 DEF TokenInv
  <2>. QED BY <1>3, <1>8, <1>10, <2>1 DEF TokenFits
<1>14. pasted \in Nat
  BY DEF AgentTypeOK
<1>15. (\A d \in AgentSlots : CheckinFits(d)') /\ \A r \in Routers : AgentFits(r)'
  BY <1>3, <1>6, <1>7, <1>10, <1>14, AgentsGoOn
<1>16. LeavesScripts
  BY <1>3, <1>4, Leaves DEF GoesOn
<1>. QED BY <1>5, <1>11, <1>12, <1>13, <1>15, <1>16 DEF TokenInv

\* The agent that is installed: its token was made for the row of a token that is claimed.
LEMMA AnswerKeeps ==
  ASSUME AgentTypeOK, TokenInv, NEW c \in PasteSlots, BootstrapAnswer(c)
  PROVE  AgentTypeOK' /\ TokenInv' /\ LeavesScripts
<1>0. Busy(c) /\ calls[c].kind = "bootstrap" /\ calls[c].at = "answer"
  BY DEF BootstrapAnswer, Reaches
<1>1. c \in Slots /\ PasteFits(c) /\ calls[c].token \in Tokens /\ c[2] \in 1..pasted
      /\ calls[c].by \in Routers /\ c[2] \in Nat
  <2>1. calls[c].by \in Routers
    BY <1>0, TheBootstrap DEF Call
  <2>. QED BY <1>0, <2>1, TheBootstrap DEF AgentTypeOK
<1>2. PICK t \in Tokens, b \in Routers, a \in 1..pasted : t = calls[c].token /\ b = calls[c].by
      /\ a = c[2]
  BY <1>1
<1>3. /\ calls' = [calls EXCEPT ![c] = Free] /\ agent' = [agent EXCEPT ![b] = a]
      /\ token' = token /\ rows' = rows /\ script' = script
      /\ given' = given /\ shared' = shared /\ pasted' = pasted /\ raced' = raced
  BY <1>2 DEF BootstrapAnswer, store
<1>4. Ends(c)
  BY <1>1, <1>3, Freed
<1>5. pasted \in Nat /\ a \in Nat
  BY <1>1, <1>2 DEF AgentTypeOK
<1>6. AgentTypeOK'
  BY <1>3, <1>4, <1>5 DEF AgentTypeOK, Ends
<1>7. /\ \A d \in PasteSlots \ {c} : /\ calls'[d] = calls[d] /\ (Busy(d)' <=> Busy(d))
                                     /\ \A w : Using(d, w)' <=> Using(d, w)
      /\ \A d \in AgentSlots : calls'[d] = calls[d] /\ (Busy(d)' <=> Busy(d))
  BY <1>4, TheOthers
<1>8. ~Busy(c)' /\ Using(c, t) /\ \A w : ~Using(c, w)'
  BY <1>0, <1>2, <1>4 DEF Ends, Using
<1>9. \A d \in PasteSlots : \A w : Using(d, w)' => Using(d, w)
  BY <1>7, <1>8
<1>10. \A w \in Tokens : Spent(w) => Spent(w)'
  BY <1>3, <1>9 DEF Spent
<1>11. RowsFit'
  BY <1>3 DEF TokenInv, RowsFit
<1>12. ASSUME NEW d \in PasteSlots PROVE PasteFits(d)'
  <2>1. CASE d = c
    BY <1>8, <2>1 DEF PasteFits
  <2>2. CASE d # c
    <3>1. PasteFits(d) /\ calls'[d] = calls[d] /\ (Busy(d)' <=> Busy(d))
      BY <1>7, <2>2 DEF TokenInv
    <3>. QED BY <1>3, <3>1 DEF PasteFits
  <2>. QED BY <2>1, <2>2
<1>13. ASSUME NEW w \in Tokens \ shared' PROVE TokenFits(w)'
  <2>1. TokenFits(w)
    BY <1>3 DEF TokenInv
  <2>. QED BY <1>3, <1>9, <1>10, <2>1 DEF TokenFits
<1>14. /\ \A d \in AgentSlots : CheckinFits(d)'
       /\ \A r \in Routers : agent'[r] = agent[r] => AgentFits(r)'
  BY <1>3, <1>5, <1>7, <1>8, <1>10, AgentsGoOn
<1>15. t \notin shared => Spent(t)'
  <2>1. token'[t] = "claimed"
    BY <1>0, <1>1, <1>2, <1>3 DEF PasteFits
  <2>2. t \notin shared => \A d \in PasteSlots : Using(d, t) => d = c
    BY <1>8 DEF TokenInv, TokenFits
  <2>3. t \notin shared => \A d \in PasteSlots : ~Using(d, t)'
    BY <1>8, <1>9, <2>2
  <2>. QED BY <2>1, <2>3 DEF Spent
<1>16. Served(a)'
  <2>1. \A i \in DOMAIN rows : rows[i].agent = a => Pasted(rows[i]) = t
    BY <1>0, <1>1, <1>2 DEF PasteFits
  <2>2. c = <<"paste", a>>
    BY <1>2, TheSlots
  <2>. QED BY <1>3, <1>8, <1>15, <2>1, <2>2 DEF Served, Spent, Using
<1>17. shared = {} => \E i \in DOMAIN rows : rows[i].agent = a
  BY <1>0, <1>1, <1>2 DEF PasteFits
<1>18. AgentFits(b)'
  <2>1. agent'[b] = a
    BY <1>3 DEF AgentTypeOK
  <2>. QED BY <1>3, <1>16, <1>17, <2>1 DEF AgentFits, Served
<1>19. \A r \in Routers : r = b \/ agent'[r] = agent[r]
  BY <1>3 DEF AgentTypeOK
<1>20. LeavesScripts
  BY <1>3, <1>4, Leaves DEF Ends
<1>. QED BY <1>6, <1>11, <1>12, <1>13, <1>14, <1>18, <1>19, <1>20 DEF TokenInv

\* When only the call of an agent goes on, the install tokens stay as they are.
LEMMA AgentGoesOn ==
  ASSUME AgentTypeOK, TokenInv, NEW c \in AgentSlots, Busy(c)' => CheckinFits(c)',
         UNCHANGED <<token, agent, script, given, shared, raced, pasted>>,
         calls' \in [Slots -> Call \cup {Free}],
         \A d \in Slots \ {c} : calls'[d] = calls[d] /\ (Busy(d)' <=> Busy(d)),
         rows' \in Seq(Row), DOMAIN rows' = DOMAIN rows, RowsFit',
         \A i \in DOMAIN rows :
           /\ Pasted(rows'[i]) = Pasted(rows[i]) /\ rows'[i].agent = rows[i].agent
           /\ \/ rows'[i].host = rows[i].host
              \/ /\ Pasted(rows[i]) \notin shared => Spent(Pasted(rows[i]))
                 /\ \A q \in Routers : Serial(q) \notin {rows[i].host, rows'[i].host},
         \A i \in DOMAIN rows : rows'[i] = rows[i] \/ \A q \in Routers : rows[i].host # Serial(q)
  PROVE  AgentTypeOK' /\ TokenInv' /\ LeavesScripts
<1>1. AgentTypeOK'
  BY DEF AgentTypeOK
<1>2. \A d \in PasteSlots : d \in Slots /\ d # c
  BY TheSlots
<1>3. \A d \in PasteSlots : calls'[d] = calls[d] /\ (Busy(d)' <=> Busy(d))
  BY <1>2
<1>4. \A d \in PasteSlots : \A w : Using(d, w)' <=> Using(d, w)
  BY <1>3 DEF Using
<1>5. \A w \in Tokens : Spent(w) <=> Spent(w)'
  BY <1>4 DEF Spent
<1>6. ASSUME NEW d \in PasteSlots PROVE PasteFits(d)'
  <2>1. PasteFits(d) /\ calls'[d] = calls[d] /\ (Busy(d)' <=> Busy(d))
    BY <1>3 DEF TokenInv
  <2>. QED BY <2>1 DEF PasteFits
<1>7. ASSUME NEW w \in Tokens \ shared' PROVE TokenFits(w)'
  <2>1. TokenFits(w)
    BY DEF TokenInv
  <2>. QED BY <1>4, <1>5, <2>1 DEF TokenFits
<1>8. pasted \in Nat
  BY DEF AgentTypeOK
<1>9. /\ \A d \in AgentSlots :
           ~Busy(d)' \/ (calls'[d] = calls[d] /\ (Busy(d)' <=> Busy(d))) => CheckinFits(d)'
      /\ \A r \in Routers : agent'[r] = agent[r] => AgentFits(r)'
  BY <1>3, <1>5, <1>8, AgentsGoOn
<1>10. \A d \in AgentSlots : CheckinFits(d)'
  <2>1. \A d \in AgentSlots \ {c} : d \in Slots
    BY TheSlots
  <2>2. ~Busy(c)' => CheckinFits(c)'
    BY DEF CheckinFits
  <2>. QED BY <1>9, <2>1, <2>2
<1>11. LeavesScripts
  <2>1. \A q \in Routers : SameRow(q)
    BY DEF SameRow, At
  <2>. QED BY <2>1, Leaves
<1>. QED BY <1>1, <1>6, <1>7, <1>9, <1>10, <1>11 DEF TokenInv

\* Of the agent token of a call at work.
LEMMA TheServed ==
  ASSUME AgentTypeOK, TokenInv, NEW a, Served(a),
         UNCHANGED <<token, rows, shared, pasted>>,
         \A d \in PasteSlots : calls'[d] = calls[d] /\ (Busy(d)' <=> Busy(d))
  PROVE  Served(a)'
<1>1. <<"paste", a>> \in PasteSlots
  BY TheHosts, TheSlots DEF Served, Pastes, AgentTypeOK
<1>2. ~Busy(<<"paste", a>>)'
  BY <1>1 DEF Served
<1>3. \A w \in Tokens : Spent(w) => Spent(w)'
  BY DEF Spent, Using
<1>4. \A i \in DOMAIN rows : rows[i].agent = a => Pasted(rows[i]) \in Tokens
  BY SMTT(30), TheHosts DEF TokenInv, RowsFit, Served, AgentTypeOK, Nobody
<1>. QED BY <1>2, <1>3, <1>4 DEF Served, Spent, Using

LEMMA CheckinStartKeeps ==
  ASSUME AgentTypeOK, TokenInv, NEW r \in Routers, CheckinStart(r)
  PROVE  AgentTypeOK' /\ TokenInv' /\ LeavesScripts
<1>1. PICK c \in AgentSlots : c = <<"agent", r>> /\ c \in Slots /\ c[2] = r
  BY ZenonT(60), TheSlots
<1>2. PICK a \in Nat : a = agent[r] /\ Served(a)
  BY DEF CheckinStart, TokenInv, AgentFits, AgentTypeOK
<1>3. UNCHANGED <<token, rows, agent, script, given, shared, raced, pasted>>
  BY DEF CheckinStart, store, Keep, router
<1>4. /\ calls' \in [Slots -> Call \cup {Free}] /\ Busy(c)'
      /\ calls'[c].kind = "checkin" /\ calls'[c].by = r /\ calls'[c].token = a
      /\ calls'[c].at = "find_device"
      /\ \A d \in Slots \ {c} : calls'[d] = calls[d] /\ (Busy(d)' <=> Busy(d))
  <2>1. Begin(c, "checkin", r, a, "find_device")
    BY <1>1, <1>2 DEF CheckinStart
  <2>2. "find_device" \in CallStages
    BY DEF CallStages, CheckinStages
  <2>. QED BY <1>1, <2>1, <2>2, Begins
<1>5. \A d \in PasteSlots : d \in Slots /\ d # c
  BY TheSlots
<1>6. Served(a)'
  BY <1>2, <1>3, <1>4, <1>5, TheServed
<1>7. CheckinFits(c)'
  BY <1>1, <1>4, <1>6 DEF CheckinFits, CheckinStages, Served
<1>8. RowsFit'
  BY <1>3 DEF TokenInv, RowsFit
<1>9. rows' \in Seq(Row)
  BY <1>3 DEF AgentTypeOK
<1>. QED BY <1>3, <1>4, <1>7, <1>8, <1>9, AgentGoesOn

LEMMA CheckinKeeps ==
  ASSUME AgentTypeOK, TokenInv, NEW c \in AgentSlots, CheckinFindDevice(c) \/ CheckinReadHost(c)
  PROVE  AgentTypeOK' /\ TokenInv' /\ LeavesScripts
<1>0. Busy(c) /\ c \in Slots /\ CheckinFits(c) /\ calls[c] \in Call
  <2>1. Busy(c) /\ c \in Slots
    BY TheSlots DEF CheckinFindDevice, CheckinReadHost, Reaches
  <2>. QED BY <2>1, TheCall DEF TokenInv
<1>1. PICK a : a = calls[c].token /\ Served(a)
  BY <1>0 DEF CheckinFits
<1> DEFINE found == {i \in DOMAIN rows : rows[i].agent = calls[c].token}
<1>2. CASE CheckinFindDevice(c) /\ found = {}
  BY <1>0, <1>2, RefuseKeeps DEF CheckinFindDevice
<1>3. CASE ~(CheckinFindDevice(c) /\ found = {})
  <2>1. UNCHANGED <<token, rows, agent, script, given, shared, raced, pasted>>
    BY <1>3 DEF CheckinFindDevice, CheckinReadHost, store, Keep, router
  <2>2. PICK k \in DOMAIN rows :
          /\ GoesOn(c) /\ calls'[c].token = a /\ calls'[c].row = k
          /\ calls'[c].at \in {"read_host", "record"}
          /\ Pasted(rows[k]) \in Tokens
          /\ (Pasted(rows[k]) \notin shared => Spent(Pasted(rows[k])))
    <3>1. CASE CheckinFindDevice(c)
      <4>1. PICK k \in found : calls' = [calls EXCEPT ![c].at = "read_host", ![c].row = k]
        BY <1>3, <3>1 DEF CheckinFindDevice
      <4>2. k \in DOMAIN rows /\ k \in Nat /\ rows[k].agent = a
        BY <1>1, TheRows
      <4>3. GoesOn(c) /\ calls'[c].token = a /\ calls'[c].row = k /\ calls'[c].at = "read_host"
        BY ZenonT(60), <1>0, <1>1, <4>1, <4>2, GoesWithRow DEF CallStages, CheckinStages
      <4>4. Pasted(rows[k]) \in Tokens
        <5>1. a \in 1..pasted /\ pasted \in 0..MaxJoins
          BY <1>1 DEF Served, AgentTypeOK
        <5>2. a # Nobody /\ a # Unseen
          BY <5>1, TheHosts DEF Nobody
        <5>. QED BY <4>2, <5>2 DEF TokenInv, RowsFit
      <4>. QED BY <1>1, <4>2, <4>3, <4>4 DEF Served
    <3>2. CASE CheckinReadHost(c)
      <4>1. PICK what \in {"placeholder", "host"} :
              calls' = [calls EXCEPT ![c].at = "record", ![c].seen = what]
        BY <3>2 DEF CheckinReadHost
      <4>2. GoesOn(c) /\ calls'[c].token = a /\ calls'[c].row = calls[c].row
            /\ calls'[c].at = "record"
        BY <1>0, <1>1, <4>1, GoesHavingSeen DEF CallStages, CheckinStages
      <4>3. calls[c].at = "read_host"
        BY <3>2 DEF CheckinReadHost, Reaches
      <4>. QED BY <1>0, <4>2, <4>3 DEF CheckinFits
    <3>. QED BY <3>1, <3>2
  <2>3. /\ calls' \in [Slots -> Call \cup {Free}] /\ Busy(c)'
        /\ calls'[c].kind = calls[c].kind /\ calls'[c].by = calls[c].by
        /\ \A d \in Slots \ {c} : calls'[d] = calls[d] /\ (Busy(d)' <=> Busy(d))
    BY <2>2 DEF GoesOn
  <2>4. \A d \in PasteSlots : d \in Slots /\ d # c
    BY TheSlots
  <2>5. Served(a)'
    BY <1>1, <2>1, <2>3, <2>4, TheServed
  <2>6. Pasted(rows[k]) \notin shared => Spent(Pasted(rows[k]))'
    BY <2>1, <2>2, <2>3, <2>4 DEF Spent, Using
  <2>7. CheckinFits(c)'
    BY <1>0, <2>1, <2>2, <2>3, <2>5, <2>6 DEF CheckinFits, CheckinStages, Served, Spent, Using
  <2>8. RowsFit' /\ rows' \in Seq(Row)
    BY <2>1 DEF TokenInv, RowsFit, AgentTypeOK
  <2>. QED BY <2>1, <2>3, <2>7, <2>8, AgentGoesOn
<1>. QED BY <1>2, <1>3

\* The address is nobody else's, and a token whose placeholder gets it is spent.
LEMMA CheckinRecordKeeps ==
  ASSUME AgentTypeOK, TokenInv, NEW c \in AgentSlots, CheckinRecord(c)
  PROVE  AgentTypeOK' /\ TokenInv' /\ LeavesScripts
<1>0. Busy(c) /\ calls[c].at = "record" /\ c \in Slots /\ CheckinFits(c) /\ calls[c] \in Call
  <2>1. Busy(c) /\ c \in Slots /\ calls[c].at = "record"
    BY TheSlots DEF CheckinRecord, Reaches
  <2>. QED BY <2>1, TheCall DEF TokenInv
<1>1. PICK k \in DOMAIN rows :
        /\ k = calls[c].row /\ Pasted(rows[k]) \in Tokens
        /\ Pasted(rows[k]) \notin shared => Spent(Pasted(rows[k]))
  BY <1>0 DEF CheckinFits
<1>2. PICK host : host = NewHost(c)
  OBVIOUS
<1>3. host \in Hosts /\ (host = rows[k].host \/ \E r \in Routers : host = Address(r))
  BY <1>0, <1>1, <1>2, TheHosts, TheRows DEF NewHost, TheRow, Row, Call
<1>4. CASE Taken(host, k)
  BY <1>0, <1>1, <1>2, <1>4, RefuseKeeps DEF CheckinRecord
<1>5. CASE ~Taken(host, k)
  <2>1. /\ rows' = [rows EXCEPT ![k].host = host, ![k].checked = TRUE]
        /\ calls' = [calls EXCEPT ![c] = Free]
        /\ UNCHANGED <<token, agent, script, given, shared, raced, pasted>>
    BY <1>1, <1>2, <1>5 DEF CheckinRecord, Keep, router
  <2>2. /\ rows' \in Seq(Row) /\ DOMAIN rows' = DOMAIN rows
        /\ \A i \in DOMAIN rows \ {k} : rows'[i] = rows[i]
        /\ rows'[k].host = host /\ Pasted(rows'[k]) = Pasted(rows[k])
        /\ rows'[k].agent = rows[k].agent
    <3> DEFINE new == [rows[k] EXCEPT !.host = host, !.checked = TRUE]
    <3>1. rows[k] \in Row /\ rows[k].host[1] # "serial"
      BY <1>1, TheRows, TheHosts DEF TokenInv, RowsFit, Pasted
    <3>2. new \in Row /\ new.host = host /\ new.madeWith = rows[k].madeWith
          /\ new.agent = rows[k].agent
      BY <1>3, <3>1 DEF Row
    <3>4. Pasted(new) = Pasted(rows[k])
      BY <1>3, <3>1, <3>2 DEF Pasted, Address
    <3>3. rows' = [rows EXCEPT ![k] = new]
      BY <2>1
    <3> HIDE DEF new
    <3>. QED BY <3>2, <3>3, <3>4, Replaced
  <2>3. RowsFit'
    <3>1. \A i \in DOMAIN rows \ {k} : rows[i].host # host
      BY <1>5 DEF Taken, At
    <3>2. \A i, j \in DOMAIN rows' : rows'[i].host = rows'[j].host => i = j
      BY <2>2, <3>1 DEF TokenInv, RowsFit
    <3>3. Pasted(rows[k]) # Nobody
      BY <1>1, TheHosts
    <3>. QED BY <1>1, <1>3, <2>1, <2>2, <3>2, <3>3 DEF TokenInv, RowsFit
  <2>4. Ends(c)
    BY <1>0, <2>1, Freed
  <2>5. \A q \in Routers : Serial(q) \notin {rows[k].host, rows'[k].host}
    BY <1>1, <1>3, <2>2, TheHosts DEF TokenInv, RowsFit
  <2>6. \A i \in DOMAIN rows :
          /\ Pasted(rows'[i]) = Pasted(rows[i]) /\ rows'[i].agent = rows[i].agent
          /\ \/ rows'[i].host = rows[i].host
             \/ /\ Pasted(rows[i]) \notin shared => Spent(Pasted(rows[i]))
                /\ \A q \in Routers : Serial(q) \notin {rows[i].host, rows'[i].host}
    BY <1>1, <2>2, <2>5
  <2>7. \A i \in DOMAIN rows : rows'[i] = rows[i] \/ \A q \in Routers : rows[i].host # Serial(q)
    BY <2>2, <2>5
  <2>8. /\ calls' \in [Slots -> Call \cup {Free}] /\ ~Busy(c)'
        /\ \A d \in Slots \ {c} : calls'[d] = calls[d] /\ (Busy(d)' <=> Busy(d))
    BY <2>4 DEF Ends
  <2>. QED BY <2>1, <2>2, <2>3, <2>6, <2>7, <2>8, AgentGoesOn
<1>. QED BY <1>4, <1>5

-----------------------------------------------------------------------------
(* The scripts *)

\* A router that a step does not concern.
LEMMA RouterStays ==
  ASSUME NEW q \in Looping, RouterFits(q), SameRow(q), raced \subseteq raced',
         script'[q] = script[q], given'[q] = given[q],
         calls'[<<"script", q>>] = calls[<<"script", q>>],
         calls'[<<"late", q>>] = calls[<<"late", q>>]
  PROVE  RouterFits(q)'
<1>1. ASSUME NEW c, calls'[c] = calls[c], c[2] = q, ScriptCallFits(c) PROVE ScriptCallFits(c)'
  <2>1. \A i \in DOMAIN rows : rows[i].host = Serial(q) => i \in DOMAIN rows' /\ rows'[i] = rows[i]
    BY DEF SameRow, At
  <2>. QED BY <1>1, <2>1 DEF ScriptCallFits, Busy
<1>5. RowJoins(q)'
  <2>1. \A i \in DOMAIN rows' : rows'[i].host = Serial(q) =>
          i \in DOMAIN rows /\ rows[i].host = Serial(q) /\ rows'[i] = rows[i]
    BY DEF SameRow, At
  <2>. QED BY <2>1 DEF RouterFits, RowJoins, Serial
<1>2. /\ (Known(q)' <=> Known(q)) /\ (Known(q) => EnrolRow(q)' = EnrolRow(q))
  BY RowStays
<1>3. \A at : Acknowledged(q, at) => Acknowledged(q, at)'
  BY <1>2 DEF Acknowledged, Counts
<1>4. ScriptFits(q) => ScriptFits(q)'
  BY <1>2, <1>3 DEF ScriptFits, Busy, Reaches
<1>. QED BY <1>1, <1>4, <1>5 DEF RouterFits

\* What a step does to the devices: at most, it works on the one that r enrolled as.
WorksOn(r) ==
  /\ rows' \in Seq(Row)
  /\ \A i \in DOMAIN rows :
       /\ i \in DOMAIN rows' /\ rows'[i].host = rows[i].host /\ rows'[i].madeWith = rows[i].madeWith
       /\ rows'[i] = rows[i] \/ rows[i].host = Serial(r)
       /\ rows'[i].agent = rows[i].agent \/ rows'[i].agent = Unseen
  /\ \A k \in DOMAIN rows' \ DOMAIN rows :
       /\ rows'[k].host = Serial(r) /\ rows'[k].madeWith = given[r] /\ rows'[k].agent = Nobody
       /\ script[r] # "off"
       /\ \A i \in DOMAIN rows' : rows'[i].host = Serial(r) => i = k

LEMMA WorksOnNone ==
  ASSUME AgentTypeOK, NEW r, rows' = rows
  PROVE  WorksOn(r)
BY DEF WorksOn, AgentTypeOK

\* The row of a router is its only one, and no bootstrap call made it.
LEMMA TheDevice ==
  ASSUME AgentTypeOK, RowsFit, NEW r \in Routers, NEW k \in DOMAIN rows, rows[k].host = Serial(r)
  PROVE  /\ Known(r) /\ RowOf(Serial(r)) = k /\ EnrolRow(r) = rows[k] /\ rows[k] \in Row
         /\ Pasted(rows[k]) = Nobody /\ k \in Nat
         /\ \A i \in DOMAIN rows : rows[i].host = Serial(r) => i = k
<1>1. At(Serial(r)) = {k} /\ RowOf(Serial(r)) = k
  BY RowOfIs
<1>2. rows[k] \in Row /\ k \in Nat
  BY TheRows
<1>3. Pasted(rows[k]) = Nobody
  BY TheHosts DEF RowsFit
<1>. QED BY <1>1, <1>2, <1>3 DEF Known, EnrolRow, RowsFit

\* The device of r, in row k, is new.
Wrote(r, k, new) ==
  WorksOn(r) /\ rows'[k] = new /\ Known(r)' /\ EnrolRow(r)' = new /\ DOMAIN rows' = DOMAIN rows

LEMMA WorksOnOne ==
  ASSUME AgentTypeOK, RowsFit, NEW r \in Routers, NEW k \in DOMAIN rows, rows[k].host = Serial(r),
         NEW new \in Row, new.host = rows[k].host, new.madeWith = rows[k].madeWith,
         new.agent = rows[k].agent \/ new.agent = Unseen, rows' = [rows EXCEPT ![k] = new]
  PROVE  Wrote(r, k, new)
<1>1. /\ rows' \in Seq(Row) /\ DOMAIN rows' = DOMAIN rows
      /\ rows'[k] = new /\ \A i \in DOMAIN rows \ {k} : rows'[i] = rows[i]
  BY Replaced
<1>2. WorksOn(r)
  BY <1>1 DEF WorksOn
<1>3. \A i \in DOMAIN rows : rows[i].host = Serial(r) => i = k
  BY TheDevice
<1>4. At(Serial(r))' = {k}
  BY <1>1, <1>3 DEF At, Serial
<1>5. RowOf(Serial(r))' = k
  BY <1>4 DEF RowOf, Serial
<1>. QED BY <1>1, <1>2, <1>4, <1>5 DEF Known, EnrolRow, Serial, Wrote

LEMMA WorksOnNew ==
  ASSUME AgentTypeOK, RowsFit, NEW r \in Routers, NEW host \in Hosts,
         NEW site \in BOOLEAN, NEW state \in DeviceStates,
         NEW t \in Tokens \cup {Nobody}, Upsert(host, site, state, t)
  PROVE  host = Serial(r) /\ t = given[r] /\ script[r] # "off" =>
           WorksOn(r) /\ Known(r)' /\ EnrolRow(r)'.state = state
<1>2. PICK k : k = UpsertedRow(host)
  OBVIOUS
<1>3. Upserts(host, state, t, k)
  BY <1>2, Upserted
<1>4. /\ rows' \in Seq(Row) /\ DOMAIN rows' = DOMAIN rows \cup {k}
      /\ \A i \in DOMAIN rows : KeptBut(i) /\ (i # k => rows'[i] = rows[i])
      /\ rows'[k].host = host /\ rows'[k].state = state
      /\ At(host) # {} => k = RowOf(host) /\ k \in DOMAIN rows
      /\ At(host) = {} => k \notin DOMAIN rows /\ rows'[k].agent = Nobody /\ rows'[k].madeWith = t
  BY <1>3 DEF Upserts
<1> SUFFICES ASSUME host = Serial(r), t = given[r], script[r] # "off"
             PROVE  WorksOn(r) /\ Known(r)' /\ EnrolRow(r)'.state = state
  OBVIOUS
<1>5. \A i \in DOMAIN rows : rows[i].host = host => i = k
  <2>1. CASE At(host) = {}
    BY <2>1 DEF At
  <2>2. CASE At(host) # {}
    BY <1>4, <2>2, TheDevice, RowOfFound
  <2>. QED BY <2>1, <2>2
<1>6. k \in DOMAIN rows => rows[k].host = host
  BY <1>4, RowOfFound
<1>7. \A i \in DOMAIN rows' : rows'[i].host = host <=> i = k
  BY <1>4, <1>5 DEF KeptBut
<1>8. WorksOn(r)
  BY <1>4, <1>6, <1>7 DEF WorksOn, KeptBut
<1>9. At(Serial(r))' = {k}
  BY <1>4, <1>7 DEF At, Serial
<1>10. RowOf(Serial(r))' = k
  BY <1>9 DEF RowOf, Serial
<1>. QED BY <1>4, <1>8, <1>9, <1>10 DEF Known, EnrolRow, Serial

\* Everybody else's device stays, and the tokens are not concerned.
LEMMA OthersStay ==
  ASSUME AgentTypeOK, TokenInv, NEW r \in Looping, WorksOn(r),
         UNCHANGED <<agent, shared, pasted>>,
         \A c \in PasteSlots \cup AgentSlots : calls'[c] = calls[c],
         \A t \in Tokens : token[t] = "claimed" => token'[t] = "claimed"
  PROVE  TokenInv' /\ \A q \in Routers \ {r} : SameRow(q)
<1>1. r \in Routers /\ RowsFit
  BY TheHosts DEF TokenInv
<1>2. \A i \in DOMAIN rows : rows[i].host = Serial(r) => Pasted(rows[i]) = Nobody
  BY <1>1, TheDevice
<1>3. \A i \in DOMAIN rows : rows'[i].agent = rows[i].agent
      \/ (Pasted(rows[i]) = Nobody /\ rows'[i].agent = Unseen)
  BY <1>2 DEF WorksOn
<1>4. \A c \in PasteSlots \cup AgentSlots : ~Busy(c)' \/ (calls'[c] = calls[c] /\ Busy(c))
  BY DEF Busy
<1>7. /\ \A i \in DOMAIN rows : Pasted(rows'[i]) = Pasted(rows[i])
      /\ \A k \in DOMAIN rows' \ DOMAIN rows : Pasted(rows'[k]) = Nobody
  BY DEF WorksOn, Pasted, Serial
<1>5. TokenInv'
  BY <1>3, <1>4, <1>7, BesideTokens DEF WorksOn
<1>6. ASSUME NEW q \in Routers \ {r} PROVE SameRow(q)
  <2>1. Serial(q) # Serial(r)
    BY TheHosts
  <2>2. \A i \in At(Serial(q)) : i \in DOMAIN rows /\ rows[i].host = Serial(q)
    BY DEF At
  <2>3. \A i \in DOMAIN rows' : rows'[i].host = Serial(q) =>
          i \in DOMAIN rows /\ rows[i].host = Serial(q)
    BY <2>1 DEF WorksOn
  <2>. QED BY <2>1, <2>2, <2>3 DEF SameRow, WorksOn, At
<1>. QED BY <1>5, <1>6

\* A step of a script, or of a call of one: what is left to show.
LEMMA ScriptWorks ==
  ASSUME AgentTypeOK, TokenInv, ScriptInv, NEW c \in ScriptSlots, NEW r \in Looping, c[2] = r,
         WorksOn(r), UNCHANGED <<agent, shared, pasted>>, raced \subseteq raced',
         given' \in [Routers -> Tokens \cup {Nobody}],
         calls' \in [Slots -> Call \cup {Free}], \A d \in Slots \ {c} : calls'[d] = calls[d],
         token' \in [Tokens -> {"none", "free", "expired", "claimed"}],
         \A t \in Tokens : token[t] = "claimed" => token'[t] = "claimed",
         script' \in [Routers -> {"off", "idle", "enroll", "approved", "ack", "done"}],
         \A q \in Routers \ {r} : script'[q] = script[q] /\ given'[q] = given[q],
         script[r] # "off" => script'[r] # "off" /\ given'[r] = given[r],
         ScriptCallFits(c)', c = <<"late", r>> => Busy(c),
         c = <<"script", r>> /\ r \notin raced' /\ ScriptFits(r) => ScriptFits(r)'
  PROVE  AgentInv' /\ \A q \in Routers \ {r} : SameRow(q)
<1>1. AgentTypeOK'
  BY DEF AgentTypeOK, WorksOn
<1>2. \A d \in PasteSlots \cup AgentSlots : calls'[d] = calls[d]
  BY TheSlots
<1>3. TokenInv' /\ \A q \in Routers \ {r} : SameRow(q)
  BY <1>2, OthersStay
<1>4. \A i \in DOMAIN rows : i \in DOMAIN rows' /\ rows'[i].host = rows[i].host
  BY DEF WorksOn
<1>5. ASSUME NEW q \in Looping \ {r} PROVE RouterFits(q)'
  <2>1. q \in Routers \ {r} /\ RouterFits(q)
    BY TheHosts DEF ScriptInv
  <2>2. /\ <<"script", q>> \in Slots /\ <<"late", q>> \in Slots
        /\ <<"script", q>> # c /\ <<"late", q>> # c
    BY <2>1, TheSlots
  <2>. QED BY <1>3, <1>4, <2>1, <2>2, RouterStays
<1>6. RouterFits(r)'
  <2>1. RouterFits(r)
    BY DEF ScriptInv
  <2>2. c = <<"script", r>> \/ c = <<"late", r>>
    BY TheSlots
  <2>3. ASSUME NEW d \in {<<"script", r>>, <<"late", r>>} PROVE ScriptCallFits(d)'
    <3>1. CASE d = c
      BY <3>1
    <3>2. CASE d # c
      <4>1. d \in Slots /\ ScriptCallFits(d)
        BY <2>1, TheSlots DEF RouterFits
      <4>2. calls'[d] = calls[d]
        BY <3>2, <4>1
      <4>3. d[2] = r
        BY <2>3
      <4>. QED BY <1>4, <4>1, <4>2, <4>3 DEF ScriptCallFits, Busy
    <3>. QED BY <3>1, <3>2
  <2>5. RowJoins(r)'
    BY <2>1 DEF RouterFits, RowJoins, WorksOn, Serial
  <2>4. r \notin raced' => ScriptFits(r)'
    <3>1. r \notin raced' => ScriptFits(r)
      BY <2>1 DEF RouterFits
    <3>2. ScriptFits(r) => ~Busy(<<"late", r>>)
      BY DEF ScriptFits
    <3>. QED BY <2>2, <3>1, <3>2
  <2>. QED BY <2>3, <2>4, <2>5 DEF RouterFits
<1>7. ScriptInv'
  BY <1>5, <1>6 DEF ScriptInv
<1>. QED BY <1>1, <1>3, <1>7 DEF AgentInv

\* A call of a script at work.
LEMMA TheScriptCall ==
  ASSUME AgentTypeOK, ScriptInv, NEW c \in ScriptSlots, Busy(c)
  PROVE  /\ c \in Slots /\ calls[c] \in Call /\ ScriptCallFits(c) /\ calls[c].by = c[2]
         /\ c[2] \in Looping
         /\ c[2] \in Routers /\ c[1] \in {"script", "late"} /\ c = <<c[1], c[2]>>
         /\ c[1] = "script" /\ c[2] \notin raced => ScriptFits(c[2]) /\ calls[c].kind = script[c[2]]
<1>1. c \in Slots /\ c[2] \in Looping /\ c[1] \in {"script", "late"} /\ c = <<c[1], c[2]>>
      /\ c[2] \in Routers
  BY TheSlots, TheHosts
<1>2. calls[c] \in Call
  BY <1>1, TheCall
<1>3. PICK r \in Looping : r = c[2]
  BY <1>1
<1>4. RouterFits(r) /\ (c = <<"script", r>> \/ c = <<"late", r>>)
  BY <1>1, <1>3 DEF ScriptInv
<1>5. ScriptCallFits(c)
  BY <1>4 DEF RouterFits
<1>6. c[1] = "script" /\ r \notin raced => ScriptFits(r) /\ calls[c].kind = script[r]
  BY <1>1, <1>3, <1>4 DEF RouterFits, ScriptFits
<1>. QED BY <1>1, <1>2, <1>3, <1>5, <1>6 DEF ScriptCallFits

\* Nothing is stored, and what was acknowledged still is.
LEMMA NothingStored ==
  ASSUME NEW r, rows' = rows
  PROVE  /\ SameRow(r) /\ (Known(r)' <=> Known(r)) /\ (Known(r) => EnrolRow(r)' = EnrolRow(r))
         /\ \A at : Acknowledged(r, at)' <=> Acknowledged(r, at)
<1>1. SameRow(r)
  BY DEF SameRow, At
<1>2. /\ (Known(r)' <=> Known(r)) /\ (Known(r) => EnrolRow(r)' = EnrolRow(r))
  BY <1>1, RowStays
<1>. QED BY <1>1, <1>2 DEF Acknowledged, Counts

\* A call of a script is over, and the script hears of it unless it gave the call up.
LEMMA ScriptHears ==
  ASSUME AgentTypeOK, TokenInv, ScriptInv, NEW c \in ScriptSlots, Busy(c),
         NEW to \in {"idle", "approved", "done"}, Heard(c, to), calls' = [calls EXCEPT ![c] = Free],
         UNCHANGED <<store, agent, given, shared, raced, pasted>>,
         c[1] = "script" /\ to = "done" => c[2] \in raced \/ Acknowledged(c[2], "answer")
  PROVE  AgentInv' /\ \A q \in Routers \ {c[2]} : SameRow(q)
<1>1. PICK r \in Looping : /\ r = c[2] /\ r \in Routers /\ c \in Slots
                           /\ c = <<"script", r>> \/ c = <<"late", r>>
                           /\ c[1] = "script" <=> c = <<"script", r>>
  BY TheScriptCall
<1>2. token' = token /\ rows' = rows /\ agent' = agent /\ given' = given /\ shared' = shared
      /\ raced' = raced /\ pasted' = pasted
  BY DEF store
<1>3. Ends(c)
  BY <1>1, Freed
<1>4. WorksOn(r)
  BY <1>2, WorksOnNone
<1>5. /\ script' \in [Routers -> {"off", "idle", "enroll", "approved", "ack", "done"}]
      /\ \A q \in Routers \ {r} : script'[q] = script[q]
      /\ c = <<"script", r>> => script'[r] = to
      /\ script[r] # "off" => script'[r] # "off"
  BY <1>1 DEF Heard, AgentTypeOK
<1>6. ScriptCallFits(c)'
  BY <1>3 DEF Ends, ScriptCallFits
<1>7. ASSUME c = <<"script", r>>, r \notin raced', ScriptFits(r) PROVE ScriptFits(r)'
  <2>1. <<"late", r>> \in Slots \ {c}
    BY <1>7, TheSlots
  <2>2. ~Busy(<<"late", r>>)' /\ ~Busy(<<"script", r>>)'
    BY <1>3, <1>7, <2>1 DEF Ends, ScriptFits
  <2>3. script'[r] \notin {"enroll", "ack"}
    BY <1>5, <1>7
  <2>4. script'[r] = "done" => Acknowledged(r, "answer")'
    BY <1>1, <1>2, <1>5, <1>7, NothingStored
  <2>. QED BY <2>2, <2>3, <2>4 DEF ScriptFits, Reaches
<1>8. token' \in [Tokens -> {"none", "free", "expired", "claimed"}]
      /\ given' \in [Routers -> Tokens \cup {Nobody}]
      /\ \A t \in Tokens : token[t] = "claimed" => token'[t] = "claimed"
  BY <1>2 DEF AgentTypeOK
<1>9. calls' \in [Slots -> Call \cup {Free}] /\ \A d \in Slots \ {c} : calls'[d] = calls[d]
  BY <1>3 DEF Ends
<1>10. AgentInv' /\ \A q \in Routers \ {r} : SameRow(q)
  BY <1>1, <1>2, <1>4, <1>5, <1>6, <1>7, <1>8, <1>9, ScriptWorks
<1>. QED BY <1>1, <1>10

\* A call of a script goes on, and stores nothing about devices.
LEMMA ScriptGoes ==
  ASSUME AgentTypeOK, TokenInv, ScriptInv, NEW c \in ScriptSlots, GoesOn(c),
         UNCHANGED <<rows, agent, script, given, shared, raced, pasted>>,
         token' \in [Tokens -> {"none", "free", "expired", "claimed"}],
         \A t \in Tokens : token[t] = "claimed" => token'[t] = "claimed",
         ScriptCallFits(c)',
         calls'[c].kind = "enroll" /\ calls'[c].at = "upsert" =>
           calls'[c].seen = IF Known(c[2]) THEN EnrolRow(c[2]).state ELSE "nothing",
         c[1] = "script" /\ c[2] \notin raced
         /\ calls'[c].kind = "ack" /\ calls'[c].at # "find_device" =>
           Acknowledged(c[2], calls'[c].at)
  PROVE  AgentInv' /\ \A q \in Routers \ {c[2]} : SameRow(q)
<1>0. Busy(c) /\ Busy(c)' /\ calls'[c].kind = calls[c].kind
  BY DEF GoesOn
<1>1. PICK r \in Looping : /\ r = c[2] /\ r \in Routers /\ c \in Slots
                           /\ c = <<"script", r>> \/ c = <<"late", r>>
                           /\ c[1] = "script" <=> c = <<"script", r>>
  BY <1>0, TheScriptCall
<1>2. WorksOn(r)
  BY WorksOnNone
<1>3. calls' \in [Slots -> Call \cup {Free}] /\ \A d \in Slots \ {c} : calls'[d] = calls[d]
  BY DEF GoesOn
<1>4. ASSUME c = <<"script", r>>, r \notin raced', ScriptFits(r) PROVE ScriptFits(r)'
  <2>1. <<"late", r>> \in Slots \ {c}
    BY <1>4, TheSlots
  <2>2. ~Busy(<<"late", r>>)'
    BY <1>4, <2>1 DEF GoesOn, ScriptFits
  <2>3. /\ (Known(r)' <=> Known(r)) /\ (Known(r) => EnrolRow(r)' = EnrolRow(r))
        /\ \A at : Acknowledged(r, at)' <=> Acknowledged(r, at)
    BY NothingStored
  <2>4. Busy(<<"script", r>>)' /\ script'[r] \in {"enroll", "ack"}
        /\ calls'[<<"script", r>>].kind = script'[r]
    BY <1>0, <1>4 DEF ScriptFits
  <2>5. Reaches(<<"script", r>>, "enroll", "upsert")' =>
          calls'[<<"script", r>>].seen = IF Known(r)' THEN EnrolRow(r)'.state ELSE "nothing"
    BY <1>1, <1>4, <2>3 DEF Reaches
  <2>6. calls'[<<"script", r>>].kind = "ack" /\ calls'[<<"script", r>>].at # "find_device" =>
          Acknowledged(r, calls[<<"script", r>>].at)'
    <3>1. PICK at : at = calls'[c].at
      OBVIOUS
    <3>. QED BY <1>1, <1>4, <2>3, <3>1 DEF Acknowledged, Counts
  <2>7. script'[r] # "done"
    BY <2>4
  <2>. QED BY <2>2, <2>4, <2>5, <2>6, <2>7 DEF ScriptFits
<1>5. script' \in [Routers -> {"off", "idle", "enroll", "approved", "ack", "done"}]
      /\ given' \in [Routers -> Tokens \cup {Nobody}]
  BY DEF AgentTypeOK
<1>6. AgentInv' /\ \A q \in Routers \ {r} : SameRow(q)
  BY <1>0, <1>1, <1>2, <1>3, <1>4, <1>5, ScriptWorks
<1>. QED BY <1>1, <1>6

LEMMA ScriptRefused ==
  ASSUME AgentTypeOK, TokenInv, ScriptInv, NEW c \in ScriptSlots, Busy(c),
         Refuse(c) \/ StatementFails(c)
  PROVE  AgentInv'
BY ScriptHears DEF Refuse, StatementFails

LEMMA EnrollKeeps ==
  ASSUME AgentTypeOK, TokenInv, ScriptInv, NEW c \in ScriptSlots,
         EnrollFindToken(c) \/ EnrollExisting(c) \/ EnrollAnswer(c)
  PROVE  AgentInv'
<1>0. Busy(c) /\ calls[c].kind = "enroll"
  BY DEF EnrollFindToken, EnrollExisting, EnrollAnswer, Reaches
<1>1. PICK r \in Looping : /\ r = c[2] /\ r = calls[c].by /\ c \in Slots /\ calls[c] \in Call
                           /\ ScriptCallFits(c) /\ r \in Routers
  BY <1>0, TheScriptCall
<1>2. CASE EnrollAnswer(c)
  <2>1. PICK to \in {"idle", "approved", "done"} : to # "done" /\ Heard(c, to)
    BY <1>2 DEF EnrollAnswer
  <2>. QED BY <1>0, <1>2, <2>1, ScriptHears DEF EnrollAnswer
<1>3. CASE EnrollFindToken(c)
  <2>1. CASE ~Valid(calls[c].token)
    BY <1>0, <1>3, <2>1, ScriptRefused DEF EnrollFindToken
  <2>2. CASE Valid(calls[c].token)
    <3>1. calls' = Goto(c, "existing")
          /\ UNCHANGED <<token, rows, agent, script, given, shared, raced, pasted>>
      BY <1>3, <2>2 DEF EnrollFindToken, store, router, Keep
    <3>2. calls[c].seen \in DeviceStates \cup {"nothing"}
      BY <1>0, <1>1 DEF ScriptCallFits
    <3>3. /\ GoesOn(c) /\ calls'[c].at = "existing" /\ calls'[c].seen = calls[c].seen
          /\ calls'[c].token = calls[c].token
      BY <1>0, <1>1, <3>1, GoesTo DEF CallStages, EnrollStages
    <3>4. calls'[c].kind = "enroll" /\ calls'[c].by = c[2]
      BY <1>0, <1>1, <3>3 DEF GoesOn
    <3>5. ScriptCallFits(c)'
      BY <1>0, <1>1, <3>1, <3>2, <3>3, <3>4 DEF ScriptCallFits, EnrollStages
    <3>6. token' \in [Tokens -> {"none", "free", "expired", "claimed"}]
      BY <3>1 DEF AgentTypeOK
    <3>. QED BY <3>1, <3>3, <3>4, <3>5, <3>6, ScriptGoes
  <2>. QED BY <2>1, <2>2
<1>4. CASE EnrollExisting(c)
  <2>1. PICK found, site : found = (IF Known(r) THEN EnrolRow(r).state ELSE "nothing")
                          /\ site = (Known(r) /\ EnrolRow(r).site)
    OBVIOUS
  <2>2. found \in DeviceStates \cup {"nothing"} /\ site \in BOOLEAN
    <3>1. Known(r) => EnrolRow(r) \in Row
      BY TheRows, RowOfFound DEF Known, EnrolRow
    <3>. QED BY <2>1, <3>1 DEF Row
  <2>3. /\ calls' = [calls EXCEPT ![c].at = "upsert", ![c].site = site, ![c].seen = found]
        /\ UNCHANGED <<token, rows, agent, script, given, shared, raced, pasted>>
    BY <1>1, <1>4, <2>1 DEF EnrollExisting, store, router, Keep
  <2>4. /\ GoesOn(c) /\ calls'[c].at = "upsert" /\ calls'[c].seen = found
        /\ calls'[c].token = calls[c].token
    BY <1>0, <1>1, <2>2, <2>3, GoesWithState DEF CallStages, EnrollStages
  <2>5. calls'[c].kind = "enroll" /\ calls'[c].by = c[2]
    BY <1>0, <1>1, <2>4 DEF GoesOn
  <2>6. ScriptCallFits(c)'
    BY <1>0, <1>1, <2>2, <2>3, <2>4, <2>5 DEF ScriptCallFits, EnrollStages
  <2>7. token' \in [Tokens -> {"none", "free", "expired", "claimed"}]
    BY <2>3 DEF AgentTypeOK
  <2>. QED BY <1>1, <2>1, <2>3, <2>4, <2>5, <2>6, <2>7, ScriptGoes
<1>. QED BY <1>2, <1>3, <1>4

\* The last reads and writes of an acknowledgement, which concern no device.
LEMMA AckEndKeeps ==
  ASSUME AgentTypeOK, TokenInv, ScriptInv, NEW c \in ScriptSlots,
         AckFindDevice(c) \/ AckListTokens(c) \/ AckClaim(c) \/ AckAnswer(c)
  PROVE  AgentInv'
<1>0. Busy(c) /\ calls[c].kind = "ack"
  BY DEF AckFindDevice, AckListTokens, AckClaim, AckAnswer, Reaches
<1>1. PICK r \in Looping : /\ r = c[2] /\ r = calls[c].by /\ c \in Slots /\ calls[c] \in Call
                           /\ ScriptCallFits(c) /\ r \in Routers
                           /\ c[1] = "script" => c = <<"script", r>>
                           /\ c[1] = "script" /\ r \notin raced => ScriptFits(r)
  BY <1>0, TheScriptCall
<1>2. c[1] = "script" /\ r \notin raced /\ calls[c].at # "find_device" =>
        Acknowledged(r, calls[c].at)
  BY <1>0, <1>1 DEF ScriptFits
<1>3. CASE AckAnswer(c)
  <2>1. Heard(c, "done") /\ calls[c].at = "answer"
    BY <1>3 DEF AckAnswer, Reaches
  <2>. QED BY <1>0, <1>1, <1>2, <1>3, <2>1, ScriptHears DEF AckAnswer
<1>4. CASE AckFindDevice(c)
  <2>1. CASE ~Known(r)
    BY <1>0, <1>1, <1>4, <2>1, ScriptRefused DEF AckFindDevice
  <2>2. CASE Known(r)
    <3>1. PICK k \in DOMAIN rows : k = RowOf(Serial(r)) /\ rows[k].host = Serial(r)
      BY <2>2, RowOfFound DEF Known
    <3>2. PICK site \in BOOLEAN : site = EnrolRow(r).site
      BY <3>1, TheRows DEF EnrolRow, Row
    <3>3. /\ calls' = [calls EXCEPT ![c].at = "drop_read_only", ![c].row = k, ![c].site = site]
          /\ UNCHANGED <<token, rows, agent, script, given, shared, raced, pasted>>
      BY <1>1, <1>4, <2>2, <3>1, <3>2 DEF AckFindDevice, store, router, Keep
    <3>4. /\ GoesOn(c) /\ calls'[c].at = "drop_read_only" /\ calls'[c].row = k
      <4> DEFINE new == [calls[c] EXCEPT !.at = "drop_read_only", !.row = k, !.site = site]
      <4>1. k \in Nat
        BY TheRows
      <4>2. new \in Call /\ new.kind = calls[c].kind /\ new.by = calls[c].by
            /\ new.at = "drop_read_only" /\ new.row = k
        BY <1>1, <4>1 DEF Call, CallStages, AckStages
      <4>3. calls' = [calls EXCEPT ![c] = new]
        BY <1>1, <3>3 DEF AgentTypeOK
      <4> HIDE DEF new
      <4>. QED BY <1>0, <1>1, <4>2, <4>3, Goes
    <3>5. calls'[c].kind = "ack" /\ calls'[c].by = c[2]
      BY <1>0, <1>1, <3>4 DEF GoesOn
    <3>6. ScriptCallFits(c)'
      BY <1>0, <1>1, <3>1, <3>3, <3>4, <3>5 DEF ScriptCallFits, AckStages
    <3>7. token' \in [Tokens -> {"none", "free", "expired", "claimed"}]
      BY <3>3 DEF AgentTypeOK
    <3>8. Acknowledged(r, "drop_read_only")
      BY <2>2 DEF Acknowledged, Counts
    <3>. QED BY <1>1, <3>3, <3>4, <3>5, <3>6, <3>7, <3>8, ScriptGoes
  <2>. QED BY <2>1, <2>2
<1>5. CASE AckListTokens(c) \/ AckClaim(c)
  <2>1. CASE AckListTokens(c) /\ ~calls[c].site
    BY <1>0, <2>1, ScriptRefused DEF AckListTokens
  <2>2. CASE ~(AckListTokens(c) /\ ~calls[c].site)
    <3>1. UNCHANGED <<rows, agent, script, given, shared, raced, pasted>>
          /\ calls[c].at \in {"list_tokens", "claim"}
      BY <1>5, <2>2 DEF AckListTokens, AckClaim, store, router, Keep, Reaches
    <3>2. PICK at \in {"claim", "answer"} : GoesOn(c) /\ calls'[c].at = at
          /\ calls'[c].row = calls[c].row
      <4>1. CASE calls' = Goto(c, "answer")
        BY <1>0, <1>1, <4>1, GoesTo DEF CallStages, AckStages
      <4>2. CASE calls' # Goto(c, "answer")
        <5>1. PICK t \in Nat : calls' = [calls EXCEPT ![c].at = "claim", ![c].token = t]
          <6> DEFINE unclaimed == {t \in Tokens : token[t] \in {"free", "expired"}}
                     oldest    == CHOOSE t \in unclaimed : \A u \in unclaimed : t <= u
          <6>1. calls' = [calls EXCEPT ![c].at = "claim", ![c].token = oldest] /\ unclaimed # {}
            BY <1>5, <2>2, <4>2 DEF AckListTokens, AckClaim
          <6>2. unclaimed \in SUBSET Nat
            BY DEF Tokens
          <6>3. oldest \in unclaimed
            BY <6>1, <6>2, TheOldest
          <6> HIDE DEF oldest
          <6>4. oldest \in Nat
            BY <6>2, <6>3
          <6>. QED BY <6>1, <6>4
        <5>. QED BY <1>0, <1>1, <5>1, GoesWithToken DEF CallStages, AckStages
      <4>. QED BY <4>1, <4>2
    <3>3. calls'[c].kind = "ack" /\ calls'[c].by = c[2]
      BY <1>0, <1>1, <3>2 DEF GoesOn
    <3>4. ScriptCallFits(c)'
      BY <1>0, <1>1, <3>1, <3>2, <3>3 DEF ScriptCallFits, AckStages
    <3>5. /\ token' \in [Tokens -> {"none", "free", "expired", "claimed"}]
          /\ \A t \in Tokens : token[t] = "claimed" => token'[t] = "claimed"
      BY <1>5, <2>2 DEF AckListTokens, AckClaim, claimToken, store, AgentTypeOK
    <3>6. Acknowledged(r, calls[c].at) => Acknowledged(r, at)
      BY <3>1 DEF Acknowledged, Counts
    <3>. QED BY <1>1, <1>2, <3>1, <3>2, <3>3, <3>4, <3>5, <3>6, ScriptGoes
  <2>. QED BY <2>1, <2>2
<1>. QED BY <1>3, <1>4, <1>5

\* A credential of a row set to a count.
LEMMA TheCreds ==
  ASSUME NEW row \in Row, NEW p \in Purposes, NEW n \in Nat, NEW new,
         new = [row EXCEPT !.creds[p] = n]
  PROVE  /\ new \in Row /\ new.host = row.host /\ new.madeWith = row.madeWith
         /\ new.agent = row.agent
         /\ new.state = row.state
         /\ \A o \in Purposes : new.creds[o] = IF o = p THEN n ELSE row.creds[o]
<1> DEFINE creds == [row.creds EXCEPT ![p] = n]
<1>1. creds \in [Purposes -> Nat]
      /\ \A o \in Purposes : creds[o] = IF o = p THEN n ELSE row.creds[o]
  BY DEF Row
<1>2. new = [row EXCEPT !.creds = creds]
  OBVIOUS
<1> HIDE DEF creds
<1>3. /\ new \in Row /\ new.host = row.host /\ new.madeWith = row.madeWith /\ new.agent = row.agent
      /\ new.state = row.state /\ new.creds = creds
  BY <1>1, <1>2 DEF Row
<1>. QED BY <1>1, <1>3

\* The device of an acknowledgement, past its first statement.
LEMMA TheAck ==
  ASSUME AgentTypeOK, TokenInv, ScriptInv, NEW c \in ScriptSlots,
         Busy(c), calls[c].kind = "ack", calls[c].at # "find_device"
  PROVE  \E r \in Looping, k \in DOMAIN rows :
           /\ r = c[2] /\ r = calls[c].by /\ r \in Routers /\ k = calls[c].row
           /\ rows[k].host = Serial(r)
           /\ TheRow(c) = rows[k] /\ EnrolRow(r) = rows[k] /\ Known(r) /\ rows[k] \in Row
           /\ c \in Slots /\ calls[c] \in Call
           /\ c = <<"script", r>> \/ c = <<"late", r>>
           /\ c = <<"script", r>> /\ r \notin raced => Counts(TheRow(c), calls[c].at)
<1>1. PICK r \in Looping : /\ r = c[2] /\ r = calls[c].by /\ c \in Slots /\ calls[c] \in Call
                           /\ ScriptCallFits(c) /\ r \in Routers
                           /\ c = <<"script", r>> \/ c = <<"late", r>>
                           /\ c = <<"script", r>> /\ r \notin raced => ScriptFits(r)
  BY TheScriptCall
<1>2. PICK k \in DOMAIN rows : k = calls[c].row /\ rows[k].host = Serial(r)
  BY <1>1 DEF ScriptCallFits
<1>3. RowsFit
  BY DEF TokenInv
<1>4. Known(r) /\ EnrolRow(r) = rows[k] /\ rows[k] \in Row
  BY <1>1, <1>2, <1>3, TheDevice
<1>5. TheRow(c) = rows[k]
  BY <1>2 DEF TheRow
<1>6. c = <<"script", r>> /\ r \notin raced => Counts(TheRow(c), calls[c].at)
  BY <1>1, <1>4, <1>5 DEF ScriptFits, Acknowledged
<1>. QED BY <1>1, <1>2, <1>4, <1>5, <1>6

LEMMA AckWrites ==
  ASSUME AgentTypeOK, TokenInv, ScriptInv, NEW c \in ScriptSlots,
         Busy(c), calls[c].kind = "ack", calls[c].at # "find_device",
         NEW then \in AckStages, NEW new \in Row,
         rows' = [rows EXCEPT ![calls[c].row] = new], calls' = Goto(c, then),
         UNCHANGED <<token, agent, script, given, shared, raced, pasted>>,
         new.host = TheRow(c).host, new.madeWith = TheRow(c).madeWith,
         new.agent = TheRow(c).agent \/ new.agent = Unseen,
         Counts(TheRow(c), calls[c].at) => Counts(new, then)
  PROVE  AgentInv' /\ \A q \in Routers \ {c[2]} : SameRow(q)
<1>1. PICK r \in Looping, k \in DOMAIN rows :
           /\ r = c[2] /\ r = calls[c].by /\ r \in Routers /\ k = calls[c].row
           /\ rows[k].host = Serial(r)
           /\ TheRow(c) = rows[k] /\ EnrolRow(r) = rows[k] /\ Known(r) /\ rows[k] \in Row
           /\ c \in Slots /\ calls[c] \in Call
           /\ c = <<"script", r>> \/ c = <<"late", r>>
           /\ c = <<"script", r>> /\ r \notin raced => Counts(TheRow(c), calls[c].at)
  BY TheAck
<1>2. /\ RowsFit /\ rows' = [rows EXCEPT ![k] = new]
      /\ new.host = rows[k].host /\ new.madeWith = rows[k].madeWith
      /\ new.agent = rows[k].agent \/ new.agent = Unseen
  BY <1>1 DEF TokenInv
<1>3. WorksOn(r) /\ rows'[k] = new /\ Known(r)' /\ EnrolRow(r)' = new /\ DOMAIN rows' = DOMAIN rows
  <2>1. Wrote(r, k, new)
    BY <1>1, <1>2, WorksOnOne
  <2>. QED BY <2>1 DEF Wrote
<1>4. then \in CallStages
  BY DEF CallStages
<1>5. GoesOn(c) /\ calls'[c].at = then /\ calls'[c].row = k
  BY <1>1, <1>4, GoesTo
<1>6. Busy(c)' /\ calls'[c].kind = "ack" /\ calls'[c].by = r
  BY <1>1, <1>5 DEF GoesOn
<1>7. ScriptCallFits(c)'
  <2>1. script[c[2]] # "off"
    BY TheScriptCall DEF ScriptCallFits
  <2>. QED BY <1>1, <1>3, <1>5, <1>6, <2>1 DEF ScriptCallFits
<1>8. ASSUME c = <<"script", r>>, r \notin raced', ScriptFits(r) PROVE ScriptFits(r)'
  <2>1. <<"late", r>> \in Slots \ {c}
    BY <1>8, TheSlots
  <2>2. ~Busy(<<"late", r>>)'
    BY <1>5, <1>8, <2>1 DEF GoesOn, ScriptFits
  <2>3. script'[r] = "ack"
    BY <1>8 DEF ScriptFits
  <2>4. Counts(new, then)
    BY <1>1, <1>8
  <2>5. Acknowledged(r, calls[c].at)'
    BY <1>3, <1>5, <2>4 DEF Acknowledged, Counts
  <2>. QED BY <1>6, <1>8, <2>2, <2>3, <2>5 DEF ScriptFits, Reaches
<1>9. /\ calls' \in [Slots -> Call \cup {Free}] /\ \A d \in Slots \ {c} : calls'[d] = calls[d]
      /\ token' \in [Tokens -> {"none", "free", "expired", "claimed"}]
      /\ given' \in [Routers -> Tokens \cup {Nobody}]
      /\ script' \in [Routers -> {"off", "idle", "enroll", "approved", "ack", "done"}]
  BY <1>5 DEF GoesOn, AgentTypeOK
<1>. QED BY <1>1, <1>3, <1>7, <1>8, <1>9, ScriptWorks

LEMMA AckKeeps ==
  ASSUME AgentTypeOK, TokenInv, ScriptInv, NEW c \in ScriptSlots,
         AckCredentials(c) \/ AckPromote(c) \/ AckAgentToken(c)
  PROVE  /\ AgentInv' /\ \A q \in Routers \ {c[2]} : SameRow(q)
         /\ TheRow(c).state = "fully_managed" => EnrolRow(c[2])'.state = "fully_managed"
         /\ TheRow(c) = EnrolRow(c[2])
<1>1. Busy(c) /\ calls[c].kind = "ack" /\ calls[c].at # "find_device"
  BY DEF AckCredentials, AckPromote, AckAgentToken, AckStep, Reaches
<1>2. PICK r \in Looping, k \in DOMAIN rows :
           /\ r = c[2] /\ r \in Routers /\ k = calls[c].row /\ rows[k].host = Serial(r)
           /\ TheRow(c) = rows[k] /\ EnrolRow(r) = rows[k] /\ rows[k] \in Row
  BY <1>1, TheAck
<1>3. PICK then \in AckStages, new \in Row :
        /\ rows' = [rows EXCEPT ![calls[c].row] = new] /\ calls' = Goto(c, then)
        /\ new.host = TheRow(c).host /\ new.madeWith = TheRow(c).madeWith
        /\ new.agent = TheRow(c).agent \/ new.agent = Unseen
        /\ new.state = TheRow(c).state \/ new.state = "fully_managed"
        /\ Counts(TheRow(c), calls[c].at) => Counts(new, then)
  <2>1. CASE AckStep(c, "drop_read_only", "add_read_only", Retire(TheRow(c), "read_only"))
    <3>1. PICK p \in Purposes, n \in Nat : p = "read_only" /\ n = 0
      BY <1>2 DEF Purposes, Row
    <3>2. PICK new : new = [TheRow(c) EXCEPT !.creds[p] = n]
      OBVIOUS
    <3>3. /\ new \in Row /\ new.host = TheRow(c).host /\ new.madeWith = TheRow(c).madeWith
          /\ new.agent = TheRow(c).agent /\ new.state = TheRow(c).state
          /\ \A o \in Purposes : new.creds[o] = IF o = p THEN n ELSE TheRow(c).creds[o]
      BY <1>2, <3>2, TheCreds
    <3>4. new = Retire(TheRow(c), "read_only")
      BY <3>1, <3>2 DEF Retire
    <3>5. calls[c].at = "drop_read_only" /\ rows' = [rows EXCEPT ![calls[c].row] = new]
          /\ calls' = Goto(c, "add_read_only")
      BY <2>1, <3>4 DEF AckStep, Reaches
    <3>6. Counts(TheRow(c), calls[c].at) => Counts(new, "add_read_only")
      BY <3>1, <3>3, <3>5 DEF Counts, Purposes
    <3>. QED BY <3>3, <3>5, <3>6 DEF AckStages
  <2>2. CASE AckStep(c, "add_read_only", "drop_write", Install(TheRow(c), "read_only"))
    <3>1. PICK p \in Purposes, n \in Nat : p = "read_only" /\ n = TheRow(c).creds["read_only"] + 1
      BY <1>2 DEF Purposes, Row
    <3>2. PICK new : new = [TheRow(c) EXCEPT !.creds[p] = n]
      OBVIOUS
    <3>3. /\ new \in Row /\ new.host = TheRow(c).host /\ new.madeWith = TheRow(c).madeWith
          /\ new.agent = TheRow(c).agent /\ new.state = TheRow(c).state
          /\ \A o \in Purposes : new.creds[o] = IF o = p THEN n ELSE TheRow(c).creds[o]
      BY <1>2, <3>2, TheCreds
    <3>4. new = Install(TheRow(c), "read_only")
      BY <3>1, <3>2 DEF Install
    <3>5. calls[c].at = "add_read_only" /\ rows' = [rows EXCEPT ![calls[c].row] = new]
          /\ calls' = Goto(c, "drop_write")
      BY <2>2, <3>4 DEF AckStep, Reaches
    <3>6. Counts(TheRow(c), calls[c].at) => Counts(new, "drop_write")
      BY <3>1, <3>3, <3>5 DEF Counts, Purposes
    <3>. QED BY <3>3, <3>5, <3>6 DEF AckStages
  <2>3. CASE AckStep(c, "drop_write", "add_write", Retire(TheRow(c), "write"))
    <3>1. PICK p \in Purposes, n \in Nat : p = "write" /\ n = 0
      BY <1>2 DEF Purposes, Row
    <3>2. PICK new : new = [TheRow(c) EXCEPT !.creds[p] = n]
      OBVIOUS
    <3>3. /\ new \in Row /\ new.host = TheRow(c).host /\ new.madeWith = TheRow(c).madeWith
          /\ new.agent = TheRow(c).agent /\ new.state = TheRow(c).state
          /\ \A o \in Purposes : new.creds[o] = IF o = p THEN n ELSE TheRow(c).creds[o]
      BY <1>2, <3>2, TheCreds
    <3>4. new = Retire(TheRow(c), "write")
      BY <3>1, <3>2 DEF Retire
    <3>5. calls[c].at = "drop_write" /\ rows' = [rows EXCEPT ![calls[c].row] = new]
          /\ calls' = Goto(c, "add_write")
      BY <2>3, <3>4 DEF AckStep, Reaches
    <3>6. Counts(TheRow(c), calls[c].at) => Counts(new, "add_write")
      BY <3>1, <3>3, <3>5 DEF Counts, Purposes
    <3>. QED BY <3>3, <3>5, <3>6 DEF AckStages
  <2>4. CASE AckStep(c, "add_write", "promote", Install(TheRow(c), "write"))
    <3>1. PICK p \in Purposes, n \in Nat : p = "write" /\ n = TheRow(c).creds["write"] + 1
      BY <1>2 DEF Purposes, Row
    <3>2. PICK new : new = [TheRow(c) EXCEPT !.creds[p] = n]
      OBVIOUS
    <3>3. /\ new \in Row /\ new.host = TheRow(c).host /\ new.madeWith = TheRow(c).madeWith
          /\ new.agent = TheRow(c).agent /\ new.state = TheRow(c).state
          /\ \A o \in Purposes : new.creds[o] = IF o = p THEN n ELSE TheRow(c).creds[o]
      BY <1>2, <3>2, TheCreds
    <3>4. new = Install(TheRow(c), "write")
      BY <3>1, <3>2 DEF Install
    <3>5. calls[c].at = "add_write" /\ rows' = [rows EXCEPT ![calls[c].row] = new]
          /\ calls' = Goto(c, "promote")
      BY <2>4, <3>4 DEF AckStep, Reaches
    <3>6. Counts(TheRow(c), calls[c].at) => Counts(new, "promote")
      BY <3>1, <3>3, <3>5 DEF Counts, Purposes
    <3>. QED BY <3>3, <3>5, <3>6 DEF AckStages
  <2>5. CASE AckPromote(c)
    <3>1. PICK new : new = [TheRow(c) EXCEPT !.state = "fully_managed"]
      OBVIOUS
    <3>2. /\ new \in Row /\ new.host = TheRow(c).host /\ new.madeWith = TheRow(c).madeWith
          /\ new.agent = TheRow(c).agent /\ new.state = "fully_managed"
          /\ new.creds = TheRow(c).creds
      BY <1>2, <3>1 DEF Row, DeviceStates
    <3>3. calls[c].at = "promote" /\ rows' = [rows EXCEPT ![calls[c].row] = new]
          /\ calls' = Goto(c, "agent_token")
      BY <2>5, <3>1 DEF AckPromote, AckStep, Reaches
    <3>4. Counts(TheRow(c), calls[c].at) => Counts(new, "agent_token")
      BY <3>2, <3>3 DEF Counts
    <3>. QED BY <3>2, <3>3, <3>4 DEF AckStages
  <2>6. CASE AckAgentToken(c)
    <3>1. PICK new : new = [TheRow(c) EXCEPT !.agent = Unseen]
      OBVIOUS
    <3>2. Unseen \in Nat
      BY TheHosts DEF Unseen
    <3>3. /\ new \in Row /\ new.host = TheRow(c).host /\ new.madeWith = TheRow(c).madeWith
          /\ new.agent = Unseen /\ new.state = TheRow(c).state /\ new.creds = TheRow(c).creds
      BY <1>2, <3>1, <3>2 DEF Row
    <3>4. calls[c].at = "agent_token" /\ rows' = [rows EXCEPT ![calls[c].row] = new]
          /\ calls' = Goto(c, "list_tokens")
      BY <2>6, <3>1 DEF AckAgentToken, AckStep, Reaches
    <3>5. Counts(TheRow(c), calls[c].at) => Counts(new, "list_tokens")
      BY <3>3, <3>4 DEF Counts
    <3>. QED BY <3>3, <3>4, <3>5 DEF AckStages
  <2>. QED BY <2>1, <2>2, <2>3, <2>4, <2>5, <2>6 DEF AckCredentials
<1>4. UNCHANGED <<token, agent, script, given, shared, raced, pasted>>
  BY DEF AckCredentials, AckPromote, AckAgentToken, AckStep, Keep, router
<1>5. AgentInv' /\ \A q \in Routers \ {c[2]} : SameRow(q)
  BY <1>1, <1>3, <1>4, AckWrites
<1>6. EnrolRow(r)' = new
  <2>1. /\ RowsFit /\ rows' = [rows EXCEPT ![k] = new]
        /\ new.host = rows[k].host /\ new.madeWith = rows[k].madeWith
        /\ new.agent = rows[k].agent \/ new.agent = Unseen
    BY <1>2, <1>3 DEF TokenInv
  <2>2. Wrote(r, k, new)
    BY <1>2, <2>1, WorksOnOne
  <2>. QED BY <2>2 DEF Wrote
<1>. QED BY <1>2, <1>3, <1>5, <1>6

\* The device of a router that enrolls again keeps its state, unless it was worked on since.
LEMMA UpsertKeeps ==
  ASSUME AgentTypeOK, TokenInv, ScriptInv, NEW c \in ScriptSlots, EnrollUpsert(c)
  PROVE  /\ AgentInv' /\ \A q \in Routers \ {c[2]} : SameRow(q)
         /\ c[2] \notin raced /\ Known(c[2]) => EnrolRow(c[2])'.state = EnrolRow(c[2]).state
<1>0. Busy(c) /\ calls[c].kind = "enroll" /\ calls[c].at = "upsert"
  BY DEF EnrollUpsert, Reaches
<1>1. PICK r \in Looping : /\ r = c[2] /\ r = calls[c].by /\ c \in Slots /\ calls[c] \in Call
                           /\ ScriptCallFits(c) /\ r \in Routers
                           /\ c = <<"script", r>> \/ c = <<"late", r>>
                           /\ c = <<"script", r>> <=> c[1] = "script"
                           /\ c[1] = "script" /\ r \notin raced => ScriptFits(r)
  BY <1>0, TheScriptCall
<1>2. calls[c].seen \in DeviceStates \cup {"nothing"}
  BY <1>0, <1>1 DEF ScriptCallFits
<1>3. PICK state \in DeviceStates, site \in BOOLEAN : state = StateKept(c) /\ site = SiteKept(c)
  BY <1>2, <1>1 DEF StateKept, SiteKept, DeviceStates, Call
<1>4. PICK host \in Hosts, t \in Tokens \cup {Nobody} :
        host = Serial(r) /\ t = given[r] /\ t = calls[c].token
  BY <1>0, <1>1, TheHosts DEF ScriptCallFits, AgentTypeOK
<1>14. script[r] # "off"
  BY <1>0, <1>1 DEF ScriptCallFits
<1>5. /\ Upsert(host, site, state, t) /\ RowsFit
      /\ calls' = [calls EXCEPT ![c].at = "answer", ![c].seen = state]
      /\ UNCHANGED <<token, agent, script, given, shared, raced, pasted>>
  BY <1>1, <1>3, <1>4 DEF EnrollUpsert, Keep, router, TokenInv
<1>15. host = Serial(r) /\ t = given[r] /\ script[r] # "off" =>
         WorksOn(r) /\ Known(r)' /\ EnrolRow(r)'.state = state
  BY <1>1, <1>5, WorksOnNew
<1>6. WorksOn(r) /\ Known(r)' /\ EnrolRow(r)'.state = state
  BY <1>4, <1>14, <1>15
<1>7. GoesOn(c) /\ calls'[c].at = "answer" /\ calls'[c].seen = state
      /\ calls'[c].token = calls[c].token
  <2> DEFINE new == [calls[c] EXCEPT !.at = "answer", !.seen = state]
  <2>1. new \in Call /\ new.kind = calls[c].kind /\ new.by = calls[c].by /\ new.at = "answer"
        /\ new.seen = state /\ new.token = calls[c].token
    BY <1>1 DEF Call, CallStages, EnrollStages
  <2>2. calls' = [calls EXCEPT ![c] = new]
    BY <1>1, <1>5 DEF AgentTypeOK
  <2> HIDE DEF new
  <2>. QED BY <1>0, <1>1, <2>1, <2>2, Goes
<1>8. Busy(c)' /\ calls'[c].kind = "enroll" /\ calls'[c].by = r
  BY <1>0, <1>1, <1>7 DEF GoesOn
<1>9. ScriptCallFits(c)'
  BY <1>1, <1>4, <1>5, <1>7, <1>8, <1>14 DEF ScriptCallFits, EnrollStages
<1>10. ASSUME c = <<"script", r>>, r \notin raced', ScriptFits(r) PROVE ScriptFits(r)'
  <2>1. <<"late", r>> \in Slots \ {c}
    BY <1>10, TheSlots
  <2>2. ~Busy(<<"late", r>>)'
    BY <1>7, <1>10, <2>1 DEF GoesOn, ScriptFits
  <2>3. script'[r] = "enroll"
    BY <1>0, <1>5, <1>10 DEF ScriptFits
  <2>. QED BY <1>7, <1>8, <1>10, <2>2, <2>3 DEF ScriptFits, Reaches
<1>11. /\ calls' \in [Slots -> Call \cup {Free}] /\ \A d \in Slots \ {c} : calls'[d] = calls[d]
       /\ token' \in [Tokens -> {"none", "free", "expired", "claimed"}]
       /\ given' \in [Routers -> Tokens \cup {Nobody}]
       /\ script' \in [Routers -> {"off", "idle", "enroll", "approved", "ack", "done"}]
  BY <1>5, <1>7 DEF GoesOn, AgentTypeOK
<1>12. AgentInv' /\ \A q \in Routers \ {r} : SameRow(q)
  BY <1>0, <1>1, <1>5, <1>6, <1>9, <1>10, <1>11, ScriptWorks
<1>13. ASSUME r \notin raced, Known(r) PROVE state = EnrolRow(r).state
  <2>1. ScriptFits(r)
    BY <1>1, <1>13 DEF ScriptInv, RouterFits
  <2>2. c = <<"script", r>>
    BY <1>0, <1>1, <2>1 DEF ScriptFits
  <2>3. calls[c].seen = EnrolRow(r).state
    BY <1>0, <1>13, <2>1, <2>2 DEF ScriptFits, Reaches
  <2>4. EnrolRow(r).state \in DeviceStates
    BY <1>13, TheRows, RowOfFound DEF Known, EnrolRow, Row
  <2>. QED BY <1>3, <2>3, <2>4 DEF StateKept, DeviceStates
<1>. QED BY <1>1, <1>6, <1>12, <1>13

\* A script calls, or does not.
LEMMA ScriptRuns ==
  ASSUME AgentTypeOK, TokenInv, ScriptInv, NEW r \in Looping,
         CallEnroll(r) \/ CallAck(r) \/ ScriptFails(r)
         \/ (\E t \in Tokens \cup {Nobody} : StartScript(r, t))
  PROVE  AgentInv'
<1>1. PICK c \in ScriptSlots : c = <<"script", r>> /\ c \in Slots /\ c[2] = r /\ r \in Routers
  BY ZenonT(60), TheSlots, TheHosts
<1>2. /\ token' = token /\ rows' = rows /\ agent' = agent /\ shared' = shared /\ raced' = raced
      /\ pasted' = pasted /\ given' \in [Routers -> Tokens \cup {Nobody}]
  BY DEF CallEnroll, CallAck, ScriptFails, StartScript, store, AgentTypeOK
<1>3. WorksOn(r)
  BY <1>2, WorksOnNone
<1>11. /\ \A q \in Routers \ {r} : given'[q] = given[q]
       /\ script[r] # "off" => given' = given
  BY <1>1 DEF CallEnroll, CallAck, ScriptFails, StartScript, AgentTypeOK
<1>4. PICK to \in {"idle", "enroll", "ack"} :
        /\ script' = [script EXCEPT ![r] = to]
        /\ to = "idle" => calls' = calls /\ script[r] \in {"off", "approved"}
        /\ to # "idle" => given' = given
        /\ to # "idle" =>
             \E t \in Nat, at \in CallStages :
               /\ Begin(c, to, r, t, at)
               /\ to = "enroll" => t = given[r]
               /\ IF to = "enroll" THEN at \in {"find_token", "existing"} ELSE at = "find_device"
  <2>1. CASE CallEnroll(r)
    <3>1. given[r] \in Nat
      BY <1>1 DEF AgentTypeOK, Tokens, Nobody
    <3>2. {"find_token", "existing"} \subseteq CallStages
      BY DEF CallStages, EnrollStages
    <3>3. PICK at \in {"find_token", "existing"} : Begin(c, "enroll", r, given[r], at)
      BY <1>1, <2>1 DEF CallEnroll
    <3>. QED BY <2>1, <3>1, <3>2, <3>3 DEF CallEnroll
  <2>2. CASE CallAck(r)
    <3>1. "find_device" \in CallStages /\ Nobody \in Nat
      BY DEF CallStages, AckStages, Nobody
    <3>2. Begin(c, "ack", r, Nobody, "find_device")
      BY <1>1, <2>2 DEF CallAck
    <3>. QED BY <2>2, <3>1, <3>2 DEF CallAck
  <2>3. CASE ScriptFails(r)
    BY <2>3 DEF ScriptFails
  <2>4. CASE \E t \in Tokens \cup {Nobody} : StartScript(r, t)
    BY <2>4 DEF StartScript
  <2>. QED BY <2>1, <2>2, <2>3, <2>4
<1>5. /\ calls' \in [Slots -> Call \cup {Free}]
      /\ \A d \in Slots \ {c} : calls'[d] = calls[d] /\ (Busy(d)' <=> Busy(d))
      /\ to = "idle" => calls' = calls
      /\ to # "idle" => /\ Busy(c)' /\ calls'[c].kind = to /\ calls'[c].by = r
                        /\ calls'[c].at \in {"find_token", "existing", "find_device"}
                        /\ to = "enroll" => calls'[c].at # "find_device"
                        /\ to = "ack" => calls'[c].at = "find_device"
                        /\ calls'[c].seen = "nothing"
                        /\ to = "enroll" => calls'[c].token = given'[r]
  <2>1. CASE to = "idle"
    BY <1>4, <2>1 DEF AgentTypeOK, Busy
  <2>2. CASE to # "idle"
    <3>1. PICK t \in Nat, at \in CallStages :
            /\ Begin(c, to, r, t, at)
            /\ to = "enroll" => t = given[r]
            /\ IF to = "enroll" THEN at \in {"find_token", "existing"} ELSE at = "find_device"
      BY <1>4, <2>2
    <3>2. to \in {"bootstrap", "checkin", "enroll", "ack"}
      BY <2>2
    <3>3. /\ calls' \in [Slots -> Call \cup {Free}] /\ Busy(c)'
          /\ calls'[c].kind = to /\ calls'[c].by = r /\ calls'[c].token = t /\ calls'[c].at = at
          /\ calls'[c].seen = "nothing"
          /\ \A d \in Slots \ {c} : calls'[d] = calls[d] /\ (Busy(d)' <=> Busy(d))
      BY <1>1, <3>1, <3>2, Begins
    <3>4. given' = given
      BY <1>4, <2>2
    <3>. QED BY <2>2, <3>1, <3>3, <3>4
  <2>. QED BY <2>1, <2>2
<1>7. script' \in [Routers -> {"off", "idle", "enroll", "approved", "ack", "done"}]
      /\ script'[r] = to
      /\ \A q \in Routers \ {r} : script'[q] = script[q]
  BY <1>1, <1>4 DEF AgentTypeOK
<1>6. ScriptCallFits(c)'
  <2>1. CASE to = "idle"
    <3>1. ScriptCallFits(c)
      BY <1>1 DEF ScriptInv, RouterFits
    <3>. QED BY <1>1, <1>2, <1>5, <1>7, <1>11, <2>1, <3>1 DEF ScriptCallFits, Busy
  <2>2. CASE to # "idle"
    BY <1>1, <1>5, <1>7, <2>2 DEF ScriptCallFits, EnrollStages, AckStages
  <2>. QED BY <2>1, <2>2
<1>8. ASSUME ScriptFits(r) PROVE ScriptFits(r)'
  <2>1. <<"late", r>> \in Slots \ {c}
    BY <1>1, TheSlots
  <2>2. ~Busy(<<"late", r>>)'
    BY <1>5, <1>8, <2>1 DEF ScriptFits
  <2>3. CASE to = "idle"
    <3>1. ~Busy(c)'
      BY <1>1, <1>4, <1>5, <1>8, <2>3 DEF ScriptFits, Busy
    <3>. QED BY <1>1, <1>7, <2>2, <2>3, <3>1 DEF ScriptFits, Reaches
  <2>4. CASE to # "idle"
    BY <1>1, <1>5, <1>7, <2>2, <2>4 DEF ScriptFits, Reaches
  <2>. QED BY <2>3, <2>4
<1>9. token' \in [Tokens -> {"none", "free", "expired", "claimed"}]
      /\ \A t \in Tokens : token[t] = "claimed" => token'[t] = "claimed"
  BY <1>2 DEF AgentTypeOK
<1>10. c # <<"late", r>>
  BY <1>1
<1>. QED BY <1>1, <1>2, <1>3, <1>5, <1>6, <1>7, <1>8, <1>9, <1>10, <1>11, ScriptWorks

\* A step that leaves the scripts alone.
LEMMA ScriptsStay ==
  ASSUME AgentTypeOK', TokenInv', ScriptInv, LeavesScripts
  PROVE  AgentInv'
<1>1. ASSUME NEW q \in Looping PROVE RouterFits(q)'
  <2>1. q \in Routers /\ <<"script", q>> \in ScriptSlots /\ <<"late", q>> \in ScriptSlots
    BY TheSlots, TheHosts
  <2>. QED BY <2>1, RouterStays DEF LeavesScripts, ScriptInv
<1>. QED BY <1>1 DEF AgentInv, ScriptInv

\* An install token is made, or expires: it is not claimed.
LEMMA TokenStepKeeps ==
  ASSUME AgentTypeOK, TokenInv, ScriptInv, NEW t \in Tokens, createInstallToken(t) \/ Expires(t)
  PROVE  AgentInv' /\ LeavesScripts
<1>1. PICK state \in {"free", "expired"} : token' = [token EXCEPT ![t] = state]
      /\ token[t] \in {"none", "free"}
  BY DEF createInstallToken, Expires
<1>2. UNCHANGED <<rows, calls, agent, script, given, shared, raced, pasted>>
  BY DEF createInstallToken, Expires, Keep, router
<1>3. /\ token' \in [Tokens -> {"none", "free", "expired", "claimed"}]
      /\ \A u \in Tokens : token[u] = "claimed" => token'[u] = "claimed"
  BY <1>1 DEF AgentTypeOK
<1>4. AgentTypeOK'
  BY <1>2, <1>3 DEF AgentTypeOK
<1>5. \A c \in PasteSlots \cup AgentSlots : ~Busy(c)' \/ (calls'[c] = calls[c] /\ Busy(c))
  BY <1>2 DEF Busy
<1>6. TokenInv'
  BY <1>2, <1>3, <1>5, BesideTokens
<1>7. LeavesScripts
  BY <1>2 DEF LeavesScripts, SameRow, At
<1>. QED BY <1>4, <1>6, <1>7, ScriptsStay

\* A script gives up on a call, which goes on without it.
LEMMA GiveUpKeeps ==
  ASSUME AgentTypeOK, TokenInv, ScriptInv, NEW r \in Looping, GiveUp(r)
  PROVE  AgentInv'
<1>1. <<"script", r>> \in ScriptSlots /\ <<"late", r>> \in ScriptSlots
      /\ ScriptSlots \subseteq Slots
  BY TheSlots
<1>2. PICK c \in ScriptSlots : c = <<"script", r>> /\ c \in Slots /\ c[2] = r
  BY <1>1
<1>3. PICK d \in ScriptSlots : d = <<"late", r>> /\ d \in Slots /\ d[2] = r
  BY <1>1
<1>4. /\ c = <<"script", r>> /\ d = <<"late", r>> /\ c # d /\ c \in Slots /\ d \in Slots
      /\ c[2] = r /\ d[2] = r /\ r \in Routers
  BY <1>2, <1>3, TheHosts
<1>5. /\ Busy(c) /\ ~Busy(d) /\ calls' = [calls EXCEPT ![c] = Free, ![d] = calls[c]]
      /\ script' = [script EXCEPT ![r] = "idle"] /\ raced' = raced \cup {r}
      /\ UNCHANGED <<token, rows, agent, given, shared, pasted>>
  BY <1>4 DEF GiveUp, store
<1>6. calls[c] \in Call
  BY <1>4, <1>5, TheCall
<1>7. /\ calls' \in [Slots -> Call \cup {Free}] /\ calls'[c] = Free /\ calls'[d] = calls[c]
      /\ \A e \in Slots \ {c, d} : calls'[e] = calls[e]
  BY <1>4, <1>5, <1>6 DEF AgentTypeOK
<1>8. AgentTypeOK'
  BY <1>5, <1>7 DEF AgentTypeOK
<1>9. WorksOn(r)
  BY <1>5, WorksOnNone
<1>10. \A e \in PasteSlots \cup AgentSlots : calls'[e] = calls[e]
  BY <1>4, <1>7, TheSlots
<1>11. TokenInv' /\ \A q \in Routers \ {r} : SameRow(q)
  BY <1>5, <1>9, <1>10, OthersStay
<1>12. ASSUME NEW q \in Looping PROVE RouterFits(q)'
  <2>1. CASE q = r
    <3>1. ScriptCallFits(c)
      BY <1>4 DEF ScriptInv, RouterFits
    <3>2. ScriptCallFits(c)'
      BY <1>7 DEF ScriptCallFits, Busy
    <3>3. script'[r] = "idle"
      BY <1>4, <1>5 DEF AgentTypeOK
    <3>4. ScriptCallFits(d)'
      BY <1>4, <1>5, <1>7, <3>1, <3>3 DEF ScriptCallFits, Busy
    <3>5. RowJoins(r)'
      BY <1>4, <1>5, <3>3 DEF ScriptInv, RouterFits, RowJoins, Serial
    <3>. QED BY <1>4, <1>5, <2>1, <3>2, <3>4, <3>5 DEF RouterFits
  <2>2. CASE q # r
    <3>1. /\ q \in Routers \ {r} /\ <<"script", q>> \in Slots \ {c, d}
          /\ <<"late", q>> \in Slots \ {c, d}
      BY <1>4, <2>2, TheSlots, TheHosts
    <3>2. script'[q] = script[q] /\ given'[q] = given[q] /\ raced \subseteq raced'
          /\ RouterFits(q)
      BY <1>5, <2>2, <3>1 DEF AgentTypeOK, ScriptInv
    <3>. QED BY <1>7, <1>11, <3>1, <3>2, RouterStays
  <2>. QED BY <2>1, <2>2
<1>. QED BY <1>8, <1>11, <1>12 DEF AgentInv, ScriptInv

\* adopt() leaves what was acknowledged, and overtakes at most an enroll.
LEMMA AdoptKeeps ==
  ASSUME AgentTypeOK, TokenInv, ScriptInv, NEW r \in Routers, Adopt(r)
  PROVE  AgentInv' /\ \A q \in Routers \ {r} : SameRow(q)
<1>1. PICK k \in DOMAIN rows : k = RowOf(Serial(r)) /\ rows[k].host = Serial(r)
  BY RowOfFound DEF Adopt, Known
<1>2. r \in Looping /\ RowsFit
  BY <1>1, TheHosts DEF TokenInv, RowsFit
<1>3. EnrolRow(r) = rows[k] /\ rows[k] \in Row
  BY <1>1, <1>2, TheDevice
<1>4. PICK new : new = [rows[k] EXCEPT !.state = "inventoried"]
  OBVIOUS
<1>5. /\ new \in Row /\ new.host = rows[k].host /\ new.madeWith = rows[k].madeWith
      /\ new.agent = rows[k].agent /\ new.creds = rows[k].creds
  BY <1>3, <1>4 DEF Row, DeviceStates
<1>6. /\ rows' = [rows EXCEPT ![k] = new]
      /\ UNCHANGED <<token, calls, agent, script, given, shared, pasted>>
      /\ raced' = IF Reaches(<<"script", r>>, "enroll", "upsert") THEN raced \cup {r} ELSE raced
  BY <1>1, <1>4 DEF Adopt, router
<1>7. Wrote(r, k, new)
  BY <1>1, <1>2, <1>5, <1>6, WorksOnOne
<1>8. WorksOn(r) /\ rows'[k] = new /\ Known(r)' /\ EnrolRow(r)' = new /\ DOMAIN rows' = DOMAIN rows
  BY <1>7 DEF Wrote
<1>9. PICK c \in ScriptSlots : c = <<"script", r>> /\ c \in Slots /\ c[2] = r /\ c # <<"late", r>>
  BY <1>2, TheSlots
<1>10. ScriptCallFits(c)'
  <2>1. ScriptCallFits(c)
    BY <1>2, <1>9 DEF ScriptInv, RouterFits
  <2>2. \A i \in DOMAIN rows : i \in DOMAIN rows' /\ rows'[i].host = rows[i].host
    BY <1>8 DEF WorksOn
  <2>. QED BY <1>6, <2>1, <2>2 DEF ScriptCallFits, Busy
<1>11. ASSUME r \notin raced', ScriptFits(r) PROVE ScriptFits(r)'
  <2>1. \A at : Acknowledged(r, at) => Acknowledged(r, at)'
    BY <1>3, <1>5, <1>8 DEF Acknowledged, Counts
  <2>2. ~Reaches(<<"script", r>>, "enroll", "upsert")
    BY <1>6, <1>11
  <2>3. ~Reaches(<<"script", r>>, "enroll", "upsert")'
    BY <1>6, <2>2 DEF Reaches, Busy
  <2>4. Busy(c) /\ calls[c].kind = "ack" /\ calls[c].at # "find_device" =>
          Acknowledged(r, calls[c].at)'
    <3>1. PICK at : at = calls[c].at
      OBVIOUS
    <3>2. Busy(c) /\ calls[c].kind = "ack" /\ at # "find_device" => Acknowledged(r, at)'
      BY <1>9, <1>11, <2>1, <3>1 DEF ScriptFits
    <3>. QED BY <1>6, <3>1, <3>2 DEF Acknowledged, Counts
  <2>. QED BY <1>6, <1>9, <1>11, <2>1, <2>3, <2>4 DEF ScriptFits, Busy
<1>12. /\ given' \in [Routers -> Tokens \cup {Nobody}] /\ calls' \in [Slots -> Call \cup {Free}]
       /\ token' \in [Tokens -> {"none", "free", "expired", "claimed"}]
       /\ script' \in [Routers -> {"off", "idle", "enroll", "approved", "ack", "done"}]
       /\ raced \subseteq raced'
  BY <1>6 DEF AgentTypeOK
<1>. QED BY <1>2, <1>6, <1>8, <1>9, <1>10, <1>11, <1>12, ScriptWorks

LEMMA AnswerLostKeeps ==
  ASSUME AgentTypeOK, TokenInv, NEW c \in PasteSlots, AnswerLost(c)
  PROVE  AgentTypeOK' /\ TokenInv' /\ LeavesScripts
<1>1. c \in Slots /\ calls' = [calls EXCEPT ![c] = Free]
      /\ UNCHANGED <<token, rows, agent, script, given, shared, raced, pasted>>
  BY TheSlots DEF AnswerLost, store, router
<1>2. Ends(c)
  BY <1>1, Freed
<1>3. LeavesScripts
  BY <1>1, <1>2, Leaves DEF Ends
<1>4. script' \in [Routers -> {"off", "idle", "enroll", "approved", "ack", "done"}]
  BY <1>1 DEF AgentTypeOK
<1>. QED BY <1>1, <1>3, <1>4, TokensStay DEF store

-----------------------------------------------------------------------------
(* The theorems *)

\* A managed device stays so in a step.
StaysManaged(q) ==
  Known(q) /\ EnrolRow(q).state = "fully_managed" => EnrolRow(q)'.state = "fully_managed"

LEMMA SameStaysManaged ==
  ASSUME NEW q, SameRow(q)
  PROVE  StaysManaged(q)
BY RowStays DEF StaysManaged

LEMMA InitAgentInv ==
  ASSUME AgentInit
  PROVE  AgentInv
<1>1. rows = <<>> /\ rows \in Seq(Row) /\ DOMAIN rows = {}
  BY DEF AgentInit
<1>2. \A c \in Slots : ~Busy(c)
  BY DEF AgentInit, Busy
<1>3. /\ \A c \in PasteSlots \cup AgentSlots \cup ScriptSlots : ~Busy(c)
      /\ \A r \in Looping : /\ ~Busy(<<"script", r>>) /\ ~Busy(<<"late", r>>)
                            /\ r \in Routers
  BY <1>2, TheSlots, TheHosts
<1>4. AgentTypeOK
  BY <1>1, TheHosts DEF AgentInit, AgentTypeOK, Nobody
<1>5. TokenInv
  <2>1. RowsFit
    BY <1>1 DEF RowsFit
  <2>2. \A c \in PasteSlots : PasteFits(c)
    BY <1>3 DEF PasteFits
  <2>3. \A t \in Tokens \ shared : TokenFits(t)
    BY <1>1, <1>3 DEF TokenFits, Using
  <2>4. \A c \in AgentSlots : CheckinFits(c)
    BY <1>3 DEF CheckinFits
  <2>5. \A r \in Routers : AgentFits(r)
    BY DEF AgentInit, AgentFits
  <2>. QED BY <2>1, <2>2, <2>3, <2>4, <2>5 DEF TokenInv
<1>6. ASSUME NEW r \in Looping PROVE RouterFits(r)
  <2>1. script[r] = "off"
    BY <1>3 DEF AgentInit
  <2>. QED BY <1>1, <1>3, <2>1 DEF RouterFits, ScriptCallFits, ScriptFits, RowJoins, Reaches
<1>. QED BY <1>4, <1>5, <1>6 DEF AgentInv, ScriptInv

\* One step of the store, of a router or of a call.
LEMMA AgentStep ==
  ASSUME AgentInv, AgentNext
  PROVE  AgentInv' /\ \A q \in Routers \ raced : StaysManaged(q) \/ Adopt(q)
<1>0. AgentTypeOK /\ TokenInv /\ ScriptInv
  BY DEF AgentInv
<1>1. ASSUME AgentTypeOK', TokenInv', LeavesScripts
      PROVE  AgentInv' /\ \A q \in Routers \ raced : StaysManaged(q) \/ Adopt(q)
  BY <1>0, <1>1, ScriptsStay, SameStaysManaged DEF LeavesScripts
<1>2. ASSUME rows' = rows PROVE \A q \in Routers \ raced : StaysManaged(q)
  BY <1>2, NothingStored, SameStaysManaged
<1>3. CASE \E t \in Tokens : createInstallToken(t) \/ Expires(t)
  BY <1>0, <1>1, <1>3, TokenStepKeeps DEF AgentInv
<1>4. CASE \E r \in Routers : CheckinStart(r)
  BY <1>0, <1>1, <1>4, CheckinStartKeeps
<1>5. ASSUME NEW r \in Routers, Adopt(r)
      PROVE  AgentInv' /\ \A q \in Routers \ raced : StaysManaged(q) \/ Adopt(q)
  BY <1>0, <1>5, AdoptKeeps, SameStaysManaged
<1>6. CASE \E r \in Looping : CallEnroll(r) \/ CallAck(r) \/ ScriptFails(r)
  <2>1. PICK r \in Looping : CallEnroll(r) \/ CallAck(r) \/ ScriptFails(r)
    BY <1>6
  <2>2. rows' = rows
    BY <2>1 DEF CallEnroll, CallAck, ScriptFails, store
  <2>. QED BY <1>0, <1>2, <2>1, <2>2, ScriptRuns
<1>7. CASE \E r \in Looping : GiveUp(r)
  <2>1. rows' = rows
    BY <1>7 DEF GiveUp, store
  <2>. QED BY <1>0, <1>2, <1>7, <2>1, GiveUpKeeps
<1>8. CASE \E r \in Routers, t \in Tokens : Paste(r, t)
  BY <1>0, <1>1, <1>8, PasteKeeps
<1>9. CASE \E r \in Looping, t \in Tokens \cup {Nobody} : StartScript(r, t)
  <2>1. rows' = rows
    BY <1>9 DEF StartScript, store
  <2>. QED BY <1>0, <1>2, <1>9, <2>1, ScriptRuns
<1>10. CASE \E c \in PasteSlots : Bootstrap(c) \/ AnswerLost(c)
  BY <1>0, <1>1, <1>10, FindTokenKeeps, PlaceholderKeeps, AgentTokenKeeps, ClaimKeeps, AnswerKeeps,
     AnswerLostKeeps DEF Bootstrap
<1>11. CASE \E c \in AgentSlots : Checkin(c)
  BY <1>0, <1>1, <1>11, CheckinKeeps, CheckinRecordKeeps DEF Checkin
<1>12. ASSUME NEW c \in ScriptSlots, Enroll(c) \/ Ack(c)
       PROVE  AgentInv' /\ \A q \in Routers \ raced : StaysManaged(q) \/ Adopt(q)
  <2>1. CASE EnrollFindToken(c) \/ EnrollExisting(c) \/ EnrollAnswer(c)
    <3>1. rows' = rows
      BY <2>1 DEF EnrollFindToken, EnrollExisting, EnrollAnswer, Refuse, store
    <3>. QED BY <1>0, <1>2, <2>1, <3>1, EnrollKeeps
  <2>2. CASE EnrollUpsert(c)
    <3>1. /\ AgentInv' /\ \A q \in Routers \ {c[2]} : SameRow(q)
          /\ c[2] \notin raced /\ Known(c[2]) => EnrolRow(c[2])'.state = EnrolRow(c[2]).state
      BY <1>0, <2>2, UpsertKeeps
    <3>2. c[2] \notin raced => StaysManaged(c[2])
      BY <3>1 DEF StaysManaged
    <3>. QED BY <3>1, <3>2, SameStaysManaged
  <2>3. CASE AckFindDevice(c) \/ AckListTokens(c) \/ AckClaim(c) \/ AckAnswer(c)
    <3>1. rows' = rows
      BY <2>3 DEF AckFindDevice, AckListTokens, AckClaim, AckAnswer, Refuse, store
    <3>. QED BY <1>0, <1>2, <2>3, <3>1, AckEndKeeps
  <2>4. CASE AckCredentials(c) \/ AckPromote(c) \/ AckAgentToken(c)
    <3>1. /\ AgentInv' /\ \A q \in Routers \ {c[2]} : SameRow(q)
          /\ TheRow(c).state = "fully_managed" => EnrolRow(c[2])'.state = "fully_managed"
          /\ TheRow(c) = EnrolRow(c[2])
      BY <1>0, <2>4, AckKeeps
    <3>2. StaysManaged(c[2])
      BY <3>1 DEF StaysManaged
    <3>. QED BY <3>1, <3>2, SameStaysManaged
  <2>. QED BY <1>12, <2>1, <2>2, <2>3, <2>4 DEF Enroll, Ack
<1>13. ASSUME NEW c \in Slots, StatementFails(c)
       PROVE  AgentInv' /\ \A q \in Routers \ raced : StaysManaged(q) \/ Adopt(q)
  <2>1. CASE c \in ScriptSlots
    <3>1. rows' = rows /\ Busy(c)
      BY <1>13 DEF StatementFails, store
    <3>. QED BY <1>0, <1>2, <1>13, <2>1, <3>1, ScriptRefused
  <2>2. CASE c \in PasteSlots \cup AgentSlots
    BY <1>0, <1>1, <1>13, <2>2, RefuseKeeps
  <2>. QED BY <2>1, <2>2, TheSlots
<1>. QED BY <1>3, <1>4, <1>5, <1>6, <1>7, <1>8, <1>9, <1>10, <1>11, <1>12, <1>13 DEF AgentNext

\* The devices of a token: the one that bootstrap calls left, and those of the routers.
LEMMA TheDevicesOfAToken ==
  ASSUME AgentInv, NEW t \in Tokens \ shared
  PROVE  Cardinality(MadeWith(t)) <= 1 + Cardinality(EnrolledWith(t))
<1> DEFINE left    == {i \in DOMAIN rows : Pasted(rows[i]) = t}
           R       == EnrolledWith(t)
           Row1(r) == RowOf(Serial(r))
           joined  == {Row1(r) : r \in R}
<1>1. RowsFit /\ TokenFits(t) /\ \A r \in Looping : RowJoins(r)
  BY DEF AgentInv, TokenInv, ScriptInv, RouterFits
<1>2. IsFiniteSet(left) /\ Cardinality(left) <= 1 /\ Cardinality(left) \in Nat
  <2>1. \A i, k \in left : i = k
    BY <1>1 DEF TokenFits
  <2>2. CASE left = {}
    BY <2>2, FS_EmptySet
  <2>3. CASE left # {}
    <3>1. PICK i : left = {i}
      BY <2>1, <2>3
    <3>. QED BY <3>1, FS_Singleton
  <2>. QED BY <2>2, <2>3
<1>3. R \subseteq Routers
  BY TheHosts DEF EnrolledWith
<1>4. IsFiniteSet(R) /\ Cardinality(R) \in Nat
  BY <1>3, TheHosts, FS_Subset, FS_CardinalityType
<1>5. IsFiniteSet(joined) /\ Cardinality(joined) <= Cardinality(R) /\ Cardinality(joined) \in Nat
  <2>1. [r \in R |-> Row1(r)] \in Surjection(R, joined)
    BY DEF Surjection
  <2> HIDE DEF R, joined
  <2>. QED BY <1>4, <2>1, FS_Surjection, FS_CardinalityType
<1>6. MadeWith(t) \subseteq left \cup joined
  <2> SUFFICES ASSUME NEW i \in DOMAIN rows, rows[i].madeWith = t, Pasted(rows[i]) # t
               PROVE  i \in joined
    BY DEF MadeWith
  <2>1. rows[i].host[1] = "serial"
    BY DEF Pasted
  <2>2. PICK r \in Looping : rows[i].host = Serial(r)
    BY <1>1, <2>1 DEF RowsFit, Pending, Address
  <2>3. given[r] = t /\ Known(r) /\ RowOf(Serial(r)) = i
    BY <1>1, <2>2, RowOfIs DEF RowJoins, Known
  <2>. QED BY <2>3 DEF EnrolledWith
<1> HIDE DEF left, joined, R
<1>7. /\ IsFiniteSet(left \cup joined)
      /\ Cardinality(left \cup joined) =
           Cardinality(left) + Cardinality(joined) - Cardinality(left \cap joined)
  BY <1>2, <1>5, FS_Union
<1>8. Cardinality(left \cap joined) \in Nat
  BY <1>2, FS_Subset, FS_CardinalityType
<1>9. Cardinality(MadeWith(t)) <= Cardinality(left \cup joined) /\ Cardinality(MadeWith(t)) \in Nat
  BY <1>6, <1>7, FS_Subset, FS_CardinalityType
<1>. QED BY <1>2, <1>4, <1>5, <1>7, <1>8, <1>9 DEF R

LEMMA NextAgentInv ==
  ASSUME AgentInv, [AgentNext]_agentVars
  PROVE  AgentInv'
<1>1. CASE UNCHANGED agentVars
  <2>1. UNCHANGED <<token, rows, agent, script, given, shared, raced, pasted, calls>>
    BY <1>1 DEF agentVars, store, router
  <2>2. AgentTypeOK /\ TokenInv /\ ScriptInv
    BY DEF AgentInv
  <2>3. AgentTypeOK'
    BY <2>1, <2>2 DEF AgentTypeOK
  <2>4. \A c \in PasteSlots \cup AgentSlots : ~Busy(c)' \/ (calls'[c] = calls[c] /\ Busy(c))
    BY <2>1 DEF Busy
  <2>5. TokenInv'
    BY <2>1, <2>2, <2>4, BesideTokens
  <2>6. LeavesScripts
    BY <2>1 DEF LeavesScripts, SameRow, At
  <2>. QED BY <2>2, <2>3, <2>5, <2>6, ScriptsStay
<1>. QED BY <1>1, AgentStep

\* However often calls fail or are repeated, a token that no two bootstrap calls used at once
\* accounts for its devices: one that they left, and one for every router that enrolled with
\* it.  An agent that was installed is known by its token.
THEOREM TokensAreAccountedFor == AgentSpec => []DevicesPerToken
<1>1. ASSUME AgentInv PROVE DevicesPerToken
  <2>1. ASSUME NEW t \in Tokens \ shared
        PROVE  Cardinality(MadeWith(t)) <= 1 + Cardinality(EnrolledWith(t))
    BY <1>1, <2>1, TheDevicesOfAToken
  <2>. QED BY <1>1, <2>1 DEF DevicesPerToken, AgentInv, TokenInv, AgentFits
<1>. QED BY <1>1, InitAgentInv, NextAgentInv, PTL DEF AgentSpec

\* A script that has ended left its router managed, whatever failed half-way before.
THEOREM ScriptsEndWhole == AgentSpec => []DoneIsWhole
<1>1. ASSUME AgentInv PROVE DoneIsWhole
  <2>1. ASSUME NEW r \in Looping \ raced, script[r] = "done"
        PROVE  Known(r) /\ Counts(EnrolRow(r), "answer")
    BY <1>1, <2>1 DEF AgentInv, ScriptInv, RouterFits, ScriptFits, Acknowledged
  <2>. QED BY <2>1 DEF DoneIsWhole, Counts, Purposes
<1>. QED BY <1>1, InitAgentInv, NextAgentInv, PTL DEF AgentSpec

\* No call of a router takes back what was approved or acknowledged.
THEOREM ManagedDevicesStay == AgentSpec => ManagedStays
<1> DEFINE A == \A r \in Routers \ raced :
                  Known(r) /\ EnrolRow(r).state = "fully_managed"
                  /\ EnrolRow(r)'.state # "fully_managed"
                    => Adopt(r)
<1>1. ASSUME AgentInv, AgentNext PROVE A
  BY <1>1, AgentStep DEF StaysManaged
<1>2. ASSUME AgentInv, [AgentNext]_agentVars PROVE [A]_agentVars
  BY <1>1, <1>2
<1>3. ManagedStays <=> [][A]_agentVars
  BY DEF ManagedStays
<1> HIDE DEF A
<1>. QED BY <1>2, <1>3, InitAgentInv, NextAgentInv, PTL DEF AgentSpec
=============================================================================
