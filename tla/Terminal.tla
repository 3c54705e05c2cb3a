------------------------------ MODULE Terminal ------------------------------
(***************************************************************************)
(* A terminal on a router: the pane in the browser, one WebSocket for each *)
(* time it connects, and startDeviceTerminalSession, which runs ssh for    *)
(* it.  The shell, the socket and the idle timer each may end the session, *)
(* and whatever they report while the session is still being set up finds  *)
(* no listener.                                                            *)
(*                                                                         *)
(* A promise that nobody handles and is rejected, and an event 'error'     *)
(* without a listener, end the Node process (Die), and every session in it.*)
(* Definitions whose name begins with Bug are mutants: see Scheduler.      *)
(***************************************************************************)
EXTENDS Integers, Sequences

CONSTANTS
  MaxSessions, \* bound on the times the pane connects
  MaxFailures  \* bound on failing statements, keys and processes

Sessions == 1..MaxSessions
None     == 0

ASSUME TerminalAssumption == MaxSessions \in Nat \ {0} /\ MaxFailures \in Nat

VARIABLES
  stage,   \* where startDeviceTerminalSession is
  closed,  \* its variable `closed`
  timer,   \* its idle timer: "off", "on", or "due" when the idle time is over
  shell,   \* the ssh process; "exited" until Node has reported it
  audit,   \* the records of the session
  pending, \* is the record of its end being written
  sock,    \* the socket; "heard" once the server knows that it is closed
  outbox,  \* status messages on their way to the browser
  pane,    \* the pane's status
  current, \* the session of the pane's socket
  tab,     \* is the page open
  died,    \* history: has the process died
  failures

server       == <<stage, closed, timer, shell, audit, pending>>
browser      == <<pane, current, tab>>
terminalVars == <<server, sock, outbox, browser, died, failures>>

Stages       == {"none", "keys", "opening", "live", "failing", "ended", "dead"}
Shells       == {"none", "running", "exited", "gone"}
SocketStates == {"none", "asked", "opening", "open", "closing", "heard", "closed"}
Statuses     == {"idle", "connecting", "connected", "closed", "failed"}

TerminalInit ==
  /\ stage = [s \in Sessions |-> "none"]
  /\ closed = [s \in Sessions |-> FALSE]
  /\ timer = [s \in Sessions |-> "off"]
  /\ shell = [s \in Sessions |-> "none"]
  /\ audit = [s \in Sessions |-> {}]
  /\ pending = [s \in Sessions |-> FALSE]
  /\ sock = [s \in Sessions |-> "none"]
  /\ outbox = [s \in Sessions |-> <<>>]
  /\ pane = "idle"
  /\ current = None
  /\ tab = TRUE
  /\ died = FALSE
  /\ failures = 0

SetStage(s, to)  == stage' = [stage EXCEPT ![s] = to]
SetSocket(s, to) == sock' = [sock EXCEPT ![s] = to]
Told(s, msgs)    == IF sock[s] = "open" THEN outbox[s] \o msgs ELSE outbox[s]
Send(s, msgs)    == outbox' = [outbox EXCEPT ![s] = Told(s, msgs)]
Records(s, what) == audit' = [audit EXCEPT ![s] = @ \cup {what}]

\* the process left alone
BugCloseSession(s, before) ==
  IF closed[s]
  THEN /\ UNCHANGED <<closed, timer, shell, pending>>
       /\ Send(s, before)
  ELSE /\ closed' = [closed EXCEPT ![s] = TRUE]
       /\ timer' = [timer EXCEPT ![s] = "off"]
       /\ UNCHANGED shell
       /\ pending' = [pending EXCEPT ![s] = TRUE]
       /\ Send(s, Append(before, "closed"))

\* the browser not told
BugCloseSilently(s, before) ==
  /\ Send(s, before)
  /\ IF closed[s]
     THEN UNCHANGED <<closed, timer, shell, pending>>
     ELSE /\ closed' = [closed EXCEPT ![s] = TRUE]
          /\ timer' = [timer EXCEPT ![s] = "off"]
          /\ shell' = [shell EXCEPT ![s] = IF @ = "running" THEN "exited" ELSE @]
          /\ pending' = [pending EXCEPT ![s] = TRUE]

\* closeSession, after the messages `before`: once, whoever calls it.  The
\* record of the end is written without waiting for it, and the socket stays
\* open.
CloseSession(s, before) ==
  IF closed[s]
  THEN /\ UNCHANGED <<closed, timer, shell, pending>>
       /\ Send(s, before)
  ELSE /\ closed' = [closed EXCEPT ![s] = TRUE]
       /\ timer' = [timer EXCEPT ![s] = "off"]
       /\ shell' = [shell EXCEPT ![s] = IF @ = "running" THEN "exited" ELSE @]
       /\ pending' = [pending EXCEPT ![s] = TRUE]
       /\ Send(s, Append(before, "closed"))

-----------------------------------------------------------------------------
(* The pane *)

\* connect: the button is off while the pane says that it is connected.
Connect(s) ==
  /\ tab
  /\ sock[s] = "none" /\ \A k \in 1..(s - 1) : sock[k] # "none"
  /\ pane \notin {"connecting", "connected"}
  /\ pane' = "connecting"
  /\ SetSocket(s, "asked")
  /\ UNCHANGED <<server, outbox, current, tab, died, failures>>

\* The action refuses: not an administrator, or a device without SSH trust.
Refused(s) ==
  /\ sock[s] = "asked"
  /\ pane' = IF tab THEN "failed" ELSE pane
  /\ SetSocket(s, "closed")
  /\ UNCHANGED <<server, outbox, current, tab, died, failures>>

\* The action answers with a URL and the pane opens a socket on it.
Answered(s) ==
  /\ sock[s] = "asked" /\ tab
  /\ SetSocket(s, "opening")
  /\ current' = s
  /\ UNCHANGED <<server, outbox, pane, tab, died, failures>>

\* The socket is open at both ends: the server starts the session.
SocketOpens(s) ==
  /\ sock[s] = "opening" /\ tab
  /\ SetSocket(s, "open")
  /\ pane' = "connected"
  /\ SetStage(s, "keys")
  /\ UNCHANGED <<closed, timer, shell, audit, pending, outbox, current, tab, died, failures>>

SocketFails(s) ==
  /\ sock[s] = "opening"
  /\ SetSocket(s, "closed")
  /\ pane' = IF tab THEN "failed" ELSE pane
  /\ UNCHANGED <<server, outbox, current, tab, died, failures>>

\* handleServerMessage: whichever socket a message comes from.
Receive(s) ==
  /\ tab /\ sock[s] = "open" /\ outbox[s] # <<>>
  /\ pane' = Head(outbox[s])
  /\ outbox' = [outbox EXCEPT ![s] = Tail(@)]
  /\ UNCHANGED <<server, sock, current, tab, died, failures>>

\* The listener of the socket's close event, whichever socket it is.
PaneHearsClose(s) ==
  /\ sock[s] = "heard"
  /\ SetSocket(s, "closed")
  /\ pane' = IF tab /\ pane # "failed" THEN "closed" ELSE pane
  /\ outbox' = [outbox EXCEPT ![s] = <<>>]
  /\ UNCHANGED <<server, current, tab, died, failures>>

\* disconnect, by the button.
Disconnect(s) ==
  /\ tab /\ s = current /\ pane = "connected" /\ sock[s] = "open"
  /\ SetSocket(s, "closing")
  /\ UNCHANGED <<server, outbox, browser, died, failures>>

\* The network, or the library's own time limit.
SocketLost(s) ==
  /\ sock[s] = "open"
  /\ SetSocket(s, "closing")
  /\ UNCHANGED <<server, outbox, browser, died, failures>>

CloseTab ==
  /\ tab
  /\ tab' = FALSE
  /\ sock' = [s \in Sessions |-> IF sock[s] \in {"open", "opening"} THEN "closing" ELSE sock[s]]
  /\ UNCHANGED <<server, outbox, pane, current, died, failures>>

-----------------------------------------------------------------------------
(* startDeviceTerminalSession *)

\* The files of the keys are there, ssh is spawned, and the session waits for
\* the record of its opening.
Spawn(s) ==
  /\ stage[s] = "keys"
  /\ SetStage(s, "opening")
  /\ shell' = [shell EXCEPT ![s] = "running"]
  /\ Send(s, <<"connecting">>)
  /\ UNCHANGED <<closed, timer, audit, pending, sock, browser, died, failures>>

\* no timer until the first message
BugOpened(s) ==
  /\ stage[s] = "opening"
  /\ SetStage(s, "live")
  /\ Records(s, "opened")
  /\ Send(s, <<"connected">>)
  /\ UNCHANGED <<closed, timer, shell, pending, sock, browser, died, failures>>

\* The record is written, the listeners are attached, the timer starts.  What
\* the shell or the socket has reported in the meantime is lost.
Opened(s) ==
  /\ stage[s] = "opening"
  /\ SetStage(s, "live")
  /\ Records(s, "opened")
  /\ timer' = [timer EXCEPT ![s] = "on"]
  /\ Send(s, <<"connected">>)
  /\ UNCHANGED <<closed, shell, pending, sock, browser, died, failures>>

\* spawn throws, or the record cannot be written: the catch waits for a record
\* of its own.
SetupFails(s) ==
  /\ stage[s] \in {"keys", "opening"}
  /\ failures < MaxFailures
  /\ failures' = failures + 1
  /\ SetStage(s, "failing")
  /\ Send(s, IF stage[s] = "keys" THEN <<"connecting", "failed">> ELSE <<"failed">>)
  /\ UNCHANGED <<closed, timer, shell, audit, pending, sock, browser, died>>

FailureRecorded(s) ==
  /\ stage[s] = "failing"
  /\ SetStage(s, "ended")
  /\ Records(s, "failed")
  /\ CloseSession(s, <<>>)
  /\ UNCHANGED <<sock, browser, died, failures>>

\* ssh ends: a wrong key, a router that goes away, `exit`.
ShellExits(s) ==
  /\ shell[s] = "running"
  /\ shell' = [shell EXCEPT ![s] = "exited"]
  /\ UNCHANGED <<stage, closed, timer, audit, pending, sock, outbox, browser, died, failures>>

\* Its close event: without a listener nobody hears it.
ShellReported(s) ==
  /\ shell[s] = "exited" /\ stage[s] # "dead"
  /\ \/ /\ stage[s] # "live"
        /\ shell' = [shell EXCEPT ![s] = "gone"]
        /\ UNCHANGED <<closed, timer, pending, outbox>>
     \/ /\ stage[s] = "live" /\ ~closed[s]
        /\ closed' = [closed EXCEPT ![s] = TRUE]
        /\ timer' = [timer EXCEPT ![s] = "off"]
        /\ shell' = [shell EXCEPT ![s] = "gone"]
        /\ pending' = [pending EXCEPT ![s] = TRUE]
        /\ Send(s, <<"closed">>)
     \/ /\ stage[s] = "live" /\ closed[s]
        /\ shell' = [shell EXCEPT ![s] = "gone"]
        /\ UNCHANGED <<closed, timer, pending, outbox>>
  /\ UNCHANGED <<stage, audit, sock, browser, died, failures>>

\* Its error event, once somebody listens: the process cannot be signalled.
ShellErrors(s) ==
  /\ stage[s] = "live" /\ shell[s] = "running"
  /\ failures < MaxFailures
  /\ failures' = failures + 1
  /\ Records(s, "failed")
  /\ CloseSession(s, <<"failed">>)
  /\ UNCHANGED <<stage, sock, browser, died>>

\* The socket's close event at the server, or its last message.
ServerHearsClose(s) ==
  /\ sock[s] = "closing"
  /\ SetSocket(s, "heard")
  /\ \/ stage[s] = "live" /\ CloseSession(s, <<>>)
     \/ stage[s] # "live" /\ UNCHANGED <<closed, timer, shell, pending, outbox>>
  /\ UNCHANGED <<stage, audit, browser, died, failures>>

\* A key is pressed: the message goes to the pane's socket and starts the timer
\* again, also after closeSession.
Input(s) ==
  /\ tab /\ s = current /\ sock[s] = "open" /\ stage[s] = "live"
  /\ timer' = [timer EXCEPT ![s] = "on"]
  /\ UNCHANGED <<stage, closed, shell, audit, pending, sock, outbox, browser, died, failures>>

IdleTimePasses(s) ==
  /\ timer[s] = "on"
  /\ timer' = [timer EXCEPT ![s] = "due"]
  /\ UNCHANGED <<stage, closed, shell, audit, pending, sock, outbox, browser, died, failures>>

TimesOut(s) ==
  /\ timer[s] = "due"
  /\ \/ ~closed[s] /\ CloseSession(s, <<>>)
     \/ closed[s] /\ timer' = [timer EXCEPT ![s] = "off"]
        /\ UNCHANGED <<closed, shell, pending, outbox>>
  /\ UNCHANGED <<stage, audit, sock, browser, died, failures>>

\* The record of the end is written.
EndRecorded(s) ==
  /\ pending[s]
  /\ pending' = [pending EXCEPT ![s] = FALSE]
  /\ Records(s, "closed")
  /\ UNCHANGED <<stage, closed, timer, shell, sock, outbox, browser, died, failures>>

\* What nobody catches: the keys cannot be read, ssh cannot be spawned (its
\* error comes before the listener), the record of a failure or of an end
\* cannot be written, a key pressed for a shell that has just gone.
Uncaught(s) ==
  \/ stage[s] \in {"keys", "failing"}
  \/ pending[s]
  \/ stage[s] = "live" /\ shell[s] = "exited" /\ s = current /\ tab /\ sock[s] = "open"

\* The process dies, and the pipes and sockets of its sessions with it.
Die ==
  /\ \E s \in Sessions : Uncaught(s)
  /\ failures < MaxFailures
  /\ failures' = failures + 1
  /\ died' = TRUE
  /\ stage' = [s \in Sessions |-> IF stage[s] = "none" THEN "none" ELSE "dead"]
  /\ timer' = [s \in Sessions |-> "off"]
  /\ shell' = [s \in Sessions |-> IF shell[s] = "none" THEN "none" ELSE "gone"]
  /\ pending' = [s \in Sessions |-> FALSE]
  /\ sock' = [s \in Sessions |-> IF sock[s] \in {"open", "closing"} THEN "heard" ELSE sock[s]]
  /\ outbox' = [s \in Sessions |-> <<>>]
  /\ UNCHANGED <<closed, audit, browser>>

-----------------------------------------------------------------------------
TerminalNext ==
  \/ \E s \in Sessions :
       \/ Connect(s) \/ Refused(s) \/ Answered(s) \/ SocketOpens(s) \/ SocketFails(s)
       \/ Receive(s) \/ PaneHearsClose(s) \/ Disconnect(s) \/ SocketLost(s)
       \/ Spawn(s) \/ Opened(s) \/ SetupFails(s) \/ FailureRecorded(s)
       \/ ShellExits(s) \/ ShellReported(s) \/ ShellErrors(s) \/ ServerHearsClose(s)
       \/ Input(s) \/ IdleTimePasses(s) \/ TimesOut(s) \/ EndRecorded(s)
  \/ CloseTab \/ Die

TerminalSpec == TerminalInit /\ [][TerminalNext]_terminalVars

\* Statements are answered, events are reported, messages arrive, a timer that
\* is due fires.  The idle time passes for certain only when nobody can press a
\* key any more: a user may type for ever.
TerminalFairSpec ==
  /\ TerminalSpec
  /\ \A s \in Sessions :
       /\ WF_terminalVars(Spawn(s)) /\ WF_terminalVars(Opened(s)) /\ WF_terminalVars(FailureRecorded(s))
       /\ WF_terminalVars(ShellReported(s)) /\ WF_terminalVars(ServerHearsClose(s))
       /\ WF_terminalVars(TimesOut(s)) /\ WF_terminalVars(EndRecorded(s))
       /\ WF_terminalVars(Receive(s)) /\ WF_terminalVars(PaneHearsClose(s))
       /\ WF_terminalVars(sock[s] # "open" /\ IdleTimePasses(s))

-----------------------------------------------------------------------------
(* Properties *)

\* A shell that runs is watched: its session is still being set up, or it is
\* not closed and the idle timer runs.  Whatever report was lost, and whoever
\* closed what first, no shell is left to itself.
ShellsAreWatched ==
  \A s \in Sessions : shell[s] = "running" =>
    \/ stage[s] \in {"opening", "failing"}
    \/ stage[s] = "live" /\ ~closed[s] /\ timer[s] # "off"

\* When the browser is gone the session ends, although its going may not have
\* been heard: no shell remains, and the audit says that it was closed, unless
\* the process dies.
SessionsEnd ==
  \A s \in Sessions :
    (stage[s] # "none" /\ sock[s] \in {"heard", "closed"}) ~>
      (died \/ (shell[s] \in {"none", "exited", "gone"} /\ "closed" \in audit[s]))

\* A session that the server has closed does not keep the pane from connecting
\* again, although its socket stays open: the pane says so in the end.
EndIsShown ==
  \A s \in Sessions :
    (closed[s] /\ current = s) ~>
      \/ ~tab \/ pane \notin {"connecting", "connected"}
      \/ \E k \in Sessions : k > s /\ sock[k] # "none"
=============================================================================
