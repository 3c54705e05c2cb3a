------------------------------- MODULE Agent -------------------------------
(***************************************************************************)
(* How a router joins by itself.  An administrator makes an install token; *)
(* pasted on a router it fetches /agent/bootstrap once and installs an     *)
(* agent, which checks in for ever.  The bootstrap script instead repeats  *)
(* enroll and, once it is approved, ack, until the ack is answered.        *)
(*                                                                         *)
(* A handler is a sequence of statements, each one an action; handlers run *)
(* side by side, a statement may fail, and a router may give up on a call  *)
(* that the server goes on to answer.                                      *)
(* Definitions whose name begins with Bug are mutants: see Scheduler.      *)
(***************************************************************************)
EXTENDS Integers, Sequences, FiniteSets

CONSTANTS
  Routers,
  Looping,    \* bound: the routers that may run the bootstrap script
  AddressOf,  \* the address a router's check-ins come from
  MaxTokens,  \* bound on the install tokens
  MaxJoins,   \* bound on the pastes and the started scripts together
  MaxFaults   \* bound on failing statements, lost answers, calls given up, and expiries

Tokens == 1..MaxTokens
Pastes == 1..MaxJoins
Nobody == 0
Purposes == {"read_only", "write"}
\* an agent token that no router holds: the bootstrap script drops the answer of its ack
Unseen == MaxJoins + 1

ASSUME AgentAssumption ==
  /\ IsFiniteSet(Routers) /\ Looping \subseteq Routers
  /\ MaxTokens \in Nat /\ MaxJoins \in Nat /\ MaxFaults \in Nat
  /\ DOMAIN AddressOf = Routers

VARIABLES
  token,   \* device_install_tokens: "none", "free", "expired" or "claimed"
  rows,    \* the devices, in the order of their ids
  calls,   \* the calls that the server handles
  agent,   \* the agent token a router's agent was installed with
  script,  \* a router's bootstrap script: "off", "idle", "enroll", "approved", "ack", "done"
  given,   \* the install token in it, or Nobody
  shared,  \* history: tokens that two bootstrap calls used at once
  raced,   \* history: routers with a call given up, or adopted inside an enroll
  pasted,  \* the bootstrap calls made so far
  faults

store == <<token, rows>>
router == <<agent, script, given>>
agentVars == <<store, calls, router, shared, raced, pasted, faults>>

\* where calls arrive: "late" holds the call that a script gave up
PasteSlots  == {"paste"} \X Pastes
AgentSlots  == {"agent"} \X Routers
ScriptSlots == {"script", "late"} \X Looping
Slots == PasteSlots \cup AgentSlots \cup ScriptSlots
Free  == [kind |-> "free"]

Pending(t) == <<"pending", t>>
Address(r) == <<"address", AddressOf[r]>>
Serial(r)  == <<"serial", r>>

AgentInit ==
  /\ token = [t \in Tokens |-> "none"]
  /\ rows = <<>>
  /\ calls = [c \in Slots |-> Free]
  /\ agent = [r \in Routers |-> Nobody]
  /\ script = [r \in Routers |-> "off"]
  /\ given = [r \in Routers |-> Nobody]
  /\ shared = {}
  /\ raced = {}
  /\ pasted = 0
  /\ faults = 0

(***************************************************************************)
(* The store.                                                              *)
(***************************************************************************)

At(host)     == {i \in DOMAIN rows : rows[i].host = host}
RowOf(host)  == CHOOSE i \in At(host) : TRUE
Known(r)     == At(Serial(r)) # {}
EnrolRow(r)  == rows[RowOf(Serial(r))]
TheRow(c)    == rows[calls[c].row]

Blank(host, site, state, t) ==
  [host |-> host, site |-> site, state |-> state, agent |-> Nobody,
   creds |-> [p \in Purposes |-> 0], checked |-> FALSE, madeWith |-> t]

\* insert, or update the row that has the host; madeWith records the token of the insert
Upsert(host, site, state, t) ==
  rows' = IF At(host) = {} THEN Append(rows, Blank(host, site, state, t))
          ELSE [rows EXCEPT ![RowOf(host)].site = site, ![RowOf(host)].state = state]

UpsertedRow(host) == IF At(host) = {} THEN Len(rows) + 1 ELSE RowOf(host)

(***************************************************************************)
(* A call: its next statement, and how it goes on.                         *)
(***************************************************************************)

Busy(c)    == calls[c] # Free
Goto(c, at) == [calls EXCEPT ![c].at = at]
Reaches(c, kind, at) == Busy(c) /\ calls[c].kind = kind /\ calls[c].at = at
Begin(c, kind, r, t, at) ==
  calls' = [calls EXCEPT ![c] = [kind |-> kind, by |-> r, token |-> t, at |-> at,
                                 row |-> 0, seen |-> "nothing", site |-> FALSE]]

\* what the router makes of an answer; a call it gave up is answered to nobody
Heard(c, to) ==
  script' = IF c[1] = "script" THEN [script EXCEPT ![c[2]] = to] ELSE script
\* The handler throws, and the router sees an error.
Refuse(c) ==
  /\ calls' = [calls EXCEPT ![c] = Free]
  /\ Heard(c, "idle")
  /\ UNCHANGED <<store, agent, given, shared, raced, pasted, faults>>

Keep == UNCHANGED <<router, shared, raced, pasted, faults>>

\* A statement of the handler that fails; before enroll and ack answer, they still emit that
\* the device is updated, which reads it.
StatementFails(c) ==
  /\ Busy(c) /\ faults < MaxFaults
  /\ calls[c].at = "answer" => calls[c].kind \in {"enroll", "ack"}
  /\ faults' = faults + 1
  /\ calls' = [calls EXCEPT ![c] = Free]
  /\ Heard(c, "idle")
  /\ UNCHANGED <<store, agent, given, shared, raced, pasted>>

(***************************************************************************)
(* Install tokens.                                                         *)
(***************************************************************************)

createInstallToken(t) ==
  /\ token[t] = "none"
  /\ \A u \in Tokens : u < t => token[u] # "none"
  /\ token' = [token EXCEPT ![t] = "free"]
  /\ UNCHANGED <<rows, calls>> /\ Keep

\* a day later
Expires(t) ==
  /\ token[t] = "free" /\ faults < MaxFaults
  /\ faults' = faults + 1
  /\ token' = [token EXCEPT ![t] = "expired"]
  /\ UNCHANGED <<rows, calls, router, shared, raced, pasted>>

Valid(t) == token[t] = "free"
\* the claim forgotten
BugClaimToken(t) == UNCHANGED token
claimToken(t) == token' = [token EXCEPT ![t] = "claimed"]

(***************************************************************************)
(* GET /agent/bootstrap: a placeholder device, its agent token, the claim. *)
(***************************************************************************)

Joins == pasted + Cardinality({r \in Routers : script[r] # "off"})

Paste(r, t) ==
  /\ Joins < MaxJoins
  /\ token[t] # "none"
  /\ pasted' = pasted + 1
  /\ Begin(<<"paste", pasted + 1>>, "bootstrap", r, t, "find_token")
  /\ UNCHANGED <<store, router, shared, raced, faults>>

\* the bootstrap calls other than c that are past the check of the token
InUse(c, t) == \E d \in PasteSlots \ {c} : /\ Busy(d)
                                           /\ calls[d].token = t /\ calls[d].at # "find_token"

BootstrapFindToken(c) ==
  /\ Reaches(c, "bootstrap", "find_token")
  /\ LET t == calls[c].token
     IN IF Valid(t)
        THEN /\ calls' = Goto(c, "placeholder")
             /\ shared' = IF InUse(c, t) THEN shared \cup {t} ELSE shared
             /\ UNCHANGED <<store, router, raced, pasted, faults>>
        ELSE Refuse(c)

BootstrapPlaceholder(c) ==
  /\ Reaches(c, "bootstrap", "placeholder")
  /\ LET host == Pending(calls[c].token)
     IN /\ Upsert(host, TRUE, "discovered", calls[c].token)
        /\ calls' = [calls EXCEPT ![c].at = "agent_token", ![c].row = UpsertedRow(host)]
  /\ UNCHANGED token /\ Keep

\* setAgentToken: the token is random, so no other call makes the same one
BootstrapAgentToken(c) ==
  /\ Reaches(c, "bootstrap", "agent_token")
  /\ rows' = [rows EXCEPT ![calls[c].row].agent = c[2]]
  /\ calls' = Goto(c, "claim")
  /\ UNCHANGED token /\ Keep

BootstrapClaim(c) ==
  /\ Reaches(c, "bootstrap", "claim")
  /\ claimToken(calls[c].token)
  /\ calls' = Goto(c, "answer")
  /\ UNCHANGED rows /\ Keep

\* the router runs the script that it is answered, which installs the agent
BootstrapAnswer(c) ==
  /\ Reaches(c, "bootstrap", "answer")
  /\ calls' = [calls EXCEPT ![c] = Free]
  /\ agent' = [agent EXCEPT ![calls[c].by] = c[2]]
  /\ UNCHANGED <<store, script, given, shared, raced, pasted, faults>>

AnswerLost(c) ==
  /\ Reaches(c, "bootstrap", "answer")
  /\ faults < MaxFaults
  /\ faults' = faults + 1
  /\ calls' = [calls EXCEPT ![c] = Free]
  /\ UNCHANGED <<store, router, shared, raced, pasted>>

(***************************************************************************)
(* GET /agent/checkin, which the agent repeats: find the device, look      *)
(* whether its host is a placeholder, and record the check-in.             *)
(***************************************************************************)

\* Bound: a device that is checked in is not checked in again, which would change nothing.
CheckinStart(r) ==
  /\ agent[r] # Nobody /\ ~Busy(<<"agent", r>>)
  /\ \A i \in DOMAIN rows : rows[i].agent = agent[r] => ~rows[i].checked
  /\ Begin(<<"agent", r>>, "checkin", r, agent[r], "find_device")
  /\ UNCHANGED store /\ Keep

CheckinFindDevice(c) ==
  /\ Reaches(c, "checkin", "find_device")
  /\ LET found == {i \in DOMAIN rows : rows[i].agent = calls[c].token}
     IN IF found = {} THEN Refuse(c)
        ELSE /\ calls' = [calls EXCEPT ![c].at = "read_host",
                                       ![c].row = CHOOSE i \in found : TRUE]
             /\ UNCHANGED store /\ Keep

IsPlaceholder(row) == row.host[1] = "pending"

CheckinReadHost(c) ==
  /\ Reaches(c, "checkin", "read_host")
  /\ calls' = [calls EXCEPT ![c].at = "record",
                            ![c].seen = IF IsPlaceholder(TheRow(c)) THEN "placeholder" ELSE "host"]
  /\ UNCHANGED store /\ Keep

\* the host an update would store; devices_host_unique allows one device a host
NewHost(c) == IF calls[c].seen = "placeholder" THEN Address(calls[c].by) ELSE TheRow(c).host
Taken(host, i) == At(host) \ {i} # {}

CheckinRecord(c) ==
  /\ Reaches(c, "checkin", "record")
  /\ IF Taken(NewHost(c), calls[c].row) THEN Refuse(c)
     ELSE /\ rows' = [rows EXCEPT ![calls[c].row].host = NewHost(c),
                                  ![calls[c].row].checked = TRUE]
          /\ calls' = [calls EXCEPT ![c] = Free]
          /\ UNCHANGED token /\ Keep

(***************************************************************************)
(* The bootstrap script, and POST /enroll.                                 *)
(***************************************************************************)

StartScript(r, t) ==
  /\ script[r] = "off" /\ Joins < MaxJoins
  /\ IF t = Nobody THEN TRUE ELSE token[t] = "free"
  /\ script' = [script EXCEPT ![r] = "idle"]
  /\ given' = [given EXCEPT ![r] = t]
  /\ UNCHANGED <<store, calls, agent, shared, raced, pasted, faults>>

\* the scheduler of the router runs the script again
CallEnroll(r) ==
  /\ script[r] = "idle" /\ ~Busy(<<"script", r>>)
  /\ script' = [script EXCEPT ![r] = "enroll"]
  /\ Begin(<<"script", r>>, "enroll", r, given[r],
           IF given[r] = Nobody THEN "existing" ELSE "find_token")
  /\ UNCHANGED <<store, agent, given, shared, raced, pasted, faults>>

\* The router stops waiting; the server does not know.
GiveUp(r) ==
  LET c == <<"script", r>> d == <<"late", r>>
  IN /\ Busy(c) /\ ~Busy(d) /\ faults < MaxFaults
     /\ faults' = faults + 1
     /\ raced' = raced \cup {r}
     /\ calls' = [calls EXCEPT ![c] = Free, ![d] = calls[c]]
     /\ script' = [script EXCEPT ![r] = "idle"]
     /\ UNCHANGED <<store, agent, given, shared, pasted>>

EnrollFindToken(c) ==
  /\ Reaches(c, "enroll", "find_token")
  /\ IF Valid(calls[c].token)
     THEN /\ calls' = Goto(c, "existing")
          /\ UNCHANGED store /\ Keep
     ELSE Refuse(c)

\* getDeviceByHost: what the upsert below keeps
EnrollExisting(c) ==
  /\ Reaches(c, "enroll", "existing")
  /\ LET r == calls[c].by
     IN calls' = [calls EXCEPT ![c].at = "upsert",
                               ![c].site = Known(r) /\ EnrolRow(r).site,
                               ![c].seen = IF Known(r) THEN EnrolRow(r).state ELSE "nothing"]
  /\ UNCHANGED store /\ Keep

\* the state and the site that the device gets
\* the existing state ignored
BugStateKept(c) == "discovered"
StateKept(c) == IF calls[c].seen = "nothing" THEN "discovered" ELSE calls[c].seen
SiteKept(c)  == calls[c].token # Nobody \/ calls[c].site

\* the device discovered again, the answer still from what was read
BugEnrollUpsert(c) ==
  /\ Reaches(c, "enroll", "upsert")
  /\ Upsert(Serial(calls[c].by), SiteKept(c), "discovered", calls[c].token)
  /\ calls' = [calls EXCEPT ![c].at = "answer", ![c].seen = StateKept(c)]
  /\ UNCHANGED token /\ Keep

\* the token is not claimed: it is as good as before
EnrollUpsert(c) ==
  /\ Reaches(c, "enroll", "upsert")
  /\ Upsert(Serial(calls[c].by), SiteKept(c), StateKept(c), calls[c].token)
  /\ calls' = [calls EXCEPT ![c].at = "answer", ![c].seen = StateKept(c)]
  /\ UNCHANGED token /\ Keep

EnrollAnswer(c) ==
  /\ Reaches(c, "enroll", "answer")
  /\ calls' = [calls EXCEPT ![c] = Free]
  /\ Heard(c, IF calls[c].seen \in {"inventoried", "fully_managed"} THEN "approved" ELSE "idle")
  /\ UNCHANGED <<store, agent, given, shared, raced, pasted, faults>>

(***************************************************************************)
(* adopt(serial): the device is approved, whatever its state was.          *)
(***************************************************************************)

Adopt(r) ==
  /\ Known(r)
  /\ rows' = [rows EXCEPT ![RowOf(Serial(r))].state = "inventoried"]
  /\ raced' = IF Reaches(<<"script", r>>, "enroll", "upsert") THEN raced \cup {r} ELSE raced
  /\ UNCHANGED <<token, calls, router, shared, pasted, faults>>

(***************************************************************************)
(* POST /bootstrap/ack, which the script sends once it is approved and has *)
(* made its users and keys.                                                *)
(***************************************************************************)

CallAck(r) ==
  /\ script[r] = "approved"
  /\ script' = [script EXCEPT ![r] = "ack"]
  /\ Begin(<<"script", r>>, "ack", r, Nobody, "find_device")
  /\ UNCHANGED <<store, agent, given, shared, raced, pasted, faults>>

\* a command of the script fails on the router
ScriptFails(r) ==
  /\ script[r] = "approved" /\ faults < MaxFaults
  /\ faults' = faults + 1
  /\ script' = [script EXCEPT ![r] = "idle"]
  /\ UNCHANGED <<store, calls, agent, given, shared, raced, pasted>>

AckFindDevice(c) ==
  /\ Reaches(c, "ack", "find_device")
  /\ LET r == calls[c].by
     IN IF Known(r)
        THEN /\ calls' = [calls EXCEPT ![c].at = "drop_read_only",
                                       ![c].row = RowOf(Serial(r)),
                                       ![c].site = EnrolRow(r).site]
             /\ UNCHANGED store /\ Keep
        ELSE Refuse(c)

AckStep(c, at, then, change) ==
  /\ Reaches(c, "ack", at)
  /\ rows' = [rows EXCEPT ![calls[c].row] = change]
  /\ calls' = Goto(c, then)
  /\ UNCHANGED token /\ Keep

\* replaceCredential: the active ones of the purpose are retired, then the new one is stored
Retire(row, purpose)  == [row EXCEPT !.creds[purpose] = 0]
\* the new row retired with the old ones
BugInstall(row, purpose) == [row EXCEPT !.creds[purpose] = 0]
Install(row, purpose) == [row EXCEPT !.creds[purpose] = @ + 1]

AckCredentials(c) ==
  \/ AckStep(c, "drop_read_only", "add_read_only", Retire(TheRow(c), "read_only"))
  \/ AckStep(c, "add_read_only", "drop_write", Install(TheRow(c), "read_only"))
  \/ AckStep(c, "drop_write", "add_write", Retire(TheRow(c), "write"))
  \/ AckStep(c, "add_write", "promote", Install(TheRow(c), "write"))

AckPromote(c) ==
  AckStep(c, "promote", "agent_token", [TheRow(c) EXCEPT !.state = "fully_managed"])

AckAgentToken(c) ==
  AckStep(c, "agent_token", "list_tokens", [TheRow(c) EXCEPT !.agent = Unseen])

\* listBySite, for the site read at the start; '' is no uuid, and the query throws
AckListTokens(c) ==
  /\ Reaches(c, "ack", "list_tokens")
  /\ LET unclaimed == {t \in Tokens : token[t] \in {"free", "expired"}}
         oldest    == CHOOSE t \in unclaimed : \A u \in unclaimed : t <= u
     IN IF ~calls[c].site THEN Refuse(c)
        ELSE /\ calls' = IF unclaimed = {} THEN Goto(c, "answer")
                         ELSE [calls EXCEPT ![c].at = "claim", ![c].token = oldest]
             /\ UNCHANGED store /\ Keep

AckClaim(c) ==
  /\ Reaches(c, "ack", "claim")
  /\ claimToken(calls[c].token)
  /\ calls' = Goto(c, "answer")
  /\ UNCHANGED rows /\ Keep

\* the script disables its scheduler
AckAnswer(c) ==
  /\ Reaches(c, "ack", "answer")
  /\ calls' = [calls EXCEPT ![c] = Free]
  /\ Heard(c, "done")
  /\ UNCHANGED <<store, agent, given, shared, raced, pasted, faults>>

(***************************************************************************)
(* The specification.                                                      *)
(***************************************************************************)

Bootstrap(c) ==
  \/ BootstrapFindToken(c) \/ BootstrapPlaceholder(c) \/ BootstrapAgentToken(c)
  \/ BootstrapClaim(c) \/ BootstrapAnswer(c)
Checkin(c) == CheckinFindDevice(c) \/ CheckinReadHost(c) \/ CheckinRecord(c)
Enroll(c)  == EnrollFindToken(c) \/ EnrollExisting(c) \/ EnrollUpsert(c) \/ EnrollAnswer(c)
Ack(c) ==
  \/ AckFindDevice(c) \/ AckCredentials(c) \/ AckPromote(c) \/ AckAgentToken(c)
  \/ AckListTokens(c) \/ AckClaim(c) \/ AckAnswer(c)

AgentNext ==
  \/ \E t \in Tokens : createInstallToken(t) \/ Expires(t)
  \/ \E r \in Routers : CheckinStart(r) \/ Adopt(r)
  \/ \E r \in Looping : CallEnroll(r) \/ CallAck(r) \/ ScriptFails(r) \/ GiveUp(r)
  \/ \E r \in Routers, t \in Tokens : Paste(r, t)
  \/ \E r \in Looping, t \in Tokens \cup {Nobody} : StartScript(r, t)
  \/ \E c \in PasteSlots : Bootstrap(c) \/ AnswerLost(c)
  \/ \E c \in AgentSlots : Checkin(c)
  \/ \E c \in ScriptSlots : Enroll(c) \/ Ack(c)
  \/ \E c \in Slots : StatementFails(c)

AgentSpec == AgentInit /\ [][AgentNext]_agentVars

\* The scheduler of a router runs its script again, and the server goes on with a call.
AgentFairness ==
  \A r \in Looping : LET c == <<"script", r>>
                     IN WF_agentVars(CallEnroll(r) \/ CallAck(r) \/ Enroll(c) \/ Ack(c))

AgentFairSpec == AgentSpec /\ AgentFairness

(***************************************************************************)
(* Correctness.                                                            *)
(***************************************************************************)

\* An install token accounts for the devices made with it.  /agent/bootstrap claims it: unless
\* two bootstrap calls used it at once, they leave at most one device with it, however often
\* they fail or are repeated.  /enroll uses it without a claim: each router that enrolled with
\* it is one more.  An agent that was installed is known by its agent token.
MadeWith(t)     == {i \in DOMAIN rows : rows[i].madeWith = t}
EnrolledWith(t) == {r \in Looping : Known(r) /\ given[r] = t}
DevicesPerToken ==
  /\ \A t \in Tokens \ shared : Cardinality(MadeWith(t)) <= 1 + Cardinality(EnrolledWith(t))
  /\ shared = {} =>
       \A r \in Routers : agent[r] # Nobody => \E i \in DOMAIN rows : rows[i].agent = agent[r]

\* The script stops only when the router is managed: the device has both credentials,
\* once, and an agent token, however many of its calls failed half-way before.
DoneIsWhole ==
  \A r \in Looping \ raced :
    script[r] = "done" =>
      /\ Known(r)
      /\ \A p \in Purposes : EnrolRow(r).creds[p] = 1
      /\ EnrolRow(r).agent = Unseen

\* Enrolling again never takes back what was approved or acknowledged: only adopt() puts a
\* managed device back, unless the router gave up on a call that is still being handled.
ManagedStays ==
  [][\A r \in Routers \ raced :
       Known(r) /\ EnrolRow(r).state = "fully_managed" /\ EnrolRow(r)'.state # "fully_managed"
         => Adopt(r)]_agentVars

\* A router that is approved ends its script, unless its install token is no longer valid:
\* claimed by the acknowledgement of another router or by its own lost one, or expired.
ScriptEnds ==
  \A r \in Looping :
    (script[r] # "off" /\ Known(r) /\ EnrolRow(r).site /\ EnrolRow(r).state # "discovered")
      ~> (script[r] = "done" \/ r \in raced \/ (given[r] # Nobody /\ ~Valid(given[r])))

=============================================================================
