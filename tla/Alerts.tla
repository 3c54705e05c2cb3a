------------------------------- MODULE Alerts -------------------------------
(***************************************************************************)
(* Alerts: one rule, the subject it is evaluated for (a device, or the     *)
(* site for the client count rules) and the channels that are told.  Every *)
(* statement filters on the rule and the subject, so different pairs do    *)
(* not meet.                                                               *)
(*                                                                         *)
(* evaluateDeviceMetric, evaluateDeviceOffline and evaluateDeviceOnline    *)
(* are started by polls that do not wait for them, and polls may overlap:  *)
(* each element of Evals is one evaluation that may be under way.  A user  *)
(* creates, switches and deletes the rule meanwhile, and the notifier      *)
(* tells of each alert on its own.  Each action is one awaited statement   *)
(* with the code that follows it.                                          *)
(* Definitions whose name begins with Bug are mutants: no specification    *)
(* uses them.                                                              *)
(***************************************************************************)
EXTENDS Integers, FiniteSets

CONSTANTS
  Evals,      \* evaluations that may be under way at the same time
  Events,     \* identities of the rows of alert_events, reused once resolved
  Channels,   \* notification channels of the site
  Cooldown,   \* rule.cooldownSeconds, in ticks
  MaxFaults   \* bound on the number of statements and messages that fail

ASSUME AlertsAssumption == IsFiniteSet(Evals) /\ Cooldown \in Nat /\ MaxFaults \in Nat

VARIABLES
  breach,   \* does the condition of the rule hold for the subject
  open,     \* events of the rule and subject with resolvedAt null
  acked,    \* those of them that a user has acknowledged
  age,      \* ticks since the most recent event fired, at most Cooldown
  pc,       \* where each evaluation is suspended
  found,    \* the event an evaluation has found open
  raced,    \* history: have two evaluations been under way together
  rule,     \* the row of alert_rules: "absent", "enabled", "disabled" or "deleted"
  subject,  \* is the device still in the inventory
  picked,   \* channels picked in the form, not yet linked to the rule
  links,    \* rows of alert_rule_channels
  channels, \* rows of notification_channels
  note,     \* by event, how far the notifier is with it
  owed,     \* history: the channels that are still to hear of an event
  faults

life == <<rule, subject, picked, links, channels>>
news == <<note, owed>>
vars == <<breach, open, acked, age, pc, found, raced, life, news, faults>>

Done  == [at |-> "done", to |-> {}]
Notes == [at : {"done", "links", "channels", "send"}, to : SUBSET Channels]

Init ==
  /\ breach \in BOOLEAN
  /\ open = {} /\ acked = {}
  /\ age = Cooldown          \* no event yet: nothing to wait for
  /\ pc = [e \in Evals |-> "idle"]
  /\ found = [e \in Evals |-> {}]
  /\ raced = FALSE
  /\ rule = "absent"
  /\ subject = TRUE
  /\ picked = {}
  /\ links = {}
  /\ channels = Channels
  /\ note = [a \in Events |-> Done]
  /\ owed = [a \in Events |-> {}]
  /\ faults = 0

\* Neither the rule nor the device has been deleted: an event can refer to them.
Lives == rule # "deleted" /\ subject

Goto(e, point) == pc' = [pc EXCEPT ![e] = point]
Busy(e)        == pc[e] # "idle"

-----------------------------------------------------------------------------
\* nothing resolves an event when the condition is clear
BugSample(e) ==
  /\ ~Busy(e)
  /\ rule = "enabled" /\ subject
  /\ breach
  /\ Goto(e, "check")
  /\ raced' = (raced \/ \E other \in Evals \ {e} : Busy(other))
  /\ UNCHANGED <<breach, open, acked, age, found, life, news, faults>>

\* A poll has a value of the metric, or has seen the device online or offline,
\* and reads the rules of the site: this one is enabled, in scope (every rule
\* the form makes is), and not read again.  A value that the router has not
\* reported is a clear condition, as a Flip of breach before this poll is.
Sample(e) ==
  /\ ~Busy(e)
  /\ rule = "enabled" /\ subject
  /\ Goto(e, IF breach THEN "check" ELSE "find")
  /\ raced' = (raced \/ \E other \in Evals \ {e} : Busy(other))
  /\ UNCHANGED <<breach, open, acked, age, found, life, news, faults>>

\* the open event not looked for
BugCheckOpen(e) ==
  /\ pc[e] = "check"
  /\ Goto(e, "cooldown")
  /\ UNCHANGED <<breach, open, acked, age, found, raced, life, news, faults>>

\* AlertRepository.getOpenEvent
CheckOpen(e) ==
  /\ pc[e] = "check"
  /\ Goto(e, IF open = {} THEN "cooldown" ELSE "idle")
  /\ UNCHANGED <<breach, open, acked, age, found, raced, life, news, faults>>

\* the cooldown not looked at
BugNoCooldown(e) ==
  /\ pc[e] = "cooldown"
  /\ Goto(e, "fire")
  /\ UNCHANGED <<breach, open, acked, age, found, raced, life, news, faults>>

\* AlertRepository.getMostRecentFiredEvent and isCooldownActive
CheckCooldown(e) ==
  /\ pc[e] = "cooldown"
  /\ Goto(e, IF age < Cooldown THEN "idle" ELSE "fire")
  /\ UNCHANGED <<breach, open, acked, age, found, raced, life, news, faults>>

\* fireAlert: AlertRepository.createEvent, then alert:fired, which the notifier
\* hears.
Fire(e) ==
  /\ pc[e] = "fire"
  /\ Lives
  /\ \E id \in Events \ open :
       /\ \A other \in Evals : id \notin found[other]
       /\ note[id].at = "done"
       /\ open' = open \cup {id}
       /\ note' = [note EXCEPT ![id].at = "links"]
       /\ owed' = [owed EXCEPT ![id] = links]
  /\ age' = 0
  /\ Goto(e, "idle")
  /\ UNCHANGED <<breach, acked, found, raced, life, faults>>

\* The rule or the device has been deleted: the foreign keys refuse the event.
FireRefused(e) ==
  /\ pc[e] = "fire"
  /\ ~Lives
  /\ Goto(e, "idle")
  /\ UNCHANGED <<breach, open, acked, age, found, raced, life, news, faults>>

\* resolveIfOpen: AlertRepository.getOpenEvent, which of several is not told
FindOpen(e) ==
  /\ pc[e] = "find"
  /\ \/ open = {} /\ Goto(e, "idle") /\ UNCHANGED found
     \/ \E id \in open : Goto(e, "resolve") /\ found' = [found EXCEPT ![e] = {id}]
  /\ UNCHANGED <<breach, open, acked, age, raced, life, news, faults>>

\* AlertRepository.resolveEvent, then alert:resolved
Resolve(e) ==
  /\ pc[e] = "resolve"
  /\ open' = open \ found[e] /\ acked' = acked \ found[e]
  /\ found' = [found EXCEPT ![e] = {}]
  /\ Goto(e, "idle")
  /\ UNCHANGED <<breach, age, raced, life, news, faults>>

\* A statement throws: the catch around the rule or of the caller drops it.
Fail(e) ==
  /\ Busy(e)
  /\ faults < MaxFaults
  /\ faults' = faults + 1
  /\ found' = [found EXCEPT ![e] = {}]
  /\ Goto(e, "idle")
  /\ UNCHANGED <<breach, open, acked, age, raced, life, news>>

Flip ==
  /\ breach' = ~breach
  /\ UNCHANGED <<open, acked, age, pc, found, raced, life, news, faults>>

Tick ==
  /\ age < Cooldown
  /\ age' = age + 1
  /\ UNCHANGED <<breach, open, acked, pc, found, raced, life, news, faults>>

-----------------------------------------------------------------------------
(* The forms of the alerts page, and the removal of the device *)

\* createRule ...
CreateRule ==
  /\ rule = "absent"
  /\ rule' = "enabled"
  /\ picked' \in SUBSET channels
  /\ UNCHANGED <<breach, open, acked, age, pc, found, raced, subject, links, channels, news, faults>>

\* ... and setRuleChannels, a statement of its own: an alert that fires before it
\* finds no channel.  The insert is refused when the rule, or one of the
\* channels, is gone.
LinkChannels ==
  /\ picked # {}
  /\ picked' = {}
  /\ links' = IF rule # "deleted" /\ picked \subseteq channels THEN picked ELSE links
  /\ UNCHANGED <<breach, open, acked, age, pc, found, raced, rule, subject, channels, news, faults>>

LinkFails ==
  /\ picked # {}
  /\ faults < MaxFaults /\ faults' = faults + 1
  /\ picked' = {}
  /\ UNCHANGED <<breach, open, acked, age, pc, found, raced, rule, subject, links, channels, news>>

\* toggleRule: the events stay as they are.
ToggleRule ==
  /\ rule \in {"enabled", "disabled"}
  /\ rule' = IF rule = "enabled" THEN "disabled" ELSE "enabled"
  /\ UNCHANGED <<breach, open, acked, age, pc, found, raced, subject, picked, links, channels, news, faults>>

\* deleteRule: its events and links go with it.  What is owed is forgiven.
DeleteRule ==
  /\ rule \in {"enabled", "disabled"}
  /\ rule' = "deleted"
  /\ open' = {} /\ acked' = {} /\ age' = Cooldown /\ links' = {}
  /\ owed' = [a \in Events |-> {}]
  /\ UNCHANGED <<breach, pc, found, raced, subject, picked, channels, note, faults>>

\* The row of the device is deleted and its events lose their device_id: no
\* evaluation finds them any more, and those that are open stay so.
RemoveDevice ==
  /\ subject
  /\ subject' = FALSE
  /\ open' = {} /\ acked' = {} /\ age' = Cooldown
  /\ UNCHANGED <<breach, pc, found, raced, rule, picked, links, channels, news, faults>>

\* acknowledgeEvent: the bell counts it no longer, the evaluator minds it as before.
Acknowledge(a) ==
  /\ a \in open \ acked
  /\ acked' = acked \cup {a}
  /\ UNCHANGED <<breach, open, age, pc, found, raced, life, news, faults>>

\* deleteChannel, its links included.
DeleteChannel(c) ==
  /\ c \in channels
  /\ channels' = channels \ {c}
  /\ links' = links \ {c}
  /\ owed' = [a \in Events |-> owed[a] \ {c}]
  /\ UNCHANGED <<breach, open, acked, age, pc, found, raced, rule, subject, picked, note, faults>>

-----------------------------------------------------------------------------
(* notifyChannels *)

Goes(a, at, to) == note' = [note EXCEPT ![a] = IF to = {} THEN Done ELSE [at |-> at, to |-> to]]

\* a rule that has been disabled in the meantime tells nobody
BugReadLinks(a) ==
  /\ note[a].at = "links"
  /\ Goes(a, "channels", IF rule = "enabled" THEN links ELSE {})
  /\ UNCHANGED <<breach, open, acked, age, pc, found, raced, life, owed, faults>>

\* getChannelsForRule: the links ...
ReadLinks(a) ==
  /\ note[a].at = "links"
  /\ Goes(a, "channels", links)
  /\ UNCHANGED <<breach, open, acked, age, pc, found, raced, life, owed, faults>>

\* ... and the channels, by statements that run side by side: of those that have
\* been deleted there is no row.
ReadChannels(a) ==
  /\ note[a].at = "channels"
  /\ Goes(a, "send", note[a].to \cap channels)
  /\ UNCHANGED <<breach, open, acked, age, pc, found, raced, life, owed, faults>>

\* One of these statements throws: nobody hears of the alert.
ReadFails(a) ==
  /\ note[a].at \in {"links", "channels"}
  /\ faults < MaxFaults /\ faults' = faults + 1
  /\ note' = [note EXCEPT ![a] = Done]
  /\ owed' = [owed EXCEPT ![a] = {}]
  /\ UNCHANGED <<breach, open, acked, age, pc, found, raced, life>>

\* The webhook, Slack or the mail server takes the message.
Send(a, c) ==
  /\ note[a].at = "send" /\ c \in note[a].to
  /\ Goes(a, "send", note[a].to \ {c})
  /\ owed' = [owed EXCEPT ![a] = @ \ {c}]
  /\ UNCHANGED <<breach, open, acked, age, pc, found, raced, life, faults>>

\* It does not: Promise.allSettled goes on with the others, and nobody is told.
SendFails(a, c) ==
  /\ note[a].at = "send" /\ c \in note[a].to
  /\ faults < MaxFaults /\ faults' = faults + 1
  /\ Goes(a, "send", note[a].to \ {c})
  /\ owed' = [owed EXCEPT ![a] = @ \ {c}]
  /\ UNCHANGED <<breach, open, acked, age, pc, found, raced, life>>

-----------------------------------------------------------------------------
Step(e) ==
  \/ CheckOpen(e) \/ CheckCooldown(e) \/ Fire(e) \/ FireRefused(e)
  \/ FindOpen(e)  \/ Resolve(e)

Form ==
  \/ CreateRule \/ LinkChannels \/ LinkFails \/ ToggleRule \/ DeleteRule \/ RemoveDevice
  \/ \E a \in Events : Acknowledge(a)
  \/ \E c \in Channels : DeleteChannel(c)

Notify(a) == ReadLinks(a) \/ ReadChannels(a) \/ \E c \in Channels : Send(a, c) \/ SendFails(a, c)

Next ==
  \/ \E e \in Evals : Sample(e) \/ Step(e) \/ Fail(e)
  \/ Form
  \/ \E a \in Events : Notify(a) \/ ReadFails(a)
  \/ Flip \/ Tick

Spec == Init /\ [][Next]_vars

\* setInterval polls for ever, every statement and message settles and time goes
\* on.
FairSpec ==
  /\ Spec
  /\ WF_vars(Tick)
  /\ \A e \in Evals : WF_vars(Sample(e)) /\ WF_vars(Step(e))
  /\ \A a \in Events : WF_vars(Notify(a))

-----------------------------------------------------------------------------
(* Properties *)

TypeOK ==
  /\ breach \in BOOLEAN
  /\ open \subseteq Events /\ acked \subseteq open
  /\ age \in 0..Cooldown
  /\ pc \in [Evals -> {"idle", "check", "cooldown", "fire", "find", "resolve"}]
  /\ found \in [Evals -> SUBSET Events]
  /\ \A e \in Evals : pc[e] # "resolve" => found[e] = {}
  /\ raced \in BOOLEAN
  /\ rule \in {"absent", "enabled", "disabled", "deleted"}
  /\ subject \in BOOLEAN
  /\ picked \subseteq Channels /\ links \subseteq Channels /\ channels \subseteq Channels
  /\ note \in [Events -> Notes]
  /\ owed \in [Events -> SUBSET Channels]
  /\ faults \in 0..MaxFaults

\* Evaluations that do not overlap keep at most one event open, and resolve
\* nothing but an event that is open, or went with its rule or lost its device.
OneUnlessRaced ==
  ~raced =>
    /\ \A a, b \in open : a = b
    /\ Lives => \A e \in Evals : found[e] \subseteq open

\* Evaluations that have found no open event, or no recent one.
Firing == {e \in Evals : pc[e] \in {"cooldown", "fire"}}

\* Evaluations that overlap, which check for an open event some statements before
\* they insert one, can open an event each, but no more: an open event, as an
\* evaluation that is about to fire, stands for an evaluation that found none.
OpenBoundedByOverlap ==
  Cardinality(open) + Cardinality(Firing) <= Cardinality(Evals)

\* One event of a rule and subject is open at a time; if polls that do not wait for
\* each other evaluate it at once, no more than one for each of them.
OneOpenAlert == OneUnlessRaced /\ OpenBoundedByOverlap

Fires == ~(open' \subseteq open)

\* The rule fires again only after its cooldown, if evaluations do not overlap.
CooldownKept == [][Fires => age = Cooldown \/ raced]_vars

\* The events follow the condition for as long as the rule is enabled and the
\* device there.  When it stays clear every open event is resolved for good, the
\* duplicates of overlapping evaluations and what the rule left open while it was
\* disabled included; when it stays an event stays open, whatever late
\* evaluations of an earlier clear sample resolve.
EventsFollowCondition ==
  /\ <>[](~breach /\ rule = "enabled" /\ subject) => <>[](open = {})
  /\ <>[](breach /\ rule = "enabled" /\ subject)  => <>[](open # {})

\* Every channel that the rule has when an alert fires hears of it, whatever
\* becomes of the others, unless it or the rule is deleted or its message fails.
AlertsAreTold == \A a \in Events : owed[a] # {} ~> owed[a] = {}
=============================================================================
