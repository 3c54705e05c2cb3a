---------------------------- MODULE AlertsProofs ----------------------------
(***************************************************************************)
(* What the alert evaluator keeps for any number of evaluations, events    *)
(* and ticks of cooldown: at most one event open and the cooldown kept     *)
(* while evaluations do not overlap, and never more events open than there *)
(* are evaluations when they do.                                           *)
(***************************************************************************)
EXTENDS Alerts, FiniteSetTheorems, TLAPS

\* Without an overlap an evaluation is alone: nobody opens an event after it has
\* found none, and the cooldown it has found over stays over.
Alone ==
  ~raced =>
    /\ \A a, b \in Evals : Busy(a) /\ Busy(b) => a = b
    /\ \A e \in Evals : pc[e] \in {"cooldown", "fire"} => open = {}
    /\ \A e \in Evals : pc[e] = "fire" => age = Cooldown

\* The invariant that is inductive.
IInv ==
  /\ TypeOK
  /\ Alone
  /\ OneUnlessRaced
  /\ IsFiniteSet(open)
  /\ OpenBoundedByOverlap

-----------------------------------------------------------------------------
(* Types *)

LEMMA TypeInit == Init => TypeOK
<1>1. Init => pc \in [Evals -> {"idle", "check", "cooldown", "fire", "find", "resolve"}]
  BY DEF Init
<1>2. Init => age \in 0..Cooldown /\ faults \in 0..MaxFaults
  BY AlertsAssumption DEF Init
<1>3. Init => note \in [Events -> Notes] /\ owed \in [Events -> SUBSET Channels]
  BY DEF Init, Done, Notes
<1> QED
  BY <1>1, <1>2, <1>3 DEF Init, TypeOK

\* An evaluation leaves the rule, the device and the channels alone.
LEMMA TypeEvaluation ==
  ASSUME TypeOK, NEW e \in Evals, Sample(e) \/ Step(e) \/ Fail(e)
  PROVE  TypeOK'
<1> USE AlertsAssumption DEF TypeOK, Goto, life, news
<1>1. CASE Sample(e)
  BY <1>1 DEF Sample, Busy
<1>2. CASE CheckOpen(e)
  BY <1>2 DEF CheckOpen
<1>3. CASE CheckCooldown(e)
  BY <1>3 DEF CheckCooldown
<1>4. CASE Fire(e)
  <2>1. PICK id \in Events \ open :
          /\ open' = open \cup {id}
          /\ note' = [note EXCEPT ![id].at = "links"]
          /\ owed' = [owed EXCEPT ![id] = links]
    BY <1>4 DEF Fire
  <2>2. note' \in [Events -> Notes]
    BY <2>1 DEF Notes
  <2>3. owed' \in [Events -> SUBSET Channels]
    BY <2>1
  <2> QED
    BY <1>4, <2>1, <2>2, <2>3 DEF Fire
<1>5. CASE FireRefused(e)
  BY <1>5 DEF FireRefused
<1>6. CASE FindOpen(e)
  BY <1>6 DEF FindOpen
<1>7. CASE Resolve(e)
  BY <1>7 DEF Resolve
<1>8. CASE Fail(e)
  BY <1>8 DEF Fail, Busy
<1> QED
  BY <1>1, <1>2, <1>3, <1>4, <1>5, <1>6, <1>7, <1>8 DEF Step

\* The notifier changes what it has done and owes.
LEMMA TypeNotify ==
  ASSUME TypeOK, NEW a \in Events, Notify(a) \/ ReadFails(a)
  PROVE  TypeOK'
<1> USE AlertsAssumption DEF TypeOK, life
<1>1. ASSUME NEW to \in SUBSET Channels, NEW at \in {"channels", "send"}, Goes(a, at, to)
      PROVE  note' \in [Events -> Notes]
  BY <1>1 DEF Goes, Done, Notes
<1>2. note[a].to \in SUBSET Channels
  BY DEF Notes
<1>3. CASE ReadLinks(a)
  BY <1>1, <1>3 DEF ReadLinks
<1>4. CASE ReadChannels(a)
  BY <1>1, <1>2, <1>4 DEF ReadChannels
<1>5. ASSUME NEW c \in Channels, Send(a, c) PROVE TypeOK'
  BY <1>1, <1>2, <1>5 DEF Send
<1>6. ASSUME NEW c \in Channels, SendFails(a, c) PROVE TypeOK'
  BY <1>1, <1>2, <1>6 DEF SendFails
<1>7. CASE ReadFails(a)
  BY <1>7 DEF ReadFails, Done, Notes
<1> QED
  BY <1>3, <1>4, <1>5, <1>6, <1>7 DEF Notify

LEMMA TypeForm == ASSUME TypeOK, Form PROVE TypeOK'
<1> USE AlertsAssumption DEF TypeOK, news
<1>1. CASE CreateRule
  BY <1>1 DEF CreateRule
<1>2. CASE LinkChannels
  BY <1>2 DEF LinkChannels
<1>3. CASE LinkFails
  BY <1>3 DEF LinkFails
<1>4. CASE ToggleRule
  BY <1>4 DEF ToggleRule
<1>5. CASE DeleteRule
  BY <1>5 DEF DeleteRule
<1>6. CASE RemoveDevice
  <2>1. age' \in 0..Cooldown /\ open' = {} /\ acked' = {}
    BY <1>6 DEF RemoveDevice
  <2>2. subject' \in BOOLEAN
    BY <1>6, Zenon DEF RemoveDevice
  <2>3. UNCHANGED <<breach, pc, found, raced, rule, picked, links, channels, note, owed, faults>>
    BY <1>6, Zenon DEF RemoveDevice
  <2> QED
    BY <2>1, <2>2, <2>3
<1>7. ASSUME NEW a \in Events, Acknowledge(a) PROVE TypeOK'
  BY <1>7 DEF Acknowledge, life
<1>8. ASSUME NEW c \in Channels, DeleteChannel(c) PROVE TypeOK'
  BY <1>8 DEF DeleteChannel
<1> QED
  BY <1>1, <1>2, <1>3, <1>4, <1>5, <1>6, <1>7, <1>8 DEF Form

LEMMA TypeNext == TypeOK /\ [Next]_vars => TypeOK'
<1> SUFFICES ASSUME TypeOK, [Next]_vars PROVE TypeOK'
  OBVIOUS
<1>1. CASE Flip
  BY <1>1 DEF Flip, TypeOK, life, news
<1>2. CASE Tick
  BY <1>2, AlertsAssumption DEF Tick, TypeOK, life, news
<1>3. CASE UNCHANGED vars
  BY <1>3 DEF vars, TypeOK, life, news
<1> QED
  BY <1>1, <1>2, <1>3, TypeEvaluation, TypeNotify, TypeForm DEF Next

-----------------------------------------------------------------------------
(* Evaluations that do not overlap *)

\* An evaluation that starts is alone unless it says so.
LEMMA StartsAlone ==
  ASSUME TypeOK, Alone, OneUnlessRaced, NEW e \in Evals, Sample(e)
  PROVE  Alone' /\ OneUnlessRaced'
<1> USE DEF Alone, OneUnlessRaced, Lives, life, Busy, Sample, Goto, TypeOK
<1> SUFFICES ASSUME ~raced' PROVE Alone' /\ OneUnlessRaced'
  OBVIOUS
<1>1. ~raced /\ \A other \in Evals \ {e} : pc[other] = "idle"
  OBVIOUS
<1>2. \A other \in Evals \ {e} : pc'[other] = "idle"
  BY <1>1
<1>3. pc'[e] \in {"check", "find"}
  OBVIOUS
<1> QED
  BY <1>1, <1>2, <1>3

\* What an evaluation does while it is alone.
LEMMA StaysAlone ==
  ASSUME TypeOK, TypeOK', Alone, OneUnlessRaced, NEW e \in Evals, Step(e) \/ Fail(e)
  PROVE  Alone' /\ OneUnlessRaced'
<1> USE DEF Goto, TypeOK
<1> SUFFICES ASSUME ~raced PROVE Alone' /\ OneUnlessRaced'
  BY DEF Alone, OneUnlessRaced, Step, CheckOpen, CheckCooldown, Fire, FireRefused, FindOpen, Resolve, Fail
<1>1. /\ Busy(e) /\ raced' = raced
      /\ \A other \in Evals \ {e} : pc'[other] = pc[other]
      /\ Lives' = Lives
  BY DEF Busy, Step, CheckOpen, CheckCooldown, Fire, FireRefused, FindOpen, Resolve, Fail, Lives, life
<1>2. \A other \in Evals \ {e} : pc[other] = "idle" /\ pc'[other] = "idle" /\ found[other] = {}
  BY <1>1 DEF Alone, Busy
<1>3. ASSUME pc'[e] \in {"cooldown", "fire"} => open' = {},
             pc'[e] = "fire" => age' = Cooldown,
             \A a, b \in open' : a = b,
             Lives => found'[e] \subseteq open'
      PROVE  Alone' /\ OneUnlessRaced'
  <2>1. \A other \in Evals \ {e} : found'[other] = {}
    BY <1>2
  <2> QED
    BY <1>1, <1>2, <1>3, <2>1 DEF Alone, OneUnlessRaced, Busy
<1>4. CASE CheckOpen(e)
  BY <1>3, <1>4 DEF CheckOpen, OneUnlessRaced
<1>5. CASE CheckCooldown(e)
  BY <1>3, <1>5, AlertsAssumption DEF CheckCooldown, Alone, OneUnlessRaced
<1>6. CASE Fire(e)
  BY <1>3, <1>6 DEF Fire, Alone, OneUnlessRaced
<1>7. CASE FindOpen(e)
  BY <1>3, <1>7 DEF FindOpen, OneUnlessRaced
<1>8. CASE Resolve(e)
  BY <1>3, <1>8 DEF Resolve, OneUnlessRaced
<1>9. CASE Fail(e)
  BY <1>3, <1>9 DEF Fail, OneUnlessRaced
<1>10. CASE FireRefused(e)
  BY <1>3, <1>10 DEF FireRefused, OneUnlessRaced
<1> QED
  BY <1>4, <1>5, <1>6, <1>7, <1>8, <1>9, <1>10 DEF Step

\* What the forms and the notifier do to the events: nothing, or they take them
\* all from the evaluator at once.
LEMMA FromOutside ==
  ASSUME Form \/ \E a \in Events : Notify(a) \/ ReadFails(a)
  PROVE  /\ UNCHANGED <<pc, found, raced>>
         /\ \/ UNCHANGED <<open, age>> /\ (Lives' => Lives)
            \/ open' = {} /\ age' = Cooldown /\ ~Lives'
<1>1. ASSUME NEW a \in Events, Notify(a) \/ ReadFails(a)
      PROVE  UNCHANGED <<pc, found, raced, open, age, life>>
  BY <1>1 DEF Notify, ReadLinks, ReadChannels, Send, SendFails, ReadFails, life
<1>2. CASE CreateRule \/ LinkChannels \/ LinkFails \/ ToggleRule
  BY <1>2 DEF CreateRule, LinkChannels, LinkFails, ToggleRule, Lives
<1>3. CASE DeleteRule \/ RemoveDevice
  BY <1>3 DEF DeleteRule, RemoveDevice, Lives
<1>4. CASE (\E a \in Events : Acknowledge(a)) \/ \E c \in Channels : DeleteChannel(c)
  BY <1>4 DEF Acknowledge, DeleteChannel, Lives, life
<1> QED
  BY <1>1, <1>2, <1>3, <1>4 DEF Form, Lives, life

LEMMA AloneNext ==
  ASSUME TypeOK, TypeOK', Alone, OneUnlessRaced, [Next]_vars
  PROVE  Alone' /\ OneUnlessRaced'
<1>1. CASE Flip \/ UNCHANGED vars
  BY <1>1 DEF Flip, vars, life, Lives, Alone, OneUnlessRaced, Busy
<1>2. CASE Tick
  BY <1>2, AlertsAssumption DEF Tick, life, Lives, Alone, OneUnlessRaced, Busy, TypeOK
<1>3. CASE Form \/ \E a \in Events : Notify(a) \/ ReadFails(a)
  BY <1>3, FromOutside DEF Alone, OneUnlessRaced, Busy
<1> QED
  BY <1>1, <1>2, <1>3, StartsAlone, StaysAlone DEF Next

-----------------------------------------------------------------------------
(* Evaluations that overlap *)

LEMMA FiringFinite == IsFiniteSet(Firing) /\ Cardinality(Firing) <= Cardinality(Evals)
  /\ Cardinality(Firing) \in Nat /\ Cardinality(Evals) \in Nat
BY AlertsAssumption, FS_Subset, FS_CardinalityType DEF Firing

LEMMA FiringNext ==
  ASSUME TypeOK, TypeOK', IsFiniteSet(open), OpenBoundedByOverlap, [Next]_vars
  PROVE  IsFiniteSet(open') /\ OpenBoundedByOverlap'
<1> DEFINE Bound == Cardinality(open) + Cardinality(Firing) <= Cardinality(Evals)
<1>1. Bound
  BY DEF OpenBoundedByOverlap, Firing
<1>2. SUFFICES IsFiniteSet(open') /\ Cardinality(open') + Cardinality(Firing') <= Cardinality(Evals)
  BY DEF OpenBoundedByOverlap, Firing
<1>3. IsFiniteSet(Firing) /\ Cardinality(Firing) \in Nat /\ Cardinality(open) \in Nat
  BY FiringFinite, FS_CardinalityType
<1>4. IsFiniteSet(Firing') /\ Cardinality(Firing') \in Nat /\ Cardinality(Firing') <= Cardinality(Evals)
      /\ Cardinality(Evals) \in Nat
  <2>1. Firing' \subseteq Evals
    BY DEF Firing
  <2> QED
    BY <2>1, AlertsAssumption, FS_Subset, FS_CardinalityType
<1>5. ASSUME open' \subseteq open, Firing' \subseteq Firing
      PROVE  IsFiniteSet(open') /\ Cardinality(open') + Cardinality(Firing') <= Cardinality(Evals)
  <2>1. IsFiniteSet(open') /\ Cardinality(open') <= Cardinality(open) /\ Cardinality(open') \in Nat
    BY <1>5, FS_Subset, FS_CardinalityType
  <2>2. Cardinality(Firing') <= Cardinality(Firing)
    BY <1>3, <1>5, FS_Subset
  <2> QED
    BY <1>1, <1>3, <1>4, <2>1, <2>2
<1>6. ASSUME NEW e \in Evals, CheckOpen(e)
      PROVE  IsFiniteSet(open') /\ Cardinality(open') + Cardinality(Firing') <= Cardinality(Evals)
  <2>1. CASE open = {}
    <3>1. open' = {} /\ IsFiniteSet({}) /\ Cardinality({}) = 0
      BY <1>6, <2>1, FS_EmptySet DEF CheckOpen
    <3> QED
      BY <1>4, <3>1
  <2>2. CASE open # {}
    BY <1>5, <1>6, <2>2 DEF CheckOpen, Goto, Firing, TypeOK
  <2> QED
    BY <2>1, <2>2
<1>7. ASSUME NEW e \in Evals, Fire(e)
      PROVE  IsFiniteSet(open') /\ Cardinality(open') + Cardinality(Firing') <= Cardinality(Evals)
  <2>1. PICK id \in Events \ open : open' = open \cup {id}
    BY <1>7 DEF Fire
  <2>2. IsFiniteSet(open') /\ Cardinality(open') = Cardinality(open) + 1
    BY <2>1, FS_AddElement
  <2>3. e \in Firing /\ Firing' = Firing \ {e}
    BY <1>7 DEF Fire, Goto, Firing, TypeOK
  <2>4. Cardinality(Firing') = Cardinality(Firing) - 1
    BY <1>3, <2>3, FS_RemoveElement
  <2> QED
    BY <1>1, <1>3, <1>4, <2>2, <2>4
<1>8. ASSUME NEW e \in Evals,
             Sample(e) \/ CheckCooldown(e) \/ FireRefused(e) \/ FindOpen(e) \/ Resolve(e) \/ Fail(e)
      PROVE  open' \subseteq open /\ Firing' \subseteq Firing
  BY <1>8 DEF Sample, CheckCooldown, FireRefused, FindOpen, Resolve, Fail, Goto, Firing, TypeOK, Busy
<1>9. CASE Flip \/ Tick \/ UNCHANGED vars
  BY <1>5, <1>9 DEF Flip, Tick, vars, Firing
<1>10. CASE Form \/ \E a \in Events : Notify(a) \/ ReadFails(a)
  <2>1. open' \subseteq open /\ Firing' \subseteq Firing
    BY <1>10, FromOutside DEF Firing
  <2> QED
    BY <1>5, <2>1
<1> QED
  BY <1>5, <1>6, <1>7, <1>8, <1>9, <1>10 DEF Next, Step

-----------------------------------------------------------------------------
(* The theorems *)

\* The invariant of the evaluator: see IInv.
THEOREM Inductive == Spec => []IInv
<1>1. Init => IInv
  <2> SUFFICES ASSUME Init PROVE IInv
    OBVIOUS
  <2>1. TypeOK /\ Alone /\ OneUnlessRaced
    BY TypeInit DEF Init, Alone, OneUnlessRaced, Busy, Lives
  <2>2. IsFiniteSet(open) /\ Cardinality(open) = 0
    BY FS_EmptySet DEF Init
  <2>3. Cardinality(Firing) <= Cardinality(Evals) /\ Cardinality(Firing) \in Nat
    BY FiringFinite
  <2>4. OpenBoundedByOverlap
    BY <2>2, <2>3 DEF OpenBoundedByOverlap, Firing
  <2> QED
    BY <2>1, <2>2, <2>4 DEF IInv
<1>2. IInv /\ [Next]_vars => IInv'
  BY TypeNext, AloneNext, FiringNext DEF IInv
<1> QED
  BY <1>1, <1>2, PTL DEF Spec

\* However evaluations overlap, no more events are open than there can be evaluations
\* under way; without an overlap at most one is, and an evaluation resolves nothing but
\* an event that is open.
THEOREM AtMostOneAlert == Spec => []OneOpenAlert
<1>1. IInv => OneOpenAlert
  BY DEF IInv, OneOpenAlert
<1> QED
  BY <1>1, Inductive, PTL

\* Without an overlap the rule fires again only after its cooldown.
THEOREM CooldownIsKept == Spec => CooldownKept
<1>1. IInv /\ [Next]_vars => [Fires => age = Cooldown \/ raced]_vars
  <2> SUFFICES ASSUME IInv, Next, Fires, ~raced PROVE age = Cooldown
    OBVIOUS
  <2>1. \E e \in Evals : Fire(e)
    BY FromOutside DEF Next, Step, Fires, Sample, CheckOpen, CheckCooldown, FireRefused, FindOpen, Resolve, Fail, Flip, Tick
  <2> QED
    BY <2>1 DEF IInv, Alone, Fire
<1> QED
  BY <1>1, Inductive, PTL DEF Spec, CooldownKept
=============================================================================
