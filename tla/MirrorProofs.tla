---------------------------- MODULE MirrorProofs ----------------------------
(***************************************************************************)
(* What the mirrored tables keep for any number of collections, entries    *)
(* and contents: a row goes only by a collection that has not found it,    *)
(* and collections that do not overlap leave what the last one has read.   *)
(***************************************************************************)
EXTENDS Mirror, TLAPS

\* The part of TypeOK that is about one collection.
Fits(c) ==
  /\ upserts[c] \subseteq Listed(found[c])
  /\ doomed[c] \cap Listed(found[c]) = {}
  /\ delete[c] = "rows" <=> doomed[c] # {}
  /\ delete[c] = "after upsert" <=> style = "replace" /\ upserts[c] # {}

\* How far the rows have come to be what the collection has found: what needs no
\* upsert any more is there, what the delete has passed is not.
Approaches(c) ==
  /\ last = found[c]
  /\ \A i \in Ids \ upserts[c] : found[c][i] # Absent => rows[i] = found[c][i]
  /\ delete[c] = "none" => \A i \in Ids : found[c][i] = Absent => rows[i] = Absent
  /\ delete[c] = "rows" =>
       \A i \in Ids : (found[c][i] = Absent /\ rows[i] # Absent) => i \in doomed[c]

\* A collection without an overlap is alone, and approaches what it has found.
Alone ==
  ~raced =>
    /\ \A a, b \in Collections : Busy(a) /\ Busy(b) => a = b
    /\ faults = 0 =>
         /\ \A c \in Collections : Busy(c) => Approaches(c)
         /\ Quiet => rows = last

\* The invariant that is inductive.
IInv == TypeOK /\ Alone

-----------------------------------------------------------------------------
(* Types *)

\* A collection leaves the others alone; one that is idle holds no list.
LEMMA OthersStay ==
  ASSUME TypeOK, NEW c \in Collections, NEW other \in Collections \ {c},
         Collect(c) \/ Statement(c) \/ StatementFails(c), Read
  PROVE  /\ upserts'[other] = upserts[other]
         /\ delete'[other] = delete[other]
         /\ doomed'[other] = doomed[other]
         /\ Busy(other)' <=> Busy(other)
         /\ found'[other] = IF Busy(other) THEN found[other] ELSE Empty
<1>1. /\ upserts'[other] = upserts[other]
      /\ delete'[other] = delete[other]
      /\ doomed'[other] = doomed[other]
  BY DEF Collect, Statement, Upsert, UpsertAll, Select, DeleteRow, DeleteOthers, StatementFails,
         SetDelete, TypeOK
<1>2. Busy(other)' <=> Busy(other)
  BY <1>1 DEF Busy
<1> QED
  BY <1>1, <1>2 DEF Read

\* A collection keeps its list until its statements have run.
LEMMA ListStays ==
  ASSUME TypeOK, NEW c \in Collections, Statement(c) \/ StatementFails(c), Read
  PROVE  Busy(c) /\ found'[c] = IF Busy(c)' THEN found[c] ELSE Empty
<1>1. Busy(c)
  BY DEF Busy, Statement, Upsert, UpsertAll, Select, DeleteRow, DeleteOthers, StatementFails
<1> QED
  BY <1>1 DEF Read

\* A collection that starts: its list is the router's.
LEMMA CollectReads ==
  ASSUME TypeOK, NEW c \in Collections, Collect(c), Read
  PROVE  /\ found'[c] = router /\ Busy(c)'
         /\ upserts'[c] = Listed(router)
         /\ delete'[c] \in {"after upsert", "select", "delete"}
         /\ delete'[c] = "after upsert" <=> style' = "replace" /\ Listed(router) # {}
<1>1. /\ upserts'[c] = Listed(router)
      /\ delete'[c] \in {"after upsert", "select", "delete"}
      /\ delete'[c] = "after upsert" <=> style' = "replace" /\ router # Empty
  BY DEF Collect, SetDelete, TypeOK
<1>2. router # Empty <=> Listed(router) # {}
  <2>1. Listed(Empty) = {}
    BY DEF Listed, Empty
  <2>2. SUFFICES ASSUME Listed(router) = {} PROVE router = Empty
    BY <2>1
  <2>3. \A i \in Ids : router[i] = Absent
    BY <2>2 DEF Listed
  <2>4. router = [i \in Ids |-> router[i]]
    BY DEF TypeOK, Table
  <2> QED
    BY <2>3, <2>4 DEF Empty
<1>3. ~Busy(c) /\ Busy(c)'
  BY <1>1 DEF Busy, Collect
<1> QED
  BY <1>1, <1>2, <1>3 DEF Read

\* What the statements leave of a collection's work.
LEMMA WorkShrinks ==
  ASSUME TypeOK, NEW c \in Collections, Statement(c) \/ StatementFails(c)
  PROVE  /\ upserts'[c] \subseteq upserts[c]
         /\ doomed'[c] \cap Listed(found[c]) = {}
         /\ delete'[c] = "rows" <=> doomed'[c] # {}
         /\ delete'[c] = "after upsert" <=> style' = "replace" /\ upserts'[c] # {}
<1> DEFINE Shrinks ==
      /\ upserts'[c] \subseteq upserts[c]
      /\ doomed'[c] \cap Listed(found[c]) = {}
      /\ delete'[c] = "rows" <=> doomed'[c] # {}
      /\ delete'[c] = "after upsert" <=> style' = "replace" /\ upserts'[c] # {}
<1> USE DEF TypeOK, SetDelete
<1>2. style' = style
  BY DEF Statement, Upsert, UpsertAll, Select, DeleteRow, DeleteOthers, StatementFails
<1>3. CASE Upsert(c)
  <2>1. PICK i \in upserts[c] : upserts' = [upserts EXCEPT ![c] = @ \ {i}]
    BY <1>3 DEF Upsert
  <2>2. upserts'[c] \subseteq upserts[c]
    BY <2>1
  <2> QED
    BY <1>3, <2>2 DEF Upsert
<1>4. CASE UpsertAll(c)
  BY <1>4 DEF UpsertAll
<1>5. CASE Select(c)
  <2> DEFINE ids == Listed(rows) \ Listed(found[c])
  <2>1. ids \in SUBSET Ids /\ ids \cap Listed(found[c]) = {}
    BY DEF Listed
  <2>2. /\ doomed'[c] = ids /\ delete'[c] = IF ids = {} THEN "none" ELSE "rows"
        /\ upserts' = upserts
    BY <1>5 DEF Select
  <2> QED
    BY <1>2, <1>5, <2>1, <2>2 DEF Select
<1>6. CASE DeleteRow(c)
  <2>1. PICK i \in doomed[c] :
          /\ doomed'[c] = doomed[c] \ {i}
          /\ delete'[c] = IF doomed[c] = {i} THEN "none" ELSE "rows"
    BY <1>6 DEF DeleteRow
  <2>2. doomed'[c] = {} <=> doomed[c] = {i}
    BY <2>1
  <2>3. upserts' = upserts
    BY <1>6 DEF DeleteRow
  <2> QED
    BY <1>2, <1>6, <2>1, <2>2, <2>3 DEF DeleteRow
<1>7. CASE DeleteOthers(c)
  BY <1>7 DEF DeleteOthers
<1>8. CASE StatementFails(c)
  <2>1. CASE delete[c] \in {"select", "rows", "delete"} /\ SetDelete(c, "none")
             /\ doomed' = [doomed EXCEPT ![c] = {}] /\ UNCHANGED upserts
    BY <1>2, <1>8, <2>1
  <2>2. ASSUME NEW i \in upserts[c], UNCHANGED doomed,
               upserts' = [upserts EXCEPT ![c] = IF style = "replace" THEN {} ELSE @ \ {i}],
               SetDelete(c, IF style = "replace" THEN "none" ELSE delete[c])
        PROVE  Shrinks
    <3>1. CASE style = "replace"
      BY <1>2, <2>2, <3>1
    <3>2. CASE style # "replace"
      BY <1>2, <2>2, <3>2
    <3> QED
      BY <3>1, <3>2
  <2> QED
    BY <1>8, <2>1, <2>2 DEF StatementFails
<1> QED
  BY <1>3, <1>4, <1>5, <1>6, <1>7, <1>8 DEF Statement

LEMMA StatementFits ==
  ASSUME TypeOK, NEW c \in Collections, Statement(c) \/ StatementFails(c), Read
  PROVE  Fits(c)'
<1>1. upserts[c] \subseteq Listed(found[c])
  BY DEF TypeOK
<1>2. CASE Busy(c)'
  <2>1. Listed(found[c])' = Listed(found[c])
    BY <1>2, ListStays DEF Listed
  <2> QED
    BY <1>1, <2>1, WorkShrinks DEF Fits
<1>3. CASE ~Busy(c)'
  <2>1. upserts'[c] = {} /\ delete'[c] = "none"
    BY <1>3 DEF Busy
  <2> QED
    BY <2>1, WorkShrinks DEF Fits
<1> QED
  BY <1>2, <1>3

\* The part of TypeOK that is not about one collection.
Typed ==
  /\ style \in Styles
  /\ router \in Table /\ rows \in Table /\ last \in Table
  /\ found \in [Collections -> Table]
  /\ upserts \in [Collections -> SUBSET Ids]
  /\ delete \in [Collections -> {"none", "after upsert", "select", "rows", "delete"}]
  /\ doomed \in [Collections -> SUBSET Ids]
  /\ raced \in BOOLEAN
  /\ faults \in 0..MaxFaults

\* A statement that throws is counted.
LEMMA FaultsCount ==
  ASSUME TypeOK, NEW c \in Collections, StatementFails(c)
  PROVE  faults' \in 0..MaxFaults /\ faults' # 0
<1>1. faults < MaxFaults /\ faults' = faults + 1
  BY DEF StatementFails
<1>2. faults \in 0..MaxFaults
  BY DEF TypeOK
<1> QED
  BY <1>1, <1>2, MirrorAssumption

LEMMA TypedNext ==
  ASSUME TypeOK, Next
  PROVE  Typed'
<1> USE MirrorAssumption DEF TypeOK, SetDelete
<1>1. found' \in [Collections -> Table]
  BY DEF Next, Read, Table, Empty
<1>2. Empty \in Table
  BY DEF Empty, Table
<1>3. ASSUME NEW c \in Collections, Collect(c) PROVE Typed'
  BY <1>1, <1>2, <1>3 DEF Typed, Collect, Listed
<1>4. ASSUME NEW c \in Collections, Upsert(c) PROVE Typed'
  <2>1. PICK i \in upserts[c] :
          rows' = [rows EXCEPT ![i] = found[c][i]] /\ upserts' = [upserts EXCEPT ![c] = @ \ {i}]
    BY <1>4 DEF Upsert
  <2>2. found[c] \in Table /\ upserts[c] \in SUBSET Ids
    OBVIOUS
  <2>3. i \in Ids /\ found[c][i] \in Contents \cup {Absent}
    BY <2>2 DEF Table
  <2>4. rows' \in Table
    BY <2>1, <2>3 DEF Table
  <2> QED
    BY <1>1, <1>4, <2>1, <2>4 DEF Typed, Upsert
<1>5. ASSUME NEW c \in Collections, UpsertAll(c) PROVE Typed'
  <2>1. rows \in Table /\ found[c] \in Table
    OBVIOUS
  <2>2. rows' = [i \in Ids |-> IF i \in upserts[c] THEN found[c][i] ELSE rows[i]]
    BY <1>5 DEF UpsertAll
  <2>3. rows' \in Table
    BY <2>1, <2>2 DEF Table
  <2> QED
    BY <1>1, <1>5, <2>3 DEF Typed, UpsertAll
<1>6. ASSUME NEW c \in Collections, Select(c) PROVE Typed'
  <2>1. Listed(rows) \ Listed(found[c]) \in SUBSET Ids
    BY DEF Listed
  <2> QED
    BY <1>1, <1>6, <2>1 DEF Typed, Select
<1>7. ASSUME NEW c \in Collections, DeleteRow(c) PROVE Typed'
  <2>1. PICK i \in doomed[c] :
          /\ rows' = [rows EXCEPT ![i] = Absent] /\ doomed' = [doomed EXCEPT ![c] = @ \ {i}]
          /\ delete' = [delete EXCEPT ![c] = IF doomed[c] = {i} THEN "none" ELSE "rows"]
    BY <1>7 DEF DeleteRow
  <2>2. rows' \in Table
    BY <2>1 DEF Table
  <2>3. delete' \in [Collections -> {"none", "after upsert", "select", "rows", "delete"}]
    BY <2>1
  <2> QED
    BY <1>1, <1>7, <2>1, <2>2, <2>3 DEF Typed, DeleteRow
<1>8. ASSUME NEW c \in Collections, DeleteOthers(c) PROVE Typed'
  <2>1. rows' \in Table
    BY <1>8 DEF DeleteOthers, Table
  <2> QED
    BY <1>1, <1>8, <2>1 DEF Typed, DeleteOthers
<1>9. ASSUME NEW c \in Collections, StatementFails(c) PROVE Typed'
  <2>1. /\ upserts' \in [Collections -> SUBSET Ids]
        /\ delete' \in [Collections -> {"none", "after upsert", "select", "rows", "delete"}]
    <3>1. CASE UNCHANGED upserts
      BY <1>9, <3>1 DEF StatementFails
    <3>2. ASSUME NEW i \in upserts[c],
                 upserts' = [upserts EXCEPT ![c] = IF style = "replace" THEN {} ELSE @ \ {i}],
                 SetDelete(c, IF style = "replace" THEN "none" ELSE delete[c])
          PROVE  /\ upserts' \in [Collections -> SUBSET Ids]
                 /\ delete' \in [Collections -> {"none", "after upsert", "select", "rows", "delete"}]
      <4>1. upserts' \in [Collections -> SUBSET Ids]
        BY <3>2
      <4>2. delete' \in [Collections -> {"none", "after upsert", "select", "rows", "delete"}]
        BY <3>2
      <4> QED
        BY <4>1, <4>2
    <3> QED
      BY <1>9, <3>1, <3>2 DEF StatementFails
  <2>2. doomed' \in [Collections -> SUBSET Ids]
    BY <1>9 DEF StatementFails
  <2>3. faults' \in 0..MaxFaults
    BY <1>9, FaultsCount
  <2>4. UNCHANGED <<style, router, rows, last, raced>>
    BY <1>9 DEF StatementFails
  <2> QED
    BY <1>1, <2>1, <2>2, <2>3, <2>4 DEF Typed
<1>10. CASE Configure
  <2>1. router' \in Table
    BY <1>10 DEF Configure, Table
  <2> QED
    BY <1>1, <1>10, <2>1 DEF Typed, Configure
<1> QED
  BY <1>3, <1>4, <1>5, <1>6, <1>7, <1>8, <1>9, <1>10 DEF Next, Statement

LEMMA TypeNext ==
  ASSUME TypeOK, [Next]_vars
  PROVE  TypeOK'
<1>1. CASE UNCHANGED vars
  BY <1>1 DEF vars, TypeOK, Listed
<1>2. CASE Next
  <2>1. SUFFICES ASSUME NEW k \in Collections PROVE Fits(k)'
    BY <1>2, TypedNext DEF Typed, Fits, TypeOK
  <2>2. ASSUME NEW c \in Collections, c # k, Read,
               Collect(c) \/ Statement(c) \/ StatementFails(c)
        PROVE  Fits(k)'
    <3>1. style' = style
      BY <2>2 DEF Collect, Statement, Upsert, UpsertAll, Select, DeleteRow, DeleteOthers,
                  StatementFails
    <3>2. Fits(k)
      BY DEF Fits, TypeOK
    <3>3. CASE Busy(k)
      <4>1. Listed(found[k])' = Listed(found[k])
        BY <2>2, <3>3, OthersStay DEF Listed
      <4> QED
        BY <2>2, <3>1, <3>2, <4>1, OthersStay DEF Fits
    <3>4. CASE ~Busy(k)
      <4>1. upserts[k] = {} /\ delete[k] = "none"
        BY <3>4 DEF Busy
      <4> QED
        BY <2>2, <3>1, <3>2, <4>1, OthersStay DEF Fits
    <3> QED
      BY <3>3, <3>4
  <2>3. ASSUME Collect(k), Read
        PROVE  Fits(k)'
    <3>1. /\ upserts'[k] = Listed(router) /\ Listed(found[k])' = Listed(router)
          /\ delete'[k] = "after upsert" <=> style' = "replace" /\ Listed(router) # {}
          /\ delete'[k] # "rows"
      BY <2>3, CollectReads DEF Listed
    <3>2. doomed'[k] = {}
      BY <2>3 DEF Collect, Busy, TypeOK
    <3> QED
      BY <3>1, <3>2 DEF Fits
  <2>4. ASSUME Configure, Read
        PROVE  Fits(k)'
    BY <2>4 DEF Fits, Configure, Read, Busy, Listed, TypeOK
  <2> QED
    BY <1>2, <2>2, <2>3, <2>4, StatementFits DEF Next
<1> QED
  BY <1>1, <1>2

-----------------------------------------------------------------------------
(* Collections that do not overlap *)

\* A collection that starts alone has everything before it.
LEMMA CollectApproaches ==
  ASSUME TypeOK, TypeOK', Alone, NEW c \in Collections, Collect(c), Read
  PROVE  Alone'
<1> SUFFICES ASSUME ~raced' PROVE Alone'
  BY DEF Alone
<1>1. ~raced /\ (\A other \in Collections \ {c} : ~Busy(other)) /\ last' = router
  BY DEF Collect
<1>2. \A other \in Collections \ {c} : ~Busy(other)'
  BY <1>1, OthersStay
<1>3. Busy(c)' /\ found'[c] = router /\ upserts'[c] = Listed(router) /\ delete'[c] \notin {"none", "rows"}
  BY CollectReads
<1>4. Approaches(c)'
  BY <1>1, <1>3 DEF Approaches, Listed
<1> QED
  BY <1>2, <1>3, <1>4 DEF Alone, Quiet

\* Its statements bring the rows nearer, and the last of them brings them there.
LEMMA StatementApproaches ==
  ASSUME TypeOK, TypeOK', Alone, NEW c \in Collections, Statement(c) \/ StatementFails(c), Read
  PROVE  Alone'
<1>1. raced' = raced /\ last' = last
  BY DEF Statement, Upsert, UpsertAll, Select, DeleteRow, DeleteOthers, StatementFails
<1>2. SUFFICES ASSUME ~raced PROVE Alone'
  BY <1>1 DEF Alone
<1>3. Busy(c)
  BY ListStays
<1>4. \A other \in Collections \ {c} : ~Busy(other) /\ ~Busy(other)'
  BY <1>2, <1>3, OthersStay DEF Alone
<1>5. CASE StatementFails(c)
  <2>1. faults' # 0
    BY <1>5, FaultsCount
  <2> QED
    BY <1>4, <2>1 DEF Alone
<1>6. ASSUME Statement(c), faults = 0
      PROVE  Approaches(c) /\ faults' = 0
  BY <1>2, <1>3, <1>6 DEF Alone, Statement, Upsert, UpsertAll, Select, DeleteRow, DeleteOthers
<1>7. SUFFICES ASSUME Statement(c), faults = 0
      PROVE  /\ \A i \in Ids \ upserts'[c] : found[c][i] # Absent => rows'[i] = found[c][i]
             /\ delete'[c] = "none" => \A i \in Ids : found[c][i] = Absent => rows'[i] = Absent
             /\ delete'[c] = "rows" =>
                  \A i \in Ids : (found[c][i] = Absent /\ rows'[i] # Absent) => i \in doomed'[c]
  <2>1. ASSUME Statement(c), faults # 0
        PROVE  faults' # 0
    BY <2>1 DEF Statement, Upsert, UpsertAll, Select, DeleteRow, DeleteOthers
  <2>2. ASSUME Statement(c), faults = 0, Busy(c)'
        PROVE  Approaches(c)'
    BY <1>1, <1>6, <1>7, <2>2, ListStays DEF Approaches
  <2>3. ASSUME Statement(c), faults = 0, ~Busy(c)'
        PROVE  rows' = last'
    <3>1. upserts'[c] = {} /\ delete'[c] = "none"
      BY <2>3 DEF Busy
    <3>2. \A i \in Ids : rows'[i] = found[c][i]
      BY <1>7, <2>3, <3>1
    <3>3. rows' \in Table /\ found[c] \in Table /\ last = found[c]
      BY <1>6, <2>3 DEF Approaches, TypeOK
    <3> QED
      BY <1>1, <3>2, <3>3 DEF Table
  <2> QED
    BY <1>4, <1>5, <2>1, <2>2, <2>3 DEF Alone, Quiet
<1>8. Approaches(c) /\ found[c] \in Table /\ rows \in Table
  BY <1>6, <1>7 DEF TypeOK
<1>9. CASE Upsert(c)
  <2>1. PICK i \in upserts[c] :
          rows' = [rows EXCEPT ![i] = found[c][i]] /\ upserts' = [upserts EXCEPT ![c] = @ \ {i}]
    BY <1>9 DEF Upsert
  <2>2. found[c][i] # Absent
    BY <2>1 DEF TypeOK, Listed
  <2>3. \A k \in Ids : rows'[k] = IF k = i THEN found[c][i] ELSE rows[k]
    BY <1>8, <2>1 DEF Table
  <2>4. upserts \in [Collections -> SUBSET Ids]
    BY DEF TypeOK
  <2>5. upserts'[c] = upserts[c] \ {i}
    BY <2>1, <2>4
  <2>6. UNCHANGED <<delete, doomed>>
    BY <1>9 DEF Upsert
  <2> QED
    BY <1>8, <2>2, <2>3, <2>5, <2>6 DEF Approaches
<1>10. CASE UpsertAll(c)
  <2>1. \A k \in Ids : rows'[k] = IF k \in upserts[c] THEN found[c][k] ELSE rows[k]
    BY <1>10 DEF UpsertAll
  <2>2. delete'[c] = "delete"
    BY <1>10 DEF UpsertAll, SetDelete, TypeOK
  <2> QED
    BY <1>8, <2>1, <2>2 DEF Approaches
<1>11. CASE Select(c)
  <2>1. UNCHANGED <<rows, upserts>>
    BY <1>11 DEF Select
  <2>2. /\ doomed'[c] = Listed(rows) \ Listed(found[c])
        /\ delete'[c] = "none" => Listed(rows) \ Listed(found[c]) = {}
    BY <1>11 DEF Select, SetDelete, TypeOK
  <2> QED
    BY <1>8, <2>1, <2>2 DEF Approaches, Listed
<1>12. CASE DeleteRow(c)
  <2>1. PICK i \in doomed[c] :
          /\ rows' = [rows EXCEPT ![i] = Absent] /\ doomed' = [doomed EXCEPT ![c] = @ \ {i}]
          /\ SetDelete(c, IF doomed[c] = {i} THEN "none" ELSE "rows")
    BY <1>12 DEF DeleteRow
  <2>2. i \in Ids /\ found[c][i] = Absent
    BY <2>1 DEF TypeOK, Listed
  <2>3. /\ rows \in Table
        /\ doomed \in [Collections -> SUBSET Ids]
        /\ DOMAIN delete = Collections
    BY DEF TypeOK
  <2>4. \A k \in Ids : rows'[k] = IF k = i THEN Absent ELSE rows[k]
    BY <2>1, <2>3 DEF Table
  <2>5. /\ doomed'[c] = doomed[c] \ {i}
        /\ delete'[c] = "none" => doomed[c] = {i}
    BY <2>1, <2>3 DEF SetDelete
  <2>6. delete[c] = "rows" /\ UNCHANGED upserts
    BY <1>12 DEF DeleteRow
  <2> QED
    BY <1>8, <2>2, <2>4, <2>5, <2>6 DEF Approaches
<1>13. CASE DeleteOthers(c)
  <2>1. \A k \in Ids : rows'[k] = IF found[c][k] = Absent THEN Absent ELSE rows[k]
    BY <1>13 DEF DeleteOthers
  <2>2. delete'[c] = "none" /\ UNCHANGED upserts
    BY <1>13 DEF DeleteOthers, SetDelete, TypeOK
  <2> QED
    BY <1>8, <2>1, <2>2 DEF Approaches
<1> QED
  BY <1>7, <1>9, <1>10, <1>11, <1>12, <1>13 DEF Statement

LEMMA AloneNext ==
  ASSUME TypeOK, TypeOK', Alone, [Next]_vars
  PROVE  Alone'
<1>1. CASE UNCHANGED vars
  BY <1>1 DEF vars, Alone, Approaches, Busy, Quiet
<1>2. ASSUME Configure, Read
      PROVE  Alone'
  <2>1. UNCHANGED <<rows, upserts, delete, doomed, last, raced, faults>>
    BY <1>2 DEF Configure
  <2>2. \A c \in Collections : Busy(c)' = Busy(c)
    BY <2>1 DEF Busy
  <2>3. \A c \in Collections : Busy(c) => found'[c] = found[c]
    BY <1>2, <2>2 DEF Read
  <2> QED
    BY <2>1, <2>2, <2>3 DEF Alone, Approaches, Quiet
<1> QED
  BY <1>1, <1>2, CollectApproaches, StatementApproaches DEF Next

-----------------------------------------------------------------------------
(* The theorems *)

\* The invariant of the mirrored tables: see IInv.
THEOREM Inductive == Spec => []IInv
<1>1. Init => IInv
  <2> SUFFICES ASSUME Init PROVE IInv
    OBVIOUS
  <2>1. Empty \in Table /\ faults \in 0..MaxFaults
    BY MirrorAssumption DEF Init, Empty, Table
  <2>2. TypeOK
    BY <2>1 DEF Init, TypeOK
  <2>3. Alone
    BY DEF Init, Alone, Busy
  <2> QED
    BY <2>2, <2>3 DEF IInv
<1>2. IInv /\ [Next]_vars => IInv'
  BY TypeNext, AloneNext DEF IInv
<1> QED
  BY <1>1, <1>2, PTL DEF Spec

\* Every variable keeps its type; a collection upserts only entries it has
\* found, and has selected for deletion only rows it has not.
THEOREM TypeCorrect == Spec => []TypeOK
<1>1. IInv => TypeOK
  BY DEF IInv
<1> QED
  BY <1>1, Inductive, PTL

\* Collections that do not overlap leave what the last one has read.
THEOREM SettledIsMirrored == Spec => []MirrorsLastCollection
<1>1. IInv => MirrorsLastCollection
  BY DEF IInv, Alone, MirrorsLastCollection
<1> QED
  BY <1>1, Inductive, PTL

\* However collections overlap and fail, a row goes only by a collection that
\* has not found it.
THEOREM RowsGoOnlyWhenMissing == Spec => OnlyMissingRowsGo
<1> DEFINE Goes(i) == rows[i] # Absent /\ rows'[i] = Absent
           Missed(i) == \E c \in Collections : Busy(c) /\ found[c][i] = Absent
<1>1. IInv /\ [Next]_vars => [\A i \in Ids : Goes(i) => Missed(i)]_vars
  <2> SUFFICES ASSUME TypeOK, Next, NEW i \in Ids, Goes(i) PROVE Missed(i)
    BY DEF IInv
  <2> USE DEF TypeOK
  <2>1. PICK c \in Collections : Statement(c)
    BY DEF Next, Collect, StatementFails, Configure
  <2>2. Busy(c)
    BY <2>1 DEF Busy, Statement, Upsert, UpsertAll, Select, DeleteRow, DeleteOthers
  <2>3. found[c][i] = Absent
    <3>1. CASE Upsert(c)
      <4>1. PICK k \in upserts[c] : rows' = [rows EXCEPT ![k] = found[c][k]]
        BY <3>1 DEF Upsert
      <4>2. found[c][k] # Absent
        BY <4>1 DEF Listed
      <4> QED
        BY <4>1, <4>2 DEF Table
    <3>2. CASE UpsertAll(c)
      <4>1. rows'[i] = IF i \in upserts[c] THEN found[c][i] ELSE rows[i]
        BY <3>2 DEF UpsertAll
      <4>2. i \in upserts[c] => found[c][i] # Absent
        BY DEF Listed
      <4> QED
        BY <4>1, <4>2
    <3>3. CASE Select(c)
      BY <3>3 DEF Select
    <3>4. CASE DeleteRow(c)
      <4>1. PICK k \in doomed[c] : rows' = [rows EXCEPT ![k] = Absent]
        BY <3>4 DEF DeleteRow
      <4>2. rows \in [Ids -> Contents \cup {Absent}]
        BY DEF Table
      <4>3. i = k
        BY <4>1, <4>2, ZenonT(30)
      <4> QED
        BY <4>1, <4>3 DEF Listed
    <3>5. CASE DeleteOthers(c)
      BY <3>5 DEF DeleteOthers
    <3> QED
      BY <2>1, <3>1, <3>2, <3>3, <3>4, <3>5 DEF Statement
  <2> QED
    BY <2>2, <2>3
<1> QED
  BY <1>1, Inductive, PTL DEF Spec, OnlyMissingRowsGo
=============================================================================
