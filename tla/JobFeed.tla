------------------------------- MODULE JobFeed -------------------------------
(***************************************************************************)
(* From the scheduler's events to the list of jobs in a browser.  On every *)
(* event publishSchedulerEvent reads the job again and broadcasts it; the  *)
(* bridge of the page hands each message to the store, which replaces the  *)
(* entry.  A page that opens lists the jobs, reads each of them with the   *)
(* same two statements, all at once, and replaces the whole list.          *)
(*                                                                         *)
(* Readers are not ordered: each statement is answered on a connection of  *)
(* its own.  The WebSocket keeps the order of what was broadcast, so that  *)
(* a message on its way is a reader that has yet to publish.  Jobs are     *)
(* those of one site, no more than a page lists.                           *)
(* Definitions whose name begins with Bug are mutants: see Scheduler.      *)
(***************************************************************************)
EXTENDS Scheduler, FiniteSets

CONSTANTS
  MaxReaders,  \* bound on the readers at work on a job, and on the updates at a time
  MaxPages,    \* bound on the pages that are opened
  MaxCuts      \* bound on the number of times the socket is lost

ASSUME FeedAssumption ==
  MaxReaders \in Nat \ {0} /\ MaxPages \in Nat /\ MaxCuts \in Nat

\* A reader of an update, and one for each job of a page.
Updates   == {<<"update", n>> : n \in 1..MaxReaders}
PageOf(p) == {<<"page", p, j>> : j \in Jobs}
Readers   == Updates \cup UNION {PageOf(p) : p \in 1..MaxPages}

VARIABLES
  readers,    \* by reader, the job it reads and how far it is, or Idle
  connected,  \* is the browser's socket open
  shown,      \* the store: by job, what it shows, or Nothing
  disturbed,  \* history: was anything lost, or told after something newer
  pages, cuts

feedVars == <<readers, connected, shown, disturbed, pages, cuts>>

\* What is shown of a job.  A reader has the row of the job first.
Nothing == [status |-> "absent", progress |-> 0, rows |-> [i \in Steps |-> "absent"]]
JobOf(j) == [status |-> status[j], progress |-> progress[j], rows |-> rows[j]]

Idle == [stage |-> "idle"]

\* before: those at work that have read the job before this one did.
Reader(j) == [stage |-> "job", job |-> j, got |-> Nothing, before |-> {}, overtaken |-> FALSE]

HasRead(r) == readers[r].stage \in {"steps", "publish"}
HaveRead(j) == {r \in Readers : HasRead(r) /\ readers[r].job = j}

FeedInit ==
  /\ Init
  /\ readers = [r \in Readers |-> Idle]
  /\ connected = TRUE
  /\ shown = [j \in Jobs |-> Nothing]
  /\ disturbed = FALSE
  /\ pages = 0
  /\ cuts = 0

-----------------------------------------------------------------------------
(* The scheduler's events *)

\* The bound on the readers of a job.
Room(j) ==
  Cardinality({r \in Readers : readers[r].stage # "idle" /\ readers[r].job = j}) < MaxReaders

\* publishSchedulerEvent begins to read the job.
Begin(j) ==
  /\ Room(j)
  /\ \E r \in Updates :
       /\ readers[r].stage = "idle"
       /\ \A q \in Updates : readers[q].stage = "idle" => r[2] <= q[2]
       /\ readers' = [readers EXCEPT ![r] = Reader(j)]

\* Steps of a job that end in handle.emit, which the bus hears.
Emits(j) ==
  \/ PersistSteps(j)  \/ StartJob(j)       \/ FinishEmpty(j)    \/ OpenStep(j)
  \/ RecordProgress(j) \/ RecordFailure(j) \/ FinishFailed(j)   \/ CatchJob(j)
  \/ BeginRollback(j) \/ SkipRevert(j)     \/ OpenRevert(j)
  \/ RecordReverted(j) \/ RecordRevertFailed(j) \/ FinishRollback(j)

\* Steps that end in silence; the last update of a job that succeeds is one.
IsQuiet(j) ==
  \/ Schedule(j) \/ ExecuteOk(j) \/ ExecuteFails(j) \/ RecordSuccess(j)
  \/ FinishSucceeded(j) \/ RevertOk(j) \/ RevertFails(j) \/ StatementFails(j)

Announces(j) ==
  /\ Emits(j)
  /\ Begin(j)
  /\ UNCHANGED <<connected, shown, disturbed, pages, cuts>>

Proceeds(j) ==
  /\ IsQuiet(j)
  /\ UNCHANGED feedVars

\* The process dies: its readers, and the socket, die with it.
Dies ==
  /\ Crash \/ \E j \in Jobs : CatchFails(j)
  /\ readers' = [r \in Readers |-> Idle]
  /\ connected' = FALSE
  /\ disturbed' = TRUE
  /\ UNCHANGED <<shown, pages, cuts>>

-----------------------------------------------------------------------------
(* publishSchedulerEvent, and the load function of a page *)

\* JobRepository.get.  From here on the reader stands behind those that have
\* read before it.
ReadJob(r) ==
  /\ readers[r].stage = "job"
  /\ LET j == readers[r].job
     IN  readers' = [readers EXCEPT
           ![r] = [@ EXCEPT !.stage = "steps", !.before = HaveRead(j),
                            !.got = [Nothing EXCEPT !.status = status[j],
                                                    !.progress = progress[j]]]]
  /\ UNCHANGED <<vars, connected, shown, disturbed, pages, cuts>>

\* The steps of the job, as they are by now.
Hears(r, steps) ==
  /\ readers[r].stage = "steps"
  /\ readers' = [readers EXCEPT ![r] = [@ EXCEPT !.stage = "publish", !.got.rows = steps]]
  /\ UNCHANGED <<vars, connected, shown, disturbed, pages, cuts>>

\* the steps kept as the list has them
BugReadSteps(r) == Hears(r, shown[readers[r].job].rows)

ReadSteps(r) == Hears(r, rows[readers[r].job])

\* These readers are done, and nobody waits behind them any more.
Leave(done, told) ==
  readers' = [r \in Readers |->
                IF r \in done \/ readers[r].stage = "idle" THEN Idle
                ELSE [readers[r] EXCEPT
                        !.before = @ \ done,
                        !.overtaken = @ \/ \E q \in told : r \in readers[q].before]]

\* a job that the list already holds keeps its entry
BugMergeJob(entry, told) == IF entry = Nothing THEN told ELSE entry

\* a job at 100 percent shown as succeeded
BugMergeDone(entry, told) ==
  IF told.progress = 100 THEN [told EXCEPT !.status = "succeeded"] ELSE told

\* mergeJob: the entry is replaced, whatever it said.
MergeJob(entry, told) == told

\* server.broadcast, and processJobActionEvent in the browser; without a socket
\* nobody hears it.
Publish(r) ==
  /\ readers[r].stage = "publish"
  /\ Leave({r}, {r})
  /\ shown' = IF connected
              THEN [shown EXCEPT ![readers[r].job] = MergeJob(@, readers[r].got)]
              ELSE shown
  /\ disturbed' = (disturbed \/ readers[r].overtaken \/ ~connected)
  /\ UNCHANGED <<vars, connected, pages, cuts>>

\* All its jobs are read: the page is mounted and setJobsSnapshot replaces the list.
Mount(p) ==
  /\ \A r \in PageOf(p) : readers[r].stage = "publish"
  /\ Leave(PageOf(p), PageOf(p))
  /\ shown' = [j \in Jobs |-> readers[<<"page", p, j>>].got]
  /\ disturbed' = (disturbed \/ \E r \in PageOf(p) : readers[r].overtaken)
  /\ UNCHANGED <<vars, connected, pages, cuts>>

\* A statement of a reader throws: an update is dropped by its .catch, a page
\* shows an error instead of the list.
ReadFails(r) ==
  /\ faults < MaxFaults
  /\ readers[r].stage \in {"job", "steps"}
  /\ faults' = faults + 1
  /\ LET page == {q \in Readers \ Updates : r \notin Updates /\ q[2] = r[2]}
     IN  Leave({r} \cup page, {})
  /\ disturbed' = (disturbed \/ r \in Updates)
  /\ UNCHANGED <<task, persisted, memory, applied, announced, crashes,
                 connected, shown, pages, cuts>>

-----------------------------------------------------------------------------
(* The browser *)

\* The load function lists the jobs there are.  One that is not there yet is
\* known by that to have nothing to be read.
OpenPage ==
  /\ pages < MaxPages /\ \A j \in Jobs : Room(j)
  /\ pages' = pages + 1
  /\ readers' = [r \in Readers |->
       IF r \notin PageOf(pages') THEN readers[r]
       ELSE IF status[r[3]] # "absent" THEN Reader(r[3])
       ELSE [Reader(r[3]) EXCEPT !.stage = "publish", !.before = HaveRead(r[3])]]
  /\ UNCHANGED <<vars, connected, shown, disturbed, cuts>>

LoseSocket ==
  /\ connected
  /\ cuts < MaxCuts
  /\ cuts' = cuts + 1
  /\ connected' = FALSE
  /\ disturbed' = TRUE
  /\ UNCHANGED <<vars, readers, shown, pages>>

\* The library connects again; nothing asks for what was missed.
Reconnect ==
  /\ ~connected
  /\ connected' = TRUE
  /\ UNCHANGED <<vars, readers, shown, disturbed, pages, cuts>>

-----------------------------------------------------------------------------
Read ==
  \/ \E r \in Readers : ReadJob(r) \/ ReadSteps(r)
  \/ \E r \in Updates : Publish(r)
  \/ \E p \in 1..MaxPages : Mount(p)

FeedNext ==
  \/ \E j \in Jobs : Announces(j) \/ Proceeds(j)
  \/ Dies
  \/ Read
  \/ \E r \in Readers : ReadFails(r)
  \/ OpenPage \/ LoseSocket \/ Reconnect

allVars == <<vars, feedVars>>

FeedSpec == FeedInit /\ [][FeedNext]_allVars

\* Statements are answered, and messages arrive while the socket is open.
FeedFairSpec == FeedSpec /\ WF_allVars(Read)

-----------------------------------------------------------------------------
(* Properties *)

\* What a page shows of a job hangs together, although it was read in two
\* statements while the job went on: a job that is shown as finished is shown
\* as it ended, with the last word of each of its steps, and the progress that
\* is shown has every step behind it that it counts.
ShownIsCoherent ==
  \A j \in Jobs :
    /\ shown[j].status \in Terminal => shown[j] = JobOf(j)
    /\ \A i \in StepsOf(j) : shown[j].progress > Percent(i - 1, task[j].size) =>
         shown[j].rows[i] \notin {"absent", "queued", "running"}

\* How far a job with this status is.
StageOf(s) ==
  CASE s = "absent" -> 0 [] s = "queued" -> 1 [] s = "running" -> 2
    [] s = "rolling_back" -> 3 [] s \in Terminal -> 4

\* The list is a view of the scheduler: it is never ahead of a job, and as long
\* as no reader was overtaken and nothing was lost it never goes back.
JobsView == INSTANCE View WITH
  End <- 4,
  stage <- [j \in Jobs |-> StageOf(status[j])],
  seen <- [j \in Jobs |-> StageOf(shown[j].status)],
  disturbed <- disturbed
IsView == JobsView!Spec

\* A job that ends badly is shown as it ended in every list whose feed was not
\* disturbed.  (Of one that succeeds the last update is not published.)
ListSettles ==
  \A j \in Jobs :
    (status[j] \in Terminal \cap announced[j] /\ status[j] # "succeeded")
      ~> (disturbed \/ shown[j] = JobOf(j))
=============================================================================
