------------------------------ MODULE FeedSync ------------------------------
(***************************************************************************)
(* One feed of SYNCRONATE (syncronate/sync-engine.ts): jobs that read the  *)
(* changes of a source since a saved cursor, write them to the record      *)
(* store, save the cursor and serve the sinks in order.                    *)
(*                                                                         *)
(* Jobs are started by the schedule, by a webhook, by hand and by          *)
(* retry-sinks, and nothing keeps two of them apart.  A job runs without   *)
(* interruption from one await to the next: until the source is asked,     *)
(* from the answer to the first sink, and from sink to sink.               *)
(*                                                                         *)
(* The source is external: a table that holds the last change of each      *)
(* record and answers with those changed at or after the cursor, oldest    *)
(* first, as many as it likes (salesforce.ts, polimorphic.ts).  A change   *)
(* is kept unless a filter rule or a blocking DLP rule drops it; what the  *)
(* field map makes of it is of no interest here.  With no cursor the code  *)
(* asks for the last day; every change of the model is from that day.      *)
(***************************************************************************)
EXTENDS Naturals, Sequences

CONSTANTS
  Records,       \* external ids of the source's records
  Sinks,         \* FeedDef.sinks, in their order
  Unconfigured,  \* the sinks without credentials or an endpoint
  MaxChanges,    \* bound: changes made in the source
  MaxJobs,       \* bound: jobs started
  MaxSyncCrashes \* bound: process deaths

SinkNames == {Sinks[n] : n \in DOMAIN Sinks}

ASSUME FeedAssumption ==
  /\ Sinks \in Seq(SinkNames) /\ Sinks # <<>>
  /\ Unconfigured \subseteq SinkNames
  /\ MaxChanges \in Nat /\ MaxJobs \in Nat /\ MaxSyncCrashes \in Nat

VARIABLES
  source,      \* the last change of each record
  clock,       \* time stamp of the latest change
  cursor,      \* kv "cursor:<feed>"; 0: no cursor saved yet
  store,       \* the change each row of syncronate_records holds; 0: no row
  active,      \* FeedDef.status is "active"; draft, paused and retired look alike
  jobs,        \* syncronate_jobs and the calls of runSyncJob behind them
  received,    \* the changes that reached each sink
  syncCrashes,
  newest,      \* history: the newest change each record was ever stored with
  overlapped   \* history: a job started while another had yet to write

syncVars == <<source, clock, cursor, store, active, jobs, received, syncCrashes, newest, overlapped>>
feedVars == <<source, clock, active>>
dataVars == <<cursor, store, newest>>

Change == [id : Records, at : 1..MaxChanges, keep : BOOLEAN]
FinalStatus == {"completed", "partial", "failed"}
JobStatus == {"running", "transforming", "delivering"} \union FinalStatus

\* row: the status in the job's row.  run: what its runner awaits, or how it
\* stopped: with a final status, or cut off without one.  from: the cursor it read.
\* batch: the answer of the source, then what it keeps of it.  sink: the one being
\* served; failed: an earlier one did not take it.  retries: the partial job a
\* retry-sinks call was about.
Job == [row : JobStatus, run : {"asked", "answered", "serving", "ended", "cut"},
        from : 0..MaxChanges, batch : SUBSET Change, sink : 1..Len(Sinks), failed : BOOLEAN,
        retries : 0..MaxJobs]

Kept(batch) == {c \in batch : c.keep}

NewJob(retries) ==
  [row |-> "running", run |-> "asked", from |-> cursor, batch |-> {}, sink |-> 1,
   failed |-> FALSE, retries |-> retries]

\* A runner stops.  Of what it held only what it owes its sinks, because it saved
\* the cursor before, is remembered.
Left(job, run) ==
  [job EXCEPT !.run = run, !.from = 0, !.sink = 1, !.failed = FALSE,
              !.batch = IF job.run = "serving" THEN @ ELSE {}]

\* With its final status; a completed job owes nothing.
Ended(job, status) ==
  [Left(job, "ended") EXCEPT !.row = status, !.batch = IF status = "completed" THEN {} ELSE @]

\* Without one: the row stays as it is.
Cut(job) == Left(job, "cut")

\* What the catch of runSyncJob makes of a job: its row says failed, or the
\* statement that is to say so throws as well.
Stopped(job) == {Ended(job, "failed"), Cut(job)}

\* The job whose page is written and whose cursor is saved: the sinks are next.
Delivering(job, row) == [job EXCEPT !.run = "serving", !.row = row, !.batch = Kept(job.batch)]

Upto(batch, t) == {c \in batch : c.at <= t}

\* findByExternalId, updateRecord, createRecord over the kept changes: each row
\* is written with what the batch has, newer than the row or not.
Written(batch) ==
  [r \in Records |-> IF \E c \in Kept(batch) : c.id = r
                     THEN (CHOOSE c \in Kept(batch) : c.id = r).at ELSE store[r]]

WriteRecords(batch) ==
  /\ store' = Written(batch)
  /\ newest' = [r \in Records |-> IF store'[r] > newest[r] THEN store'[r] ELSE newest[r]]

\* The cursor a batch leads to: the stamp of its last change, the cursor the job
\* read if it is empty.
NextCursor(j) ==
  IF jobs[j].batch = {} THEN jobs[j].from
  ELSE (CHOOSE c \in jobs[j].batch : \A d \in jobs[j].batch : d.at <= c.at).at

SyncInit ==
  /\ source = {} /\ clock = 0
  /\ cursor = 0
  /\ store = [r \in Records |-> 0]
  /\ active = FALSE
  /\ jobs = <<>>
  /\ received = [s \in SinkNames |-> {}]
  /\ syncCrashes = 0
  /\ newest = store
  /\ overlapped = FALSE

\* External: a record of the source is created or changed.
Modify(r, keep) ==
  /\ clock < MaxChanges
  /\ clock' = clock + 1
  /\ source' = {c \in source : c.id # r} \union {[id |-> r, at |-> clock + 1, keep |-> keep]}
  /\ UNCHANGED <<cursor, store, active, jobs, received, syncCrashes, newest, overlapped>>

\* activate, pause, retire: setFeedStatus asks for no particular status before.
SetFeedStatus ==
  /\ active' = ~active
  /\ UNCHANGED <<source, clock, jobs, received, syncCrashes, overlapped>> /\ UNCHANGED dataVars

Start(retries) ==
  /\ Len(jobs) < MaxJobs
  /\ jobs' = Append(jobs, NewJob(retries))
  /\ overlapped' = (overlapped \/ \E j \in DOMAIN jobs : jobs[j].run \in {"asked", "answered"})
  /\ UNCHANGED <<received, syncCrashes>> /\ UNCHANGED feedVars /\ UNCHANGED dataVars

\* By hand, by the timer of scheduleFeed or by a webhook: all look for an active
\* feed.  By hand the caller is given the id of one more row, which stays queued.
StartSync == active /\ Start(0)

\* POST /jobs/:id/retry-sinks asks for neither the feed's nor the job's status.
RetrySinks(j) == Start(IF jobs[j].row = "partial" THEN j ELSE 0)

\* External: the source takes its answer from what it holds at that moment, one
\* change at least if there is any.
Answer(j) ==
  /\ jobs[j].run = "asked"
  /\ LET since == {c \in source : c.at >= jobs[j].from} IN
     \E batch \in IF since = {} THEN {{}} ELSE {Upto(since, c.at) : c \in since} :
       jobs' = [jobs EXCEPT ![j].run = "answered", ![j].batch = batch]
  /\ UNCHANGED <<received, syncCrashes, overlapped>> /\ UNCHANGED feedVars /\ UNCHANGED dataVars

\* What job j had come to, `job', is thrown to the catch.
FailJob(j, job) == \E stopped \in Stopped(job) : jobs' = [jobs EXCEPT ![j] = stopped]

\* Mutant: nobody catches what the fetch throws.
FetchFailsUncaught(j) ==
  /\ jobs[j].run \in {"asked", "answered"}
  /\ jobs' = [jobs EXCEPT ![j].run = "ended"]
  /\ UNCHANGED <<received, syncCrashes, overlapped>> /\ UNCHANGED feedVars /\ UNCHANGED dataVars

\* The fetch throws, the answer is an error status or its body is cut off; or the
\* row cannot be set to transforming.
FetchFails(j) ==
  /\ jobs[j].run \in {"asked", "answered"}
  /\ FailJob(j, jobs[j])
  /\ UNCHANGED <<received, syncCrashes, overlapped>> /\ UNCHANGED feedVars /\ UNCHANGED dataVars

SaveCursor(j) == cursor' = IF NextCursor(j) = 0 THEN cursor ELSE NextCursor(j)

\* From the answer to the first sink.
Receive(j) ==
  /\ jobs[j].run = "answered"
  /\ WriteRecords(jobs[j].batch)
  /\ SaveCursor(j)
  /\ jobs' = [jobs EXCEPT ![j] = Delivering(jobs[j], "delivering")]
  /\ UNCHANGED <<received, syncCrashes, overlapped>> /\ UNCHANGED feedVars

\* Mutant: the cursor is saved before the records are written.
ReceiveFailsBehindCursor(j) ==
  /\ jobs[j].run = "answered"
  /\ \E t \in 0..clock : WriteRecords(Upto(jobs[j].batch, t))
  /\ FailJob(j, jobs[j])
  /\ SaveCursor(j)
  /\ UNCHANGED <<received, syncCrashes, overlapped>> /\ UNCHANGED feedVars

\* Mutant: what throws is logged and the page is served all the same.
ReceiveFailsServing(j) ==
  /\ jobs[j].run = "answered"
  /\ \E t \in 0..clock : WriteRecords(Upto(jobs[j].batch, t))
  /\ jobs' = [jobs EXCEPT ![j] = Delivering(jobs[j], "delivering")]
  /\ UNCHANGED <<cursor, received, syncCrashes, overlapped>> /\ UNCHANGED feedVars

\* A statement throws after the changes up to t were written, oldest first, and
\* before the cursor is saved.
ReceiveFails(j) ==
  /\ jobs[j].run = "answered"
  /\ \E t \in 0..clock : WriteRecords(Upto(jobs[j].batch, t))
  /\ FailJob(j, [jobs[j] EXCEPT !.row = "transforming"])
  /\ UNCHANGED <<cursor, received, syncCrashes, overlapped>> /\ UNCHANGED feedVars

\* The cursor is saved, and the row cannot be set to delivering: the same catch, and
\* no sink is served.
DeliveryNotBegun(j) ==
  /\ jobs[j].run = "answered"
  /\ WriteRecords(jobs[j].batch)
  /\ SaveCursor(j)
  /\ FailJob(j, Delivering(jobs[j], "transforming"))
  /\ UNCHANGED <<received, syncCrashes, overlapped>> /\ UNCHANGED feedVars

sink(j) == Sinks[jobs[j].sink]

\* External: rows on their way to a sink arrive, oldest first.
Reach(j) ==
  /\ jobs[j].run = "serving" /\ sink(j) \notin Unconfigured
  /\ \E t \in 1..clock :
       received' = [received EXCEPT ![sink(j)] = @ \union Upto(jobs[j].batch, t)]
  /\ UNCHANGED <<jobs, syncCrashes, overlapped>> /\ UNCHANGED feedVars /\ UNCHANGED dataVars

\* The next sink, or the job's final status: what failed counts over all sinks.
Served(j, failed) ==
  /\ jobs' = IF jobs[j].sink < Len(Sinks)
             THEN [jobs EXCEPT ![j].failed = failed, ![j].sink = @ + 1]
             ELSE [jobs EXCEPT ![j] = Ended(jobs[j], IF failed THEN "partial" ELSE "completed")]
  /\ UNCHANGED <<received, syncCrashes, overlapped>> /\ UNCHANGED feedVars /\ UNCHANGED dataVars

\* The sink has every row, or is not configured, which counts as a success.
Taken(j) == sink(j) \in Unconfigured \/ jobs[j].batch \subseteq received[sink(j)]

\* Mutant: the last sink alone decides the final status.
SinkAcceptsForAll(j) ==
  /\ jobs[j].run = "serving"
  /\ Taken(j)
  /\ Served(j, FALSE)

\* The sink accepted every row.
SinkAccepts(j) ==
  /\ jobs[j].run = "serving"
  /\ Taken(j)
  /\ Served(j, jobs[j].failed)

\* An outbound DLP block, a refusal, or no answer whatever the sink received.
SinkFails(j) ==
  /\ jobs[j].run = "serving"
  /\ Served(j, TRUE)

\* The last sink is through, and the statement with the final status throws, or the
\* one after it on the feed's row: the catch writes failed over what was to be said,
\* or had been said.
ClosingFails(j) ==
  /\ jobs[j].run = "serving" /\ jobs[j].sink = Len(Sinks)
  /\ \E row \in {"delivering", "partial", "completed"} :
       /\ row = "completed" => Taken(j) /\ ~jobs[j].failed
       /\ FailJob(j, [jobs[j] EXCEPT !.row = row])
  /\ UNCHANGED <<received, syncCrashes, overlapped>> /\ UNCHANGED feedVars /\ UNCHANGED dataVars

Running(j) == jobs[j].run \notin {"ended", "cut"}

\* The process dies and comes back.  No job is resumed and no row corrected.  One
\* job may have been in the middle of its writes.
SyncCrash ==
  /\ syncCrashes < MaxSyncCrashes /\ \E j \in DOMAIN jobs : Running(j)
  /\ syncCrashes' = syncCrashes + 1
  /\ LET cut == [j \in DOMAIN jobs |-> IF Running(j) THEN Cut(jobs[j]) ELSE jobs[j]] IN
     \/ jobs' = cut /\ UNCHANGED dataVars
     \/ \E j \in DOMAIN jobs, t \in 1..clock :
          /\ jobs[j].run = "answered"
          /\ WriteRecords(Upto(jobs[j].batch, t))
          /\ jobs' = [cut EXCEPT ![j].row = "transforming"]
          /\ UNCHANGED cursor
  /\ UNCHANGED <<received, overlapped>> /\ UNCHANGED feedVars

Progress(j) ==
  \/ Answer(j) \/ FetchFails(j) \/ Receive(j) \/ ReceiveFails(j) \/ DeliveryNotBegun(j)
  \/ Reach(j) \/ SinkAccepts(j) \/ SinkFails(j) \/ ClosingFails(j)

SyncNext ==
  \/ \E r \in Records, keep \in BOOLEAN : Modify(r, keep)
  \/ SetFeedStatus
  \/ StartSync
  \/ \E j \in DOMAIN jobs : RetrySinks(j) \/ Progress(j)
  \/ SyncCrash

\* Every await of a running job is settled: fetch has limits on headers and body,
\* and everything else is synchronous.  Nobody owes a start, a change or a crash.
SyncFairness == \A j \in 1..MaxJobs : WF_syncVars(j \in DOMAIN jobs /\ Progress(j))

SyncSpec == SyncInit /\ [][SyncNext]_syncVars /\ SyncFairness

-----------------------------------------------------------------------------
\* Types, with at most one change of each record in the source and in a batch.
SyncTypeOK ==
  /\ clock \in 0..MaxChanges /\ cursor \in 0..clock
  /\ source \subseteq Change /\ \A c, d \in source : c.id = d.id => c = d
  /\ \A c \in source : c.at <= clock
  /\ store \in [Records -> 0..clock] /\ newest \in [Records -> 0..clock]
  /\ active \in BOOLEAN
  /\ jobs \in Seq(Job) /\ Len(jobs) <= MaxJobs
  /\ received \in [SinkNames -> SUBSET Change]
  /\ syncCrashes \in 0..MaxSyncCrashes /\ overlapped \in BOOLEAN

\* The cursor never passes a change that was kept and not written, whatever jobs
\* overlap, fail or are cut off; and unless jobs overlapped the row still has it
\* (sync-engine.ts saves the cursor last and checks nobody else's).
NothingMissed ==
  \A c \in Kept(source) : c.at <= cursor =>
    /\ newest[c.id] >= c.at
    /\ store[c.id] >= c.at \/ overlapped

\* The cursor is saved before the sinks are served.  A change behind it that a
\* configured sink has not received was in the batch of a job that is still
\* serving it, or has not completed: its row says partial, or failed though the
\* cursor had moved on, or its runner was cut off before it could say either.
UndeliveredHasACause ==
  \A c \in Kept(source), n \in DOMAIN Sinks :
    (c.at <= cursor /\ Sinks[n] \notin Unconfigured /\ c \notin received[Sinks[n]]) =>
      \E j \in DOMAIN jobs :
        /\ c \in jobs[j].batch
        /\ \/ jobs[j].run = "serving" /\ (jobs[j].sink <= n \/ jobs[j].failed)
           \/ jobs[j].row \in {"partial", "failed"}
           \/ jobs[j].run = "cut"

\* The record store comes first: whatever jobs overlap, fail half-way or die, a sink
\* never has a change that a rule dropped, or that was not written before it was sent.
SinksFollowStore ==
  \A s \in SinkNames : \A c \in received[s] : c.keep /\ newest[c.id] >= c.at

\* Every job that comes to its fetch gets its final status, unless the process dies
\* under it, or a statement throws and the one that is to write failed throws as well.
JobsEnd ==
  \A j \in 1..MaxJobs :
    (j \in DOMAIN jobs) ~>
      (j \in DOMAIN jobs /\ (jobs[j].row \in FinalStatus \/ jobs[j].run = "cut"))

=============================================================================
