--------------------------- MODULE WatchPipeline ---------------------------
(***************************************************************************)
(* How a file change reaches the index in file-watch mode (cce-            *)
(* orchestrator, hot_update): the watcher puts an event into a bounded     *)
(* channel, the event loop accumulates events until the debounce interval  *)
(* is over and forwards them to WatchChangeQueue, and a hot-update         *)
(* operation takes the queue's entries or, when events were dropped, scans *)
(* the file system instead.                                                *)
(*                                                                         *)
(* The tasks are the watcher, the event loop, the background processor,    *)
(* API requests, and the operation that holds the runtime mutex; each step *)
(* ends where the code awaits.  A file's content is abstracted to whether  *)
(* the index agrees with the disk.                                         *)
(***************************************************************************)
EXTENDS Naturals, Sequences, FiniteSets, FiniteSetsExt

CONSTANTS Files,
          ChannelCapacity,  \* FILE_EVENT_CHANNEL_CAPACITY
          Capacity,         \* DEFAULT_WATCH_CHANGE_CAPACITY
          MaxChanges,       \* bounds on changes of the disk and on
          MaxFailures       \* rejected or failed operations; not in the code

VARIABLES present,      \* the files on disk
          dirty,        \* the files whose index differs from the disk
          hidden,       \* dirty files whose recorded hash is the disk's
          channel,      \* file_event_tx/rx: events, a path and what happened
          overflow,     \* watch_event_overflow
          accumulated,  \* accumulated_events of the event loop
          debounced,    \* has_pending_changes of the debounce
          entries,      \* WatchChangeQueue: what is queued for each path
          rescan,       \* needs_full_rescan of the queue
          wanted,       \* a task has decided to run an operation
          op,           \* the operation that holds the runtime mutex
          resume,       \* the files of an operation that failed half way
          shown,        \* whether its generation is active (is_manifest_active)
          changes, failures

diskVars == <<present, dirty, hidden, changes>>
loopVars == <<channel, overflow, accumulated, debounced>>
queueVars == <<entries, rescan>>
runVars == <<wanted, op, resume, shown, failures>>
vars == <<diskVars, loopVars, queueVars, runVars>>

ASSUME WatchAssumption ==
  /\ ChannelCapacity \in Nat \ {0} /\ Capacity \in Nat \ {0}
  /\ MaxChanges \in Nat /\ MaxFailures \in Nat

News == {"none", "changed", "deleted"}
NoNews == [f \in Files |-> "none"]
Disk(f) == IF f \in present THEN "changed" ELSE "deleted"

\* rescan: the flag as the operation read it; batch: the paths it took, then
\* the changes it found; good, bad: whether indexing them matches the disk
IdleOp == [pc |-> "idle", rescan |-> FALSE, batch |-> NoNews, good |-> {}, bad |-> {}]

Init ==
  /\ present = Files /\ dirty = {} /\ hidden = {}
  /\ channel = <<>> /\ overflow = FALSE
  /\ accumulated = <<>> /\ debounced = FALSE
  /\ entries = NoNews /\ rescan = FALSE
  /\ wanted = FALSE /\ op = IdleOp /\ resume = NoNews /\ shown = FALSE
  /\ changes = 0 /\ failures = 0

---------------------------------------------------------------------------
(***************************************************************************)
(* WatchChangeQueue.                                                       *)
(***************************************************************************)
Queued(q) == {f \in Files : q[f] # "none"}

\* mutants of InsertInner: the overflow is not recorded, one entry too many
\* is accepted
InsertInnerSilent(q, e) ==
  IF q.entries[e.path] # "none" \/ Cardinality(Queued(q.entries)) < Capacity
  THEN [q EXCEPT !.entries[e.path] = e.news] ELSE q

InsertInnerLate(q, e) ==
  IF q.entries[e.path] # "none" \/ Cardinality(Queued(q.entries)) <= Capacity
  THEN [q EXCEPT !.entries[e.path] = e.news] ELSE [q EXCEPT !.rescan = TRUE]

\* a repeated path is updated in place; at capacity an event is dropped and
\* the queue is flagged
InsertInner(q, e) ==
  IF q.entries[e.path] # "none" \/ Cardinality(Queued(q.entries)) < Capacity
  THEN [q EXCEPT !.entries[e.path] = e.news]
  ELSE [q EXCEPT !.rescan = TRUE]

\* the queue after the events were inserted one by one
Inserted(q, events) ==
  LET after[i \in 0 .. Len(events)] ==
        IF i = 0 THEN q ELSE InsertInner(after[i - 1], events[i])
  IN  after[Len(events)]

\* extend, under the queue's mutex; a flagged queue drops the whole batch
Extend(events) ==
  LET queue == [entries |-> entries, rescan |-> rescan]
      q == IF rescan THEN queue ELSE Inserted(queue, events)
  IN  entries' = q.entries /\ rescan' = q.rescan

---------------------------------------------------------------------------
(***************************************************************************)
(* A file is written, created or deleted, and the watcher sends the event; *)
(* when the channel is full the event is dropped and the overflow noted.   *)
(* What an operation had read of the file, and the hash recorded of it, is *)
(* no longer what is on disk.                                              *)
(***************************************************************************)
Change(f) ==
  /\ changes < MaxChanges /\ changes' = changes + 1
  /\ present' \in {present \cup {f}, present \ {f}}
  /\ f \in present \cup present'
  /\ dirty' = dirty \cup {f} /\ hidden' = hidden \ {f}
  /\ IF Len(channel) < ChannelCapacity
     THEN /\ channel' = Append(channel, [path |-> f, news |-> Disk(f)'])
          /\ UNCHANGED overflow
     ELSE overflow' = TRUE /\ UNCHANGED channel
  /\ op' = [op EXCEPT !.good = @ \ {f}]
  /\ UNCHANGED <<accumulated, debounced, queueVars, wanted, resume, shown, failures>>

---------------------------------------------------------------------------
(***************************************************************************)
(* The event loop.  should_process answers TRUE once the interval since    *)
(* the first pending change is over (at once when it is configured to 0),  *)
(* and then resets the debounce.                                           *)
(***************************************************************************)
PropagateOverflow ==
  /\ overflow
  /\ overflow' = FALSE
  /\ rescan' = TRUE
  /\ UNCHANGED <<diskVars, channel, accumulated, debounced, entries, runVars>>

Receive(due) ==
  /\ channel # <<>>
  /\ channel' = Tail(channel)
  /\ LET events == Append(accumulated, Head(channel))
     IN  IF due THEN Extend(events) /\ accumulated' = <<>>
                ELSE accumulated' = events /\ UNCHANGED queueVars
  /\ debounced' = ~due
  /\ UNCHANGED <<diskVars, overflow, runVars>>

\* with nothing pending the answer is no; with changes pending it becomes yes
\* when the interval is over
ShouldProcess == debounced

DebounceTick ==
  /\ accumulated # <<>> /\ ShouldProcess
  /\ Extend(accumulated)
  /\ accumulated' = <<>>
  /\ debounced' = FALSE
  /\ UNCHANGED <<diskVars, channel, overflow, runVars>>

---------------------------------------------------------------------------
(***************************************************************************)
(* Who starts an operation: the background processor when it finds entries *)
(* in the queue, the catch-up of a full index, which resets the debounce,  *)
(* a commit request, or explicit changes from the API.                     *)
(***************************************************************************)
BackgroundDecides ==
  /\ ~wanted
  /\ Queued(entries) # {}
  /\ wanted' = TRUE
  /\ UNCHANGED <<diskVars, loopVars, queueVars, op, resume, shown, failures>>

ForceUpdate ==
  /\ Queued(entries) # {}
  /\ debounced' = FALSE
  /\ wanted' = TRUE
  /\ UNCHANGED <<diskVars, channel, overflow, accumulated, queueVars,
                 op, resume, shown, failures>>

Begin == op.pc = "idle" /\ op' = [op EXCEPT !.pc = "start"]

BeginWanted ==
  /\ wanted /\ Begin
  /\ wanted' = FALSE
  /\ UNCHANGED <<diskVars, loopVars, queueVars, resume, shown, failures>>

RunCommitUpdate ==
  /\ Begin
  /\ UNCHANGED <<diskVars, loopVars, queueVars, wanted, resume, shown, failures>>

RunExplicitChanges(f) ==
  /\ Begin
  /\ Extend(<<[path |-> f, news |-> Disk(f)]>>)
  /\ UNCHANGED <<diskVars, loopVars, wanted, resume, shown, failures>>

---------------------------------------------------------------------------
(***************************************************************************)
(* run_operation.  A configuration change comes first, a busy slot rejects *)
(* it, and an operation that failed half way is resumed instead.           *)
(***************************************************************************)
Fails == failures < MaxFailures /\ failures' = failures + 1

OpYields ==
  /\ op.pc = "start"
  /\ Fails
  /\ op' = IdleOp
  /\ UNCHANGED <<diskVars, loopVars, queueVars, wanted, resume, shown>>

\* a deletion is replayed as it is, every other file is read again
OpResumes ==
  /\ op.pc = "start" /\ resume # NoNews /\ ~shown
  /\ LET bad == {f \in present : resume[f] = "deleted"}
         good == Queued(resume) \ bad
     IN  op' = [op EXCEPT !.pc = "publish", !.good = good, !.bad = bad,
                  !.batch = [f \in Files |-> IF f \in good THEN Disk(f) ELSE resume[f]]]
  /\ UNCHANGED <<diskVars, loopVars, queueVars, wanted, resume, shown, failures>>

\* the generation of the operation is active: only its hashes are left to record
OpResumesShown ==
  /\ op.pc = "start" /\ resume # NoNews /\ shown
  /\ op' = [op EXCEPT !.pc = "publish", !.good = Queued(resume) \ dirty, !.bad = {},
                      !.batch = resume]
  /\ UNCHANGED <<diskVars, loopVars, queueVars, wanted, resume, shown, failures>>

OpReadsFlag ==
  /\ op.pc = "start" /\ resume = NoNews
  /\ op' = [op EXCEPT !.pc = "take", !.rescan = rescan]
  /\ UNCHANGED <<diskVars, loopVars, queueVars, wanted, resume, shown, failures>>

\* mutant: the entries are copied and stay in the queue
OpTakesCopy ==
  /\ op.pc = "take"
  /\ op' = [op EXCEPT !.pc = "detect", !.batch = entries]
  /\ rescan' = FALSE
  /\ UNCHANGED <<entries, diskVars, loopVars, wanted, resume, shown, failures>>

\* take, under the queue's mutex: the flag is cleared with the entries
OpTakes ==
  /\ op.pc = "take"
  /\ op' = [op EXCEPT !.pc = "detect", !.batch = entries]
  /\ entries' = NoNews
  /\ rescan' = FALSE
  /\ UNCHANGED <<diskVars, loopVars, wanted, resume, shown, failures>>

Scanning == op.rescan \/ op.batch = NoNews

\* scan_and_detect compares the disk with the recorded hashes and paths
ScanFinds == dirty \ hidden

\* update() parses what the scan finds, process_watch_paths the files that are
\* there and believes every deletion; `lost` could not be parsed
OpDetects(lost) ==
  /\ op.pc = "detect"
  /\ IF lost = {} THEN UNCHANGED failures ELSE Fails
  /\ lost \subseteq present
  /\ LET found == IF Scanning THEN ScanFinds ELSE Queued(op.batch)
         news == [f \in Files |-> IF f \notin found \ lost THEN "none"
                                  ELSE IF Scanning THEN Disk(f) ELSE op.batch[f]]
         good == {f \in Files : news[f] = Disk(f)}
         bad == {f \in present : news[f] = "deleted"}
     IN  op' = IF good \cup bad = {} THEN IdleOp
               ELSE [op EXCEPT !.pc = "publish", !.good = good, !.bad = bad,
                       !.batch = [f \in Files |->
                                    IF f \in good \cup bad THEN news[f] ELSE "none"]]
  /\ UNCHANGED <<diskVars, loopVars, queueVars, wanted, resume, shown>>

\* an error before the files are checkpointed: there is nothing to resume
OpDies ==
  /\ op.pc \in {"take", "detect"}
  /\ Fails
  /\ op' = IdleOp
  /\ UNCHANGED <<diskVars, loopVars, queueVars, wanted, resume, shown>>

OpFails ==
  /\ op.pc = "publish"
  /\ Fails
  /\ resume' = op.batch
  /\ op' = IdleOp
  /\ UNCHANGED <<diskVars, loopVars, queueVars, wanted, shown>>

\* commit_file_hashes or the completion of the checkpoint fails: the index has the
\* files, the hashes do not
OpFailsLate ==
  /\ op.pc = "publish"
  /\ Fails
  /\ dirty' = (dirty \ op.good) \cup op.bad
  /\ hidden' = hidden \ op.good
  /\ resume' = op.batch
  /\ shown' = TRUE
  /\ op' = IdleOp
  /\ UNCHANGED <<present, changes, loopVars, queueVars, wanted>>

\* commit_file_hashes reads every published file once more to record its hash
Rehashed == {f \in present : op.batch[f] = "changed"}

OpPublishes ==
  /\ op.pc = "publish"
  /\ dirty' = (dirty \ op.good) \cup op.bad
  /\ hidden' = (hidden \ Queued(op.batch)) \cup (Rehashed \ op.good)
  /\ resume' = NoNews
  /\ shown' = FALSE
  /\ op' = IdleOp
  /\ UNCHANGED <<present, changes, loopVars, queueVars, wanted, failures>>

---------------------------------------------------------------------------
OpStep ==
  \/ OpResumes \/ OpResumesShown \/ OpReadsFlag \/ OpTakes \/ OpDetects({}) \/ OpPublishes

Next ==
  \/ \E f \in Files : Change(f) \/ RunExplicitChanges(f)
  \/ PropagateOverflow \/ DebounceTick
  \/ \E due \in BOOLEAN : Receive(due)
  \/ BackgroundDecides \/ ForceUpdate \/ BeginWanted \/ RunCommitUpdate
  \/ OpYields \/ OpDies \/ OpFails \/ OpFailsLate \/ OpStep
  \/ \E lost \in SUBSET Files \ {{}} : OpDetects(lost)

\* The event loop and the background processor are polled again and again
\* (their timers tick), an operation that runs comes to its end, and the
\* runtime mutex is fair (tokio's is first come, first served).
Fairness ==
  /\ WF_vars(PropagateOverflow) /\ WF_vars(DebounceTick)
  /\ WF_vars(\E due \in BOOLEAN : Receive(due))
  /\ WF_vars(BackgroundDecides) /\ SF_vars(BeginWanted)
  /\ WF_vars(OpStep)

Spec == Init /\ [][Next]_vars /\ Fairness

---------------------------------------------------------------------------
Events == [path : Files, news : News \ {"none"}]

\* Besides the types: neither the channel nor the queue outgrows its
\* capacity, whatever is forwarded, repeated or handed in through the API.
WatchTypeOK ==
  /\ present \subseteq Files /\ dirty \subseteq Files /\ hidden \subseteq dirty
  /\ channel \in Seq(Events) /\ Len(channel) <= ChannelCapacity
  /\ accumulated \in Seq(Events)
  /\ overflow \in BOOLEAN /\ debounced \in BOOLEAN /\ rescan \in BOOLEAN
  /\ entries \in [Files -> News] /\ Cardinality(Queued(entries)) <= Capacity
  /\ wanted \in BOOLEAN /\ resume \in [Files -> News] /\ shown \in BOOLEAN
  /\ op \in [pc : {"idle", "start", "take", "detect", "publish"}, rescan : BOOLEAN,
             batch : [Files -> News], good : SUBSET Files, bad : SUBSET Files]

\* the latest news of f on its way to the queue, or what the queue says
OnTheWay == accumulated \o channel
About(f) == {i \in DOMAIN OnTheWay : OnTheWay[i].path = f}

LatestNews(f) ==
  IF About(f) # {} THEN OnTheWay[Max(About(f))].news ELSE entries[f]

\* f is on disk, and old news, the operation or its resumption will take it
\* out of the index
Undone(f) ==
  /\ f \in present
  /\ \/ LatestNews(f) = "deleted"
     \/ op.pc = "detect" /\ ~Scanning /\ op.batch[f] = "deleted"
     \/ op.pc = "publish" /\ f \in op.bad
     \/ resume[f] = "deleted" /\ ~shown

\* the index has f as it is on disk and will keep it, or f will be looked at:
\* a scan that can see f is due, or the latest news is true, or the operation or its
\* resumption works on f
Covered(f) ==
  \/ f \notin dirty /\ ~Undone(f)
  \/ /\ f \notin hidden
     /\ \/ overflow \/ rescan
        \/ op.pc = "take" /\ op.rescan
        \/ op.pc = "detect" /\ Scanning
  \/ LatestNews(f) = Disk(f)
  \/ /\ LatestNews(f) = "none"
     /\ \/ op.pc = "detect" /\ op.batch[f] = Disk(f)
        \/ op.pc = "publish" /\ f \in op.good
        \/ ~shown /\ (resume[f] = "changed" \/ resume[f] = Disk(f))

\* No step drops a change that an event, a scan or a checkpoint still covers,
\* however overflows of the channel and of the queue, the debounce, repeated
\* events ("the last event's deletion flag wins", watch_change_queue.rs:9)
\* and half-failed operations interleave, with four exceptions: a file that
\* cannot be read, or an operation that dies before its files are
\* checkpointed; a take that clears a flag set after the operation looked at
\* it (operation_runtime.rs:478-484); a scan overtaken by an old event whose
\* successor the channel dropped; and a file that changed between the read and
\* the hash of the operation that published it, which no scan finds any more.
NoSilentLoss ==
  [][\A f \in Files : Covered(f) /\ ~Covered(f)' =>
       \/ op.pc \in {"take", "detect"} /\ failures' > failures
       \/ op.pc = "take" /\ rescan /\ ~op.rescan
       \/ op.pc = "detect" /\ Scanning /\ LatestNews(f) \notin {"none", Disk(f)}
       \/ f \in hidden']_vars

\* What is queued is taken: the background processor keeps serving the queue
\* although operations are rejected, fail, are resumed first or are started
\* by others.
QueueServed == Queued(entries) # {} ~> Queued(entries) = {}

\* "dropped events trigger a full rescan instead of being lost silently"
\* (change_merger.rs:518-519): a queue that is flagged for a rescan gets one.  The
\* background processor looks for entries, and a flagged queue takes none.
RescanServed == rescan ~> ~rescan

============================================================================
