------------------------------ MODULE WatchMode ------------------------------
(***************************************************************************)
(* The life of a watch session (cce-orchestrator, hot_update): starting    *)
(* and stopping the watcher, degrading to a periodic scan in an event      *)
(* storm and recovering from it.  Recovery puts a new watcher, channel and *)
(* event loop in the place of the old ones; the old loop goes on until its *)
(* channel is closed, and all loops, the periodic scan task and the        *)
(* background processor share one debounce and one change queue.           *)
(*                                                                         *)
(* The tasks are the API calls and the background processor, which hold    *)
(* the coordinator lock, and the event loops and the periodic task, which  *)
(* do not.  Time is three intervals that end in some order: the second of  *)
(* the sliding window, the debounce interval, and the duration a storm or  *)
(* a calm must last.  An operation is one step here; WatchPipeline and     *)
(* OperationGate take it apart.                                            *)
(***************************************************************************)
EXTENDS Naturals, Sequences, FiniteSets, SequencesExt

CONSTANTS
    Files,
    ChannelCapacity,    \* FILE_EVENT_CHANNEL_CAPACITY
    StormThreshold,     \* storm_threshold: more events in the window are a storm
    RecoveryThreshold,  \* recovery_threshold: fewer events in it are calm
    MaxChanges,         \* bounds, not in the code: file changes,
    MaxCommands,        \* calls of watch_start and watch_stop,
    MaxLoops,           \* event loops started,
    MaxFaults           \* watchers that cannot be started

ASSUME WatchModeAssumption ==
    /\ ChannelCapacity \in Nat \ {0}
    /\ StormThreshold \in Nat \ {0} /\ RecoveryThreshold \in Nat \ {0}
    /\ MaxChanges \in Nat /\ MaxCommands \in Nat /\ MaxFaults \in Nat
    /\ MaxLoops \in Nat \ {0}

Loops == 1 .. MaxLoops

VARIABLES
    dirty,      \* files whose index differs from the disk
    mode,       \* HotUpdateMode of the coordinator and of the mode state machine
    watching,   \* the watcher of the current channel runs
    active,     \* WatchStatusTracker.active: what the API reports
    current,    \* the channel of the current watch coordinator
    receiver,   \* file_event_rx: nobody has taken the current channel's receiver
    loop,       \* loop[i]: event loop of channel i and the channel it reads
    stamps,     \* event_timestamps: those that have left the window and the rest
    since,      \* storm_exceeded_since, or recovery_below_since: how long ago
    pending,    \* the debounce: no pending change, waiting, or interval over
    rested,     \* the debounce interval has passed since last_trigger
    first,      \* is_first_check of the debounce
    queue,      \* WatchChangeQueue: the paths queued
    rescan,     \* its needs_full_rescan
    processor,  \* the background processor
    changes, commands, faults

watchVars == <<watching, active, current, receiver, loop>>
machine == <<mode, stamps, since>>
debounce == <<pending, rested, first>>
queueVars == <<queue, rescan>>
bounds == <<commands, faults>>
vars == <<dirty, watchVars, machine, debounce, queueVars, processor, changes, bounds>>

NoLoop == [alive |-> FALSE, channel |-> <<>>, overflow |-> FALSE, accumulated |-> {}]
NoStamps == [stale |-> 0, fresh |-> 0]

\* HotUpdateCoordinator::with_file_watch; the processor starts with the watch.
ModeInit ==
    /\ dirty = {}
    /\ mode = "file_watch" /\ stamps = NoStamps /\ since = "never"
    /\ watching = FALSE /\ active = FALSE
    /\ current = 1 /\ receiver = TRUE
    /\ loop = [i \in Loops |-> NoLoop]
    /\ pending = "none" /\ rested = FALSE /\ first = TRUE
    /\ queue = {} /\ rescan = FALSE
    /\ processor = "not_started"
    /\ changes = 0 /\ commands = 0 /\ faults = 0

-----------------------------------------------------------------------------
(* The disk and the watcher *)

\* A file is written.  A running watcher sends the event with try_send; when the
\* channel is full the event is dropped and the overflow noted.
Change(f) ==
    /\ changes < MaxChanges
    /\ changes' = changes + 1
    /\ dirty' = dirty \cup {f}
    /\ IF ~watching THEN UNCHANGED loop
       ELSE loop' = IF Len(loop[current].channel) < ChannelCapacity
                    THEN [loop EXCEPT ![current].channel = Append(@, f)]
                    ELSE [loop EXCEPT ![current].overflow = TRUE]
    /\ UNCHANGED <<watching, active, current, receiver, machine, debounce, queueVars,
                   processor, bounds>>

-----------------------------------------------------------------------------
(* The debounce and the change queue *)

MarkChanges == IF pending = "none" THEN "waiting" ELSE pending

\* Mutant: the trigger is noted and the pending change stays.
ResetTimer == rested' = FALSE /\ UNCHANGED pending

\* reset: a new trigger, nothing pending
Reset == pending' = "none" /\ rested' = FALSE

\* extend: a flagged queue drops what comes
Extend(paths) ==
    /\ queue' = IF rescan THEN queue ELSE queue \cup paths
    /\ UNCHANGED rescan

-----------------------------------------------------------------------------
(* An event loop *)

\* record_event_and_check_storm prunes the window, then the event is accumulated
\* and, when the debounce interval is over, everything accumulated is forwarded.
Receive(i) ==
    /\ loop[i].alive /\ loop[i].channel /= <<>>
    /\ stamps' = [stale |-> 0, fresh |-> stamps.fresh + 1]
    /\ LET rest == [loop[i] EXCEPT !.channel = Tail(@)]
           paths == loop[i].accumulated \cup {Head(loop[i].channel)}
       IN  IF pending = "due"
           THEN /\ loop' = [loop EXCEPT ![i] = [rest EXCEPT !.accumulated = {}]]
                /\ Extend(paths)
                /\ Reset
           ELSE /\ loop' = [loop EXCEPT ![i] = [rest EXCEPT !.accumulated = paths]]
                /\ pending' = MarkChanges
                /\ UNCHANGED <<queueVars, rested>>
    /\ UNCHANGED <<dirty, watching, active, current, receiver, mode, since, first,
                   processor, changes, bounds>>

DebounceTick(i) ==
    /\ loop[i].alive /\ loop[i].accumulated /= {}
    /\ pending = "due"
    /\ Reset
    /\ Extend(loop[i].accumulated)
    /\ loop' = [loop EXCEPT ![i].accumulated = {}]
    /\ UNCHANGED <<dirty, watching, active, current, receiver, machine, first,
                   processor, changes, bounds>>

PropagateOverflow(i) ==
    /\ loop[i].alive /\ loop[i].overflow
    /\ loop' = [loop EXCEPT ![i].overflow = FALSE]
    /\ rescan' = TRUE
    /\ UNCHANGED <<dirty, watching, active, current, receiver, machine, debounce, queue,
                   processor, changes, bounds>>

\* Mutant: what was accumulated is dropped with the loop.
ChannelClosedUnflushed(i) ==
    /\ loop[i].alive /\ i < current
    /\ loop[i].channel = <<>> /\ ~loop[i].overflow
    /\ loop' = [loop EXCEPT ![i] = NoLoop]
    /\ UNCHANGED <<dirty, watching, active, current, receiver, machine, debounce, queueVars,
                   processor, changes, bounds>>

\* The replaced watch coordinator has dropped its senders: what is accumulated is
\* flushed past the debounce and the loop ends.
ChannelClosed(i) ==
    /\ loop[i].alive /\ i < current
    /\ loop[i].channel = <<>> /\ ~loop[i].overflow
    /\ Extend(loop[i].accumulated)
    /\ loop' = [loop EXCEPT ![i] = NoLoop]
    /\ UNCHANGED <<dirty, watching, active, current, receiver, machine, debounce,
                   processor, changes, bounds>>

-----------------------------------------------------------------------------
(* watch_start and watch_stop, under the coordinator lock *)

Command ==
    /\ processor /= "decides"
    /\ commands < MaxCommands /\ commands' = commands + 1

\* start_watch, start_event_loop, the background processor and the tracker.
\* A watch in periodic-scan mode or already running is refused before anything
\* changes; without a receiver the watcher runs and the call fails.
WatchStart ==
    /\ Command
    /\ mode = "file_watch" /\ ~watching
    /\ watching' = TRUE
    /\ IF receiver
       THEN /\ receiver' = FALSE /\ active' = TRUE
            /\ loop' = [loop EXCEPT ![current].alive = TRUE]
            /\ processor' = IF processor = "not_started" THEN "waits" ELSE processor
       ELSE UNCHANGED <<receiver, active, loop, processor>>
    /\ UNCHANGED <<dirty, current, machine, debounce, queueVars, changes, faults>>

\* stop_watch and the tracker; without a watch the call changes nothing
WatchStop ==
    /\ Command
    /\ watching \/ active
    /\ watching' = FALSE /\ active' = FALSE
    /\ UNCHANGED <<dirty, current, receiver, loop, machine, debounce, queueVars,
                   processor, changes, faults>>

-----------------------------------------------------------------------------
(* The mode state machine, driven by the background processor *)

Rate == stamps.stale + stamps.fresh

\* should_degrade, should_recover: whether the rate is over the storm threshold,
\* or under the recovery threshold
Exceeded == IF mode = "file_watch" THEN Rate > StormThreshold ELSE Rate < RecoveryThreshold

Switch(m) == mode' = m /\ stamps' = NoStamps /\ since' = "never"

\* Nothing to switch yet: the threshold is not met, met for the first time, or not
\* met for long enough.
KeepMode ==
    /\ processor = "waits"
    /\ ~(Exceeded /\ since = "long")
    /\ since' = IF ~Exceeded THEN "never" ELSE IF since = "never" THEN "just" ELSE since
    /\ processor' = "decides"
    /\ UNCHANGED <<dirty, watchVars, mode, stamps, debounce, queueVars, changes, bounds>>

\* switch_to_periodic_scan: the watcher stops, its channel and loop stay.
SwitchToPeriodicScan ==
    /\ processor = "waits"
    /\ mode = "file_watch" /\ Exceeded /\ since = "long"
    /\ watching' = FALSE
    /\ Switch("periodic_scan")
    /\ processor' = "decides"
    /\ UNCHANGED <<dirty, active, current, receiver, loop, debounce, queueVars,
                   changes, bounds>>

\* Mutant: the event loop of the new channel is not started.
SwitchToFileWatchLoopless ==
    /\ processor = "waits"
    /\ mode = "periodic_scan" /\ Exceeded /\ since = "long"
    /\ Switch("file_watch")
    /\ current' = current + 1
    /\ watching' = TRUE /\ receiver' = TRUE
    /\ processor' = "decides"
    /\ UNCHANGED <<dirty, active, loop, debounce, queueVars, changes, bounds>>

\* switch_to_file_watch: a new channel, watcher and event loop.
SwitchToFileWatch ==
    /\ processor = "waits"
    /\ mode = "periodic_scan" /\ Exceeded /\ since = "long"
    /\ Switch("file_watch")
    /\ current' = current + 1
    /\ watching' = TRUE /\ receiver' = FALSE
    /\ loop' = [loop EXCEPT ![current'].alive = TRUE]
    /\ processor' = "decides"
    /\ UNCHANGED <<dirty, active, debounce, queueVars, changes, bounds>>

\* The new watcher cannot be started: the mode is switched, the new channel has no
\* event loop, and the error is only logged.
SwitchFails ==
    /\ processor = "waits"
    /\ mode = "periodic_scan" /\ Exceeded /\ since = "long"
    /\ faults < MaxFaults /\ faults' = faults + 1
    /\ Switch("file_watch")
    /\ current' = current + 1
    /\ watching' = FALSE /\ receiver' = TRUE
    /\ processor' = "decides"
    /\ UNCHANGED <<dirty, active, loop, debounce, queueVars, changes, commands>>

-----------------------------------------------------------------------------
(* The background processor's decision and its operation *)

\* should_update(cache_miss, FALSE)
ShouldUpdate(miss) ==
    \/ miss /\ (first \/ rested)
    \/ ~miss /\ pending /= "none" /\ rested

\* Mutant: only what is queued counts, in either mode.
DecidesToRunQueued ==
    /\ processor = "decides"
    /\ queue /= {}
    /\ processor' = "runs"
    /\ UNCHANGED <<dirty, watchVars, machine, debounce, queueVars, changes, bounds>>

\* File watch: something is queued.  Periodic scan: check_changes compares the disk
\* with the recorded hashes, and the debounce decides.
DecidesToRun ==
    /\ processor = "decides"
    /\ IF mode = "file_watch"
       THEN queue /= {} /\ UNCHANGED debounce
       ELSE ShouldUpdate(dirty /= {}) /\ Reset /\ first' = FALSE
    /\ processor' = "runs"
    /\ UNCHANGED <<dirty, watchVars, machine, queueVars, changes, bounds>>

DecidesToWait ==
    /\ processor = "decides"
    /\ IF mode = "file_watch"
       THEN queue = {} /\ UNCHANGED debounce
       ELSE /\ ~ShouldUpdate(dirty /= {})
            /\ pending' = IF dirty /= {} THEN MarkChanges ELSE pending
            /\ UNCHANGED <<rested, first>>
    /\ processor' = "waits"
    /\ UNCHANGED <<dirty, watchVars, machine, queueVars, changes, bounds>>

\* run_operation: the queued paths, or a scan when the queue is flagged or empty.
RunOperation ==
    /\ processor = "runs"
    /\ dirty' = IF rescan \/ queue = {} THEN {} ELSE dirty \ queue
    /\ queue' = {} /\ rescan' = FALSE
    /\ processor' = "waits"
    /\ UNCHANGED <<watchVars, machine, debounce, changes, bounds>>

-----------------------------------------------------------------------------
(* The periodic scan task and time *)

\* The task runs in periodic-scan mode: it marks a change and asks the debounce,
\* which is all it does.
PeriodicTick ==
    /\ mode = "periodic_scan"
    /\ IF pending = "due" THEN Reset ELSE pending' = MarkChanges /\ UNCHANGED rested
    /\ UNCHANGED <<dirty, watchVars, machine, first, queueVars, processor, changes, bounds>>

\* The window slides: the timestamps in it are old, and stay until the next event.
Slide == stamps' = [stale |-> Rate, fresh |-> 0]

SecondPasses ==
    /\ stamps.fresh > 0
    /\ Slide
    /\ UNCHANGED <<dirty, watchVars, mode, since, debounce, queueVars, processor,
                   changes, bounds>>

\* The debounce interval since the last trigger, and since the first pending change
IntervalPasses ==
    /\ \/ ~rested /\ UNCHANGED pending
       \/ pending = "waiting" /\ pending' = "due"
    /\ rested' = TRUE
    /\ Slide
    /\ UNCHANGED <<dirty, watchVars, mode, since, first, queueVars, processor,
                   changes, bounds>>

\* The storm or the calm has lasted long enough; MaxLoops bounds the storms that do.
DurationPasses ==
    /\ since = "just"
    /\ mode = "file_watch" => current < MaxLoops
    /\ since' = "long"
    /\ Slide
    /\ UNCHANGED <<dirty, watchVars, mode, debounce, queueVars, processor, changes, bounds>>

-----------------------------------------------------------------------------
ModeNext ==
    \/ \E f \in Files : Change(f)
    \/ \E i \in Loops : Receive(i) \/ DebounceTick(i) \/ PropagateOverflow(i) \/ ChannelClosed(i)
    \/ WatchStart \/ WatchStop
    \/ KeepMode \/ SwitchToPeriodicScan \/ SwitchToFileWatch \/ SwitchFails
    \/ DecidesToRun \/ DecidesToWait \/ RunOperation
    \/ PeriodicTick \/ SecondPasses \/ IntervalPasses \/ DurationPasses

ModeSpec == ModeInit /\ [][ModeNext]_vars

\* Tasks are polled again and again and time passes.  Strong fairness where the
\* timers justify it: an event loop looks at the debounce every second, and the
\* processor as often as the debounce interval ends (both are 30 seconds unless
\* configured otherwise), so neither is late every time.
FairModeSpec ==
    /\ ModeSpec
    /\ \A i \in Loops :
        /\ WF_vars(Receive(i)) /\ WF_vars(PropagateOverflow(i)) /\ WF_vars(ChannelClosed(i))
        /\ SF_vars(DebounceTick(i))
    /\ WF_vars(KeepMode) /\ SF_vars(KeepMode /\ rested) /\ SF_vars(DecidesToRun) /\ WF_vars(DecidesToWait) /\ WF_vars(RunOperation)
    /\ WF_vars(SwitchToPeriodicScan) /\ WF_vars(SwitchToFileWatch)
    /\ WF_vars(PeriodicTick)
    /\ WF_vars(SecondPasses) /\ WF_vars(IntervalPasses) /\ WF_vars(DurationPasses)

-----------------------------------------------------------------------------
(* Properties *)

\* Type correctness; besides, no channel outgrows FILE_EVENT_CHANNEL_CAPACITY and
\* a pending change is due only after the interval since the last trigger.
ModeTypeOK ==
    /\ dirty \subseteq Files /\ queue \subseteq Files
    /\ mode \in {"file_watch", "periodic_scan"}
    /\ watching \in BOOLEAN /\ active \in BOOLEAN /\ receiver \in BOOLEAN
    /\ current \in Loops
    /\ loop \in [Loops -> [alive : BOOLEAN, channel : UNION {[1 .. n -> Files] : n \in 0 .. ChannelCapacity},
                           overflow : BOOLEAN, accumulated : SUBSET Files]]
    /\ stamps \in [stale : 0 .. MaxChanges, fresh : 0 .. MaxChanges]
    /\ since \in {"never", "just", "long"}
    /\ pending \in {"none", "waiting", "due"} /\ (pending = "due" => rested)
    /\ rested \in BOOLEAN /\ first \in BOOLEAN /\ rescan \in BOOLEAN
    /\ processor \in {"not_started", "waits", "decides", "runs"}

\* A watcher that runs has an event loop on its channel ("without this restart,
\* watch events would be silently dropped after a storm recovery",
\* change_merger.rs:566), and a watch the API reports as active either runs or is
\* replaced by the periodic scan, unless the restart after a storm failed.
Observed ==
    /\ watching => mode = "file_watch" /\ loop[current].alive
    /\ active /\ ~receiver => watching \/ mode = "periodic_scan"

Received(f) ==
    \/ f \in queue
    \/ \E i \in Loops : f \in loop[i].accumulated \cup Range(loop[i].channel)

\* the debounce was reset under what a loop has accumulated
Stranded(f) == pending = "none" /\ \E i \in Loops : f \in loop[i].accumulated

\* A change whose event was received is indexed, across switches of the mode and
\* the replacement of channel and loop, unless another user of the shared debounce
\* takes the turn of the loop that has it, or the queue drops it because a scan is
\* due (WatchPipeline is about that scan).
ReceivedIndexed ==
    \A f \in Files : Received(f) /\ f \in dirty ~> f \notin dirty \/ Stranded(f) \/ rescan

\* In degraded mode changes are found without events, although the periodic task
\* and the processor compete for the debounce.
DegradedIndexes ==
    \A f \in Files :
        mode = "periodic_scan" /\ f \in dirty ~> f \notin dirty \/ mode = "file_watch"

=============================================================================
