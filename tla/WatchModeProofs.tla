-------------------------- MODULE WatchModeProofs --------------------------
(***************************************************************************)
(* Proofs about a watch session, for any files, channel capacity,          *)
(* thresholds and number of changes, commands, loops and faults:           *)
(*                                                                         *)
(*   ModeTyping      ModeTypeOK                                            *)
(*   AlwaysObserved  Observed                                              *)
(*                                                                         *)
(* ModeTypeOK bounds the timestamps of the storm window by the changes:    *)
(* every timestamp is an event that left a channel, so the invariant       *)
(* counts the events in flight and the timestamps together (CountInv).     *)
(* Observed needs that a channel whose receiver was taken has its event    *)
(* loop (WatcherInv), through stop and start, storm and recovery.          *)
(***************************************************************************)
EXTENDS WatchMode, FiniteSetTheorems, TLAPS

\* The contents of a file-event channel, within its capacity.
Channels == UNION {[1 .. n -> Files] : n \in 0 .. ChannelCapacity}

\* An event loop and the channel it reads.
LoopStates == [alive : BOOLEAN, channel : Channels, overflow : BOOLEAN,
               accumulated : SUBSET Files]

\* The events in the channels of all loops: a loop and a place in its channel.
InFlight == {e \in Loops \X (1 .. ChannelCapacity) : e[2] <= Len(loop[e[1]].channel)}

\* Every event in flight or counted in the storm window is a change of a file.
CountInv ==
    /\ changes \in 0 .. MaxChanges
    /\ Cardinality(InFlight) + stamps.stale + stamps.fresh <= changes

\* A degraded session, and a storm that lasts, leave room for one more loop; the
\* bound on the loops is the model's.
RoomInv == mode = "periodic_scan" \/ since = "long" => current < MaxLoops

\* A current channel whose receiver was taken has its event loop: only the loop of
\* a replaced channel ends.
WatcherInv == ~ receiver => loop[current].alive

\* The inductive invariant of a watch session.
ModeInv == ModeTypeOK /\ CountInv /\ RoomInv /\ WatcherInv /\ Observed

\* The types of everything but the loops and the storm window.
Scalars ==
    /\ dirty \subseteq Files /\ queue \subseteq Files
    /\ mode \in {"file_watch", "periodic_scan"}
    /\ watching \in BOOLEAN /\ active \in BOOLEAN /\ receiver \in BOOLEAN
    /\ current \in Loops
    /\ since \in {"never", "just", "long"}
    /\ pending \in {"none", "waiting", "due"} /\ (pending = "due" => rested)
    /\ rested \in BOOLEAN /\ first \in BOOLEAN /\ rescan \in BOOLEAN
    /\ processor \in {"not_started", "waits", "decides", "runs"}

\* The storm window counts timestamps.
Stamps == stamps \in [stale : Nat, fresh : Nat]

\* The types of the event loops.
LoopOK == loop \in [Loops -> LoopStates]

\* The parts of the invariant that relate mode, watcher and loops.
Others == RoomInv /\ WatcherInv /\ Observed

\* The contents of a channel are the sequences of files within its capacity.
LEMMA ChannelType ==
  \A c : c \in Channels <=> c \in Seq(Files) /\ Len(c) \in 0 .. ChannelCapacity
<1>1. ASSUME NEW c \in Channels PROVE c \in Seq(Files) /\ Len(c) \in 0 .. ChannelCapacity
  <2>1. PICK n \in 0 .. ChannelCapacity : c \in [1 .. n -> Files]
    BY DEF Channels
  <2>2. n \in Nat
    BY WatchModeAssumption
  <2> QED BY <2>1, <2>2
<1>2. ASSUME NEW c \in Seq(Files), Len(c) \in 0 .. ChannelCapacity PROVE c \in Channels
  <2>1. c \in [1 .. Len(c) -> Files]
    OBVIOUS
  <2> QED BY <1>2, <2>1 DEF Channels
<1> QED BY <1>1, <1>2

\* A sequence of files within the capacity is the contents of a channel.
LEMMA ChannelIntro ==
  ASSUME NEW c \in Seq(Files), Len(c) <= ChannelCapacity
  PROVE  c \in Channels
BY ChannelType

\* A session has finitely many events in flight: loops and channels are bounded.
LEMMA InFlightFinite ==
  IsFiniteSet(InFlight) /\ Cardinality(InFlight) \in Nat
<1>1. IsFiniteSet(Loops) /\ IsFiniteSet(1 .. ChannelCapacity)
  BY FS_Interval, WatchModeAssumption DEF Loops
<1>2. IsFiniteSet(Loops \X (1 .. ChannelCapacity))
  BY <1>1, FS_Product
<1>3. InFlight \in SUBSET (Loops \X (1 .. ChannelCapacity))
  BY DEF InFlight
<1> QED BY <1>2, <1>3, FS_Subset, FS_CardinalityType

\* A step on one loop that keeps, extends or shortens its channel by one event
\* changes the number of events in flight accordingly.
LEMMA InFlightSteps ==
  ASSUME loop \in [Loops -> LoopStates], NEW i \in Loops,
         \A j \in Loops : j # i => loop'[j] = loop[j],
         loop'[i].channel \in Channels
  PROVE  /\ loop'[i].channel = loop[i].channel =>
              Cardinality(InFlight') = Cardinality(InFlight)
         /\ Len(loop'[i].channel) = Len(loop[i].channel) + 1 =>
              Cardinality(InFlight') = Cardinality(InFlight) + 1
         /\ Len(loop'[i].channel) = Len(loop[i].channel) - 1 =>
              Cardinality(InFlight') = Cardinality(InFlight) - 1
<1>1. /\ \A j \in Loops : Len(loop[j].channel) \in 0 .. ChannelCapacity
      /\ Len(loop'[i].channel) \in 0 .. ChannelCapacity
      /\ ChannelCapacity \in Nat
  BY ChannelType, WatchModeAssumption DEF LoopStates
<1>2. \A e \in Loops \X (1 .. ChannelCapacity) :
        /\ e \in InFlight <=> e[2] <= Len(loop[e[1]].channel)
        /\ e \in InFlight' <=> e[2] <= Len(loop'[e[1]].channel)
        /\ e[1] \in Loops /\ e[2] \in 1 .. ChannelCapacity /\ e = <<e[1], e[2]>>
        /\ e[1] # i => loop'[e[1]] = loop[e[1]]
  BY DEF InFlight
<1>3. InFlight \subseteq Loops \X (1 .. ChannelCapacity) /\ InFlight' \subseteq Loops \X (1 .. ChannelCapacity)
  BY DEF InFlight
<1>4. ASSUME loop'[i].channel = loop[i].channel
      PROVE  Cardinality(InFlight') = Cardinality(InFlight)
  <2>1. \A e \in Loops \X (1 .. ChannelCapacity) : e \in InFlight' <=> e \in InFlight
    BY <1>2, <1>4
  <2>2. InFlight' = InFlight
    BY <1>3, <2>1
  <2> QED BY <2>2
<1>5. ASSUME Len(loop'[i].channel) = Len(loop[i].channel) + 1
      PROVE  Cardinality(InFlight') = Cardinality(InFlight) + 1
  <2> DEFINE x == <<i, Len(loop[i].channel) + 1>>
  <2>1. x \in Loops \X (1 .. ChannelCapacity) /\ x[1] = i /\ x[2] = Len(loop[i].channel) + 1
    BY <1>1, <1>5
  <2>2. x \notin InFlight
    BY <1>1, <1>2, <2>1
  <2>3. ASSUME NEW e \in Loops \X (1 .. ChannelCapacity)
        PROVE  e \in InFlight' <=> e \in InFlight \cup {x}
    <3>1. CASE e[1] = i
      BY <1>1, <1>2, <1>5, <2>1, <3>1
    <3>2. CASE e[1] # i
      <4>1. e # x
        BY <2>1, <3>2
      <4> QED BY <1>2, <3>2, <4>1
    <3> QED BY <3>1, <3>2
  <2> HIDE DEF x
  <2>4. InFlight' = InFlight \cup {x}
    BY <1>3, <2>1, <2>3
  <2> QED BY <2>2, <2>4, InFlightFinite, FS_AddElement
<1>6. ASSUME Len(loop'[i].channel) = Len(loop[i].channel) - 1
      PROVE  Cardinality(InFlight') = Cardinality(InFlight) - 1
  <2> DEFINE x == <<i, Len(loop[i].channel)>>
  <2>1. x \in Loops \X (1 .. ChannelCapacity) /\ x[1] = i /\ x[2] = Len(loop[i].channel)
    BY <1>1, <1>6
  <2>2. x \in InFlight
    BY <1>1, <1>2, <2>1
  <2>3. ASSUME NEW e \in Loops \X (1 .. ChannelCapacity)
        PROVE  e \in InFlight' <=> e \in InFlight \ {x}
    <3>1. CASE e[1] = i
      BY <1>1, <1>2, <1>6, <2>1, <3>1
    <3>2. CASE e[1] # i
      <4>1. e # x
        BY <2>1, <3>2
      <4> QED BY <1>2, <3>2, <4>1
    <3> QED BY <3>1, <3>2
  <2> HIDE DEF x
  <2>4. InFlight' = InFlight \ {x}
    BY <1>3, <2>1, <2>3
  <2> QED BY <2>2, <2>4, InFlightFinite, FS_RemoveElement
<1> QED BY <1>4, <1>5, <1>6

\* Updating one event loop leaves the others alone.
LEMMA LoopReplaced ==
  ASSUME loop \in [Loops -> LoopStates], NEW i \in Loops, NEW r \in LoopStates,
         loop' = [loop EXCEPT ![i] = r]
  PROVE  /\ loop' \in [Loops -> LoopStates] /\ loop'[i] = r
         /\ \A j \in Loops : j # i => loop'[j] = loop[j]
OBVIOUS

\* The invariant holds when the coordinator is created (with_file_watch).
LEMMA ModeInvInit == ModeInit => ModeInv
<1> SUFFICES ASSUME ModeInit PROVE ModeInv
  OBVIOUS
<1>1. <<>> \in Channels
  <2>1. <<>> \in Seq(Files) /\ Len(<<>>) <= ChannelCapacity
    BY WatchModeAssumption
  <2> QED BY <2>1, ChannelIntro
<1>2. NoLoop \in LoopStates /\ NoLoop.channel = <<>>
  BY <1>1 DEF NoLoop, LoopStates
<1>3. loop \in [Loops -> LoopStates] /\ \A i \in Loops : loop[i].channel = <<>>
  BY <1>2 DEF ModeInit
<1>4. InFlight = {}
  BY <1>3, WatchModeAssumption DEF InFlight
<1>5. Cardinality(InFlight) = 0
  BY <1>4, FS_EmptySet
<1>6. 1 \in Loops /\ MaxChanges \in Nat
  BY WatchModeAssumption DEF Loops
<1>7. stamps = [stale |-> 0, fresh |-> 0] /\ changes = 0
  BY DEF ModeInit, NoStamps
<1>8. ModeTypeOK
  <2>1. stamps \in [stale : 0 .. MaxChanges, fresh : 0 .. MaxChanges]
    BY <1>6, <1>7
  <2>2. Scalars
    BY <1>6 DEF ModeInit, Scalars
  <2> QED BY <1>3, <2>1, <2>2 DEF Scalars, ModeTypeOK, LoopStates, Channels
<1> QED BY <1>5, <1>6, <1>7, <1>8 DEF ModeInit, ModeInv, CountInv, RoomInv, WatcherInv,
           Observed

\* Every step of the watcher, the event loops, the API calls, the background
\* processor, the periodic task and time keeps the invariant.
LEMMA ModeInvStep == ModeInv /\ [ModeNext]_vars => ModeInv'
<1> SUFFICES ASSUME ModeInv, [ModeNext]_vars PROVE ModeInv'
  OBVIOUS
<1> DEFINE Goal == Scalars' /\ Stamps' /\ LoopOK' /\ CountInv' /\ Others'
<1>a. Scalars /\ LoopOK /\ CountInv /\ Others /\ Stamps
  <2>1. Scalars /\ LoopOK
    BY DEF ModeInv, ModeTypeOK, LoopStates, Channels, Scalars, LoopOK
  <2>2. Stamps
    BY WatchModeAssumption DEF ModeInv, ModeTypeOK, Stamps
  <2> QED BY <2>1, <2>2 DEF ModeInv, Others
<1>b. Goal => ModeInv'
  <2> SUFFICES ASSUME Goal PROVE ModeInv'
    OBVIOUS
  <2>1. InFlight' \in SUBSET (Loops \X (1 .. ChannelCapacity))
    BY DEF InFlight
  <2>2. Cardinality(InFlight') \in Nat
    <3>1. IsFiniteSet(Loops) /\ IsFiniteSet(1 .. ChannelCapacity)
      BY FS_Interval, WatchModeAssumption DEF Loops
    <3>2. IsFiniteSet(Loops \X (1 .. ChannelCapacity))
      BY <3>1, FS_Product
    <3> QED BY <2>1, <3>2, FS_Subset, FS_CardinalityType
  <2>3. stamps' \in [stale : 0 .. MaxChanges, fresh : 0 .. MaxChanges]
    <3>1. stamps'.stale \in Nat /\ stamps'.fresh \in Nat /\ changes' \in 0 .. MaxChanges
          /\ MaxChanges \in Nat
      BY WatchModeAssumption DEF CountInv, Stamps
    <3>2. stamps'.stale \in 0 .. MaxChanges /\ stamps'.fresh \in 0 .. MaxChanges
      BY <2>2, <3>1 DEF CountInv
    <3> QED BY <3>2 DEF Stamps
  <2>4. ModeTypeOK'
    BY <2>3 DEF ModeTypeOK, LoopStates, Channels, Scalars, LoopOK
  <2> QED BY <2>4 DEF ModeInv, Others
<1>c. /\ MaxChanges \in Nat /\ MaxLoops \in Nat /\ ChannelCapacity \in Nat
      /\ Cardinality(InFlight) \in Nat /\ changes \in Nat
      /\ stamps.stale \in Nat /\ stamps.fresh \in Nat
      /\ \A i \in Loops : loop[i] \in LoopStates
  BY <1>a, WatchModeAssumption, InFlightFinite DEF CountInv, Stamps, LoopOK
<1>d. UNCHANGED loop => LoopOK' /\ InFlight' = InFlight
  BY <1>a DEF InFlight, LoopOK
<1>e. UNCHANGED stamps => Stamps' /\ stamps'.stale + stamps'.fresh <= stamps.stale + stamps.fresh
  BY <1>a, <1>c DEF Stamps
<1>f. ASSUME UNCHANGED loop, UNCHANGED changes, Stamps',
             stamps'.stale + stamps'.fresh <= stamps.stale + stamps.fresh
      PROVE  LoopOK' /\ CountInv'
  <2>1. LoopOK' /\ Cardinality(InFlight') = Cardinality(InFlight)
    BY <1>d, <1>f
  <2>2. stamps'.stale \in Nat /\ stamps'.fresh \in Nat
    BY <1>f DEF Stamps
  <2>3. CountInv'
    BY <1>a, <1>c, <1>f, <2>1, <2>2 DEF CountInv
  <2> QED BY <2>1, <2>3
<1>g. ASSUME NEW i \in Loops, NEW r \in LoopStates, loop' = [loop EXCEPT ![i] = r],
             r.channel = loop[i].channel, UNCHANGED <<stamps, changes>>
      PROVE  LoopOK' /\ CountInv' /\ Stamps'
  <2>1. LoopOK' /\ loop'[i] = r /\ \A j \in Loops : j # i => loop'[j] = loop[j]
    BY <1>a, <1>g, LoopReplaced DEF LoopOK
  <2>2. Cardinality(InFlight') = Cardinality(InFlight)
    BY <1>a, <1>g, <2>1, InFlightSteps DEF LoopStates, LoopOK
  <2> QED BY <1>a, <1>g, <2>1, <2>2 DEF CountInv, Stamps
<1>h. Slide => Stamps' /\ stamps'.stale + stamps'.fresh = stamps.stale + stamps.fresh
  BY <1>c DEF Slide, Rate, Stamps
<1>k. NoStamps \in [stale : Nat, fresh : Nat] /\ NoStamps.stale = 0 /\ NoStamps.fresh = 0
  BY DEF NoStamps
<1>m. SUFFICES Goal
  BY <1>b
<1> HIDE DEF Goal
<1>1. CASE WatchStop
  <2>1. Scalars'
    BY <1>1, <1>a DEF Scalars, WatchStop, watchVars, machine, debounce, queueVars, bounds,
       vars, Command
  <2>2. Others'
    BY <1>1, <1>a DEF Scalars, Others, WatchStop, watchVars, machine, debounce, queueVars,
       bounds, vars, RoomInv, WatcherInv, Observed, Command
  <2>3. UNCHANGED <<loop, stamps, changes>>
    BY <1>1 DEF WatchStop, watchVars, machine, debounce, queueVars, bounds, vars
  <2> QED BY <1>c, <1>e, <1>f, <2>1, <2>2, <2>3 DEF Goal
<1>2. CASE KeepMode
  <2>1. Scalars'
    BY <1>2, <1>a DEF Scalars, KeepMode, watchVars, machine, debounce, queueVars, bounds,
       vars, Command
  <2>2. Others'
    BY <1>2, <1>a DEF Scalars, Others, KeepMode, watchVars, machine, debounce, queueVars,
       bounds, vars, RoomInv, WatcherInv, Observed, Command
  <2>3. UNCHANGED <<loop, stamps, changes>>
    BY <1>2 DEF KeepMode, watchVars, machine, debounce, queueVars, bounds, vars
  <2> QED BY <1>c, <1>e, <1>f, <2>1, <2>2, <2>3 DEF Goal
<1>3. CASE RunOperation
  <2>1. Scalars'
    BY <1>3, <1>a DEF Scalars, RunOperation, watchVars, machine, debounce, queueVars,
       bounds, vars, Command
  <2>2. Others'
    BY <1>3, <1>a DEF Scalars, Others, RunOperation, watchVars, machine, debounce,
       queueVars, bounds, vars, RoomInv, WatcherInv, Observed, Command
  <2>3. UNCHANGED <<loop, stamps, changes>>
    BY <1>3 DEF RunOperation, watchVars, machine, debounce, queueVars, bounds, vars
  <2> QED BY <1>c, <1>e, <1>f, <2>1, <2>2, <2>3 DEF Goal
<1>4. CASE DecidesToRun
  <2>1. Scalars'
    BY <1>4, <1>a DEF Scalars, DecidesToRun, watchVars, machine, debounce, queueVars,
       bounds, vars, Reset, MarkChanges
  <2>2. Others'
    BY <1>4, <1>a DEF Scalars, Others, DecidesToRun, watchVars, machine, debounce,
       queueVars, bounds, vars, RoomInv, WatcherInv, Observed, Reset, MarkChanges
  <2>3. UNCHANGED <<loop, stamps, changes>>
    BY <1>4 DEF DecidesToRun, watchVars, machine, debounce, queueVars, bounds, vars
  <2> QED BY <1>c, <1>e, <1>f, <2>1, <2>2, <2>3 DEF Goal
<1>5. CASE DecidesToWait
  <2>1. Scalars'
    BY <1>5, <1>a DEF Scalars, DecidesToWait, watchVars, machine, debounce, queueVars,
       bounds, vars, Reset, MarkChanges
  <2>2. Others'
    BY <1>5, <1>a DEF Scalars, Others, DecidesToWait, watchVars, machine, debounce,
       queueVars, bounds, vars, RoomInv, WatcherInv, Observed, Reset, MarkChanges
  <2>3. UNCHANGED <<loop, stamps, changes>>
    BY <1>5 DEF DecidesToWait, watchVars, machine, debounce, queueVars, bounds, vars
  <2> QED BY <1>c, <1>e, <1>f, <2>1, <2>2, <2>3 DEF Goal
<1>6. CASE PeriodicTick
  <2>1. Scalars'
    BY <1>6, <1>a DEF Scalars, PeriodicTick, watchVars, machine, debounce, queueVars,
       bounds, vars, Reset, MarkChanges
  <2>2. Others'
    BY <1>6, <1>a DEF Scalars, Others, PeriodicTick, watchVars, machine, debounce,
       queueVars, bounds, vars, RoomInv, WatcherInv, Observed, Reset, MarkChanges
  <2>3. UNCHANGED <<loop, stamps, changes>>
    BY <1>6 DEF PeriodicTick, watchVars, machine, debounce, queueVars, bounds, vars
  <2> QED BY <1>c, <1>e, <1>f, <2>1, <2>2, <2>3 DEF Goal
<1>7. CASE SecondPasses
  <2>1. Scalars'
    BY <1>7, <1>a DEF Scalars, SecondPasses, watchVars, machine, debounce, queueVars,
       bounds, vars
  <2>2. Others'
    BY <1>7, <1>a DEF Scalars, Others, SecondPasses, watchVars, machine, debounce,
       queueVars, bounds, vars, RoomInv, WatcherInv, Observed
  <2>3. UNCHANGED <<loop, changes>> /\ Slide
    BY <1>7 DEF SecondPasses, watchVars, machine, debounce, queueVars, bounds, vars
  <2>4. Stamps' /\ stamps'.stale + stamps'.fresh <= stamps.stale + stamps.fresh
    BY <1>c, <1>h, <2>3
  <2> QED BY <1>f, <2>1, <2>2, <2>3, <2>4 DEF Goal
<1>8. CASE IntervalPasses
  <2>1. Scalars'
    BY <1>8, <1>a DEF Scalars, IntervalPasses, watchVars, machine, debounce, queueVars,
       bounds, vars
  <2>2. Others'
    BY <1>8, <1>a DEF Scalars, Others, IntervalPasses, watchVars, machine, debounce,
       queueVars, bounds, vars, RoomInv, WatcherInv, Observed
  <2>3. UNCHANGED <<loop, changes>> /\ Slide
    BY <1>8 DEF IntervalPasses, watchVars, machine, debounce, queueVars, bounds, vars
  <2>4. Stamps' /\ stamps'.stale + stamps'.fresh <= stamps.stale + stamps.fresh
    BY <1>c, <1>h, <2>3
  <2> QED BY <1>f, <2>1, <2>2, <2>3, <2>4 DEF Goal
<1>9. CASE DurationPasses
  <2>1. Scalars'
    BY <1>9, <1>a DEF Scalars, DurationPasses, watchVars, machine, debounce, queueVars,
       bounds, vars, Loops
  <2>2. Others'
    BY <1>9, <1>a DEF Scalars, Others, DurationPasses, watchVars, machine, debounce,
       queueVars, bounds, vars, RoomInv, WatcherInv, Observed, Loops
  <2>3. UNCHANGED <<loop, changes>> /\ Slide
    BY <1>9 DEF DurationPasses, watchVars, machine, debounce, queueVars, bounds, vars
  <2>4. Stamps' /\ stamps'.stale + stamps'.fresh <= stamps.stale + stamps.fresh
    BY <1>c, <1>h, <2>3
  <2> QED BY <1>f, <2>1, <2>2, <2>3, <2>4 DEF Goal
<1>10. CASE SwitchToPeriodicScan
  <2>1. Scalars'
    BY <1>10, <1>a DEF Scalars, SwitchToPeriodicScan, watchVars, machine, debounce,
       queueVars, bounds, vars, Switch
  <2>2. Others'
    BY <1>10, <1>a DEF Scalars, Others, SwitchToPeriodicScan, watchVars, machine, debounce,
       queueVars, bounds, vars, RoomInv, WatcherInv, Observed, Switch
  <2>3. UNCHANGED <<loop, changes>> /\ stamps' = NoStamps
    BY <1>10 DEF SwitchToPeriodicScan, watchVars, machine, debounce, queueVars, bounds,
       vars, Switch
  <2>4. Stamps' /\ stamps'.stale + stamps'.fresh <= stamps.stale + stamps.fresh
    BY <1>c, <1>k, <2>3 DEF Stamps
  <2> QED BY <1>f, <2>1, <2>2, <2>3, <2>4 DEF Goal
<1>11. CASE SwitchFails
  <2>0. current' \in Loops
    BY <1>11, <1>a, <1>c DEF SwitchFails, Scalars, Others, RoomInv, Loops
  <2>1. Scalars'
    BY <1>11, <1>a, <2>0 DEF SwitchFails, watchVars, machine, debounce, queueVars, bounds,
       vars, Scalars, Switch
  <2>2. Others'
    BY <1>11, <1>a DEF SwitchFails, watchVars, machine, debounce, queueVars, bounds, vars,
       Switch, Scalars, Others, RoomInv, WatcherInv, Observed
  <2>3. UNCHANGED <<loop, changes>> /\ stamps' = NoStamps
    BY <1>11 DEF SwitchFails, watchVars, machine, debounce, queueVars, bounds, vars, Switch
  <2>4. Stamps' /\ stamps'.stale + stamps'.fresh <= stamps.stale + stamps.fresh
    BY <1>c, <1>k, <2>3 DEF Stamps
  <2> QED BY <1>f, <2>1, <2>2, <2>3, <2>4 DEF Goal
<1>12. CASE SwitchToFileWatch
  <2>0. current' \in Loops
    BY <1>12, <1>a, <1>c DEF SwitchToFileWatch, Scalars, Others, RoomInv, Loops
  <2> DEFINE r == [loop[current'] EXCEPT !.alive = TRUE]
  <2>1. loop[current'] \in LoopStates
    BY <1>c, <2>0
  <2>2. r \in LoopStates /\ r.channel = loop[current'].channel /\ r.alive = TRUE
    BY <2>1 DEF LoopStates
  <2>3. loop' = [loop EXCEPT ![current'] = r]
    BY <1>12 DEF SwitchToFileWatch
  <2> HIDE DEF r
  <2>4. LoopOK' /\ loop'[current'] = r /\ \A j \in Loops : j # current' => loop'[j] = loop[j]
    BY <1>a, <2>0, <2>2, <2>3, LoopReplaced DEF LoopOK
  <2>5. Scalars'
    BY <1>12, <1>a, <2>0 DEF SwitchToFileWatch, watchVars, machine, debounce, queueVars,
       bounds, vars, Scalars, Switch
  <2>6. Others'
    BY <1>12, <1>a, <2>2, <2>4 DEF SwitchToFileWatch, watchVars, machine, debounce,
       queueVars, bounds, vars, Switch, Scalars, Others, RoomInv, WatcherInv, Observed
  <2>7. Cardinality(InFlight') = Cardinality(InFlight)
    BY <1>a, <2>0, <2>2, <2>4, InFlightSteps DEF LoopStates, LoopOK
  <2>8. changes' = changes /\ stamps' = NoStamps
    BY <1>12 DEF SwitchToFileWatch, Switch, watchVars, machine, debounce, queueVars, bounds,
       vars
  <2>9. CountInv'
    BY <1>a, <1>c, <1>k, <2>7, <2>8 DEF CountInv
  <2> QED BY <1>k, <2>4, <2>5, <2>6, <2>8, <2>9 DEF Stamps, Goal
<1>13. CASE WatchStart
  <2>1. CASE ~ receiver
    <3>1. Scalars'
      BY <1>13, <1>a, <2>1 DEF WatchStart, watchVars, machine, debounce, queueVars, bounds,
         vars, Scalars, Command
    <3>2. Others'
      BY <1>13, <1>a, <2>1 DEF WatchStart, watchVars, machine, debounce, queueVars, bounds,
         vars, Scalars, Others, RoomInv, WatcherInv, Observed, Command
    <3>3. UNCHANGED <<loop, stamps, changes>>
      BY <1>13, <2>1 DEF WatchStart, watchVars, machine, debounce, queueVars, bounds, vars
    <3> QED BY <1>e, <1>f, <3>1, <3>2, <3>3 DEF Goal
  <2>2. CASE receiver
    <3> DEFINE r == [loop[current] EXCEPT !.alive = TRUE]
    <3>1. loop[current] \in LoopStates /\ current \in Loops
      BY <1>a, <1>c DEF Scalars
    <3>2. r \in LoopStates /\ r.channel = loop[current].channel /\ r.alive = TRUE
      BY <3>1 DEF LoopStates
    <3>3. loop' = [loop EXCEPT ![current] = r] /\ current' = current
      BY <1>13, <2>2 DEF WatchStart
    <3> HIDE DEF r
    <3>4. loop'[current] = r
      BY <1>a, <3>1, <3>2, <3>3, LoopReplaced DEF LoopOK
    <3>5. Scalars'
      BY <1>13, <1>a, <2>2 DEF WatchStart, watchVars, machine, debounce, queueVars, bounds,
         vars, Scalars, Command
    <3>6. Others'
      BY <1>13, <1>a, <2>2, <3>2, <3>3, <3>4 DEF WatchStart, watchVars, machine, debounce,
         queueVars, bounds, vars, Scalars, Others, RoomInv, WatcherInv, Observed
    <3>7. UNCHANGED <<stamps, changes>>
      BY <1>13 DEF WatchStart, watchVars, machine, debounce, queueVars, bounds, vars
    <3> QED BY <1>g, <3>1, <3>2, <3>3, <3>5, <3>6, <3>7 DEF Goal
  <2> QED BY <1>a, <2>1, <2>2 DEF Scalars
<1>14. ASSUME NEW i \in Loops, DebounceTick(i) PROVE Goal
  <2> DEFINE r == [loop[i] EXCEPT !.accumulated = {}]
  <2>1. loop[i] \in LoopStates
    BY <1>c
  <2>2. r \in LoopStates /\ r.channel = loop[i].channel /\ r.alive = loop[i].alive
    BY <1>14, <1>c, <2>1, ChannelType, WatchModeAssumption DEF LoopStates, NoLoop,
       DebounceTick
  <2>3. loop' = [loop EXCEPT ![i] = r] /\ current' = current /\ UNCHANGED <<stamps, changes>>
    BY <1>14 DEF DebounceTick, watchVars, machine, debounce, queueVars, bounds, vars
  <2>4. loop[i].accumulated \subseteq Files
    BY <2>1 DEF LoopStates
  <2> HIDE DEF r
  <2>5. loop'[i] = r /\ \A j \in Loops : j # i => loop'[j] = loop[j]
    BY <1>a, <2>2, <2>3, LoopReplaced DEF LoopOK
  <2>6. Scalars'
    BY <1>14, <1>a, <2>4 DEF DebounceTick, watchVars, machine, debounce, queueVars, bounds,
       vars, Scalars, Reset, Extend
  <2>7. Others'
    BY <1>14, <1>a, <1>c, <2>2, <2>3, <2>5 DEF DebounceTick, watchVars, machine, debounce,
       queueVars, bounds, vars, Scalars, Others, RoomInv, WatcherInv, Observed, Loops
  <2> QED BY <1>g, <2>2, <2>3, <2>6, <2>7 DEF Goal
<1>15. ASSUME NEW i \in Loops, PropagateOverflow(i) PROVE Goal
  <2> DEFINE r == [loop[i] EXCEPT !.overflow = FALSE]
  <2>1. loop[i] \in LoopStates
    BY <1>c
  <2>2. r \in LoopStates /\ r.channel = loop[i].channel /\ r.alive = loop[i].alive
    BY <1>15, <1>c, <2>1, ChannelType, WatchModeAssumption DEF LoopStates, NoLoop,
       PropagateOverflow
  <2>3. loop' = [loop EXCEPT ![i] = r] /\ current' = current /\ UNCHANGED <<stamps, changes>>
    BY <1>15 DEF PropagateOverflow, watchVars, machine, debounce, queueVars, bounds, vars
  <2>4. loop[i].accumulated \subseteq Files
    BY <2>1 DEF LoopStates
  <2> HIDE DEF r
  <2>5. loop'[i] = r /\ \A j \in Loops : j # i => loop'[j] = loop[j]
    BY <1>a, <2>2, <2>3, LoopReplaced DEF LoopOK
  <2>6. Scalars'
    BY <1>15, <1>a, <2>4 DEF PropagateOverflow, watchVars, machine, debounce, queueVars,
       bounds, vars, Scalars, Reset, Extend
  <2>7. Others'
    BY <1>15, <1>a, <1>c, <2>2, <2>3, <2>5 DEF PropagateOverflow, watchVars, machine,
       debounce, queueVars, bounds, vars, Scalars, Others, RoomInv, WatcherInv, Observed,
       Loops
  <2> QED BY <1>g, <2>2, <2>3, <2>6, <2>7 DEF Goal
<1>16. ASSUME NEW i \in Loops, ChannelClosed(i) PROVE Goal
  <2> DEFINE r == NoLoop
  <2>1. loop[i] \in LoopStates
    BY <1>c
  <2>2. r \in LoopStates /\ r.channel = loop[i].channel 
    BY <1>16, <1>c, <2>1, ChannelType, WatchModeAssumption DEF LoopStates, NoLoop,
       ChannelClosed
  <2>3. loop' = [loop EXCEPT ![i] = r] /\ current' = current /\ UNCHANGED <<stamps, changes>>
    BY <1>16 DEF ChannelClosed, watchVars, machine, debounce, queueVars, bounds, vars
  <2>4. loop[i].accumulated \subseteq Files
    BY <2>1 DEF LoopStates
  <2> HIDE DEF r
  <2>5. loop'[i] = r /\ \A j \in Loops : j # i => loop'[j] = loop[j]
    BY <1>a, <2>2, <2>3, LoopReplaced DEF LoopOK
  <2>6. Scalars'
    BY <1>16, <1>a, <2>4 DEF ChannelClosed, watchVars, machine, debounce, queueVars, bounds,
       vars, Scalars, Reset, Extend
  <2>7. Others'
    BY <1>16, <1>a, <1>c, <2>2, <2>3, <2>5 DEF ChannelClosed, watchVars, machine, debounce,
       queueVars, bounds, vars, Scalars, Others, RoomInv, WatcherInv, Observed, Loops
  <2> QED BY <1>g, <2>2, <2>3, <2>6, <2>7 DEF Goal
<1>17. ASSUME NEW i \in Loops, Receive(i) PROVE Goal
  <2> DEFINE c == loop[i].channel
             paths == loop[i].accumulated \cup {Head(c)}
  <2>1. loop[i] \in LoopStates /\ c # <<>>
    BY <1>17, <1>c DEF Receive
  <2>2. c \in Seq(Files) /\ Len(c) \in 1 .. ChannelCapacity
    BY <1>c, <2>1, ChannelType DEF LoopStates
  <2>3. Tail(c) \in Seq(Files) /\ Len(Tail(c)) = Len(c) - 1 /\ Head(c) \in Files
    BY <2>2
  <2>4. Tail(c) \in Channels /\ paths \subseteq Files
    <3>1. Tail(c) \in Channels
      <4>1. Len(Tail(c)) <= ChannelCapacity
        BY <1>c, <2>2, <2>3
      <4> HIDE DEF c
      <4> QED BY <2>3, <4>1, ChannelIntro
    <3>2. loop[i].accumulated \subseteq Files
      BY <2>1 DEF LoopStates
    <3> QED BY <2>3, <3>1, <3>2
  <2> HIDE DEF paths
  <2>5. PICK A \in {{}, paths} :
          loop' = [loop EXCEPT ![i] = [[loop[i] EXCEPT !.channel = Tail(c)] EXCEPT !.accumulated = A]]
    BY <1>17 DEF Receive, paths
  <2> DEFINE r == [[loop[i] EXCEPT !.channel = Tail(c)] EXCEPT !.accumulated = A]
  <2>6. r \in LoopStates /\ r.channel = Tail(c) /\ r.alive = loop[i].alive
    BY <2>1, <2>4 DEF LoopStates
  <2>7. loop' = [loop EXCEPT ![i] = r]
    BY <2>5
  <2> HIDE DEF r, c
  <2>8. LoopOK' /\ loop'[i] = r /\ \A j \in Loops : j # i => loop'[j] = loop[j]
    BY <1>a, <2>6, <2>7, LoopReplaced DEF LoopOK
  <2>9. Cardinality(InFlight') = Cardinality(InFlight) - 1
    BY <1>a, <2>3, <2>4, <2>6, <2>8, InFlightSteps DEF LoopOK, c
  <2>10. stamps' = [stale |-> 0, fresh |-> stamps.fresh + 1] /\ UNCHANGED <<changes, current>>
    BY <1>17 DEF Receive
  <2>11. Stamps' /\ stamps'.stale = 0 /\ stamps'.fresh = stamps.fresh + 1
    BY <1>c, <2>10 DEF Stamps
  <2>12. CountInv'
    BY <1>a, <1>c, <2>9, <2>10, <2>11 DEF CountInv
  <2>13. Scalars'
    <3>1. CASE pending = "due"
      <4>1. Extend(paths) /\ Reset
        BY <1>17, <3>1 DEF Receive, paths, c
      <4> QED BY <1>17, <1>a, <2>4, <4>1 DEF Receive, watchVars, machine, debounce,
                 queueVars, bounds, vars, Scalars, Reset, Extend
    <3>2. CASE pending # "due"
      BY <1>17, <1>a, <3>2 DEF Receive, watchVars, machine, debounce, queueVars, bounds,
         vars, Scalars, MarkChanges
    <3> QED BY <3>1, <3>2
  <2>14. UNCHANGED <<mode, since, watching, active, receiver>>
    BY <1>17 DEF Receive
  <2>15. Others'
    BY <1>a, <2>6, <2>8, <2>10, <2>14 DEF Scalars, Others, RoomInv, WatcherInv, Observed
  <2> QED BY <2>8, <2>11, <2>12, <2>13, <2>15 DEF Goal
<1>18. ASSUME NEW f \in Files, Change(f) PROVE Goal
  <2>1. Scalars' /\ changes' = changes + 1 /\ changes' \in 0 .. MaxChanges
    BY <1>18, <1>a, <1>c DEF Change, watchVars, machine, debounce, queueVars, bounds, vars,
       Scalars
  <2>2. UNCHANGED <<stamps, current, mode, since, watching, active, receiver>>
    BY <1>18 DEF Change, watchVars, machine, debounce, queueVars, bounds, vars
  <2>3. CASE ~ watching
    <3>1. UNCHANGED loop
      BY <1>18, <2>3 DEF Change
    <3>2. LoopOK' /\ Cardinality(InFlight') = Cardinality(InFlight)
      BY <1>d, <3>1
    <3>3. CountInv' /\ Stamps'
      BY <1>a, <1>c, <1>e, <2>1, <2>2, <3>2 DEF CountInv
    <3>4. Others'
      BY <1>a, <2>2, <3>1 DEF Scalars, Others, RoomInv, WatcherInv, Observed
    <3> QED BY <2>1, <3>2, <3>3, <3>4 DEF Goal
  <2>4. CASE watching
    <3> DEFINE c == loop[current].channel
               r == IF Len(c) < ChannelCapacity
                    THEN [loop[current] EXCEPT !.channel = Append(c, f)]
                    ELSE [loop[current] EXCEPT !.overflow = TRUE]
    <3>1. loop[current] \in LoopStates /\ current \in Loops
      BY <1>a, <1>c DEF Scalars
    <3>2. c \in Seq(Files) /\ Len(c) \in 0 .. ChannelCapacity
      BY <3>1, ChannelType DEF LoopStates
    <3>3. loop' = [loop EXCEPT ![current] = r]
      <4>1. loop' = IF Len(c) < ChannelCapacity
                    THEN [loop EXCEPT ![current] = [loop[current] EXCEPT !.channel = Append(c, f)]]
                    ELSE [loop EXCEPT ![current] = [loop[current] EXCEPT !.overflow = TRUE]]
        BY <1>18, <2>4 DEF Change
      <4> QED BY <4>1
    <3>4. /\ r \in LoopStates /\ r.alive = loop[current].alive
          /\ r.channel = c \/ Len(r.channel) = Len(c) + 1
      <4>1. CASE Len(c) < ChannelCapacity
        <5>1. Append(c, f) \in Channels /\ Len(Append(c, f)) = Len(c) + 1
          <6>1. Append(c, f) \in Seq(Files) /\ Len(Append(c, f)) = Len(c) + 1
            BY <3>2
          <6>2. Len(Append(c, f)) <= ChannelCapacity
            BY <1>c, <3>2, <4>1, <6>1
          <6> HIDE DEF c
          <6> QED BY <6>1, <6>2, ChannelIntro
        <5> QED BY <3>1, <4>1, <5>1 DEF LoopStates
      <4>2. CASE ~ (Len(c) < ChannelCapacity)
        BY <3>1, <4>2 DEF LoopStates
      <4> QED BY <4>1, <4>2
    <3> HIDE DEF r
    <3>5. LoopOK' /\ loop'[current] = r /\ \A j \in Loops : j # current => loop'[j] = loop[j]
      BY <1>a, <3>1, <3>3, <3>4, LoopReplaced DEF LoopOK
    <3>6. \/ Cardinality(InFlight') = Cardinality(InFlight)
          \/ Cardinality(InFlight') = Cardinality(InFlight) + 1
      BY <1>a, <3>1, <3>4, <3>5, InFlightSteps DEF LoopOK, LoopStates
    <3>7. CountInv' /\ Stamps'
      BY <1>a, <1>c, <1>e, <2>1, <2>2, <3>6 DEF CountInv
    <3>8. Others'
      BY <1>a, <2>2, <3>4, <3>5 DEF Scalars, Others, RoomInv, WatcherInv, Observed
    <3> QED BY <2>1, <3>5, <3>7, <3>8 DEF Goal
  <2> QED BY <2>3, <2>4
<1>19. CASE UNCHANGED vars
  <2>1. Scalars'
    BY <1>19, <1>a DEF Scalars, vars, watchVars, machine, debounce, queueVars, bounds, vars
  <2>2. Others'
    BY <1>19, <1>a DEF Scalars, Others, vars, watchVars, machine, debounce, queueVars,
       bounds, vars, RoomInv, WatcherInv, Observed
  <2>3. UNCHANGED <<loop, stamps, changes>>
    BY <1>19 DEF watchVars, machine, debounce, queueVars, bounds, vars
  <2> QED BY <1>c, <1>e, <1>f, <2>1, <2>2, <2>3 DEF Goal
<1> QED BY <1>1, <1>2, <1>3, <1>4, <1>5, <1>6, <1>7, <1>8, <1>9, <1>10, <1>11, <1>12, <1>13,
           <1>14, <1>15, <1>16, <1>17, <1>18, <1>19 DEF ModeNext

\* The inductive invariant holds throughout a watch session.
THEOREM ModeInvariance == ModeSpec => []ModeInv
<1>1. ModeInv /\ [ModeNext]_vars => ModeInv'
  BY ModeInvStep
<1> QED BY ModeInvInit, <1>1, PTL DEF ModeSpec

\* The watch session keeps its types, no channel outgrows
\* FILE_EVENT_CHANNEL_CAPACITY, and a pending change is due only after the
\* interval since the last trigger, across degradation, recovery and restarts.
THEOREM ModeTyping == ModeSpec => []ModeTypeOK
<1>1. ModeInv => ModeTypeOK
  BY DEF ModeInv
<1> QED BY ModeInvariance, <1>1, PTL

\* A running watcher always has the event loop of its channel, and a watch the API
\* reports as active runs or is replaced by the periodic scan, unless the restart
\* after a storm failed (switch_to_file_watch, change_merger.rs:566).
THEOREM AlwaysObserved == ModeSpec => []Observed
<1>1. ModeInv => Observed
  BY DEF ModeInv
<1> QED BY ModeInvariance, <1>1, PTL
============================================================================
