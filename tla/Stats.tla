-------------------------------- MODULE Stats --------------------------------
(***************************************************************************)
(* The resource graphs of one server: the engine's sampler                 *)
(* (modules/runtime/engine.ts), which awaits the readers of stats.ts, the  *)
(* stats frames of http/console-gateway.ts and the graphs of public/app.js. *)
(*                                                                         *)
(* One server, so a tick of the sampler and its turn in the pass are one   *)
(* step.  One page; whoever else listens, other pages or a socket of this  *)
(* one whose loss the panel has not noticed yet, is the Boolean others.    *)
(* The network's mark is set and cleared with the CPU's; what a sample     *)
(* measures is left out, of which process it is is kept.  A panel that     *)
(* ends counts its runs from zero again: for that, see Console.            *)
(***************************************************************************)
EXTENDS Naturals, Sequences

CONSTANT StatRuns   \* bound on the processes ever started

ASSUME StatsAssumption == StatRuns \in Nat

VARIABLES
  proc, halting,    \* the slot: the tracked process (0 for none), stopping
  lastRun,          \* its run
  cpuMark,          \* the process the previous reading was of, 0 for null
  lastStatsState,
  pass,             \* the process whose readers the pass awaits, 0 for none
  others,           \* somebody else listens
  joined,           \* the page's socket is in the room
  frames,           \* on its way to the page, reliably and in order
  seenRun,          \* consoleRun
  label,            \* the process the graphs claim to be running, 0 for none
  missed            \* history: joined again after the others had been told

slotStats == <<proc, halting, lastRun, cpuMark, lastStatsState>>
pageStats == <<seenRun, label, missed>>
statsVars == <<slotStats, pass, others, joined, frames, pageStats>>

NoSight == StatRuns + 1
State == IF proc = 0 THEN "offline" ELSE IF halting THEN "stopping" ELSE "running"
Push(frame) == frames' = IF joined THEN Append(frames, frame) ELSE frames

----------------------------------------------------------------------------
(* The engine *)

\* start() forgets the marks of the last process and tells the viewers.
LaunchRun ==
  /\ proc = 0 /\ lastRun < StatRuns
  /\ proc' = lastRun + 1 /\ lastRun' = lastRun + 1
  /\ cpuMark' = 0
  /\ Push([is |-> "reset", run |-> lastRun + 1])
  /\ UNCHANGED <<halting, lastStatsState, pass, others, joined, pageStats>>
Halt ==
  /\ State = "running"
  /\ halting' = TRUE
  /\ UNCHANGED <<proc, lastRun, cpuMark, lastStatsState, pass, others, joined, frames, pageStats>>
Exit ==
  /\ proc # 0
  /\ proc' = 0 /\ halting' = FALSE
  /\ UNCHANGED <<lastRun, cpuMark, lastStatsState, pass, others, joined, frames, pageStats>>

publish(sample) ==
  /\ lastStatsState' = sample.state
  /\ Push([is |-> "stats", sample |-> sample])

\* sampleAll() and samplePass() up to the readers; a state is told once.
SampleState ==
  /\ pass = 0 /\ (joined \/ others)
  /\ State # "running" /\ lastStatsState # State
  /\ cpuMark' = 0
  /\ publish([state |-> State, of |-> 0, since |-> 0])
  /\ UNCHANGED <<proc, halting, lastRun, pass, others, joined, pageStats>>
SampleBegins ==
  /\ pass = 0 /\ (joined \/ others)
  /\ State = "running"
  /\ pass' = proc
  /\ UNCHANGED <<slotStats, others, joined, frames, pageStats>>

\* The readers are done.  `got` is whether they could read the process.
Sampled(got) ==
  /\ cpuMark' = IF got THEN pass ELSE 0
  /\ publish([state |-> "running", of |-> pass, since |-> IF got THEN cpuMark ELSE 0])
SampleEndsUnchecked(got) ==
  /\ pass # 0
  /\ pass' = 0
  /\ Sampled(got)
  /\ UNCHANGED <<proc, halting, lastRun, others, joined, pageStats>>
SampleEnds(got) ==
  /\ pass # 0
  /\ pass' = 0
  /\ \/ /\ pass = proc /\ State = "running"
        /\ Sampled(got)
     \/ /\ pass # proc \/ State # "running"
        /\ cpuMark' = 0
        /\ UNCHANGED <<lastStatsState, frames>>
  /\ UNCHANGED <<proc, halting, lastRun, others, joined, pageStats>>

----------------------------------------------------------------------------
(* The page *)

\* openServer() empties the graphs and reads the history, which names the run unless
\* it is refused; leaveServer() forgets which run was seen.
OpenGraphs ==
  /\ joined' = FALSE /\ frames' = <<>>
  /\ seenRun' \in {lastRun, seenRun, NoSight}
  /\ label' = 0 /\ missed' = FALSE
  /\ UNCHANGED <<slotStats, pass, others>>
\* console:join, on every connect.
JoinGraphs ==
  /\ ~joined
  /\ joined' = TRUE
  /\ frames' = <<[is |-> "history", run |-> lastRun]>>
  /\ missed' = (label # 0 /\ State # "running" /\ lastStatsState = State)
  /\ UNCHANGED <<slotStats, pass, others, seenRun, label>>
\* The connection is lost; the panel may notice later.
LoseGraphs ==
  /\ joined
  /\ joined' = FALSE /\ frames' = <<>>
  /\ others' \in {others, TRUE}
  /\ UNCHANGED <<slotStats, pass, pageStats>>
OthersChange ==
  /\ others' = ~others
  /\ UNCHANGED <<slotStats, pass, joined, frames, pageStats>>

\* adoptRun(), with resetStatSeries() for another run, and pushStatSample().
AdoptForGraphs(r) ==
  /\ seenRun' = r
  /\ IF seenRun \in {NoSight, r} THEN UNCHANGED <<label, missed>>
     ELSE label' = 0 /\ missed' = FALSE
pushStatSample(sample) ==
  /\ label' = sample.of
  /\ missed' = FALSE
  /\ UNCHANGED seenRun
ReceiveFrame ==
  /\ frames # <<>>
  /\ frames' = Tail(frames)
  /\ IF Head(frames).is = "stats" THEN pushStatSample(Head(frames).sample)
     ELSE AdoptForGraphs(Head(frames).run)
  /\ UNCHANGED <<slotStats, pass, others, joined>>

StatsInit ==
  /\ proc = 0 /\ halting = FALSE /\ lastRun = 0
  /\ cpuMark = 0 /\ lastStatsState = "none"
  /\ pass = 0 /\ others = FALSE
  /\ joined = FALSE /\ frames = <<>>
  /\ seenRun = NoSight /\ label = 0 /\ missed = FALSE

StatsNext ==
  \/ LaunchRun \/ Halt \/ Exit
  \/ SampleState \/ SampleBegins \/ \E got \in BOOLEAN : SampleEnds(got)
  \/ OpenGraphs \/ JoinGraphs \/ LoseGraphs \/ OthersChange \/ ReceiveFrame

StatsSpec == StatsInit /\ [][StatsNext]_statsVars

----------------------------------------------------------------------------
(* Properties *)

Told == {"offline", "stopping", "running"}
Sample == [state : Told, of : 0..StatRuns, since : 0..StatRuns]

StatsTypeOK ==
  /\ proc \in 0..lastRun /\ lastRun \in 0..StatRuns /\ halting \in BOOLEAN
  /\ halting => proc # 0
  /\ cpuMark \in 0..lastRun /\ lastStatsState \in Told \cup {"none"}
  /\ pass \in 0..lastRun /\ others \in BOOLEAN /\ joined \in BOOLEAN
  /\ \A i \in DOMAIN frames :
       \/ frames[i].is = "stats" /\ frames[i].sample \in Sample
       \/ frames[i].is \in {"history", "reset"} /\ frames[i].run \in 0..StatRuns
  /\ frames # <<>> => joined
  /\ seenRun \in 0..NoSight /\ label \in 0..StatRuns /\ missed \in BOOLEAN

\* A page that has received everything never shows a dead or replaced process as
\* running, except until the sampler's next tick, which will tell it.  A page that
\* joins again after its other listeners were told of the end is not told
\* (engine.ts:645, lastStatsState is one for all): excepted.
NoFrozenGraph ==
  joined /\ frames = <<>> /\ label # 0 /\ ~missed =>
    (label = proc /\ State = "running") \/ lastStatsState # State
\* A rate is never computed between readings of two processes.
RatesOfOneProcess ==
  \A i \in DOMAIN frames :
    frames[i].is = "stats" => frames[i].sample.since \in {0, frames[i].sample.of}
\* The graphs follow the server over stops, restarts that fall between two ticks or
\* under a pass that awaits its readers, and lost connections.
GraphsFollow == NoFrozenGraph /\ RatesOfOneProcess
=============================================================================
