----------------------------- MODULE PageProofs -----------------------------
(* Proofs about what a page shows: the graphs (Stats), the console (Console) and
   the panes of the client (Browser), for any servers, runs and lines. *)
EXTENDS Stats, Console, Browser, SequenceTheorems, FiniteSetTheorems, TLAPS

(***************************************************************************)
(* Graphs                                                                  *)
(***************************************************************************)

----------------------------------------------------------------------------
(* The inductive invariant *)

Frame == [is : {"stats"}, sample : Sample] \cup [is : {"history", "reset"}, run : 0..StatRuns]

\* Types, those of the frames apart.
SlotTypes ==
  /\ proc \in 0..lastRun /\ lastRun \in 0..StatRuns /\ halting \in BOOLEAN
  /\ halting => proc # 0
  /\ cpuMark \in 0..lastRun /\ lastStatsState \in Told \cup {"none"}
  /\ pass \in 0..lastRun /\ others \in BOOLEAN /\ joined \in BOOLEAN
  /\ frames # <<>> => joined
  /\ seenRun \in 0..NoSight /\ label \in 0..StatRuns /\ missed \in BOOLEAN

\* The slot has one process at most, the latest; the marks are of it.
MarkInv ==
  /\ SlotTypes /\ frames \in Seq(Frame)
  /\ proc \in {0, lastRun} /\ (proc # 0 => cpuMark \in {0, proc})
  /\ label <= lastRun
  /\ \A i \in 1..Len(frames) : frames[i].is = "stats" =>
       frames[i].sample.of <= lastRun /\ frames[i].sample.since \in {0, frames[i].sample.of}

\* The page shows run x, or (from i = 1 on) the i-th frame will make it.
Claims(i, x) ==
  IF i = 0 THEN label = x ELSE frames[i].is = "stats" /\ frames[i].sample.of = x

\* A frame that, received while run x is shown, makes the page drop it.
Undoes(f, x) == IF f.is = "stats" THEN f.sample.of # x ELSE f.run # x
Cured(i, x) == \E j \in (i + 1)..Len(frames) : Undoes(frames[j], x)

\* When the page has received all before the i-th frame, the run it has seen is x.
Mentions(f, x) == f.is # "stats" /\ f.run = x
Named(i, x) ==
  /\ seenRun = x \/ \E k \in 1..(i - 1) : Mentions(frames[k], x)
  /\ \A k \in 1..(i - 1) : frames[k].is # "stats" /\ frames[k].run # x =>
       \E l \in (k + 1)..(i - 1) : Mentions(frames[l], x)

\* Of the process in the slot, the sampler has told that it runs, or since then that
\* it is stopping.
Announced(x) ==
  x = proc => lastStatsState = "running" \/ (lastStatsState = "stopping" /\ halting)
\* A claim is of the latest run or will be dropped; and if it is false it will be
\* dropped, or the sampler has not told the end yet, or the page had missed it.
Excused(i, x) ==
  /\ x = lastRun \/ Cured(i, x)
  /\ \/ Cured(i, x) \/ (x = proc /\ State = "running") \/ lastStatsState # State
     \/ i = 0 /\ missed

LabelInv ==
  \A i \in 0..Len(frames), x \in 1..StatRuns :
    Claims(i, x) => Announced(x) /\ Named(i, x) /\ (joined => Excused(i, x))
EndInv == joined => Named(Len(frames) + 1, lastRun)

StatsIndInv == MarkInv /\ LabelInv /\ EndInv

LEMMA StatsStart == StatsInit => StatsIndInv
<1> SUFFICES ASSUME StatsInit PROVE StatsIndInv
  OBVIOUS
<1>1. MarkInv
  <2>1. SlotTypes
    <3>1. halting \in BOOLEAN /\ others \in BOOLEAN /\ joined \in BOOLEAN /\ missed \in BOOLEAN
      BY DEF StatsInit
    <3> QED
      BY <3>1, StatsAssumption DEF StatsInit, SlotTypes, NoSight, Told
  <2>2. frames \in Seq(Frame) /\ frames = <<>> /\ Len(frames) = 0
    BY DEF StatsInit
  <2> QED
    BY <2>1, <2>2 DEF StatsInit, MarkInv
<1>2. LabelInv /\ EndInv
  BY DEF StatsInit, LabelInv, EndInv, Claims
<1> QED
  BY <1>1, <1>2 DEF StatsIndInv

LEMMA StatsTyped == MarkInv => StatsTypeOK
<1> SUFFICES ASSUME MarkInv PROVE StatsTypeOK
  OBVIOUS
<1>1. \A i \in DOMAIN frames : frames[i] \in Frame
  BY DEF MarkInv
<1>2. \A f \in Frame : \/ f.is = "stats" /\ f.sample \in Sample
                       \/ f.is \in {"history", "reset"} /\ f.run \in 0..StatRuns
  BY DEF Frame
<1> QED
  BY <1>1, <1>2 DEF MarkInv, SlotTypes, StatsTypeOK

----------------------------------------------------------------------------
(* Frames on their way *)

LEMMA Typed ==
  ASSUME MarkInv
  PROVE  /\ frames \in Seq(Frame) /\ Len(frames) \in Nat
         /\ \A i \in 1..Len(frames) : frames[i] \in Frame
         /\ proc \in Nat /\ lastRun \in Nat /\ pass \in 0..lastRun /\ cpuMark \in Nat
         /\ label \in 0..lastRun /\ lastRun \in 0..StatRuns
         /\ seenRun \in 0..NoSight /\ missed \in BOOLEAN /\ joined \in BOOLEAN
         /\ halting \in BOOLEAN /\ others \in BOOLEAN
         /\ lastStatsState \in Told \cup {"none"}
         /\ ~joined => frames = <<>> /\ Len(frames) = 0
  BY StatsAssumption DEF MarkInv, SlotTypes, NoSight

LEMMA Pushed ==
  ASSUME MarkInv, NEW f \in Frame, frames' = Append(frames, f)
  PROVE  /\ frames' \in Seq(Frame) /\ Len(frames') = Len(frames) + 1
         /\ frames'[Len(frames) + 1] = f
         /\ \A i \in 1..Len(frames) : frames'[i] = frames[i]
  BY Typed, AppendProperties

LEMMA FrameReceived ==
  ASSUME MarkInv, frames # <<>>, frames' = Tail(frames)
  PROVE  /\ frames' \in Seq(Frame) /\ Len(frames') = Len(frames) - 1 /\ Len(frames) >= 1
         /\ \A i \in 1..Len(frames') : frames'[i] = frames[i + 1]
         /\ Head(frames) = frames[1] /\ frames[1] \in Frame
<1>1. frames \in Seq(Frame) /\ frames # <<>>
  BY Typed
<1>2. Len(frames) \in Nat /\ Len(frames) # 0
  BY <1>1, EmptySeq
<1> QED
  BY <1>1, <1>2, HeadTailProperties

\* What a new frame changes about the older claims: they may be dropped for it.
LEMMA ClaimsPushed ==
  ASSUME MarkInv, NEW f \in Frame, frames' = Append(frames, f), UNCHANGED <<seenRun, label>>,
         NEW i \in 0..Len(frames), NEW x \in 1..StatRuns
  PROVE  /\ Claims(i, x)' <=> Claims(i, x)
         /\ Cured(i, x) \/ Undoes(f, x) => Cured(i, x)'
         /\ Named(i, x) => Named(i, x)'
<1>1. /\ Len(frames) \in Nat /\ Len(frames') = Len(frames) + 1
      /\ frames'[Len(frames) + 1] = f /\ \A k \in 1..Len(frames) : frames'[k] = frames[k]
  BY Typed, Pushed
<1>2. Claims(i, x)' <=> Claims(i, x)
  BY <1>1 DEF Claims
<1>3. Cured(i, x) \/ Undoes(f, x) => Cured(i, x)'
  BY <1>1 DEF Cured, Undoes
<1>4. Named(i, x) => Named(i, x)'
  BY <1>1 DEF Named, Mentions
<1> QED
  BY <1>2, <1>3, <1>4

\* The page is at the same run, at the old end as before, and after a frame that is
\* a sample, too; a frame that names a run brings it there.
LEMMA EndPushed ==
  ASSUME MarkInv, NEW f \in Frame, frames' = Append(frames, f), UNCHANGED seenRun,
         NEW x \in Nat, NEW n \in Nat, n = Len(frames)
  PROVE  /\ Named(n + 1, x) => Named(n + 1, x)'
         /\ Named(n + 1, x) /\ f.is = "stats" => Named(n + 2, x)'
         /\ Mentions(f, x) => Named(n + 2, x)'
<1>2. /\ Len(frames') = n + 1 /\ frames'[n + 1] = f
      /\ \A k \in 1..n : frames'[k] = frames[k]
  BY Pushed
<1>3. (n + 1) - 1 = n /\ (n + 2) - 1 = n + 1 /\ (n + 1) + 1 = n + 2
  OBVIOUS
<1>4. Named(n + 1, x) => Named(n + 1, x)'
  BY <1>2, <1>3 DEF Named, Mentions
<1>5. ASSUME Named(n + 1, x), f.is = "stats" PROVE Named(n + 2, x)'
  <2>1. (seenRun = x)' \/ \E k \in 1..(n + 1) : Mentions(frames'[k], x)
    BY <1>2, <1>3, <1>5 DEF Named
  <2>2. ASSUME NEW k \in 1..(n + 1), frames'[k].is # "stats", frames'[k].run # x
        PROVE  \E l \in (k + 1)..(n + 1) : Mentions(frames'[l], x)
    <3>1. k \in 1..n /\ frames[k].is # "stats" /\ frames[k].run # x
      BY <1>2, <1>5, <2>2
    <3>2. PICK l \in (k + 1)..n : Mentions(frames[l], x)
      BY <1>3, <1>5, <3>1 DEF Named
    <3> QED
      BY <1>2, <3>1, <3>2
  <2> QED
    BY <1>3, <2>1, <2>2 DEF Named, Mentions
<1>6. ASSUME Mentions(f, x) PROVE Named(n + 2, x)'
  <2>1. n + 1 \in 1..(n + 1) /\ Mentions(frames'[n + 1], x)
    BY <1>2, <1>6
  <2>2. ASSUME NEW k \in 1..(n + 1), frames'[k].is # "stats", frames'[k].run # x
        PROVE  n + 1 \in (k + 1)..(n + 1)
    <3>1. k # n + 1
      BY <2>1, <2>2 DEF Mentions
    <3> QED
      BY <1>2, <3>1
  <2> QED
    BY <1>3, <2>1, <2>2 DEF Named, Mentions
<1> QED
  BY <1>4, <1>5, <1>6

\* What receiving a frame does to the claims behind it.
LEMMA ClaimsReceived ==
  ASSUME MarkInv, frames # <<>>, frames' = Tail(frames),
         NEW i \in Nat, i <= Len(frames'), NEW x \in Nat
  PROVE  /\ i >= 1 => (Claims(i, x)' <=> Claims(i + 1, x))
         /\ Cured(i, x)' <=> Cured(i + 1, x)
<1>1. /\ Len(frames) \in Nat /\ Len(frames') = Len(frames) - 1
      /\ \A k \in 1..Len(frames') : frames'[k] = frames[k + 1]
  BY Typed, FrameReceived
<1>2. i >= 1 => (Claims(i, x)' <=> Claims(i + 1, x))
  BY <1>1 DEF Claims
<1>3. ASSUME Cured(i, x)' PROVE Cured(i + 1, x)
  <2>1. PICK j \in (i + 1)..Len(frames') : Undoes(frames'[j], x)
    BY <1>3 DEF Cured
  <2>2. j + 1 \in ((i + 1) + 1)..Len(frames) /\ frames'[j] = frames[j + 1]
    BY <1>1
  <2> QED
    BY <2>1, <2>2 DEF Cured
<1>4. ASSUME Cured(i + 1, x) PROVE Cured(i, x)'
  <2>1. PICK j \in ((i + 1) + 1)..Len(frames) : Undoes(frames[j], x)
    BY <1>4 DEF Cured
  <2>2. j - 1 \in (i + 1)..Len(frames') /\ frames'[j - 1] = frames[j]
    BY <1>1
  <2> QED
    BY <2>1, <2>2 DEF Cured
<1> QED
  BY <1>2, <1>3, <1>4

\* The page's run, once the first frame is received.
LEMMA NamedReceived ==
  ASSUME MarkInv, frames # <<>>, frames' = Tail(frames),
         seenRun' = IF frames[1].is = "stats" THEN seenRun ELSE frames[1].run,
         NEW i \in Nat, i >= 1, i <= Len(frames), NEW x \in Nat, Named(i + 1, x)
  PROVE  Named(i, x)'
<1>1. /\ Len(frames) \in Nat /\ Len(frames') = Len(frames) - 1
      /\ \A k \in 1..Len(frames') : frames'[k] = frames[k + 1]
  BY Typed, FrameReceived
<1>2. (i + 1) - 1 = i
  OBVIOUS
<1>3. ASSUME NEW k \in 2..i, Mentions(frames[k], x)
      PROVE  k - 1 \in 1..(i - 1) /\ Mentions(frames'[k - 1], x)
  BY <1>1, <1>3
<1>4. seenRun' = x \/ \E k \in 1..(i - 1) : Mentions(frames'[k], x)
  <2>1. CASE \E k \in 2..i : Mentions(frames[k], x)
    BY <1>3, <2>1
  <2>2. CASE ~ \E k \in 2..i : Mentions(frames[k], x)
    <3>1. CASE frames[1].is = "stats"
      <4>1. \A k \in 1..i : ~Mentions(frames[k], x)
        BY <2>2, <3>1 DEF Mentions
      <4> QED
        BY <1>2, <3>1, <4>1 DEF Named
    <3>2. CASE frames[1].is # "stats"
      <4>1. ~ \E l \in (1 + 1)..i : Mentions(frames[l], x)
        BY <2>2
      <4>2. frames[1].run = x
        BY <1>2, <3>2, <4>1 DEF Named
      <4> QED
        BY <3>2, <4>2
    <3> QED
      BY <3>1, <3>2
  <2> QED
    BY <2>1, <2>2
<1>5. ASSUME NEW k \in 1..(i - 1), frames'[k].is # "stats", frames'[k].run # x
      PROVE  \E l \in (k + 1)..(i - 1) : Mentions(frames'[l], x)
  <2>1. k + 1 \in 1..i /\ frames[k + 1].is # "stats" /\ frames[k + 1].run # x
    BY <1>1, <1>5
  <2>2. PICK l \in ((k + 1) + 1)..i : Mentions(frames[l], x)
    BY <1>2, <2>1 DEF Named
  <2>3. l - 1 \in (k + 1)..(i - 1) /\ Mentions(frames'[l - 1], x)
    <3>1. l \in 2..i /\ l - 1 \in (k + 1)..(i - 1)
      BY <1>5
    <3> QED
      BY <1>3, <2>2, <3>1
  <2> QED
    BY <2>3
<1> QED
  BY <1>4, <1>5 DEF Named

----------------------------------------------------------------------------
(* The steps *)

LEMMA Unpack ==
  ASSUME StatsIndInv
  PROVE  /\ MarkInv /\ SlotTypes /\ LabelInv /\ EndInv /\ proc \in {0, lastRun}
         /\ proc # 0 => cpuMark \in {0, proc}
         /\ \A i \in 1..Len(frames) : frames[i].is = "stats" =>
              frames[i].sample.of <= lastRun /\ frames[i].sample.since \in {0, frames[i].sample.of}
  BY DEF StatsIndInv, MarkInv

\* The process halts or ends, a pass begins or ends for nothing, or others come and go.
LEMMA QuietStep ==
  ASSUME StatsIndInv, SlotTypes', proc' # 0 => cpuMark' \in {0, proc'},
         UNCHANGED <<frames, seenRun, label, missed, joined, lastRun, lastStatsState>>,
         \/ proc' = proc /\ halting' = halting
         \/ State = "running" /\ proc' = proc /\ halting' = TRUE
         \/ proc # 0 /\ proc' = 0 /\ halting' = FALSE
  PROVE  StatsIndInv'
<1>1. MarkInv /\ LabelInv /\ EndInv /\ proc \in {0, lastRun}
  BY Unpack
<1>2. MarkInv'
  BY <1>1 DEF MarkInv
<1>3. ASSUME NEW i \in 0..Len(frames), NEW x \in 1..StatRuns, Claims(i, x)
      PROVE  Announced(x)' /\ Named(i, x)' /\ (joined => Excused(i, x)')
  <2>1. Announced(x) /\ Named(i, x) /\ (joined => Excused(i, x))
    BY <1>1, <1>3 DEF LabelInv
  <2>2. (Named(i, x)' <=> Named(i, x)) /\ (Cured(i, x)' <=> Cured(i, x))
    BY DEF Named, Cured
  <2>3. Announced(x)'
    BY <2>1 DEF Announced, State
  <2>4. ASSUME joined PROVE Excused(i, x)'
    <3>1. CASE Cured(i, x)
      BY <2>2, <3>1 DEF Excused
    <3>2. CASE i = 0 /\ missed
      BY <2>1, <2>2, <2>4, <3>2 DEF Excused
    <3>3. CASE ~Cured(i, x) /\ ~(i = 0 /\ missed)
      <4>1. x = lastRun /\ ((x = proc /\ State = "running") \/ lastStatsState # State)
        BY <2>1, <2>4, <3>3 DEF Excused
      <4>2. x = proc => /\ lastStatsState \in {"running", "stopping"}
                        /\ State = "running" => lastStatsState = "running"
        BY <2>1 DEF Announced, State
      <4>3. (x = proc /\ State = "running")' \/ (lastStatsState # State)'
        BY <1>1, <4>1, <4>2 DEF State
      <4> QED
        BY <4>1, <4>3 DEF Excused
    <3> QED
      BY <3>1, <3>2, <3>3
  <2> QED
    BY <2>2, <2>1, <2>3, <2>4
<1>4. LabelInv'
  BY <1>3 DEF LabelInv, Claims
<1>5. EndInv'
  BY <1>1 DEF EndInv, Named
<1> QED
  BY <1>2, <1>4, <1>5 DEF StatsIndInv

\* A frame is pushed to a page that is joined: what remains to be shown is that what
\* the slot and the frame say is true.
LEMMA PushStep ==
  ASSUME StatsIndInv, joined, NEW f \in Frame, frames' = Append(frames, f),
         UNCHANGED <<seenRun, label, missed, joined>>, SlotTypes', proc' \in {0, lastRun'},
         lastRun' \in lastRun..StatRuns, proc' # 0 => cpuMark' \in {0, proc'},
         f.is = "stats" => f.sample.of <= lastRun' /\ f.sample.since \in {0, f.sample.of},
         IF f.is = "stats" THEN lastRun' = lastRun ELSE f.run = lastRun',
         \A i \in 0..Len(frames), x \in 1..lastRun :
           /\ Announced(x) => Announced(x)'
           /\ \/ Undoes(f, x)
              \/ x = lastRun' /\ ((x = proc /\ State = "running")' \/ (lastStatsState # State)'),
         \A x \in 1..StatRuns : f.is = "stats" /\ f.sample.of = x =>
           x = lastRun /\ Announced(x)' /\ (x = proc /\ State = "running")'
  PROVE  StatsIndInv'
<1>1. MarkInv /\ LabelInv /\ EndInv
  BY Unpack
<1>2. PICK n \in Nat : n = Len(frames)
  BY <1>1, Typed
<1>3. /\ Len(frames') = n + 1 /\ frames'[n + 1] = f /\ frames' \in Seq(Frame)
      /\ \A k \in 1..n : frames'[k] = frames[k]
  BY <1>1, <1>2, Pushed
<1>4. label \in Nat /\ label <= lastRun /\ lastRun \in Nat /\ lastRun' \in Nat
  BY <1>1, Typed
<1>5. MarkInv'
  <2>1. \A i \in 1..n : frames[i].is = "stats" =>
          frames[i].sample.of <= lastRun /\ frames[i].sample.since \in {0, frames[i].sample.of}
    BY <1>2, Unpack
  <2>2. \A g \in Frame : g.is = "stats" => g.sample.of \in Nat
    BY DEF Frame, Sample
  <2>3. ASSUME NEW i \in 1..(n + 1), frames'[i].is = "stats"
        PROVE  frames'[i].sample.of <= lastRun' /\ frames'[i].sample.since \in {0, frames'[i].sample.of}
    <3>1. CASE i = n + 1
      BY <1>3, <2>3, <3>1
    <3>2. CASE i # n + 1
      <4>1. i \in 1..n /\ frames'[i] = frames[i] /\ frames[i] \in Frame
        BY <1>1, <1>2, <1>3, <3>2, Typed
      <4> QED
        BY <1>4, <2>1, <2>2, <2>3, <4>1
    <3> QED
      BY <3>1, <3>2
  <2>4. label' <= lastRun'
    BY <1>4
  <2> QED
    BY <1>3, <2>3, <2>4 DEF MarkInv
<1>6. ASSUME NEW i \in 0..n, NEW x \in 1..StatRuns, Claims(i, x)
      PROVE  Announced(x)' /\ Named(i, x)' /\ Excused(i, x)'
  <2>1. Announced(x) /\ Named(i, x) /\ Excused(i, x)
    BY <1>1, <1>2, <1>6 DEF LabelInv
  <2>2. x \in 1..lastRun
    <3>1. CASE i = 0
      BY <1>4, <1>6, <3>1 DEF Claims
    <3>2. CASE i # 0
      BY <1>2, <1>4, <1>6, <3>2, Unpack DEF Claims
    <3> QED
      BY <3>1, <3>2
  <2>3. /\ Cured(i, x) \/ Undoes(f, x) => Cured(i, x)'
        /\ Named(i, x)'
    BY <1>1, <1>2, <2>1, ClaimsPushed
  <2>4. Excused(i, x)'
    BY <1>2, <2>2, <2>3 DEF Excused
  <2> QED
    BY <1>2, <2>1, <2>2, <2>3, <2>4
<1>7. ASSUME NEW x \in 1..StatRuns, Claims(n + 1, x)'
      PROVE  Announced(x)' /\ Named(n + 1, x)' /\ Excused(n + 1, x)'
  <2>1. f.is = "stats" /\ f.sample.of = x
    BY <1>3, <1>7 DEF Claims
  <2>2. x = lastRun /\ Announced(x)' /\ (x = proc /\ State = "running")'
    BY <2>1
  <2>3. Named(n + 1, x)
    BY <1>1, <1>2, <2>2 DEF EndInv
  <2>4. Named(n + 1, x)'
    BY <1>1, <1>2, <2>3, EndPushed
  <2> QED
    BY <2>1, <2>2, <2>4 DEF Excused
<1>8. LabelInv'
  <2>1. ASSUME NEW i \in 0..(n + 1), NEW x \in 1..StatRuns, Claims(i, x)'
        PROVE  Announced(x)' /\ Named(i, x)' /\ (joined' => Excused(i, x)')
    <3>1. CASE i = n + 1
      BY <1>7, <2>1, <3>1
    <3>2. CASE i # n + 1
      <4>1. i \in 0..n
        BY <1>2, <3>2
      <4>2. Claims(i, x)
        BY <1>1, <1>2, <2>1, <4>1, ClaimsPushed
      <4> QED
        BY <1>6, <4>1, <4>2
    <3> QED
      BY <3>1, <3>2
  <2> QED
    BY <1>3, <2>1 DEF LabelInv
<1>9. EndInv'
  <2>1. CASE f.is = "stats"
    <3>1. Named(n + 1, lastRun)
      BY <1>1, <1>2 DEF EndInv
    <3>2. PICK x \in Nat : x = lastRun /\ x = lastRun'
      BY <1>4, <2>1
    <3>3. Named(n + 2, x)'
      BY <1>1, <1>2, <2>1, <3>1, <3>2, EndPushed
    <3> QED
      BY <1>2, <1>3, <3>2, <3>3 DEF EndInv
  <2>2. CASE f.is # "stats"
    <3>1. PICK x \in Nat : x = lastRun'
      BY <1>4
    <3>2. Mentions(f, x)
      BY <2>2, <3>1 DEF Mentions
    <3>3. Named(n + 2, x)'
      BY <1>1, <1>2, <3>2, EndPushed
    <3> QED
      BY <1>2, <1>3, <3>1, <3>3 DEF EndInv
  <2> QED
    BY <2>1, <2>2
<1> QED
  BY <1>5, <1>8, <1>9 DEF StatsIndInv

\* Nobody of this page listens: what it shows stays as it is.
LEMMA UnheardStep ==
  ASSUME StatsIndInv, ~joined, UNCHANGED <<frames, seenRun, label, missed, joined>>, SlotTypes',
         proc' \in {0, lastRun'}, proc' # 0 => cpuMark' \in {0, proc'},
         lastRun' \in lastRun..StatRuns,
         \A x \in 1..lastRun : Announced(x) => Announced(x)'
  PROVE  StatsIndInv'
<1>1. MarkInv /\ LabelInv /\ EndInv /\ frames = <<>> /\ Len(frames) = 0
      /\ label \in 0..lastRun /\ lastRun \in 0..StatRuns
  BY Unpack, Typed
<1>2. MarkInv'
  <2>1. frames' = <<>> /\ frames' \in Seq(Frame) /\ Len(frames') = 0 /\ label' <= lastRun'
    BY <1>1
  <2> QED
    BY <2>1 DEF MarkInv
<1>3. ASSUME NEW x \in 1..StatRuns, Claims(0, x) PROVE Announced(x)' /\ Named(0, x)'
  <2>1. Announced(x) /\ Named(0, x) /\ x \in 1..lastRun
    BY <1>1, <1>3 DEF LabelInv, Claims
  <2> QED
    BY <2>1 DEF Named
<1>4. LabelInv'
  <2>1. Len(frames') = 0
    BY <1>1
  <2>2. \A x : Claims(0, x)' <=> Claims(0, x)
    BY DEF Claims
  <2> QED
    BY <1>3, <2>1, <2>2 DEF LabelInv
<1> QED
  BY <1>2, <1>4 DEF StatsIndInv, EndInv

\* start().
LEMMA LaunchStep == ASSUME StatsIndInv, LaunchRun PROVE StatsIndInv'
<1>1. MarkInv /\ SlotTypes
  BY Unpack
<1>2. /\ proc = 0 /\ lastRun < StatRuns /\ proc' = lastRun + 1 /\ lastRun' = lastRun + 1
      /\ cpuMark' = 0
      /\ UNCHANGED <<halting, lastStatsState, pass, others, joined, seenRun, label, missed>>
      /\ frames' = IF joined THEN Append(frames, [is |-> "reset", run |-> lastRun + 1]) ELSE frames
  BY DEF LaunchRun, Push, pageStats
<1>3. lastRun \in Nat /\ lastRun' \in lastRun..StatRuns /\ lastRun' \in 0..StatRuns
  BY <1>1, <1>2, Typed, StatsAssumption
<1>4. frames' # <<>> => joined'
  BY <1>1, <1>2 DEF SlotTypes
<1>5. SlotTypes'
  BY <1>1, <1>2, <1>3, <1>4 DEF SlotTypes
<1>6. \A x \in 1..lastRun : Announced(x)'
  BY <1>2, <1>3 DEF Announced
<1>7. CASE joined
  <2> DEFINE f == [is |-> "reset", run |-> lastRun + 1]
  <2>1. f \in Frame /\ f.is = "reset" /\ f.run = lastRun'
    BY <1>2, <1>3 DEF Frame
  <2>2. frames' = Append(frames, f)
    BY <1>2, <1>7
  <2> HIDE DEF f
  <2>3. \A x \in 1..lastRun : Undoes(f, x)
    BY <1>2, <1>3, <2>1 DEF Undoes
  <2> QED
    BY <1>2, <1>3, <1>5, <1>6, <1>7, <2>1, <2>2, <2>3, PushStep
<1>8. CASE ~joined
  BY <1>2, <1>3, <1>5, <1>6, <1>8, UnheardStep
<1> QED
  BY <1>7, <1>8

\* The sampler tells a state in which nothing runs.
LEMMA SampleStateStep == ASSUME StatsIndInv, SampleState PROVE StatsIndInv'
<1> DEFINE sample == [state |-> State, of |-> 0, since |-> 0]
           f == [is |-> "stats", sample |-> sample]
<1>1. MarkInv /\ SlotTypes /\ proc \in {0, lastRun}
  BY Unpack
<1>2. /\ State # "running" /\ cpuMark' = 0 /\ lastStatsState' = State
      /\ UNCHANGED <<proc, halting, lastRun, pass, others, joined, seenRun, label, missed>>
      /\ frames' = IF joined THEN Append(frames, f) ELSE frames
  BY DEF SampleState, publish, Push, pageStats
<1>3. lastRun \in Nat /\ lastRun' \in lastRun..StatRuns
  BY <1>1, <1>2, Typed, StatsAssumption
<1>4. State \in Told
  BY DEF State, Told
<1>5. f \in Frame /\ f.is = "stats" /\ f.sample.of = 0 /\ f.sample.since = 0
  BY <1>4, StatsAssumption DEF Frame, Sample
<1> HIDE DEF f, sample
<1>6. frames' # <<>> => joined'
  BY <1>1, <1>2 DEF SlotTypes
<1>7. SlotTypes'
  <2>1. cpuMark' \in 0..lastRun'
    BY <1>2, <1>3
  <2> QED
    BY <1>1, <1>2, <1>4, <1>6, <2>1 DEF SlotTypes
<1>8. \A x \in 1..lastRun : Announced(x)'
  BY <1>2, <1>3 DEF Announced, State
<1>9. CASE joined
  <2>1. \A x \in 1..lastRun : Undoes(f, x)
    BY <1>5 DEF Undoes
  <2> QED
    <3>1. f.sample.of <= lastRun' /\ f.sample.since \in {0, f.sample.of}
      BY <1>3, <1>5
    <3>2. \A x \in 1..StatRuns : f.sample.of # x
      BY <1>5
    <3>3. frames' = Append(frames, f) /\ lastRun' = lastRun /\ proc' \in {0, lastRun'}
      BY <1>1, <1>2, <1>9
    <3> QED
      BY <1>2, <1>3, <1>5, <1>7, <1>8, <1>9, <2>1, <3>1, <3>2, <3>3, PushStep
<1>10. CASE ~joined
  BY <1>1, <1>2, <1>3, <1>7, <1>8, <1>10, UnheardStep
<1> QED
  BY <1>9, <1>10

\* A pass publishes only while the process that it read is the one in the slot.
LEMMA SampleEndsStep == ASSUME StatsIndInv, NEW got \in BOOLEAN, SampleEnds(got) PROVE StatsIndInv'
<1>1. MarkInv /\ SlotTypes /\ proc \in {0, lastRun} /\ (proc # 0 => cpuMark \in {0, proc})
  BY Unpack
<1>2. /\ pass # 0 /\ pass' = 0
      /\ UNCHANGED <<proc, halting, lastRun, others, joined, seenRun, label, missed>>
  BY DEF SampleEnds, pageStats
<1>3. lastRun \in Nat /\ lastRun' \in lastRun..StatRuns /\ pass \in 0..StatRuns /\ pass' \in 0..lastRun
  BY <1>1, <1>2, Typed, StatsAssumption
<1>4. CASE pass = proc /\ State = "running" /\ Sampled(got)
  <2> DEFINE since == IF got THEN cpuMark ELSE 0
             f == [is |-> "stats", sample |-> [state |-> "running", of |-> pass, since |-> since]]
  <2>1. /\ cpuMark' = IF got THEN pass ELSE 0
        /\ lastStatsState' = "running"
        /\ frames' = IF joined THEN Append(frames, f) ELSE frames
    BY <1>4 DEF Sampled, publish, Push
  <2>2. since \in {0, pass} /\ since \in 0..StatRuns
    <3>1. since = 0 \/ since = cpuMark
      OBVIOUS
    <3>2. proc # 0 /\ cpuMark \in {0, pass}
      BY <1>1, <1>2, <1>4
    <3> QED
      BY <1>3, <3>1, <3>2, StatsAssumption
  <2> HIDE DEF since
  <2>3. f \in Frame /\ f.is = "stats" /\ f.sample.of = pass /\ f.sample.since = since
    BY <1>3, <2>2 DEF Frame, Sample, Told
  <2> HIDE DEF f
  <2>4. frames' # <<>> => joined'
    BY <1>1, <1>2, <2>1 DEF SlotTypes
  <2>5. SlotTypes'
    <3>1. cpuMark' \in 0..lastRun' /\ lastStatsState' \in Told
      BY <1>2, <1>3, <1>1, <1>4, <2>1 DEF Told
    <3> QED
      BY <1>1, <1>2, <1>3, <2>4, <3>1 DEF SlotTypes
  <2>6. /\ pass = lastRun /\ proc' = proc /\ State' = "running" /\ cpuMark' \in {0, proc'}
        /\ \A x : Announced(x)'
    BY <1>1, <1>2, <1>4, <2>1 DEF State, Announced
  <2>7. CASE joined
    <3>1. \A x \in 1..lastRun : Undoes(f, x) \/ (x = lastRun' /\ (x = proc /\ State = "running")')
      BY <1>2, <1>4, <2>3, <2>6 DEF Undoes
    <3> QED
      <4>1. f.sample.of <= lastRun' /\ f.sample.since \in {0, f.sample.of}
        BY <1>2, <1>3, <2>2, <2>3, <2>6
      <4>2. \A x \in 1..StatRuns : f.sample.of = x =>
              x = lastRun /\ Announced(x)' /\ (x = proc /\ State = "running")'
        BY <1>4, <2>3, <2>6
      <4>3. frames' = Append(frames, f) /\ lastRun' = lastRun /\ proc' \in {0, lastRun'}
        BY <1>1, <1>2, <2>1, <2>7
      <4> QED
        BY <1>2, <1>3, <2>3, <2>5, <2>6, <2>7, <3>1, <4>1, <4>2, <4>3, PushStep
  <2>8. CASE ~joined
    BY <1>1, <1>2, <1>3, <2>1, <2>5, <2>6, <2>8, UnheardStep
  <2> QED
    BY <2>7, <2>8
<1>5. CASE cpuMark' = 0 /\ UNCHANGED <<lastStatsState, frames>>
  <2>1. SlotTypes'
    <3>1. cpuMark' \in 0..lastRun'
      BY <1>2, <1>3, <1>5
    <3> QED
      BY <1>1, <1>2, <1>3, <1>5, <3>1 DEF SlotTypes
  <2> QED
    BY <1>2, <1>5, <2>1, QuietStep
<1> QED
  BY <1>4, <1>5 DEF SampleEnds

\* The process halts or ends, a pass begins, others come or go.
LEMMA OtherEngineSteps ==
  ASSUME StatsIndInv, Halt \/ Exit \/ SampleBegins \/ OthersChange
  PROVE  StatsIndInv'
<1>1. MarkInv /\ SlotTypes /\ proc \in {0, lastRun} /\ (proc # 0 => cpuMark \in {0, proc})
  BY Unpack
<1>2. /\ UNCHANGED <<frames, seenRun, label, missed, joined, lastRun, lastStatsState, cpuMark>>
      /\ \/ proc' = proc /\ halting' = halting
         \/ State = "running" /\ proc' = proc /\ halting' = TRUE
         \/ proc # 0 /\ proc' = 0 /\ halting' = FALSE
  BY DEF Halt, Exit, SampleBegins, OthersChange, slotStats, pageStats
<1>3. State = "running" => proc # 0
  BY DEF State
<1>4. pass' \in {pass, proc} /\ others' \in BOOLEAN
  BY <1>1 DEF Halt, Exit, SampleBegins, OthersChange, slotStats, pageStats, SlotTypes
<1>5. SlotTypes'
  <2>1. proc' \in 0..lastRun' /\ pass' \in 0..lastRun' /\ (halting' => proc' # 0)
    BY <1>1, <1>2, <1>3, <1>4, Typed DEF SlotTypes
  <2>2. halting' \in BOOLEAN
    BY <1>1, <1>2 DEF SlotTypes
  <2> QED
    BY <1>1, <1>2, <1>4, <2>1, <2>2 DEF SlotTypes
<1> QED
  BY <1>1, <1>2, <1>5, QuietStep

----------------------------------------------------------------------------
(* The page *)

\* A page that loads claims nothing, and one that lost its connection no more than
\* before.
LEMMA OffStep == ASSUME StatsIndInv, OpenGraphs \/ LoseGraphs PROVE StatsIndInv'
<1>1. MarkInv /\ SlotTypes /\ LabelInv /\ proc \in {0, lastRun} /\ (proc # 0 => cpuMark \in {0, proc})
  BY Unpack
<1>2. /\ joined' = FALSE /\ frames' = <<>> /\ others' \in {others, TRUE}
      /\ UNCHANGED <<proc, halting, lastRun, cpuMark, lastStatsState, pass>>
      /\ \/ label' = 0 /\ missed' = FALSE /\ seenRun' \in {lastRun, seenRun, NoSight}
         \/ UNCHANGED <<label, missed, seenRun>>
  BY DEF OpenGraphs, LoseGraphs, slotStats, pageStats
<1>3. lastRun \in 0..StatRuns /\ label \in 0..StatRuns /\ seenRun \in 0..NoSight
  BY <1>1 DEF SlotTypes
<1>4. label' \in 0..StatRuns /\ seenRun' \in 0..NoSight /\ label' \in {0, label}
  BY <1>2, <1>3, StatsAssumption DEF NoSight
<1>5. joined' \in BOOLEAN /\ missed' \in BOOLEAN /\ others' \in BOOLEAN
  BY <1>1, <1>2 DEF SlotTypes
<1>6. SlotTypes'
  BY <1>1, <1>2, <1>4, <1>5 DEF SlotTypes
<1>7. frames' \in Seq(Frame) /\ Len(frames') = 0
  BY <1>2
<1>8. label' <= lastRun'
  BY <1>1, <1>2, <1>4, Typed
<1>9. MarkInv'
  BY <1>1, <1>2, <1>6, <1>7, <1>8 DEF MarkInv
<1>10. ASSUME NEW x \in 1..StatRuns, Claims(0, x)' PROVE Announced(x)' /\ Named(0, x)'
  <2>1. label' = x /\ label = x /\ seenRun' = seenRun
    BY <1>2, <1>4, <1>10 DEF Claims
  <2>2. Claims(0, x) /\ 0 \in 0..Len(frames)
    BY <1>1, <2>1, Typed DEF Claims
  <2>3. Announced(x) /\ Named(0, x)
    BY <1>1, <2>2 DEF LabelInv
  <2> QED
    BY <1>2, <2>1, <2>3 DEF Announced, Named
<1>11. LabelInv'
  BY <1>2, <1>7, <1>10 DEF LabelInv
<1> QED
  BY <1>2, <1>9, <1>11 DEF StatsIndInv, EndInv

\* console:join.
LEMMA JoinStep == ASSUME StatsIndInv, JoinGraphs PROVE StatsIndInv'
<1> DEFINE h == [is |-> "history", run |-> lastRun]
<1>1. MarkInv /\ SlotTypes /\ LabelInv /\ proc \in {0, lastRun} /\ (proc # 0 => cpuMark \in {0, proc})
  BY Unpack
<1>2. /\ joined' = TRUE /\ frames' = <<h>>
      /\ missed' = (label # 0 /\ State # "running" /\ lastStatsState = State)
      /\ UNCHANGED <<proc, halting, lastRun, cpuMark, lastStatsState, pass, others, seenRun, label>>
  BY DEF JoinGraphs, slotStats
<1>3. h \in Frame /\ h.is = "history" /\ h.run = lastRun
  BY <1>1 DEF Frame, SlotTypes
<1> HIDE DEF h
<1>4. frames' \in Seq(Frame) /\ Len(frames') = 1 /\ frames'[1] = h
  BY <1>2, <1>3
<1>5. missed' \in BOOLEAN
  BY <1>2
<1>6. SlotTypes'
  BY <1>1, <1>2, <1>5 DEF SlotTypes
<1>7. MarkInv'
  <2>1. label' <= lastRun'
    BY <1>1, <1>2, Typed
  <2> QED
    BY <1>1, <1>2, <1>3, <1>4, <1>6, <2>1 DEF MarkInv
<1>8. ASSUME NEW x \in 1..StatRuns, Claims(0, x)'
      PROVE  Announced(x)' /\ Named(0, x)' /\ Excused(0, x)'
  <2>1. Claims(0, x) /\ label = x /\ 0 \in 0..Len(frames)
    BY <1>1, <1>2, <1>8, Typed DEF Claims
  <2>2. Announced(x) /\ Named(0, x)
    BY <1>1, <2>1 DEF LabelInv
  <2>3. Announced(x)' /\ Named(0, x)'
    BY <1>2, <2>2 DEF Announced, Named
  <2>4. x # lastRun => Cured(0, x)'
    BY <1>3, <1>4 DEF Cured, Undoes
  <2>5. State = "running" => proc = lastRun
    BY <1>1 DEF State
  <2>6. State' = State
    BY <1>2 DEF State
  <2>7. (x = proc /\ State = "running")' \/ (lastStatsState # State)' \/ missed' \/ x # lastRun
    <3>1. label # 0 /\ State # "running" /\ lastStatsState = State => missed'
      BY <1>2
    <3>2. label # 0 /\ lastStatsState' = lastStatsState /\ proc' = proc
      BY <1>2, <2>1
    <3> QED
      BY <2>5, <2>6, <3>1, <3>2
  <2> QED
    BY <1>2, <2>3, <2>4, <2>7 DEF Excused
<1>9. LabelInv'
  <2>1. \A x : ~Claims(1, x)'
    BY <1>3, <1>4 DEF Claims
  <2> QED
    BY <1>4, <1>8, <2>1 DEF LabelInv
<1>10. EndInv'
  BY <1>2, <1>3, <1>4 DEF EndInv, Named, Mentions
<1> QED
  BY <1>7, <1>9, <1>10 DEF StatsIndInv

\* adoptRun() and pushStatSample().
LEMMA ReceiveStep == ASSUME StatsIndInv, ReceiveFrame PROVE StatsIndInv'
<1>1. MarkInv /\ SlotTypes /\ LabelInv /\ EndInv
  BY Unpack
<1>2. frames # <<>> /\ frames' = Tail(frames) /\ joined
  BY <1>1 DEF ReceiveFrame, SlotTypes
<1>3. /\ frames' \in Seq(Frame) /\ Len(frames') = Len(frames) - 1 /\ Len(frames) >= 1
      /\ \A i \in 1..Len(frames') : frames'[i] = frames[i + 1]
      /\ Head(frames) = frames[1] /\ frames[1] \in Frame
  BY <1>1, <1>2, FrameReceived
<1>4. PICK n \in Nat : Len(frames) = n + 1 /\ Len(frames') = n
  <2>1. Len(frames) \in Nat
    BY <1>1, Typed
  <2> QED
    BY <1>3, <2>1
<1>5. /\ UNCHANGED <<proc, halting, lastRun, cpuMark, lastStatsState, pass, others, joined>>
      /\ IF frames[1].is = "stats"
         THEN label' = frames[1].sample.of /\ missed' = FALSE /\ seenRun' = seenRun
         ELSE /\ seenRun' = frames[1].run
              /\ IF seenRun \in {NoSight, frames[1].run} THEN UNCHANGED <<label, missed>>
                 ELSE label' = 0 /\ missed' = FALSE
  BY <1>3 DEF ReceiveFrame, pushStatSample, AdoptForGraphs, slotStats
<1>6. /\ frames[1].is = "stats" => frames[1].sample.of \in 0..StatRuns /\ frames[1].sample.of <= lastRun
      /\ frames[1].is # "stats" => frames[1].run \in 0..StatRuns
  <2>1. \A f \in Frame : /\ f.is = "stats" => f.sample.of \in 0..StatRuns
                         /\ f.is # "stats" => f.run \in 0..StatRuns
    BY DEF Frame, Sample
  <2> QED
    BY <1>3, <1>4, <2>1, Unpack
<1>7. MarkInv'
  <2>1. /\ label \in 0..StatRuns /\ label <= lastRun /\ lastRun \in 0..StatRuns
        /\ seenRun \in 0..NoSight /\ missed \in BOOLEAN
    BY <1>1, Typed DEF MarkInv, SlotTypes
  <2>2. label' \in 0..StatRuns /\ label' <= lastRun' /\ seenRun' \in 0..NoSight
    BY <1>5, <1>6, <2>1, StatsAssumption DEF NoSight
  <2>3. missed' \in BOOLEAN
    BY <1>5, <2>1
  <2>4. SlotTypes'
    BY <1>1, <1>2, <1>5, <2>2, <2>3 DEF SlotTypes
  <2>5. \A i \in 1..(n + 1) : frames[i].is = "stats" =>
          frames[i].sample.of <= lastRun /\ frames[i].sample.since \in {0, frames[i].sample.of}
    BY <1>4, Unpack
  <2>6. \A i \in 1..n : frames'[i].is = "stats" =>
          frames'[i].sample.of <= lastRun /\ frames'[i].sample.since \in {0, frames'[i].sample.of}
    BY <1>3, <1>4, <2>5
  <2> QED
    BY <1>1, <1>3, <1>4, <1>5, <2>2, <2>4, <2>6 DEF MarkInv
<1>8. seenRun' = IF frames[1].is = "stats" THEN seenRun ELSE frames[1].run
  BY <1>5
<1>9. \A x : (Announced(x)' <=> Announced(x)) /\ State' = State
  BY <1>5 DEF Announced, State
\* A claim on its way.
<1>10. ASSUME NEW i \in 1..n, NEW x \in 1..StatRuns, Claims(i, x)'
       PROVE  Announced(x)' /\ Named(i, x)' /\ Excused(i, x)'
  <2>1. Claims(i + 1, x) /\ (Cured(i, x)' <=> Cured(i + 1, x))
    BY <1>1, <1>2, <1>4, <1>10, ClaimsReceived
  <2>2. i + 1 \in 0..Len(frames) /\ i + 1 # 0
    BY <1>4
  <2>3. Announced(x) /\ Named(i + 1, x) /\ Excused(i + 1, x)
    BY <1>1, <1>2, <2>1, <2>2 DEF LabelInv
  <2>4. Named(i, x)'
    BY <1>1, <1>2, <1>4, <1>8, <2>3, NamedReceived
  <2>5. Excused(i, x)'
    BY <1>5, <1>9, <2>1, <2>2, <2>3 DEF Excused
  <2> QED
    BY <1>9, <2>3, <2>4, <2>5
\* What the page shows now.
<1>11. ASSUME NEW x \in 1..StatRuns, Claims(0, x)'
       PROVE  Announced(x)' /\ Named(0, x)' /\ Excused(0, x)'
  <2>1. label' = x /\ 0 \in 0..Len(frames) /\ 1 \in 0..Len(frames)
    BY <1>4, <1>11 DEF Claims
  <2>2. Cured(0, x)' <=> Cured(1, x)
    BY <1>1, <1>2, <1>4, ClaimsReceived
  <2>3. CASE frames[1].is = "stats"
    <3>1. Claims(1, x)
      BY <1>5, <2>1, <2>3 DEF Claims
    <3>2. Announced(x) /\ Named(1, x) /\ Excused(1, x)
      BY <1>1, <1>2, <2>1, <3>1 DEF LabelInv
    <3>3. seenRun' = x
      BY <1>5, <2>3, <3>2 DEF Named
    <3>4. Named(0, x)'
      BY <3>3 DEF Named
    <3>5. Excused(0, x)'
      BY <1>5, <1>9, <2>2, <3>2 DEF Excused
    <3> QED
      BY <1>9, <3>2, <3>4, <3>5
  <2>4. CASE frames[1].is # "stats"
    <3>1. label = x /\ missed' = missed /\ seenRun \in {NoSight, frames[1].run}
      BY <1>5, <2>1, <2>4
    <3>2. Claims(0, x)
      BY <3>1 DEF Claims
    <3>3. Announced(x) /\ Named(0, x) /\ Excused(0, x)
      BY <1>1, <1>2, <2>1, <3>2 DEF LabelInv
    <3>4. seenRun = x
      BY <3>3 DEF Named
    <3>5. frames[1].run = x /\ seenRun' = x
      BY <1>5, <2>4, <3>1, <3>4, StatsAssumption DEF NoSight
    <3>6. Named(0, x)'
      BY <3>5 DEF Named
    <3>7. Cured(0, x) => Cured(1, x)
      BY <1>4, <2>4, <3>5 DEF Cured, Undoes
    <3>8. Excused(0, x)'
      BY <1>5, <1>9, <2>2, <3>1, <3>3, <3>7 DEF Excused
    <3> QED
      BY <1>9, <3>3, <3>6, <3>8
  <2> QED
    BY <2>3, <2>4
<1>12. LabelInv'
  BY <1>4, <1>10, <1>11 DEF LabelInv
<1>13. EndInv'
  <2>1. PICK x \in Nat : x = lastRun
    BY <1>1, Typed
  <2>2. Named((n + 1) + 1, x)
    BY <1>1, <1>2, <1>4, <2>1 DEF EndInv
  <2>3. Named(n + 1, x)'
    BY <1>1, <1>2, <1>4, <1>8, <2>2, NamedReceived
  <2> QED
    BY <1>4, <1>5, <2>1, <2>3 DEF EndInv
<1> QED
  BY <1>7, <1>12, <1>13 DEF StatsIndInv

----------------------------------------------------------------------------
(* The whole *)

LEMMA StatsStep == StatsIndInv /\ [StatsNext]_statsVars => StatsIndInv'
<1> SUFFICES ASSUME StatsIndInv, [StatsNext]_statsVars PROVE StatsIndInv'
  OBVIOUS
<1>1. CASE UNCHANGED statsVars
  <2>1. UNCHANGED <<proc, halting, lastRun, cpuMark, lastStatsState, pass, others, joined, frames,
                    seenRun, label, missed>>
    BY <1>1 DEF statsVars, slotStats, pageStats
  <2>2. SlotTypes' /\ (proc' # 0 => cpuMark' \in {0, proc'})
    BY <2>1, Unpack DEF SlotTypes
  <2> QED
    BY <2>1, <2>2, QuietStep
<1>2. CASE StatsNext
  BY <1>2, LaunchStep, SampleStateStep, SampleEndsStep, OtherEngineSteps, OffStep, JoinStep,
     ReceiveStep DEF StatsNext
<1> QED
  BY <1>1, <1>2

\* The invariant holds for any number of processes and of frames on their way.
THEOREM StatsInvariant == StatsSpec => []StatsIndInv
  BY StatsStart, StatsStep, PTL DEF StatsSpec

\* Every variable of the sampler and the graphs has its type.
THEOREM StatsTypeCorrect == StatsSpec => []StatsTypeOK
<1>1. StatsIndInv => StatsTypeOK
  BY StatsTyped DEF StatsIndInv
<1> QED
  BY <1>1, StatsInvariant, PTL

\* A page that has received everything shows no dead process as running that the
\* sampler will not tell it of, and no rate mixes two processes.
THEOREM GraphsFollowHolds == StatsSpec => []GraphsFollow
<1>1. ASSUME StatsIndInv PROVE GraphsFollow
  <2>1. MarkInv /\ SlotTypes /\ LabelInv
    BY <1>1, Unpack
  <2>2. RatesOfOneProcess
    BY <1>1, <2>1, Unpack, Typed DEF RatesOfOneProcess
  <2>3. ASSUME joined, frames = <<>>, label # 0, ~missed
        PROVE  (label = proc /\ State = "running") \/ lastStatsState # State
    <3>1. Len(frames) = 0 /\ label \in 1..StatRuns
      BY <2>1, <2>3 DEF SlotTypes
    <3>2. Claims(0, label)
      BY DEF Claims
    <3>3. Excused(0, label)
      BY <2>1, <2>3, <3>1, <3>2 DEF LabelInv
    <3>4. ~Cured(0, label)
      BY <3>1 DEF Cured
    <3> QED
      BY <2>3, <3>3, <3>4 DEF Excused
  <2> QED
    BY <2>2, <2>3 DEF GraphsFollow, NoFrozenGraph
<1> QED
  BY <1>1, StatsInvariant, PTL

(***************************************************************************)
(* Console                                                                 *)
(***************************************************************************)

\* Induction over the numbers, for a set of them: were one missing, the missing ones up
\* to it could be moved down by one, into one place less.
LEMMA Induction ==
  ASSUME NEW S, 0 \in S, \A n \in Nat : n \in S => n + 1 \in S
  PROVE  Nat \subseteq S
<1> SUFFICES ASSUME NEW n \in Nat, n \notin S PROVE FALSE
  OBVIOUS
<1> DEFINE U == {m \in 0..n : m \notin S}
           f == [m \in U |-> m - 1]
<1>1. IsFiniteSet(U) /\ n \in U
  <2>1. IsFiniteSet(0..n)
    BY FS_Interval
  <2>2. U \in SUBSET (0..n) /\ n \in U
    OBVIOUS
  <2> QED
    BY ONLY <2>1, <2>2, FS_Subset
<1>2. \A m \in U : m - 1 \in U \ {n}
  <2> TAKE m \in U
  <2>1. m \in Nat /\ m # 0 /\ m - 1 \in Nat /\ m <= n
    OBVIOUS
  <2>2. m - 1 \notin S
    BY <2>1
  <2> QED
    BY <2>1, <2>2
<1>3. IsFiniteSet(U \ {n}) /\ Cardinality(U \ {n}) < Cardinality(U)
  <2>1. Cardinality(U) \in Nat
    BY <1>1, FS_CardinalityType
  <2>2. IsFiniteSet(U \ {n}) /\ Cardinality(U \ {n}) = Cardinality(U) - 1
    BY ONLY <1>1, FS_RemoveElement
  <2> QED
    BY <2>1, <2>2
<1>4. f \in [U -> U \ {n}]
  BY <1>2
<1>5. \E x, y \in U : x # y /\ f[x] = f[y]
  <2> HIDE DEF U, f
  <2> QED
    BY <1>1, <1>3, <1>4, FS_PigeonHole
<1> QED
  BY <1>5

----------------------------------------------------------------------------
(* Lines one after another *)

\* What appendLines() goes through is a sequence of pages.
LEMMA LinesInTurn ==
  ASSUME NEW page, NEW lines, Len(lines) \in Nat
  PROVE  \E after :
           /\ after[0] = page
           /\ \A i \in 1..Len(lines) : after[i] = appendConsoleLine(after[i - 1], lines[i])
           /\ appendLines(page, lines) = after[Len(lines)]
<1> DEFINE n == Len(lines)
           Turns(g, k) == g = [i \in 0..k |->
             IF i = 0 THEN page ELSE appendConsoleLine(g[i - 1], lines[i])]
           S == {k \in Nat : \E g : Turns(g, k)}
<1>1. 0 \in S
  <2> DEFINE g == [i \in 0..0 |-> page]
  <2>1. Turns(g, 0)
    OBVIOUS
  <2> QED
    BY <2>1
<1>2. \A k \in Nat : k \in S => k + 1 \in S
  <2> SUFFICES ASSUME NEW k \in Nat, NEW g, Turns(g, k) PROVE \E h : Turns(h, k + 1)
    OBVIOUS
  <2> DEFINE h == [i \in 0..(k + 1) |->
               IF i <= k THEN g[i] ELSE appendConsoleLine(g[k], lines[k + 1])]
             hh == [i \in 0..(k + 1) |->
               IF i = 0 THEN page ELSE appendConsoleLine(h[i - 1], lines[i])]
  <2>1. ASSUME NEW i \in 0..(k + 1) PROVE h[i] = hh[i]
    <3>1. CASE i = 0
      BY <3>1
    <3>2. CASE i = k + 1
      BY <3>2
    <3>3. CASE i \in 1..k
      BY <3>3
    <3> QED
      BY <3>1, <3>2, <3>3
  <2>2. h = hh
    BY <2>1
  <2>3. Turns(h, k + 1)
    BY <2>2
  <2> QED
    BY <2>3
<1>3. \E g : Turns(g, n)
  <2>1. n \in S
    <3> HIDE DEF S
    <3> QED
      BY <1>1, <1>2, Induction
  <2> QED
    BY <2>1
<1>4. PICK after : Turns(after, n) /\ appendLines(page, lines) = after[n]
  <2> DEFINE chosen == CHOOSE g : Turns(g, n)
  <2>1. Turns(chosen, n)
    BY <1>3
  <2>2. appendLines(page, lines) = chosen[n]
    BY DEF appendLines
  <2> QED
    BY <2>1, <2>2
<1>5. after[0] = page
  BY <1>4
<1>6. \A i \in 1..n : after[i] = appendConsoleLine(after[i - 1], lines[i])
  BY <1>4
<1> QED
  BY <1>4, <1>5, <1>6

Pages == [run : 0..NoRun, seq : 0..MaxSeq, log : Seq(Line)]
\* The page's watermark is not behind what it shows, which is in order.
Marked(p) == InOrder(p.log) /\ \A k \in DOMAIN p.log : p.log[k].seq <= p.seq

\* appendConsoleLine() of a line that is later than the page.
LEMMA LineAppended ==
  ASSUME NEW q \in Pages, NEW line \in Line, q.seq < line.seq,
         NEW r, r = appendConsoleLine(q, line)
  PROVE  /\ r \in Pages /\ r.run = q.run /\ r.seq = line.seq
         /\ \A x : Has(r.log, x) <=> Has(q.log, x) \/ x = line
         /\ Marked(q) => Marked(r)
<1>1. line.seq \in 1..MaxSeq /\ q.seq \in 0..MaxSeq /\ MaxSeq \in Nat /\ q.log \in Seq(Line)
  BY ConsoleAssumption DEF Line, Pages
<1>2. r = [q EXCEPT !.seq = line.seq, !.log = Append(q.log, line)]
  BY <1>1 DEF appendConsoleLine
<1>3. Append(q.log, line) \in Seq(Line) /\ line.seq \in 0..MaxSeq
  BY <1>1
<1>4. r \in Pages /\ r.run = q.run /\ r.seq = line.seq /\ r.log = Append(q.log, line)
  BY <1>2, <1>3 DEF Pages
<1> DEFINE n == Len(q.log)
<1>5. /\ n \in Nat /\ DOMAIN q.log = 1..n /\ DOMAIN r.log = 1..(n + 1)
      /\ \A k \in 1..n : r.log[k] = q.log[k] /\ q.log[k] \in Line
      /\ r.log[n + 1] = line
  BY <1>1, <1>4
<1>6. \A k \in 1..n : q.log[k].seq \in Nat
  BY <1>5, ConsoleAssumption DEF Line
<1> HIDE DEF n
<1>7. 1..(n + 1) = 1..n \cup {n + 1}
  BY <1>5
<1>8. \A x : Has(r.log, x) <=> Has(q.log, x) \/ x = line
  BY <1>5, <1>7 DEF Has
<1>9. ASSUME Marked(q) PROVE Marked(r)
  <2>1. \A k \in 1..n : q.log[k].seq < line.seq
    <3>1. \A k \in 1..n : q.log[k].seq <= q.seq
      BY <1>5, <1>9 DEF Marked
    <3>2. q.seq \in Nat /\ line.seq \in Nat
      BY <1>1
    <3> QED
      BY <1>6, <3>1, <3>2
  <2>2. \A k \in DOMAIN r.log : r.log[k].seq <= r.seq
    BY <1>1, <1>4, <1>5, <1>6, <1>7, <2>1
  <2>3. ASSUME NEW i \in DOMAIN r.log, NEW j \in DOMAIN r.log, i < j
        PROVE  r.log[i].seq < r.log[j].seq
    <3>1. i \in 1..n
      BY <1>5, <2>3
    <3> QED
      BY <1>5, <1>7, <1>9, <2>1, <2>3, <3>1 DEF Marked, InOrder
  <2> QED
    BY <2>2, <2>3 DEF Marked, InOrder
<1> QED
  BY <1>4, <1>8, <1>9

\* Page q is page p with those of the first m lines that are later than it.
Painted(p, q, lines, m) ==
  /\ q \in Pages /\ q.run = p.run /\ p.seq <= q.seq
  /\ \A i \in 1..m : lines[i].seq <= q.seq
  /\ q.seq = p.seq \/ \E i \in 1..m : q.seq = lines[i].seq
  /\ \A x : Has(p.log, x) => Has(q.log, x)
  /\ \A x : Has(q.log, x) => Has(p.log, x) \/ \E i \in 1..m : x = lines[i]
  /\ InOrder(lines) => \A i \in 1..m : p.seq < lines[i].seq => Has(q.log, lines[i])
  /\ Marked(p) => Marked(q)

\* One line more.
LEMMA OneLineMore ==
  ASSUME NEW p \in Pages, NEW q \in Pages, NEW lines \in Seq(Line),
         NEW m \in Nat, m + 1 <= Len(lines), Painted(p, q, lines, m),
         NEW r, r = appendConsoleLine(q, lines[m + 1])
  PROVE  Painted(p, r, lines, m + 1)
<1>1. PICK line : line = lines[m + 1]
  OBVIOUS
<1>2. line \in Line /\ DOMAIN lines = 1..Len(lines) /\ Len(lines) \in Nat
  BY <1>1
<1>3. line.seq \in Nat /\ q.seq \in Nat /\ p.seq \in Nat
  BY <1>2, ConsoleAssumption DEF Line, Pages
<1>4. \A i \in 1..m : lines[i].seq \in Nat /\ (InOrder(lines) => lines[i].seq < line.seq)
  <2> TAKE i \in 1..m
  <2>1. i \in DOMAIN lines /\ m + 1 \in DOMAIN lines /\ i < m + 1
    BY <1>2
  <2>2. lines[i] \in Line
    BY <1>2, <2>1
  <2>3. lines[i].seq \in Nat
    BY <2>2, ConsoleAssumption DEF Line
  <2> QED
    BY <1>1, <2>1, <2>3 DEF InOrder
<1>5. 1..(m + 1) = 1..m \cup {m + 1}
  OBVIOUS
<1>6. CASE line.seq <= q.seq
  <2>1. r = q
    BY <1>1, <1>6 DEF appendConsoleLine
  <2>2. InOrder(lines) => ~(p.seq < line.seq)
    BY <1>3, <1>4, <1>6 DEF Painted
  <2> QED
    BY <1>1, <1>5, <1>6, <2>1, <2>2 DEF Painted
<1>7. CASE q.seq < line.seq
  <2>1. /\ r \in Pages /\ r.run = q.run /\ r.seq = line.seq
        /\ \A x : Has(r.log, x) <=> Has(q.log, x) \/ x = line
        /\ Marked(q) => Marked(r)
    BY <1>1, <1>2, <1>7, LineAppended
  <2>2. r.run = p.run /\ p.seq <= r.seq
    BY <1>3, <1>7, <2>1 DEF Painted
  <2>3. \A i \in 1..(m + 1) : lines[i].seq <= r.seq
    BY <1>1, <1>3, <1>4, <1>5, <1>7, <2>1 DEF Painted
  <2>4. \E i \in 1..(m + 1) : r.seq = lines[i].seq
    BY <1>1, <2>1
  <2>5. \A x : Has(p.log, x) => Has(r.log, x)
    BY <2>1 DEF Painted
  <2>6. \A x : Has(r.log, x) => Has(p.log, x) \/ \E i \in 1..(m + 1) : x = lines[i]
    BY <1>1, <1>5, <2>1 DEF Painted
  <2>7. InOrder(lines) => \A i \in 1..(m + 1) : p.seq < lines[i].seq => Has(r.log, lines[i])
    BY <1>1, <1>5, <2>1 DEF Painted
  <2> QED
    BY <2>1, <2>2, <2>3, <2>4, <2>5, <2>6, <2>7 DEF Painted
<1> QED
  BY <1>3, <1>6, <1>7

\* appendLines() adds the lines that are later than the page, in order and once.
LEMMA LinesPainted ==
  ASSUME NEW p \in Pages, NEW lines \in Seq(Line)
  PROVE  Painted(p, appendLines(p, lines), lines, Len(lines))
<1>1. Len(lines) \in Nat
  OBVIOUS
<1>2. PICK after :
        /\ after[0] = p
        /\ \A i \in 1..Len(lines) : after[i] = appendConsoleLine(after[i - 1], lines[i])
        /\ appendLines(p, lines) = after[Len(lines)]
  BY <1>1, LinesInTurn
<1> DEFINE S == {m \in Nat : m <= Len(lines) => Painted(p, after[m], lines, m)}
<1>3. 0 \in S
  BY <1>2 DEF Painted, Has, Pages
<1>4. \A m \in Nat : m \in S => m + 1 \in S
  <2> SUFFICES ASSUME NEW m \in Nat, Painted(p, after[m], lines, m), m + 1 <= Len(lines)
               PROVE  Painted(p, after[m + 1], lines, m + 1)
    BY <1>1
  <2>1. after[m + 1] = appendConsoleLine(after[m], lines[m + 1])
    BY <1>1, <1>2
  <2>2. after[m] \in Pages
    BY DEF Painted
  <2> QED
    BY <2>1, <2>2, OneLineMore
<1>5. Len(lines) \in S
  <2> HIDE DEF S
  <2> QED
    BY <1>1, <1>3, <1>4, Induction
<1> QED
  BY <1>1, <1>2, <1>5

\* The numbers of lines, and the processes.
LEMMA EachLine ==
  ASSUME NEW lines \in Seq(Line)
  PROVE  \A i \in DOMAIN lines :
           /\ lines[i] \in Line
           /\ lines[i].seq \in Nat /\ lines[i].seq > 0 /\ lines[i].run \in Nat
           /\ lines[i].run # NoRun
<1> TAKE i \in DOMAIN lines
<1>1. lines[i] \in Line
  OBVIOUS
<1>2. lines[i].seq \in 1..MaxSeq /\ lines[i].run \in 1..MaxRuns
  BY <1>1 DEF Line
<1> QED
  BY <1>1, <1>2, ConsoleAssumption DEF NoRun

\* The last lines of a sequence.
LEMMA LastOnes ==
  ASSUME NEW S, NEW s \in Seq(S), NEW n \in Nat \ {0}
  PROVE  /\ LastOf(s, n) \in Seq(S) /\ Len(LastOf(s, n)) \in Nat
         /\ Len(LastOf(s, n)) = IF Len(s) <= n THEN Len(s) ELSE n
         /\ \A i \in 1..Len(LastOf(s, n)) :
              /\ i + (Len(s) - Len(LastOf(s, n))) \in 1..Len(s)
              /\ LastOf(s, n)[i] = s[i + (Len(s) - Len(LastOf(s, n)))]
<1>1. CASE Len(s) <= n
  BY <1>1 DEF LastOf
<1>2. CASE ~(Len(s) <= n)
  <2> DEFINE a == Len(s) - n + 1
             t == SubSeq(s, a, Len(s))
  <2>1. LastOf(s, n) = t /\ a \in 1..Len(s) /\ Len(s) \in Nat
    BY <1>2 DEF LastOf
  <2>2. t \in Seq(S) /\ Len(t) = n /\ \A i \in 1..n : t[i] = s[a + i - 1]
    BY <2>1, SubSeqProperties
  <2> HIDE DEF t
  <2> QED
    BY <1>2, <2>1, <2>2
<1> QED
  BY <1>1, <1>2

\* adoptRun() names the run; what it keeps on the page is of that run.
LEMMA RunAdopted ==
  ASSUME NEW p \in Pages, NEW r \in 0..MaxRuns, NEW q, q = adoptRun(p, r)
  PROVE  /\ q \in Pages /\ q.run = r /\ q.seq = p.seq
         /\ q.log = IF p.run \in {NoRun, r} THEN p.log ELSE <<>>
<1>1. NoRun \notin 0..MaxRuns /\ r \in 0..NoRun /\ r # NoRun
  BY ConsoleAssumption DEF NoRun
<1>2. <<>> \in Seq(Line)
  OBVIOUS
<1>3. CASE p.run = NoRun
  <2>1. q = [p EXCEPT !.run = r]
    BY <1>1, <1>3 DEF adoptRun
  <2> QED
    BY <1>1, <1>3, <2>1 DEF Pages
<1>4. CASE p.run = r
  <2>1. q = p
    BY <1>1, <1>4 DEF adoptRun
  <2> QED
    BY <1>1, <1>4, <2>1 DEF Pages
<1>5. CASE p.run # NoRun /\ p.run # r
  <2>1. q = [p EXCEPT !.run = r, !.log = <<>>]
    BY <1>5 DEF adoptRun
  <2> QED
    BY <1>1, <1>2, <1>5, <2>1 DEF Pages
<1> QED
  BY <1>3, <1>4, <1>5

----------------------------------------------------------------------------
(* Types *)

\* What the page is, and what its receiving the first event makes of it.
LEMMA Received ==
  ASSUME ConsoleTypeOK, Receive, NEW e, e = events[1]
  PROVE  /\ e \in Event /\ Page \in Pages /\ Page' \in Pages
         /\ \/ e.is = "history" /\ wireFresh /\ Page' = appendLines(adoptRun(Page, e.run), e.lines)
            \/ e.is = "line" /\ wireFresh /\ Page' = appendConsoleLine(Page, e.line)
            \/ e.is = "reset" /\ wireFresh /\ Page' = adoptRun(Page, e.run)
            \/ ~wireFresh
<1>1. Page \in Pages /\ e \in Event /\ e = Head(events)
  BY DEF ConsoleTypeOK, Page, Pages, Receive
<1>2. ASSUME NEW q, Shows(q), q \in Pages PROVE Page' = q
  BY <1>2 DEF Shows, Page, Pages
<1>3. CASE e.is = "history"
  <2>1. e.run \in 0..MaxRuns /\ e.lines \in Seq(Line)
    BY <1>1, <1>3 DEF Event
  <2>2. adoptRun(Page, e.run) \in Pages
    BY <1>1, <2>1, RunAdopted
  <2>3. appendLines(adoptRun(Page, e.run), e.lines) \in Pages
    BY <2>1, <2>2, LinesPainted DEF Painted
  <2>4. CASE wireFresh
    <3>1. Shows(appendLines(adoptRun(Page, e.run), e.lines))
      BY <1>1, <1>3, <2>4 DEF Receive
    <3> QED
      BY <1>1, <1>2, <1>3, <2>3, <2>4, <3>1
  <2>5. CASE ~wireFresh
    <3>1. Shows(adoptRun(Page, e.run))
      BY <1>1, <1>3, <2>5 DEF Receive
    <3> QED
      BY <1>1, <1>2, <1>3, <2>2, <2>5, <3>1
  <2> QED
    BY <2>4, <2>5
<1>4. CASE e.is # "history" /\ ~wireFresh
  <2>1. Shows(Page)
    BY <1>1, <1>4 DEF Receive
  <2> QED
    BY <1>1, <1>2, <1>4, <2>1
<1>5. CASE e.is = "line" /\ wireFresh
  <2>1. Shows(appendConsoleLine(Page, e.line))
    BY <1>1, <1>5 DEF Receive
  <2>2. e.line \in Line /\ e.line.seq \in Nat /\ Page.seq \in Nat
    BY <1>1, <1>5, ConsoleAssumption DEF Event, Line, Pages
  <2>3. appendConsoleLine(Page, e.line) \in Pages
    <3>1. CASE e.line.seq <= Page.seq
      BY <1>1, <3>1 DEF appendConsoleLine
    <3>2. CASE Page.seq < e.line.seq
      BY <1>1, <2>2, <3>2, LineAppended
    <3> QED
      BY <2>2, <3>1, <3>2
  <2> QED
    BY <1>1, <1>2, <1>5, <2>1, <2>3
<1>6. CASE e.is = "reset" /\ wireFresh
  <2>1. e.run \in 0..MaxRuns
    BY <1>1, <1>6 DEF Event
  <2>2. adoptRun(Page, e.run) \in Pages
    BY <1>1, <2>1, RunAdopted
  <2>3. Shows(adoptRun(Page, e.run))
    BY <1>1, <1>6 DEF Receive
  <2> QED
    BY <1>1, <1>2, <1>6, <2>2, <2>3
<1>7. e.is \in {"history", "line", "reset"} /\ wireFresh \in BOOLEAN
  BY <1>1 DEF Event, ConsoleTypeOK
<1> QED
  BY <1>3, <1>4, <1>5, <1>6, <1>7

\* The page that an answer, or a refusal, of the history read paints.
LEMMA HistoryShown ==
  ASSUME ConsoleTypeOK, HistoryRead
  PROVE  /\ Page' \in Pages
         /\ \/ /\ read.is = "answer"
               /\ read \in HistoryAnswer
               /\ [run |-> read.run, seq |-> 0, log |-> <<>>] \in Pages
               /\ Page' = appendLines([run |-> read.run, seq |-> 0, log |-> <<>>], read.lines)
            \/ /\ read.is = "asked"
               /\ [run |-> consoleRun, seq |-> 0, log |-> <<>>] \in Pages
               /\ Page' = appendLines([run |-> consoleRun, seq |-> 0, log |-> <<>>], <<>>)
<1>1. Page \in Pages
  BY DEF ConsoleTypeOK, Page, Pages
<1>2. ASSUME NEW q, Shows(q), q \in Pages PROVE Page' = q
  BY <1>2 DEF Shows, Page, Pages
<1>3. ASSUME NEW p \in Pages PROVE [p EXCEPT !.seq = 0, !.log = <<>>] = [run |-> p.run, seq |-> 0, log |-> <<>>]
                               /\ [run |-> p.run, seq |-> 0, log |-> <<>>] \in Pages
  <2>1. 0 \in 0..MaxSeq /\ <<>> \in Seq(Line)
    BY ConsoleAssumption
  <2>2. p.run \in 0..NoRun /\ p = [run |-> p.run, seq |-> p.seq, log |-> p.log]
    BY DEF Pages
  <2>3. [p EXCEPT !.seq = 0, !.log = <<>>] = [run |-> p.run, seq |-> 0, log |-> <<>>]
    <3>1. PICK q : q = [p EXCEPT !.seq = 0, !.log = <<>>]
      OBVIOUS
    <3>2. q \in Pages /\ q.run = p.run /\ q.seq = 0 /\ q.log = <<>>
      BY <2>1, <3>1 DEF Pages
    <3>3. q = [run |-> p.run, seq |-> 0, log |-> <<>>]
      BY <3>2 DEF Pages
    <3> QED
      BY <3>1, <3>3
  <2>4. [run |-> p.run, seq |-> 0, log |-> <<>>] \in Pages
    BY <2>1, <2>2 DEF Pages
  <2> QED
    BY <2>3, <2>4
<1>4. CASE /\ read # [is |-> "none"] /\ read # [is |-> "asked"]
           /\ Shows(resetConsoleHistory(adoptRun(Page, read.run), read.lines))
  <2>1. read \in HistoryAnswer
    BY <1>4 DEF ConsoleTypeOK
  <2>2. read.is = "answer" /\ read.run \in 0..MaxRuns /\ read.lines \in Seq(Line)
    BY <2>1 DEF HistoryAnswer
  <2>3. adoptRun(Page, read.run) \in Pages /\ adoptRun(Page, read.run).run = read.run
    BY <1>1, <2>2, RunAdopted
  <2>4. PICK blank : blank = [run |-> read.run, seq |-> 0, log |-> <<>>]
    OBVIOUS
  <2>5. blank \in Pages
        /\ Shows(appendLines(blank, read.lines))
    BY <1>3, <1>4, <2>3, <2>4 DEF resetConsoleHistory
  <2>6. appendLines(blank, read.lines) \in Pages
    BY <2>2, <2>5, LinesPainted DEF Painted
  <2> QED
    BY <1>2, <2>1, <2>2, <2>4, <2>5, <2>6
<1>5. CASE read = [is |-> "asked"] /\ Shows(resetConsoleHistory(Page, <<>>))
  <2>1. PICK blank : blank = [run |-> consoleRun, seq |-> 0, log |-> <<>>]
    OBVIOUS
  <2>2. blank \in Pages /\ Shows(appendLines(blank, <<>>))
    BY <1>1, <1>3, <1>5, <2>1 DEF resetConsoleHistory, Page
  <2>3. appendLines(blank, <<>>) \in Pages
    <3>1. <<>> \in Seq(Line)
      OBVIOUS
    <3> QED
      BY <2>2, <3>1, LinesPainted DEF Painted
  <2> QED
    BY <1>2, <1>5, <2>1, <2>2, <2>3
<1> QED
  BY <1>4, <1>5 DEF HistoryRead

\* Lines of console r, numbered without a gap to s, written by the processes that w
\* gives: the last ones are, too.
Numbered(lines, s, r, w) ==
  \A i \in DOMAIN lines :
    lines[i] = [seq |-> s - Len(lines) + i, run |-> r, of |-> w[s - Len(lines) + i]]
LEMMA SlotsLast ==
  ASSUME NEW h \in Seq(Line), NEW s \in Nat, NEW r, NEW w, NEW n \in Nat \ {0},
         Numbered(h, s, r, w)
  PROVE  /\ LastOf(h, n) \in Seq(Line) /\ Numbered(LastOf(h, n), s, r, w)
         /\ Len(LastOf(h, n)) = IF Len(h) <= n THEN Len(h) ELSE n
<1>1. /\ LastOf(h, n) \in Seq(Line)
      /\ Len(LastOf(h, n)) = IF Len(h) <= n THEN Len(h) ELSE n
      /\ \A i \in 1..Len(LastOf(h, n)) :
            /\ i + (Len(h) - Len(LastOf(h, n))) \in 1..Len(h)
            /\ LastOf(h, n)[i] = h[i + (Len(h) - Len(LastOf(h, n)))]
  BY ONLY h \in Seq(Line), n \in Nat \ {0}, LastOnes
<1>2. /\ Len(LastOf(h, n)) \in Nat /\ DOMAIN LastOf(h, n) = 1..Len(LastOf(h, n))
      /\ Len(h) \in Nat /\ DOMAIN h = 1..Len(h)
  BY <1>1
<1>3. ASSUME NEW i \in 1..Len(LastOf(h, n))
      PROVE  LastOf(h, n)[i] = [seq |-> s - Len(LastOf(h, n)) + i, run |-> r,
                                of |-> w[s - Len(LastOf(h, n)) + i]]
  <2>1. PICK j : j = i + (Len(h) - Len(LastOf(h, n)))
    OBVIOUS
  <2>2. j \in 1..Len(h) /\ LastOf(h, n)[i] = h[j]
    BY <1>1, <2>1
  <2>3. s - Len(h) + j = s - Len(LastOf(h, n)) + i
    BY <1>2, <2>1
  <2> QED
    BY <1>2, <2>2, <2>3 DEF Numbered
<1> QED
  BY <1>1, <1>2, <1>3 DEF Numbered

\* The lines of the slot are numbered so, whoever wrote them.
LEMMA WhoWrote ==
  ASSUME ConsoleTypeOK, SlotInv
  PROVE  \E w : Numbered(history, seq, run, w)
<1>1. history \in Seq(Line) /\ seq \in Nat /\ Len(history) \in Nat /\ DOMAIN history = 1..Len(history)
  BY ConsoleAssumption DEF ConsoleTypeOK
<1>2. PICK w : w = [m \in Int |-> history[m - (seq - Len(history))].of]
  OBVIOUS
<1>3. ASSUME NEW i \in DOMAIN history
      PROVE  history[i] = [seq |-> seq - Len(history) + i, run |-> run,
                           of |-> w[seq - Len(history) + i]]
  <2>1. PICK m : m = seq - Len(history) + i
    OBVIOUS
  <2>2. m \in Int /\ m - (seq - Len(history)) = i
    BY <1>1, <2>1
  <2>3. w[m] = history[i].of
    BY <1>2, <2>2
  <2>4. history[i] \in Line /\ history[i].seq = m /\ history[i].run = run
    BY <1>1, <2>1 DEF SlotInv
  <2> QED
    BY <2>1, <2>3, <2>4 DEF Line
<1> QED
  BY <1>3 DEF Numbered

Limits == HistoryLimit \in Nat \ {0} /\ ReplayLimit \in Nat \ {0} /\ ReplayLimit <= HistoryLimit
\* What emit() does with a line, of whichever process.
Printed(line) ==
  /\ line \in {[seq |-> seq + 1, run |-> run, of |-> p] : p \in 1..run}
  /\ history' = LastOf(Append(history, line), HistoryLimit)
  /\ \/ /\ events' = IF wire = "joined" THEN Append(events, [is |-> "line", line |-> line])
                     ELSE events
        /\ UNCHANGED lost
     \/ wire = "joined" /\ lost' = lost \cup {seq + 1} /\ UNCHANGED events
LEMMA ALine == ASSUME emit PROVE \E line : Printed(line)
<1>1. PICK p \in 1..run :
        LET line == [seq |-> seq + 1, run |-> run, of |-> p] IN
        /\ history' = LastOf(Append(history, line), HistoryLimit)
        /\ \/ Send([is |-> "line", line |-> line]) /\ UNCHANGED lost
           \/ wire = "joined" /\ lost' = lost \cup {seq + 1} /\ UNCHANGED events
  BY DEF emit
<1>2. Printed([seq |-> seq + 1, run |-> run, of |-> p])
  BY <1>1 DEF Send, Printed
<1> QED
  BY <1>2

\* What emit() makes of the slot: the line at the end of the last ones.
LEMMA Emitted ==
  ASSUME ConsoleTypeOK, SlotInv, emit, NEW line, Printed(line)
  PROVE  /\ line \in Line /\ history' \in Seq(Line) /\ Len(history') <= HistoryLimit
         /\ SlotInv'
         /\ \A k \in DOMAIN history' :
              history'[k] = line \/ \E j \in DOMAIN history : history'[k] = history[j]
         /\ \A k \in DOMAIN Recent' :
              Recent'[k] = line \/ \E j \in DOMAIN Recent : Recent'[k] = Recent[j]
<1>0. Limits
  BY ConsoleAssumption DEF Limits
<1>1. run \in 0..MaxRuns /\ seq \in 0..MaxSeq /\ history \in Seq(Line) /\ run > 0 /\ seq < MaxSeq
      /\ seq' = seq + 1 /\ run' = run /\ seq \in Nat /\ Len(history) <= HistoryLimit
      /\ Len(history) \in Nat
  BY ConsoleAssumption DEF ConsoleTypeOK, emit
<1>19. PICK p \in 1..run : line = [seq |-> seq + 1, run |-> run, of |-> p]
  BY DEF Printed
<1>2. line \in Line
  BY <1>1, <1>19, ConsoleAssumption DEF Line
<1>15. PICK w : Numbered(history, seq, run, w)
  BY WhoWrote
<1>16. PICK v : v = [m \in Nat |-> IF m = seq + 1 THEN p ELSE w[m]]
  OBVIOUS
<1>17. line = [seq |-> seq + 1, run |-> run, of |-> v[seq + 1]]
  BY <1>1, <1>16, <1>19
<1>18. ASSUME NEW i \in 1..Len(history)
       PROVE  history[i] = [seq |-> seq - Len(history) + i, run |-> run,
                            of |-> v[seq - Len(history) + i]]
  <2>1. /\ seq - Len(history) + i \in Nat /\ seq - Len(history) + i # seq + 1
        /\ history[i] = [seq |-> seq - Len(history) + i, run |-> run,
                         of |-> w[seq - Len(history) + i]]
    <3>1. history[i] \in Line /\ history[i].seq = seq - Len(history) + i
      BY <1>1 DEF SlotInv
    <3>2. history[i].seq \in Nat
      BY <3>1, ConsoleAssumption DEF Line
    <3> QED
      BY <1>1, <1>15, <3>1, <3>2 DEF Numbered
  <2> QED
    BY <1>16, <2>1
<1>3. PICK h : h = Append(history, line)
  OBVIOUS
<1>4. h \in Seq(Line) /\ Len(h) = Len(history) + 1
  BY <1>1, <1>2, <1>3
<1>5. Numbered(h, seq + 1, run, v)
  <2> SUFFICES ASSUME NEW i \in DOMAIN h
               PROVE  h[i] = [seq |-> (seq + 1) - Len(h) + i, run |-> run,
                              of |-> v[(seq + 1) - Len(h) + i]]
    BY DEF Numbered
  <2>1. CASE i = Len(history) + 1
    <3>1. h[i] = line /\ (seq + 1) - Len(h) + i = seq + 1
      BY <1>1, <1>2, <1>3, <1>4, <2>1
    <3> QED
      BY <1>17, <3>1
  <2>2. CASE i \in 1..Len(history)
    <3>1. h[i] = history[i] /\ history[i] = [seq |-> seq - Len(history) + i, run |-> run,
                                            of |-> v[seq - Len(history) + i]]
      BY <1>1, <1>2, <1>3, <1>18, <2>2
    <3>2. seq - Len(history) + i = (seq + 1) - Len(h) + i
      BY <1>1, <1>4, <2>2
    <3> QED
      BY <3>1, <3>2
  <2> QED
    BY <1>4, <2>1, <2>2
<1>6. history' = LastOf(h, HistoryLimit)
  BY <1>3 DEF Printed
<1>7. /\ history' \in Seq(Line)
      /\ Len(history') = IF Len(h) <= HistoryLimit THEN Len(h) ELSE HistoryLimit
      /\ Numbered(history', seq + 1, run, v)
  <2>1. seq + 1 \in Nat /\ HistoryLimit \in Nat \ {0}
    BY <1>0, <1>1 DEF Limits
  <2> QED
    BY ONLY <1>4, <1>5, <1>6, <2>1, SlotsLast
<1>8. SlotInv'
  BY <1>1, <1>7 DEF SlotInv, Numbered
<1>9. Len(history') <= HistoryLimit
  BY <1>0, <1>1, <1>4, <1>7 DEF Limits
<1>10. PICK old, new : old = Recent /\ new = Recent'
  OBVIOUS
<1>11. /\ old \in Seq(Line)
       /\ Len(old) = IF Len(history) <= ReplayLimit THEN Len(history) ELSE ReplayLimit
       /\ Numbered(old, seq, run, v)
  <2>1. old = LastOf(history, ReplayLimit) /\ ReplayLimit \in Nat \ {0}
    BY <1>0, <1>10 DEF Recent, Limits
  <2>2. Numbered(history, seq, run, v)
    <3>1. DOMAIN history = 1..Len(history)
      BY <1>1
    <3> QED
      BY <1>18, <3>1 DEF Numbered
  <2> QED
    BY ONLY <1>1, <2>1, <2>2, SlotsLast
<1>12. /\ new \in Seq(Line)
       /\ Len(new) = IF Len(history') <= ReplayLimit THEN Len(history') ELSE ReplayLimit
       /\ Numbered(new, seq + 1, run, v)
  <2>1. new = LastOf(history', ReplayLimit) /\ ReplayLimit \in Nat \ {0} /\ seq + 1 \in Nat
    BY <1>0, <1>1, <1>10 DEF Recent, Limits
  <2> QED
    BY ONLY <1>7, <2>1, SlotsLast
<1>13. ASSUME NEW k \in DOMAIN history'
       PROVE  history'[k] = line \/ \E j \in DOMAIN history : history'[k] = history[j]
  <2>1. k \in 1..Len(history') /\ Len(history') \in Nat
    BY <1>7
  <2>2. CASE k = Len(history')
    <3>1. (seq + 1) - Len(history') + k = seq + 1
      BY <1>1, <2>1, <2>2
    <3> QED
      BY <1>7, <1>17, <2>1, <3>1 DEF Numbered
  <2>3. CASE k # Len(history')
    <3>1. PICK j : j = k + 1 - Len(history') + Len(history)
      OBVIOUS
    <3>2. j \in 1..Len(history) /\ (seq + 1) - Len(history') + k = seq - Len(history) + j
      <4>1. Len(history') = Len(history) + 1 \/ Len(history') = Len(history)
        BY <1>0, <1>1, <1>4, <1>7 DEF Limits
      <4>2. k \in Nat
        BY <2>1
      <4> QED
        BY <1>1, <2>1, <2>3, <3>1, <4>1, <4>2
    <3>3. j \in DOMAIN history /\ history[j] = [seq |-> seq - Len(history) + j, run |-> run,
                                               of |-> v[seq - Len(history) + j]]
      BY <1>1, <1>18, <3>2
    <3>4. history'[k] = history[j]
      BY <1>7, <3>2, <3>3 DEF Numbered
    <3> QED
      BY <3>3, <3>4
  <2> QED
    BY <2>2, <2>3
<1>14. ASSUME NEW k \in DOMAIN new PROVE new[k] = line \/ \E j \in DOMAIN old : new[k] = old[j]
  <2>1. k \in 1..Len(new) /\ Len(new) \in Nat /\ Len(old) \in Nat
    BY <1>11, <1>12
  <2>2. CASE k = Len(new)
    BY <1>1, <1>12, <1>17, <2>1, <2>2 DEF Numbered
  <2>3. CASE k # Len(new)
    <3>1. PICK j : j = k + 1 - Len(new) + Len(old)
      OBVIOUS
    <3>2. Len(new) <= Len(old) + 1
      BY <1>0, <1>1, <1>4, <1>7, <1>11, <1>12 DEF Limits
    <3>3. j \in 1..Len(old) /\ (seq + 1) - Len(new) + k = seq - Len(old) + j
      BY <1>1, <2>1, <2>3, <3>1, <3>2
    <3>4. j \in DOMAIN old /\ old[j] = [seq |-> seq - Len(old) + j, run |-> run,
                                       of |-> v[seq - Len(old) + j]]
      BY <1>11, <3>3 DEF Numbered
    <3>5. new[k] = old[j]
      BY <1>12, <3>3, <3>4 DEF Numbered
    <3> QED
      BY <3>4, <3>5
  <2> QED
    BY <2>2, <2>3
<1> QED
  BY <1>2, <1>7, <1>8, <1>9, <1>10, <1>13, <1>14

\* The type invariant, one action at a time.
LEMMA ConsoleTypeStep ==
  ASSUME ConsoleTypeOK, SlotInv, [ConsoleNext]_consoleVars PROVE ConsoleTypeOK'
<1>0. 0 \in 0..MaxSeq /\ NoRun \in 0..NoRun /\ 0..MaxRuns \subseteq 0..NoRun /\ 0 \in 0..MaxRuns
      /\ <<>> \in Seq(Line) /\ Len(<<>>) = 0 /\ 0 <= HistoryLimit
  BY ConsoleAssumption DEF NoRun
<1>1. CASE emit
  <2>1. PICK line : Printed(line)
    BY <1>1, ALine
  <2>2. line \in Line /\ history' \in Seq(Line) /\ Len(history') <= HistoryLimit
    BY <1>1, <2>1, Emitted
  <2>3. seq' \in 0..MaxSeq /\ seq + 1 \in 1..MaxSeq /\ run' \in 0..MaxRuns
    BY <1>1, ConsoleAssumption DEF ConsoleTypeOK, emit
  <2>4. events' \in Seq(Event) /\ (events' # <<>> => wire' = "joined")
    <3>1. PICK e : e = [is |-> "line", line |-> line]
      OBVIOUS
    <3>2. e \in Event
      BY <2>2, <3>1 DEF Event
    <3>3. events' = events \/ (wire = "joined" /\ events' = Append(events, e))
      BY <2>1, <3>1 DEF Printed
    <3>4. wire' = wire /\ events \in Seq(Event) /\ (events # <<>> => wire = "joined")
      BY <1>1 DEF ConsoleTypeOK, emit
    <3> QED
      BY <3>2, <3>3, <3>4
  <2>5. lost' \subseteq 1..MaxSeq
    BY <1>1, <2>3 DEF ConsoleTypeOK, emit
  <2> QED
    BY <1>1, <2>2, <2>3, <2>4, <2>5 DEF ConsoleTypeOK, emit, readVars, pageVars
<1>2. CASE start
  <2>1. run' \in 0..MaxRuns
    BY <1>2, ConsoleAssumption DEF ConsoleTypeOK, start
  <2>2. events' \in Seq(Event) /\ (events' # <<>> => wire' = "joined")
    <3>1. [is |-> "reset", run |-> run + 1] \in Event
      BY <1>2, <2>1 DEF Event, start
    <3> QED
      BY <1>2, <3>1 DEF ConsoleTypeOK, start, Send
  <2> QED
    BY <1>0, <1>2, <2>1, <2>2 DEF ConsoleTypeOK, start, readVars, pageVars
<1>3. CASE PanelRestart
  <2>1. <<>> \in Seq(Event)
    OBVIOUS
  <2> QED
    BY <1>0, <1>3, <2>1 DEF ConsoleTypeOK, PanelRestart, readVars, pageVars
<1>4. CASE join
  <2>1. Recent \in Seq(Line)
    BY ConsoleAssumption, LastOnes DEF ConsoleTypeOK, Recent
  <2>2. [is |-> "history", run |-> run, lines |-> Recent] \in Event
    BY <2>1 DEF Event, ConsoleTypeOK
  <2>3. events' \in Seq(Event) /\ wire' = "joined" /\ lost' \subseteq lost
    BY <1>4, <2>2 DEF join, Recent
  <2> QED
    BY <1>4, <2>3 DEF ConsoleTypeOK, join, slotVars, readVars, pageVars
<1>5. CASE Disconnect
  <2>1. <<>> \in Seq(Event)
    OBVIOUS
  <2> QED
    BY <1>5, <2>1 DEF ConsoleTypeOK, Disconnect, slotVars, readVars, pageVars
<1>6. CASE ReadHistory
  <2>1. read' \in HistoryAnswer
    BY <1>6 DEF ConsoleTypeOK, ReadHistory, HistoryAnswer
  <2>2. read'.is = "answer"
    BY <2>1 DEF HistoryAnswer
  <2> QED
    BY <1>6, <2>1, <2>2 DEF ConsoleTypeOK, ReadHistory, slotVars, wireVars, pageVars
<1>7. CASE Receive
  <2>1. PICK e : e = events[1]
    OBVIOUS
  <2>2. Page' \in Pages
    BY <1>7, <2>1, Received
  <2>3. events # <<>> /\ events' = Tail(events) /\ events \in Seq(Event)
    BY <1>7 DEF Receive, ConsoleTypeOK
  <2>4. events' \in Seq(Event)
    BY <2>3
  <2> QED
    BY <1>7, <2>2, <2>3, <2>4 DEF ConsoleTypeOK, Receive, Page, Pages, slotVars, readVars
<1>8. CASE HistoryRead
  <2>1. Page' \in Pages
    BY <1>8, HistoryShown
  <2>2. read' = [is |-> "none"] /\ joinAfter' = FALSE
    BY <1>8 DEF HistoryRead
  <2>3. lost' \subseteq 1..MaxSeq
    BY <1>8 DEF HistoryRead, ConsoleTypeOK
  <2>4. /\ wire' \in {"none", "joining", "joined"} /\ wireFresh' \in BOOLEAN
        /\ events' \in Seq(Event) /\ (events' # <<>> => wire' = "joined")
    <3>1. <<>> \in Seq(Event)
      OBVIOUS
    <3> QED
      BY <1>8, <3>1 DEF HistoryRead, ConsoleTypeOK, joinConsoleSocket, wireVars
  <2>5. consoleRun' \in 0..NoRun /\ consoleSeq' \in 0..MaxSeq /\ log' \in Seq(Line)
    BY <2>1 DEF Page, Pages
  <2>6. UNCHANGED <<run, seq, history, unsettled>>
    BY <1>8 DEF HistoryRead, slotVars
  <2> QED
    BY <2>2, <2>3, <2>4, <2>5, <2>6 DEF ConsoleTypeOK
<1>9. CASE Load
  BY <1>9 DEF ConsoleTypeOK, Load, slotVars, pageVars
<1>10. CASE Leave
  <2>1. <<>> \in Seq(Event)
    OBVIOUS
  <2> QED
    BY <1>0, <1>10, <2>1 DEF ConsoleTypeOK, Leave, slotVars
<1>11. CASE PageRestored
  <2>1. <<>> \in Seq(Event)
    OBVIOUS
  <2> QED
    BY <1>11, <2>1 DEF ConsoleTypeOK, PageRestored, joinConsoleSocket, slotVars, pageVars
<1>12. CASE UNCHANGED consoleVars
  BY <1>12 DEF ConsoleTypeOK, consoleVars, slotVars, wireVars, readVars, pageVars
<1> QED
  BY <1>1, <1>2, <1>3, <1>4, <1>5, <1>6, <1>7, <1>8, <1>9, <1>10, <1>11, <1>12 DEF ConsoleNext

----------------------------------------------------------------------------
(* The slot, and what was read from it *)

LEMMA SlotStep ==
  ASSUME ConsoleTypeOK, SlotInv, [ConsoleNext]_consoleVars PROVE SlotInv'
<1>1. CASE emit
  <2>1. PICK line : Printed(line)
    BY <1>1, ALine
  <2> QED
    BY <1>1, <2>1, Emitted
<1>2. CASE start \/ PanelRestart
  BY <1>2 DEF start, PanelRestart, SlotInv
<1>3. CASE UNCHANGED slotVars
  BY <1>3 DEF slotVars, SlotInv
<1> QED
  BY <1>1, <1>2, <1>3 DEF ConsoleNext, join, Disconnect, ReadHistory, Receive, HistoryRead,
     Load, Leave, PageRestored, consoleVars

\* The lines of the slot, and of a replay, are of its process and not after its count.
LEMMA SlotLines ==
  ASSUME ConsoleTypeOK, SlotInv, NEW lines, lines \in {history, Recent}
  PROVE  /\ lines \in Seq(Line) /\ Copied(lines, run)
         /\ \A k \in DOMAIN lines : \E j \in DOMAIN history : lines[k] = history[j]
<1>8. PICK w : Numbered(history, seq, run, w)
  BY WhoWrote
<1>1. history \in Seq(Line) /\ seq \in Nat /\ run \in Nat /\ ReplayLimit \in Nat \ {0}
  BY ConsoleAssumption DEF ConsoleTypeOK
<1>2. Recent \in Seq(Line) /\ Numbered(Recent, seq, run, w)
  BY ONLY <1>1, <1>8, SlotsLast DEF Recent
<1>3. lines \in Seq(Line) /\ Numbered(lines, seq, run, w)
  BY <1>1, <1>2, <1>8
<1>4. Len(lines) \in Nat /\ DOMAIN lines = 1..Len(lines)
  BY <1>3
<1>5. \A i \in DOMAIN lines : lines[i].seq = seq - Len(lines) + i /\ lines[i].run = run
  BY <1>3 DEF Numbered
<1>6. Copied(lines, run)
  <2>1. \A i \in DOMAIN lines : lines[i].seq <= seq
    BY <1>1, <1>4, <1>5
  <2>2. InOrder(lines)
    BY <1>1, <1>4, <1>5 DEF InOrder
  <2> QED
    BY <1>1, <1>5, <2>1, <2>2 DEF Copied, OneConsole
<1>7. ASSUME NEW k \in DOMAIN lines PROVE \E j \in DOMAIN history : lines[k] = history[j]
  <2>1. CASE lines = history
    BY <2>1
  <2>2. CASE lines = LastOf(history, ReplayLimit)
    <3>1. \A i \in 1..Len(LastOf(history, ReplayLimit)) :
              /\ i + (Len(history) - Len(LastOf(history, ReplayLimit))) \in 1..Len(history)
              /\ LastOf(history, ReplayLimit)[i] =
                   history[i + (Len(history) - Len(LastOf(history, ReplayLimit)))]
      BY ONLY <1>1, LastOnes
    <3> QED
      BY <1>1, <1>4, <2>2, <3>1
  <2> QED
    BY <2>1, <2>2 DEF Recent
<1> QED
  BY <1>3, <1>6, <1>7

\* What was taken from the slot once stays what can have been.
LEMMA CopiedOn ==
  ASSUME ConsoleTypeOK, SlotInv, emit \/ start \/ UNCHANGED slotVars,
         NEW lines \in Seq(Line), NEW r \in Nat, Copied(lines, r)
  PROVE  Copied(lines, r)'
<1>1. run \in Nat /\ seq \in Nat /\ history \in Seq(Line)
  BY ConsoleAssumption DEF ConsoleTypeOK
<1>2. \A i \in DOMAIN lines : lines[i].seq \in Nat
  BY EachLine
<1>3. CASE emit
  <2>1. PICK line : Printed(line)
    BY <1>3, ALine
  <2>2. \A k \in DOMAIN history' :
          history'[k] = line \/ \E j \in DOMAIN history : history'[k] = history[j]
    BY <1>3, <2>1, Emitted
  <2>3. seq' = seq + 1 /\ run' = run
    BY <1>3 DEF emit
  <2>4. \A i \in DOMAIN lines : lines[i].seq <= seq' /\ lines[i].seq < line.seq
    BY <1>1, <1>2, <2>1, <2>3 DEF Copied, Printed
  <2>5. ASSUME r # run', NEW i \in DOMAIN lines, NEW k \in DOMAIN history'
        PROVE  lines[i].seq < history'[k].seq
    BY <2>2, <2>3, <2>4, <2>5 DEF Copied
  <2> QED
    BY <2>3, <2>4, <2>5 DEF Copied, InOrder, OneConsole
<1>4. CASE start
  <2>1. run' = run + 1 /\ seq' = seq /\ history' = <<>>
    BY <1>4 DEF start
  <2> QED
    BY <1>1, <2>1 DEF Copied, InOrder, OneConsole
<1>5. CASE UNCHANGED slotVars
  BY <1>5 DEF Copied, InOrder, OneConsole, slotVars
<1> QED
  BY <1>3, <1>4, <1>5

LEMMA ReadStep ==
  ASSUME ConsoleTypeOK, SlotInv, ReadInv, [ConsoleNext]_consoleVars PROVE ReadInv'
<1>1. CASE emit \/ start
  <2>1. UNCHANGED <<readVars, wireFresh, unsettled>>
    BY <1>1 DEF emit, start
  <2> SUFFICES ASSUME ~unsettled, read.is = "answer"
               PROVE  /\ Copied(read.lines, read.run)'
                      /\ (read.run = run)' =>
                           \A k \in DOMAIN history' :
                             \/ Has(read.lines, history'[k])
                             \/ \A i \in DOMAIN read.lines : read.lines[i].seq < history'[k].seq
    BY <2>1 DEF ReadInv, readVars, Has, Copied, InOrder, OneConsole
  <2>2. read.lines \in Seq(Line) /\ read.run \in 0..MaxRuns
    BY DEF ConsoleTypeOK, HistoryAnswer
  <2>3. PICK lines, r : lines = read.lines /\ r = read.run
    OBVIOUS
  <2>4. lines \in Seq(Line) /\ r \in Nat /\ Copied(lines, r) /\ lines = read'.lines /\ r = read'.run
    BY <2>1, <2>2, <2>3, ConsoleAssumption DEF ReadInv, readVars
  <2>5. Copied(lines, r)'
    BY <1>1, <2>4, CopiedOn
  <2>6. Copied(read.lines, read.run)'
    BY <2>4, <2>5 DEF Copied, InOrder, OneConsole
  <2>7. ASSUME r = run', NEW k \in DOMAIN history'
        PROVE  Has(lines, history'[k]) \/ \A i \in DOMAIN lines : lines[i].seq < history'[k].seq
    <3>1. CASE emit
      <4>1. PICK line : Printed(line)
        BY <3>1, ALine
      <4>2. history'[k] = line \/ \E j \in DOMAIN history : history'[k] = history[j]
        BY <2>7, <3>1, <4>1, Emitted
      <4>3. \A i \in DOMAIN lines : lines[i].seq < line.seq
        <5>1. \A i \in DOMAIN lines : lines[i].seq \in Nat /\ lines[i].seq <= seq
          BY <2>4, EachLine DEF Copied
        <5>2. line.seq = seq + 1 /\ seq \in Nat
          BY <4>1, ConsoleAssumption DEF ConsoleTypeOK, Printed
        <5> QED
          BY <5>1, <5>2
      <4>4. run' = run
        BY <3>1 DEF emit
      <4>5. \A j \in DOMAIN history :
              Has(lines, history[j]) \/ \A i \in DOMAIN lines : lines[i].seq < history[j].seq
        BY <2>3, <2>7, <4>4 DEF ReadInv
      <4> QED
        BY <4>2, <4>3, <4>5
    <3>2. CASE start
      BY <2>7, <3>2 DEF start
    <3> QED
      BY <1>1, <3>1, <3>2
  <2> QED
    BY <2>3, <2>4, <2>6, <2>7
<1>2. CASE PanelRestart \/ PageRestored
  BY <1>2 DEF PanelRestart, PageRestored, ReadInv
<1>3. CASE /\ UNCHANGED <<slotVars, readVars, wireFresh, unsettled>>
  BY <1>3 DEF ReadInv, slotVars, readVars, Copied, Has
<1>4. CASE ReadHistory
  <2>1. Copied(history, run)
    BY SlotLines
  <2>2. /\ read' = [is |-> "answer", run |-> run, lines |-> history]
        /\ UNCHANGED <<joinAfter, slotVars, wireVars, unsettled>>
    BY <1>4 DEF ReadHistory
  <2>3. read.is = "asked"
    BY <1>4 DEF ReadHistory
  <2> QED
    BY <2>1, <2>2, <2>3 DEF ReadInv, Copied, InOrder, OneConsole, Has, slotVars, wireVars
<1>5. CASE HistoryRead \/ Leave
  BY <1>5 DEF ReadInv, HistoryRead, Leave
<1>6. CASE Load
  BY <1>6 DEF ReadInv, Load
<1> QED
  BY <1>1, <1>2, <1>3, <1>4, <1>5, <1>6 DEF ConsoleNext, join, Disconnect, Receive,
     consoleVars, wireVars

----------------------------------------------------------------------------
(* The page *)

\* Lines of the page's process leave it with lines of one process, in order and once.
LEMMA PaintedOne ==
  ASSUME NEW p \in Pages, NEW q, NEW lines \in Seq(Line), Painted(p, q, lines, Len(lines)),
         Marked(p), OneConsole(p.log, p.run), OneConsole(lines, p.run)
  PROVE  /\ q \in Pages /\ Marked(q) /\ q.run = p.run /\ OneConsole(q.log, q.run)
         /\ q.seq = p.seq \/ \E i \in DOMAIN lines : q.seq = lines[i].seq
<1>1. DOMAIN lines = 1..Len(lines)
  OBVIOUS
<1>2. q \in Pages /\ Marked(q) /\ q.run = p.run
  BY DEF Painted
<1>3. ASSUME NEW i \in DOMAIN q.log PROVE q.log[i].run = q.run
  <2>1. Has(q.log, q.log[i])
    BY DEF Has
  <2>2. Has(p.log, q.log[i]) \/ \E j \in DOMAIN lines : q.log[i] = lines[j]
    BY <1>1, <2>1 DEF Painted
  <2> QED
    BY <1>2, <2>2 DEF Has, OneConsole
<1> QED
  BY <1>1, <1>2, <1>3 DEF Painted, OneConsole

\* An event received while the page follows: its process is named and its lines are added.
LEMMA FollowedEvent ==
  ASSUME ConsoleTypeOK, PageInv, StreamInv, Settled, Receive,
         NEW e, e = events[1], NEW q, q = adoptRun(Page, EventRun(e))
  PROVE  /\ Following /\ EventInv(1) /\ 1 \in DOMAIN events
         /\ Carried(e) \in Seq(Line) /\ EventRun(e) \in 0..MaxRuns
         /\ q \in Pages /\ q.run = EventRun(e) /\ q.seq = consoleSeq
         /\ q.log = IF consoleRun \in {NoRun, EventRun(e)} THEN log ELSE <<>>
         /\ Painted(q, Page', Carried(e), Len(Carried(e)))
<1>1. events # <<>> /\ events \in Seq(Event)
  BY DEF Receive, ConsoleTypeOK
<1>2. Following /\ 1 \in DOMAIN events /\ wireFresh
  BY <1>1 DEF Following, Settled, ConsoleTypeOK
<1>3. EventInv(1)
  BY <1>2 DEF StreamInv
<1>4. /\ e \in Event /\ Page \in Pages /\ Page' \in Pages
      /\ \/ e.is = "history" /\ Page' = appendLines(adoptRun(Page, e.run), e.lines)
         \/ e.is = "line" /\ Page' = appendConsoleLine(Page, e.line)
         \/ e.is = "reset" /\ Page' = adoptRun(Page, e.run)
  BY <1>2, Received
<1>5. Page.run = consoleRun /\ Page.seq = consoleSeq /\ Page.log = log
  BY DEF Page
<1>6. ASSUME EventRun(e) \in 0..MaxRuns
      PROVE  /\ q \in Pages /\ q.run = EventRun(e) /\ q.seq = consoleSeq
             /\ q.log = IF consoleRun \in {NoRun, EventRun(e)} THEN log ELSE <<>>
  BY <1>4, <1>5, <1>6, RunAdopted
<1>7. CASE e.is = "history"
  <2>1. Carried(e) = e.lines /\ EventRun(e) = e.run
    BY <1>7 DEF Carried, EventRun
  <2>2. e.lines \in Seq(Line) /\ e.run \in 0..MaxRuns
    BY <1>4, <1>7 DEF Event
  <2>3. Page' = appendLines(q, e.lines)
    BY <1>4, <1>7, <2>1
  <2>4. Painted(q, Page', e.lines, Len(e.lines))
    BY <1>6, <2>1, <2>2, <2>3, LinesPainted
  <2> QED
    BY <1>2, <1>3, <1>6, <2>1, <2>2, <2>4
<1>8. CASE e.is = "line"
  <2>1. Carried(e) = <<e.line>> /\ EventRun(e) = e.line.run
    BY <1>8 DEF Carried, EventRun
  <2>2. e.line \in Line
    BY <1>4, <1>8 DEF Event
  <2>3. e.line.run \in 0..MaxRuns
    BY <2>2, ConsoleAssumption DEF Line
  <2>4. e.line.run = consoleRun
    BY <1>3, <1>8 DEF EventInv, RunAfter
  <2>5. q = Page
    <3>1. consoleRun # NoRun
      BY <2>3, <2>4, ConsoleAssumption DEF NoRun
    <3> QED
      BY <1>5, <2>1, <2>4, <3>1 DEF adoptRun
  <2>6. Painted(q, q, <<e.line>>, 0)
    BY <1>4, <2>5, ConsoleAssumption DEF Painted, Pages, Has
  <2>7. Painted(q, Page', <<e.line>>, 1)
    <3>1. PICK lines : lines = <<e.line>>
      OBVIOUS
    <3>2. lines \in Seq(Line) /\ Len(lines) = 1 /\ lines[0 + 1] = e.line
      BY <2>2, <3>1
    <3>3. Page' = appendConsoleLine(q, lines[0 + 1])
      BY <1>4, <1>8, <2>5, <3>2
    <3>4. Painted(q, Page', lines, 0 + 1)
      <4>1. 0 \in Nat /\ 0 + 1 <= Len(lines) /\ q \in Pages /\ Painted(q, q, lines, 0)
        BY <1>4, <2>5, <2>6, <3>1, <3>2
      <4> QED
        BY ONLY <3>2, <3>3, <4>1, OneLineMore
    <3> QED
      BY <3>1, <3>4
  <2>8. <<e.line>> \in Seq(Line) /\ Len(<<e.line>>) = 1
    BY <2>2
  <2> QED
    BY <1>2, <1>3, <1>6, <2>1, <2>3, <2>7, <2>8
<1>9. CASE e.is = "reset"
  <2>1. Carried(e) = <<>> /\ EventRun(e) = e.run
    BY <1>9 DEF Carried, EventRun
  <2>2. e.run \in 0..MaxRuns
    BY <1>4, <1>9 DEF Event
  <2>3. Page' = q /\ q \in Pages
    BY <1>4, <1>6, <1>9, <2>1, <2>2
  <2>4. Painted(q, Page', <<>>, 0)
    BY <2>3, ConsoleAssumption DEF Painted, Pages, Has
  <2>5. <<>> \in Seq(Line) /\ Len(<<>>) = 0
    OBVIOUS
  <2> QED
    BY <1>2, <1>3, <1>6, <2>1, <2>2, <2>4, <2>5
<1> QED
  BY <1>4, <1>7, <1>8, <1>9

\* The page, when an event is received.
LEMMA PageReceives ==
  ASSUME ConsoleTypeOK, SlotInv, PageInv, StreamInv, Settled, Receive PROVE PageInv'
<1>1. PICK e : e = events[1]
  OBVIOUS
<1>2. PICK q : q = adoptRun(Page, EventRun(e))
  OBVIOUS
<1>3. PICK lines, r : lines = Carried(e) /\ r = EventRun(e)
  OBVIOUS
<1>4. /\ Following /\ EventInv(1) /\ 1 \in DOMAIN events
      /\ lines \in Seq(Line) /\ r \in 0..MaxRuns
      /\ q \in Pages /\ q.run = r /\ q.seq = consoleSeq
      /\ q.log = IF consoleRun \in {NoRun, r} THEN log ELSE <<>>
      /\ Painted(q, Page', lines, Len(lines))
  BY <1>1, <1>2, <1>3, FollowedEvent
<1>5. /\ Copied(lines, r)
      /\ consoleSeq # 0 => consoleRun <= r
  BY <1>1, <1>3, <1>4 DEF EventInv
<1>6. /\ consoleSeq <= seq /\ InOrder(log) /\ OneConsole(log, consoleRun)
      /\ \A i \in DOMAIN log : log[i].seq <= consoleSeq
      /\ consoleRun # run => \A k \in DOMAIN history : consoleSeq < history[k].seq
      /\ \A k \in DOMAIN Recent :
           Recent[k].seq <= consoleSeq => Recent[k].seq \in lost \/ Has(log, Recent[k])
  BY DEF PageInv
<1>7. /\ run \in Nat /\ seq \in Nat /\ consoleSeq \in Nat /\ consoleRun \in Nat /\ r \in Nat
      /\ history \in Seq(Line) /\ log \in Seq(Line)
  BY <1>4, ConsoleAssumption DEF ConsoleTypeOK, NoRun
<1>8. Recent \in Seq(Line) /\ \A k \in DOMAIN Recent : \E j \in DOMAIN history : Recent[k] = history[j]
  BY SlotLines
<1>9. UNCHANGED <<run, seq, history, lost, wireFresh, unsettled>> /\ Recent' = Recent
  BY DEF Receive, slotVars, Recent
<1>10. Marked(q) /\ OneConsole(q.log, q.run)
  <2>1. CASE q.log = <<>>
    BY <2>1 DEF Marked, InOrder, OneConsole
  <2>2. CASE q.log = log /\ consoleRun = r
    BY <1>4, <1>6, <2>2 DEF Marked
  <2>3. CASE q.log = log /\ consoleRun = NoRun
    <3>1. DOMAIN log = {}
      BY <1>6, <1>7, <2>3, EachLine DEF OneConsole
    <3> QED
      BY <2>3, <3>1 DEF Marked, InOrder, OneConsole
  <2> QED
    BY <1>4, <2>1, <2>2, <2>3
<1>11. /\ Page' \in Pages /\ Marked(Page') /\ Page'.run = r /\ OneConsole(Page'.log, r)
       /\ Page'.seq = consoleSeq \/ \E i \in DOMAIN lines : Page'.seq = lines[i].seq
  <2>1. OneConsole(lines, q.run)
    BY <1>4, <1>5 DEF Copied
  <2> QED
    BY <1>4, <1>10, <2>1, PaintedOne
<1>12. /\ consoleRun' = r /\ InOrder(log') /\ OneConsole(log', r)
       /\ \A i \in DOMAIN log' : log'[i].seq <= consoleSeq'
       /\ consoleSeq' = consoleSeq \/ \E i \in DOMAIN lines : consoleSeq' = lines[i].seq
       /\ consoleSeq' \in Nat
  BY <1>11, ConsoleAssumption DEF Page, Marked, Pages
<1>13. \A i \in DOMAIN lines : lines[i].seq \in Nat /\ lines[i].seq <= seq
  BY <1>4, <1>5, EachLine DEF Copied
<1>14. consoleSeq' <= seq
  BY <1>6, <1>12, <1>13
<1>15. ASSUME r # run, NEW k \in DOMAIN history PROVE consoleSeq' < history[k].seq
  <2>1. CASE consoleSeq' # consoleSeq
    BY <1>5, <1>12, <1>15, <2>1 DEF Copied
  <2>2. CASE consoleSeq' = consoleSeq
    <3>1. CASE consoleRun # run
      BY <1>6, <1>15, <2>2, <3>1
    <3>2. CASE consoleSeq = 0
      BY <1>7, <2>2, <3>2, EachLine
    <3>3. CASE consoleRun = run /\ consoleSeq # 0
      <4>1. r <= run /\ run <= r
        BY <1>5, <3>3 DEF Copied
      <4> QED
        BY <1>7, <1>15, <4>1
    <3> QED
      BY <3>1, <3>2, <3>3
  <2> QED
    BY <2>1, <2>2
<1>16. ASSUME NEW k \in DOMAIN Recent, Recent[k].seq <= consoleSeq', Recent[k].seq \notin lost
       PROVE  Has(log', Recent[k])
  <2>1. PICK j \in DOMAIN history : Recent[k] = history[j]
    BY <1>8
  <2>2. Recent[k].seq \in Nat /\ Recent[k].seq > 0
    BY <1>8, EachLine
  <2>3. r = run
    BY <1>12, <1>15, <1>16, <2>1, <2>2
  <2>4. CASE Recent[k].seq <= consoleSeq
    <3>1. Has(log, Recent[k])
      BY <1>6, <1>16, <2>4
    <3>2. consoleRun = run
      BY <1>6, <1>7, <2>1, <2>2, <2>4
    <3>3. Has(q.log, Recent[k])
      BY <1>4, <2>3, <3>1, <3>2
    <3> QED
      BY <1>4, <3>3 DEF Painted, Page
  <2>5. CASE consoleSeq < Recent[k].seq
    <3>1. PICK i \in DOMAIN events : Has(Carried(events[i]), Recent[k])
      BY <1>4, <1>7, <1>16, <2>2, <2>5 DEF StreamInv
    <3>2. i = 1
      <4> SUFFICES ASSUME i # 1 PROVE FALSE
        OBVIOUS
      <4>1. 1 < i
        BY DEF ConsoleTypeOK
      <4>2. OrderInv(1, i)
        BY <1>4, <3>1, <4>1 DEF StreamInv
      <4>3. \A a \in DOMAIN lines : lines[a].seq < Recent[k].seq
        BY <1>1, <1>3, <3>1, <4>2 DEF OrderInv, Has
      <4> QED
        BY <1>7, <1>12, <1>13, <1>16, <2>2, <2>5, <4>3
    <3>3. PICK a \in DOMAIN lines : lines[a] = Recent[k]
      BY <1>1, <1>3, <3>1, <3>2 DEF Has
    <3>4. InOrder(lines) /\ a \in 1..Len(lines) /\ q.seq < lines[a].seq
      BY <1>4, <1>5, <2>5, <3>3 DEF Copied
    <3>5. Has(Page'.log, lines[a])
      BY <1>4, <3>4 DEF Painted
    <3> QED
      BY <3>3, <3>5 DEF Page
  <2> QED
    BY <1>7, <2>2, <2>4, <2>5
<1>17. r <= run
  BY <1>5 DEF Copied
<1> QED
  BY <1>9, <1>12, <1>14, <1>15, <1>16, <1>17 DEF PageInv

\* The page, when a load's history is painted: from the answer, or from none.
LEMMA PageReads ==
  ASSUME ConsoleTypeOK, SlotInv, ReadInv, HistoryRead PROVE PageInv'
<1> SUFFICES ASSUME ~unsettled, wireFresh' PROVE PageInv'
  BY DEF HistoryRead, PageInv, Settled
<1>1. joinAfter /\ lost' = {} /\ UNCHANGED <<run, seq, history>> /\ Recent' = Recent
  <2>1. read.is # "none"
    BY HistoryShown
  <2>2. joinAfter
    BY <2>1 DEF ReadInv
  <2> QED
    BY <2>2 DEF HistoryRead, slotVars, Recent
<1>2. /\ run \in Nat /\ seq \in Nat /\ history \in Seq(Line) /\ consoleRun \in 0..NoRun
  BY ConsoleAssumption DEF ConsoleTypeOK
<1>3. Recent \in Seq(Line) /\ \A k \in DOMAIN Recent : \E j \in DOMAIN history : Recent[k] = history[j]
  BY SlotLines
<1>4. CASE read.is = "answer"
  <2>1. PICK lines, r, p : lines = read.lines /\ r = read.run /\ p = [run |-> r, seq |-> 0, log |-> <<>>]
    OBVIOUS
  <2>2. lines \in Seq(Line) /\ p \in Pages /\ Page' = appendLines(p, lines)
    BY <1>4, <2>1, HistoryShown DEF HistoryAnswer
  <2>3. /\ Copied(lines, r)
        /\ r = run => \A k \in DOMAIN history :
             Has(lines, history[k]) \/ \A i \in DOMAIN lines : lines[i].seq < history[k].seq
    BY <1>4, <2>1 DEF ReadInv
  <2>4. Painted(p, Page', lines, Len(lines))
    BY <2>2, LinesPainted
  <2>5. /\ Page' \in Pages /\ Marked(Page') /\ Page'.run = r /\ OneConsole(Page'.log, r)
        /\ Page'.seq = 0 \/ \E i \in DOMAIN lines : Page'.seq = lines[i].seq
    <3>1. Marked(p) /\ OneConsole(p.log, p.run) /\ OneConsole(lines, p.run) /\ p.seq = 0 /\ p.run = r
      BY <2>1, <2>3 DEF Marked, InOrder, OneConsole, Copied
    <3> QED
      BY <2>2, <2>4, <3>1, PaintedOne
  <2>6. /\ consoleRun' = r /\ InOrder(log') /\ OneConsole(log', r)
        /\ \A i \in DOMAIN log' : log'[i].seq <= consoleSeq'
        /\ consoleSeq' = 0 \/ \E i \in DOMAIN lines : consoleSeq' = lines[i].seq
        /\ consoleSeq' \in Nat
    BY <2>5, ConsoleAssumption DEF Page, Marked, Pages
  <2>7. consoleSeq' <= seq /\ r <= run
    BY <1>2, <2>3, <2>6 DEF Copied
  <2>8. ASSUME r # run, NEW k \in DOMAIN history PROVE consoleSeq' < history[k].seq
    BY <1>2, <2>3, <2>6, <2>8, EachLine DEF Copied
  <2>9. ASSUME NEW k \in DOMAIN Recent, Recent[k].seq <= consoleSeq' PROVE Has(log', Recent[k])
    <3>1. PICK j \in DOMAIN history : Recent[k] = history[j]
      BY <1>3
    <3>2. Recent[k].seq \in Nat /\ Recent[k].seq > 0
      BY <1>3, EachLine
    <3>3. r = run
      BY <2>6, <2>8, <2>9, <3>1, <3>2
    <3>4. Has(lines, Recent[k])
      BY <2>3, <2>6, <2>9, <3>1, <3>2, <3>3
    <3>5. PICK i \in DOMAIN lines : lines[i] = Recent[k]
      BY <3>4 DEF Has
    <3>6. i \in 1..Len(lines) /\ InOrder(lines) /\ p.seq < lines[i].seq
      BY <2>1, <2>2, <2>3, <3>2, <3>5 DEF Copied
    <3>7. Has(Page'.log, lines[i])
      BY <2>4, <3>6 DEF Painted
    <3> QED
      BY <3>5, <3>7 DEF Page
  <2> QED
    BY <1>1, <2>6, <2>7, <2>8, <2>9 DEF PageInv
<1>5. CASE read.is = "asked"
  <2>1. PICK p, none : p = [run |-> consoleRun, seq |-> 0, log |-> <<>>] /\ none = <<>>
    OBVIOUS
  <2>2. none \in Seq(Line) /\ p \in Pages /\ Page' = appendLines(p, none) /\ DOMAIN none = {}
    BY <1>5, <2>1, HistoryShown
  <2>3. Painted(p, Page', none, Len(none))
    BY <2>2, LinesPainted
  <2>4. Marked(p) /\ OneConsole(p.log, p.run) /\ OneConsole(none, p.run) /\ p.seq = 0 /\ p.run = consoleRun
    BY <2>1 DEF Marked, InOrder, OneConsole
  <2>5. Page' \in Pages /\ Marked(Page') /\ Page'.run = consoleRun /\ OneConsole(Page'.log, consoleRun)
        /\ Page'.seq = 0
    BY <2>2, <2>3, <2>4, PaintedOne
  <2>6. /\ consoleRun' = consoleRun /\ InOrder(log') /\ OneConsole(log', consoleRun)
        /\ \A i \in DOMAIN log' : log'[i].seq <= consoleSeq'
        /\ consoleSeq' = 0
    BY <2>5 DEF Page, Marked
  <2>7. \A k \in DOMAIN history : 0 < history[k].seq
    BY <1>2, EachLine
  <2>8. \A k \in DOMAIN Recent : ~(Recent[k].seq <= 0)
    BY <1>3, EachLine
  <2> QED
    BY <1>1, <1>2, <2>6, <2>7, <2>8 DEF PageInv
<1> QED
  BY <1>4, <1>5, HistoryShown

\* What an event carries.
LEMMA EventParts ==
  ASSUME NEW e \in Event
  PROVE  Carried(e) \in Seq(Line) /\ EventRun(e) \in Nat
<1>1. CASE e.is = "line"
  <2>1. e.line \in Line
    BY <1>1 DEF Event
  <2>2. e.line.run \in Nat
    BY <2>1, ConsoleAssumption DEF Line
  <2> QED
    BY <1>1, <2>1, <2>2 DEF Carried, EventRun
<1>2. CASE e.is = "history"
  <2>1. e.lines \in Seq(Line) /\ e.run \in 0..MaxRuns
    BY <1>2 DEF Event
  <2> QED
    BY <1>2, <2>1, ConsoleAssumption DEF Carried, EventRun
<1>3. CASE e.is = "reset"
  <2>1. e.run \in 0..MaxRuns
    BY <1>3 DEF Event
  <2> QED
    BY <1>3, <2>1, ConsoleAssumption DEF Carried, EventRun
<1> QED
  BY <1>1, <1>2, <1>3 DEF Event

LEMMA PageStep ==
  ASSUME ConsoleTypeOK, SlotInv, ReadInv, PageInv, StreamInv, [ConsoleNext]_consoleVars
  PROVE  PageInv'
<1>1. CASE emit
  <2> SUFFICES ASSUME Settled PROVE PageInv'
    BY <1>1 DEF emit, PageInv, Settled
  <2>1. PICK line : Printed(line)
    BY <1>1, ALine
  <2>2. /\ \A k \in DOMAIN history' :
             history'[k] = line \/ \E j \in DOMAIN history : history'[k] = history[j]
        /\ \A k \in DOMAIN Recent' :
             Recent'[k] = line \/ \E j \in DOMAIN Recent : Recent'[k] = Recent[j]
    BY <1>1, <2>1, Emitted
  <2>3. UNCHANGED <<run, consoleRun, consoleSeq, log>> /\ seq' = seq + 1 /\ lost \subseteq lost'
    BY <1>1 DEF emit, pageVars
  <2>4. /\ consoleSeq \in Nat /\ seq \in Nat /\ consoleSeq <= seq
        /\ consoleSeq < line.seq /\ line.seq \in Nat
    BY <2>1, ConsoleAssumption DEF ConsoleTypeOK, PageInv, Printed
  <2>5. ASSUME consoleRun # run, NEW k \in DOMAIN history' PROVE consoleSeq < history'[k].seq
    BY <2>2, <2>4, <2>5 DEF PageInv
  <2>6. ASSUME NEW k \in DOMAIN Recent', Recent'[k].seq <= consoleSeq, Recent'[k].seq \notin lost'
        PROVE  Has(log, Recent'[k])
    <3>1. Recent'[k] # line
      BY <2>1, <2>4, <2>6
    <3> QED
      BY <2>2, <2>3, <2>6, <3>1 DEF PageInv
  <2> QED
    BY <2>3, <2>4, <2>5, <2>6 DEF PageInv, Has
<1>2. CASE start
  <2>1. UNCHANGED <<wireFresh, unsettled, pageVars, lost, seq>> /\ run' = run + 1 /\ history' = <<>>
    BY <1>2 DEF start
  <2>2. run \in Nat /\ consoleRun \in Nat
    BY ConsoleAssumption DEF ConsoleTypeOK, NoRun
  <2>3. DOMAIN Recent' = {}
    BY <2>1, ConsoleAssumption DEF Recent, LastOf
  <2> QED
    BY <2>1, <2>2, <2>3 DEF PageInv, Settled, pageVars
<1>3. CASE PanelRestart \/ Load \/ Leave \/ PageRestored
  BY <1>3 DEF PanelRestart, Load, Leave, PageRestored, PageInv, Settled
<1>4. CASE join
  BY <1>4 DEF join, PageInv, Settled, slotVars, readVars, pageVars, Recent
<1>5. CASE UNCHANGED <<slotVars, wireFresh, pageVars, lost, unsettled>>
  BY <1>5 DEF PageInv, Settled, slotVars, pageVars, Recent
<1>6. CASE Receive
  <2>1. CASE Settled
    BY <1>6, <2>1, PageReceives
  <2>2. CASE ~Settled
    BY <1>6, <2>2 DEF PageInv, Settled, Receive
  <2> QED
    BY <2>1, <2>2
<1>7. CASE HistoryRead
  BY <1>7, PageReads
<1> QED
  BY <1>1, <1>2, <1>3, <1>4, <1>5, <1>6, <1>7 DEF ConsoleNext, Disconnect, ReadHistory,
     consoleVars, wireVars

----------------------------------------------------------------------------
(* The stream *)

\* An event joins the end of those on their way.
LEMMA EventSent ==
  ASSUME ConsoleTypeOK, SlotInv, PageInv, StreamInv, Following, emit \/ start,
         NEW e \in Event, events' = Append(events, e), UNCHANGED <<consoleRun, consoleSeq, unsettled>>,
         EventRun(e) = run', Copied(Carried(e), EventRun(e))', e.is # "history", e.is = "line" => run' = run,
         \A a \in DOMAIN Carried(e) : seq < Carried(e)[a].seq
  PROVE  /\ \A i \in DOMAIN events' : EventInv(i)'
         /\ \A i, j \in DOMAIN events' : i < j => OrderInv(i, j)'
         /\ RunAfter(Len(events))' = run'
<1>0. PICK n : n = Len(events)
  OBVIOUS
<1>1. /\ n \in Nat /\ events \in Seq(Event) /\ DOMAIN events = 1..n /\ DOMAIN events' = 1..(n + 1)
      /\ \A i \in 1..n : events'[i] = events[i] /\ events[i] \in Event
      /\ events'[n + 1] = e /\ Len(events') = n + 1
  BY <1>0 DEF ConsoleTypeOK
<1>2. /\ run \in Nat /\ run' \in Nat /\ run <= run' /\ seq \in Nat /\ consoleSeq \in Nat /\ consoleRun \in Nat
  <2>1. run \in Nat /\ seq \in Nat /\ consoleSeq \in Nat /\ consoleRun \in Nat
    BY ConsoleAssumption DEF ConsoleTypeOK, NoRun
  <2>2. run' = run \/ run' = run + 1
    BY DEF emit, start
  <2> QED
    BY <2>1, <2>2
<1>3. ASSUME NEW i \in 1..n
      PROVE  /\ Carried(events[i]) \in Seq(Line) /\ EventRun(events[i]) \in Nat
             /\ EventInv(i)
  BY <1>1, EventParts DEF StreamInv
<1>4. RunAfter(n) = run /\ Settled
  BY <1>0 DEF StreamInv, Following, Settled
<1>5. 1..(n + 1) = 1..n \cup {n + 1} /\ n + 1 \notin 1..n
  BY <1>1
<1>6. ASSUME NEW i \in 1..n PROVE EventInv(i)'
  <2>1. PICK lines, r : lines = Carried(events[i]) /\ r = EventRun(events[i])
    OBVIOUS
  <2>2. lines \in Seq(Line) /\ r \in Nat /\ Copied(lines, r) /\ events'[i] = events[i]
    BY <1>1, <1>3, <2>1 DEF EventInv
  <2>3. Copied(lines, r)'
    BY <2>2, CopiedOn
  <2>4. RunAfter(i - 1)' = RunAfter(i - 1)
    BY <1>1 DEF RunAfter
  <2> QED
    BY <1>3, <2>1, <2>2, <2>3, <2>4 DEF EventInv
<1>7. EventInv(n + 1)'
  <2>1. consoleSeq # 0 => consoleRun <= run'
    BY <1>2, <1>4 DEF PageInv
  <2>2. e.is = "line" => e.line.run = RunAfter(n)'
    <3>1. RunAfter(n)' = RunAfter(n)
      BY <1>1 DEF RunAfter
    <3> QED
      BY <1>4, <3>1 DEF EventRun
  <2>3. \A a \in DOMAIN Carried(e) : consoleSeq < Carried(e)[a].seq
    <3>1. consoleSeq <= seq
      BY <1>4 DEF PageInv
    <3>2. Carried(e) \in Seq(Line)
      BY EventParts
    <3> QED
      BY <1>2, <3>1, <3>2, EachLine
  <2>4. (n + 1) - 1 = n
    BY <1>1
  <2> QED
    BY <1>1, <2>1, <2>2, <2>3, <2>4 DEF EventInv
<1>8. ASSUME NEW i \in 1..n, NEW j \in 1..n, i < j PROVE OrderInv(i, j)'
  BY <1>1, <1>8 DEF OrderInv, StreamInv
<1>9. ASSUME NEW i \in 1..n PROVE OrderInv(i, n + 1)'
  <2>1. PICK lines, r : lines = Carried(events[i]) /\ r = EventRun(events[i])
    OBVIOUS
  <2>2. lines \in Seq(Line) /\ r \in Nat /\ Copied(lines, r)
    BY <1>3, <2>1 DEF EventInv
  <2>3. r <= run' /\ \A a \in DOMAIN lines : lines[a].seq <= seq /\ lines[a].seq \in Nat
    BY <1>2, <2>2, EachLine DEF Copied
  <2>4. Carried(e) \in Seq(Line) /\ \A b \in DOMAIN Carried(e) : Carried(e)[b].seq \in Nat
    BY EventParts, EachLine
  <2> QED
    BY <1>1, <1>2, <2>1, <2>3, <2>4 DEF OrderInv
<1>10. ASSUME NEW i \in DOMAIN events', NEW j \in DOMAIN events', i < j PROVE OrderInv(i, j)'
  <2>1. i \in 1..n
    BY <1>1, <1>10
  <2> QED
    BY <1>1, <1>5, <1>8, <1>9, <1>10, <2>1
<1>11. RunAfter(Len(events))' = run'
  BY <1>1 DEF RunAfter
<1> QED
  BY <1>1, <1>5, <1>6, <1>7, <1>10, <1>11

\* A line is printed: it is sent, or lost.
LEMMA StreamPrints ==
  ASSUME ConsoleTypeOK, SlotInv, PageInv, StreamInv, Following, emit PROVE StreamInv'
<1>1. PICK line : Printed(line)
  BY ALine
<1>2. /\ line \in Line
      /\ \A k \in DOMAIN Recent' :
           Recent'[k] = line \/ \E j \in DOMAIN Recent : Recent'[k] = Recent[j]
  BY <1>1, Emitted
<1>3. /\ UNCHANGED <<run, consoleRun, consoleSeq, log, unsettled, wire, wireFresh>>
      /\ seq' = seq + 1 /\ lost \subseteq lost'
  BY <1>1 DEF emit, pageVars, Printed
<1>4. run \in Nat /\ seq \in Nat /\ events \in Seq(Event)
  BY ConsoleAssumption DEF ConsoleTypeOK
<1>5. PICK e : e = [is |-> "line", line |-> line]
  OBVIOUS
<1>6. e \in Event /\ e.is = "line" /\ e.line = line
  BY <1>1, <1>2, <1>5 DEF Event
<1>7. CASE events' = Append(events, e)
  <2>1. Carried(e) = <<line>> /\ EventRun(e) = run /\ line.seq = seq + 1 /\ line.run = run
    BY <1>1, <1>6 DEF Carried, EventRun, Printed
  <2>2. DOMAIN <<line>> = {1} /\ <<line>>[1] = line
    OBVIOUS
  <2>3. Copied(<<line>>, run)'
    BY <1>1, <1>3, <1>4, <2>1, <2>2 DEF Copied, InOrder, OneConsole
  <2>4. Copied(Carried(e), EventRun(e))'
    BY <1>3, <2>1, <2>3 DEF Copied, InOrder, OneConsole
  <2>5. \A a \in DOMAIN Carried(e) : seq < Carried(e)[a].seq
    BY <1>4, <2>1, <2>2
  <2>6. /\ \A i \in DOMAIN events' : EventInv(i)'
        /\ \A i, j \in DOMAIN events' : i < j => OrderInv(i, j)'
        /\ RunAfter(Len(events))' = run'
    BY <1>3, <1>6, <1>7, <2>1, <2>4, <2>5, EventSent
  <2>7. ASSUME NEW k \in DOMAIN Recent'
        PROVE  \/ Recent'[k].seq <= consoleSeq
               \/ Recent'[k].seq \in lost'
               \/ \E i \in DOMAIN events' : Has(Carried(events'[i]), Recent'[k])
    <3>1. Len(events) + 1 \in DOMAIN events' /\ events'[Len(events) + 1] = e
          /\ \A i \in DOMAIN events : i \in DOMAIN events' /\ events'[i] = events[i]
      BY <1>4, <1>7
    <3>2. CASE Recent'[k] = line
      <4>1. Has(Carried(e), line)
        BY <2>1, <2>2 DEF Has
      <4> QED
        BY <3>1, <3>2, <4>1
    <3>3. CASE \E j \in DOMAIN Recent : Recent'[k] = Recent[j]
      BY <1>3, <3>1, <3>3 DEF StreamInv
    <3> QED
      BY <1>2, <3>2, <3>3
  <2> QED
    BY <1>3, <2>6, <2>7 DEF StreamInv, Has, Carried
<1>8. CASE events' = events /\ lost' = lost \cup {seq + 1}
  <2>1. ASSUME NEW i \in DOMAIN events PROVE EventInv(i)'
    <3>1. PICK lines, r : lines = Carried(events[i]) /\ r = EventRun(events[i])
      OBVIOUS
    <3>2. lines \in Seq(Line) /\ r \in Nat /\ Copied(lines, r) /\ events[i] \in Event
      <4>1. events[i] \in Event
        BY <1>4
      <4>2. EventInv(i)
        BY DEF StreamInv
      <4> QED
        BY <3>1, <4>1, <4>2, EventParts DEF EventInv
    <3>3. Copied(lines, r)'
      BY <3>2, CopiedOn
    <3>4. RunAfter(i - 1)' = RunAfter(i - 1) /\ EventInv(i)
      BY <1>3, <1>8 DEF RunAfter, StreamInv
    <3> QED
      BY <1>3, <1>8, <3>1, <3>3, <3>4 DEF EventInv
  <2>2. \A i, j \in DOMAIN events : i < j => OrderInv(i, j)'
    BY <1>8 DEF OrderInv, StreamInv
  <2>3. RunAfter(Len(events))' = run'
    BY <1>3, <1>8 DEF RunAfter, StreamInv
  <2>4. ASSUME NEW k \in DOMAIN Recent'
        PROVE  \/ Recent'[k].seq <= consoleSeq
               \/ Recent'[k].seq \in lost'
               \/ \E i \in DOMAIN events : Has(Carried(events[i]), Recent'[k])
    BY <1>1, <1>2, <1>8 DEF StreamInv, Printed
  <2> QED
    BY <1>3, <1>8, <2>1, <2>2, <2>3, <2>4 DEF StreamInv
<1>9. \/ events' = Append(events, e)
      \/ events' = events /\ lost' = lost \cup {seq + 1}
  BY <1>1, <1>5 DEF Printed, Following
<1> QED
  BY <1>7, <1>8, <1>9

\* A process starts: the viewers are told.
LEMMA StreamStarts ==
  ASSUME ConsoleTypeOK, SlotInv, PageInv, StreamInv, Following, start PROVE StreamInv'
<1>1. /\ UNCHANGED <<consoleRun, consoleSeq, log, unsettled, wire, wireFresh, seq, lost>>
      /\ run' = run + 1 /\ history' = <<>>
  BY DEF start, pageVars
<1>2. run \in Nat /\ run' \in 0..MaxRuns /\ events \in Seq(Event)
  BY ConsoleAssumption DEF ConsoleTypeOK, start
<1>3. PICK e : e = [is |-> "reset", run |-> run']
  OBVIOUS
<1>4. e \in Event /\ e.is = "reset" /\ events' = Append(events, e) /\ EventRun(e) = run' /\ Carried(e) = <<>>
  BY <1>1, <1>2, <1>3 DEF Event, EventRun, Carried, start, Send, Following
<1>5. Copied(Carried(e), EventRun(e))'
  <2>1. PICK lines, r : lines = Carried(e) /\ r = EventRun(e)
    OBVIOUS
  <2>2. DOMAIN lines = {} /\ r = run'
    BY <1>4, <2>1
  <2>3. Copied(lines, r)'
    BY <1>1, <1>2, <2>2 DEF Copied, InOrder, OneConsole
  <2> QED
    BY <2>1, <2>3
<1>6. /\ \A i \in DOMAIN events' : EventInv(i)'
      /\ \A i, j \in DOMAIN events' : i < j => OrderInv(i, j)'
      /\ RunAfter(Len(events))' = run'
  <2>1. \A a \in DOMAIN Carried(e) : seq < Carried(e)[a].seq
    BY <1>4
  <2> QED
    BY <1>1, <1>4, <1>5, <2>1, EventSent
<1>7. DOMAIN Recent' = {}
  BY <1>1, ConsoleAssumption DEF Recent, LastOf
<1> QED
  BY <1>1, <1>6, <1>7 DEF StreamInv

\* A join: the replay is all there is on the wire.
LEMMA StreamJoins ==
  ASSUME ConsoleTypeOK, SlotInv, PageInv, join PROVE StreamInv'
<1> SUFFICES ASSUME Following' PROVE StreamInv'
  BY DEF StreamInv
<1>1. Settled /\ UNCHANGED <<slotVars, pageVars>>
  BY DEF Following, Settled, join
<1>2. PICK e : e = [is |-> "history", run |-> run, lines |-> Recent]
  OBVIOUS
<1>3. /\ events' = <<e>> /\ Carried(e) = Recent /\ EventRun(e) = run /\ e.is = "history" /\ e.run = run
      /\ Recent' = Recent
  BY <1>1, <1>2 DEF join, Carried, EventRun, Recent, slotVars
<1>4. DOMAIN events' = {1} /\ events'[1] = e /\ Len(events') = 1
  BY <1>3
<1>5. Copied(Recent, run) /\ \A k \in DOMAIN Recent : \E j \in DOMAIN history : Recent[k] = history[j]
  BY SlotLines
<1>6. EventInv(1)'
  <2>1. Copied(Carried(e), EventRun(e))'
    BY <1>1, <1>3, <1>5 DEF Copied, InOrder, OneConsole, slotVars
  <2>2. consoleRun # run => \A a \in DOMAIN Recent : consoleSeq < Recent[a].seq
    BY <1>1, <1>5 DEF PageInv
  <2>3. consoleSeq # 0 => consoleRun <= run
    BY <1>1 DEF PageInv
  <2> QED
    BY <1>1, <1>3, <1>4, <2>1, <2>2, <2>3 DEF EventInv, pageVars
<1>7. RunAfter(Len(events))' = run'
  BY <1>1, <1>3, <1>4 DEF RunAfter, slotVars
<1>8. \A k \in DOMAIN Recent' : Has(Carried(events'[1]), Recent'[k])
  BY <1>3, <1>4 DEF Has
<1>9. \A i, j \in DOMAIN events' : ~(i < j)
  BY <1>4
<1> QED
  BY <1>4, <1>6, <1>7, <1>8, <1>9 DEF StreamInv

\* An event is received.
LEMMA StreamReceives ==
  ASSUME ConsoleTypeOK, SlotInv, PageInv, StreamInv, Following, Receive PROVE StreamInv'
<1>1. PICK e : e = events[1]
  OBVIOUS
<1>2. PICK q : q = adoptRun(Page, EventRun(e))
  OBVIOUS
<1>3. PICK lines, r : lines = Carried(e) /\ r = EventRun(e)
  OBVIOUS
<1>4. /\ 1 \in DOMAIN events /\ lines \in Seq(Line) /\ r \in 0..MaxRuns
      /\ q \in Pages /\ q.run = r /\ q.seq = consoleSeq
      /\ Painted(q, Page', lines, Len(lines))
  BY <1>1, <1>2, <1>3, FollowedEvent DEF Following, Settled
<1>5. /\ UNCHANGED <<run, seq, history, lost, wire, wireFresh, unsettled>> /\ Recent' = Recent
      /\ events' = Tail(events) /\ events # <<>>
  BY DEF Receive, slotVars, Recent
<1>6. /\ Page' \in Pages /\ consoleRun' = r /\ consoleSeq <= consoleSeq'
      /\ consoleSeq' = consoleSeq \/ \E i \in DOMAIN lines : consoleSeq' = lines[i].seq
      /\ \A i \in DOMAIN lines : lines[i].seq <= consoleSeq'
  BY <1>4 DEF Painted, Page
<1>7. consoleSeq \in Nat /\ consoleSeq' \in Nat /\ r \in Nat /\ events \in Seq(Event)
  BY <1>4, <1>6, ConsoleAssumption DEF ConsoleTypeOK, Page, Pages
<1>8. PICK n : n = Len(events)
  OBVIOUS
<1>9. /\ n \in Nat \ {0} /\ DOMAIN events = 1..n /\ DOMAIN events' = 1..(n - 1) /\ Len(events') = n - 1
      /\ \A i \in 1..(n - 1) : i + 1 \in 1..n /\ events'[i] = events[i + 1]
  BY <1>5, <1>7, <1>8
<1>10. ASSUME NEW i \in 1..(n - 1) PROVE EventInv(i)'
  <2>1. PICK j, d : j = i + 1 /\ d = events[j]
    OBVIOUS
  <2>2. j \in 1..n /\ 1 < j /\ events'[i] = d /\ d \in Event
    BY <1>7, <1>9, <2>1
  <2>3. EventInv(j) /\ OrderInv(1, j)
    BY <1>4, <1>9, <2>2 DEF StreamInv
  <2>4. Copied(Carried(d), EventRun(d))'
    BY <1>5, <2>1, <2>3 DEF EventInv, Copied, InOrder, OneConsole
  <2>5. r <= EventRun(d)
    BY <1>1, <1>3, <2>1, <2>3 DEF OrderInv
  <2>6. d.is # "history"
    BY <2>1, <2>2, <2>3 DEF EventInv
  <2>7. RunAfter(i - 1)' = RunAfter(i)
    <3>1. CASE i = 1
      BY <1>1, <1>3, <1>6, <3>1 DEF RunAfter
    <3>2. CASE i # 1
      <4>1. i - 1 \in 1..(n - 1) /\ i # 0 /\ i - 1 # 0 /\ (i - 1) + 1 = i
        BY <1>9, <3>2
      <4>2. events'[i - 1] = events[i]
        BY <1>9, <4>1
      <4> QED
        BY <4>1, <4>2 DEF RunAfter
    <3> QED
      BY <3>1, <3>2
  <2>8. d.is = "line" => d.line.run = RunAfter(i)
    <3>1. j - 1 = i
      BY <1>9, <2>1
    <3> QED
      BY <2>1, <2>3, <3>1 DEF EventInv
  <2>9. ASSUME NEW a \in DOMAIN Carried(d) PROVE consoleSeq' < Carried(d)[a].seq
    <3>1. d.is = "line"
      BY <2>2, <2>6, <2>9 DEF Event, Carried
    <3>2. consoleSeq < Carried(d)[a].seq
      BY <2>1, <2>3, <2>9, <3>1 DEF EventInv
    <3>3. \A b \in DOMAIN lines : lines[b].seq < Carried(d)[a].seq
      BY <1>1, <1>3, <2>1, <2>3, <2>9 DEF OrderInv
    <3> QED
      BY <1>6, <3>2, <3>3
  <2> QED
    BY <1>6, <2>2, <2>4, <2>5, <2>6, <2>7, <2>8, <2>9 DEF EventInv
<1>11. ASSUME NEW i \in 1..(n - 1), NEW j \in 1..(n - 1), i < j PROVE OrderInv(i, j)'
  <2>1. OrderInv(i + 1, j + 1)
    <3>1. i + 1 \in DOMAIN events /\ j + 1 \in DOMAIN events /\ i + 1 < j + 1
      BY <1>9, <1>11
    <3> QED
      BY <3>1 DEF StreamInv
  <2> QED
    BY <1>9, <2>1 DEF OrderInv
<1>12. RunAfter(Len(events))' = run'
  <2>1. RunAfter(n) = run
    BY <1>8 DEF StreamInv
  <2>2. CASE n = 1
    BY <1>1, <1>3, <1>5, <1>6, <1>9, <2>1, <2>2 DEF RunAfter
  <2>3. CASE n # 1
    <3>1. n - 1 \in 1..(n - 1) /\ n - 1 # 0 /\ n # 0 /\ (n - 1) + 1 = n
      BY <1>9, <2>3
    <3>2. events'[n - 1] = events[n]
      BY <1>9, <3>1
    <3> QED
      BY <1>5, <1>9, <2>1, <3>1, <3>2 DEF RunAfter
  <2> QED
    BY <2>2, <2>3
<1>13. ASSUME NEW k \in DOMAIN Recent
       PROVE  \/ Recent[k].seq <= consoleSeq'
              \/ Recent[k].seq \in lost
              \/ \E i \in DOMAIN events' : Has(Carried(events'[i]), Recent[k])
  <2>1. CASE Recent[k].seq <= consoleSeq
    <3>1. Recent[k].seq \in Nat
      BY SlotLines, EachLine
    <3> QED
      BY <1>6, <1>7, <2>1, <3>1
  <2>2. CASE \E i \in DOMAIN events : Has(Carried(events[i]), Recent[k])
    <3>1. PICK i \in 1..n : Has(Carried(events[i]), Recent[k])
      BY <1>9, <2>2
    <3>2. CASE i = 1
      BY <1>1, <1>3, <1>6, <3>1, <3>2 DEF Has
    <3>3. CASE i # 1
      <4>1. i - 1 \in 1..(n - 1) /\ (i - 1) + 1 = i
        BY <1>9, <3>3
      <4> QED
        BY <1>9, <3>1, <4>1
    <3> QED
      BY <3>2, <3>3
  <2> QED
    BY <2>1, <2>2 DEF StreamInv
<1> QED
  BY <1>5, <1>9, <1>10, <1>11, <1>12, <1>13 DEF StreamInv

LEMMA StreamStep ==
  ASSUME ConsoleTypeOK, SlotInv, ReadInv, PageInv, StreamInv, [ConsoleNext]_consoleVars
  PROVE  StreamInv'
<1>1. CASE join
  BY <1>1, StreamJoins
<1>2. CASE ~Following'
  BY <1>2 DEF StreamInv
<1>3. CASE Following' /\ ~join
  <2>1. CASE emit \/ start \/ Receive
    <3>1. Following
      <4>1. UNCHANGED <<wire, wireFresh, unsettled>>
        BY <2>1 DEF emit, start, Receive
      <4> QED
        BY <1>3, <4>1 DEF Following
    <3> QED
      BY <2>1, <3>1, StreamPrints, StreamStarts, StreamReceives
  <2>2. CASE UNCHANGED <<slotVars, wireVars, pageVars, lost, unsettled>>
    BY <2>2 DEF StreamInv, Following, EventInv, OrderInv, RunAfter, Copied, Recent,
       slotVars, wireVars, pageVars
  <2>3. CASE PanelRestart \/ Disconnect \/ Load \/ Leave \/ PageRestored
    BY <1>3, <2>3 DEF Following, PanelRestart, Disconnect, Load, Leave, PageRestored, joinConsoleSocket
  <2>4. CASE HistoryRead
    <3>1. CASE joinAfter
      BY <1>3, <2>4, <3>1 DEF Following, HistoryRead, joinConsoleSocket
    <3>2. CASE ~joinAfter
      <4>1. UNCHANGED <<wire, wireFresh, unsettled>> /\ read.is # "none"
        BY <2>4, <3>2, HistoryShown DEF HistoryRead, wireVars
      <4> QED
        BY <1>3, <3>2, <4>1 DEF Following, ReadInv
    <3> QED
      BY <3>1, <3>2
  <2> QED
    BY <1>3, <2>1, <2>2, <2>3, <2>4 DEF ConsoleNext, ReadHistory, consoleVars
<1> QED
  BY <1>1, <1>2, <1>3

----------------------------------------------------------------------------
(* The invariant *)

LEMMA ConsoleInitInv == ConsoleInit => ConsoleInv
<1> SUFFICES ASSUME ConsoleInit PROVE ConsoleInv
  OBVIOUS
<1>1. <<>> \in Seq(Line) /\ <<>> \in Seq(Event) /\ Len(<<>>) = 0
  OBVIOUS
<1>2. 0 \in 0..MaxRuns /\ 0 \in 0..MaxSeq /\ 0 <= HistoryLimit /\ NoRun \in 0..NoRun
  BY ConsoleAssumption DEF NoRun
<1>3. ConsoleTypeOK
  BY <1>1, <1>2 DEF ConsoleInit, ConsoleTypeOK
<1>4. SlotInv /\ ReadInv
  BY DEF ConsoleInit, SlotInv, ReadInv
<1>5. PageInv /\ StreamInv
  BY DEF ConsoleInit, PageInv, Settled, StreamInv, Following
<1> QED
  BY <1>3, <1>4, <1>5 DEF ConsoleInv

LEMMA ConsoleStep == ConsoleInv /\ [ConsoleNext]_consoleVars => ConsoleInv'
<1> SUFFICES ASSUME ConsoleInv, [ConsoleNext]_consoleVars PROVE ConsoleInv'
  OBVIOUS
<1>1. ConsoleTypeOK /\ SlotInv /\ ReadInv /\ PageInv /\ StreamInv
  BY DEF ConsoleInv
<1> QED
  BY <1>1, ConsoleTypeStep, SlotStep, ReadStep, PageStep, StreamStep DEF ConsoleInv

\* What is kept of the slot, the history read, the page and the stream: one inductive
\* invariant, for every limit, and over every order of their steps.
THEOREM ConsoleInvariant == ConsoleSpec => []ConsoleInv
BY ConsoleInitInv, ConsoleStep, PTL DEF ConsoleSpec

LEMMA FollowsFromInv == ConsoleInv => ConsoleFollows
<1> SUFFICES ASSUME ConsoleInv, Following
             PROVE  InOrder(log) /\ OneConsole(log, consoleRun) /\ CaughtUp
  BY DEF ConsoleFollows
<1>1. Settled
  BY DEF Following, Settled
<1>2. InOrder(log) /\ OneConsole(log, consoleRun)
  BY <1>1 DEF ConsoleInv, PageInv
<1>3. ASSUME events = <<>> PROVE consoleRun = run
  BY <1>3 DEF ConsoleInv, StreamInv, RunAfter
<1>4. ASSUME events = <<>>, NEW k \in DOMAIN Recent
      PROVE  Recent[k].seq \in lost \/ Has(log, Recent[k])
  BY <1>1, <1>4 DEF ConsoleInv, StreamInv, PageInv
<1> QED
  BY <1>2, <1>3, <1>4 DEF CaughtUp

\* The console follows its server: with no event on its way, every line of the slot's
\* last ones is passed, and so shown or lost.
THEOREM ConsoleFollowsHolds == ConsoleSpec => []ConsoleFollows
BY ConsoleInvariant, FollowsFromInv, PTL

(***************************************************************************)
(* Panes                                                                   *)
(***************************************************************************)

\* What the proofs need of the table of panes.
PaneFact(p) ==
  /\ p \notin Lingering =>
       /\ p.empties = "before" /\ "latch" \notin p.checks /\ ~Form(p)
       /\ "id" \in p.checks => p.name \in {"software", "network", "egg", "properties", "search"}
       /\ "id" \notin p.checks => "open" \in p.asks /\ "generation" \in p.checks
       /\ "open" \notin p.asks => InTab(p) \/ p = executeAddonSearch
       /\ p.name \in {"software", "network", "egg", "properties", "search"} => "id" \in p.checks
  /\ "open" \in p.asks /\ p # refreshActivity =>
       /\ "latch" \notin p.checks /\ "generation" \in p.checks /\ ~InTab(p) /\ p # executeAddonSearch
       /\ "tab-bare" \notin p.asks
  /\ Form(p) =>
       /\ "latch" \notin p.checks /\ "generation" \in p.checks /\ "id" \notin p.checks
       /\ p.asks = {"visit"} /\ p.empties = "after"
       /\ p # executeAddonSearch /\ p # refreshFiles
  /\ p = refreshFiles =>
       /\ p \notin Lingering /\ "tab-bare" \notin p.asks /\ "open" \in p.asks
       /\ "generation" \in p.checks /\ "id" \notin p.checks

LEMMA PaneFacts == \A p \in Panes : PaneFact(p)
<1> SUFFICES ASSUME NEW p \in Panes PROVE PaneFact(p)
  OBVIOUS
<1> USE DEF Lingering, refreshFiles, refreshBackups, refreshSchedules, refreshVariables,
      refreshSubusers, refreshAddons, refreshAddonCapability, refreshBedrockPacks,
      executeAddonSearch, refreshSoftware, refreshNetwork, refreshEgg, refreshProperties,
      refreshActivity, refreshAdminServer, refreshUserDetail, InTab, Form
<1>1. CASE p = refreshFiles
  BY <1>1 DEF PaneFact
<1>2. CASE p \in {refreshBackups, refreshSchedules, refreshVariables, refreshSubusers}
  BY <1>2 DEF PaneFact
<1>3. CASE p \in {refreshAddons, refreshAddonCapability, refreshBedrockPacks, refreshActivity}
  BY <1>3 DEF PaneFact
<1>4. CASE p \in {executeAddonSearch, refreshSoftware, refreshNetwork, refreshEgg, refreshProperties}
  BY <1>4 DEF PaneFact
<1>5. CASE p \in {refreshAdminServer, refreshUserDetail}
  BY <1>5 DEF PaneFact
<1> QED
  <2> HIDE DEF Lingering, refreshFiles, refreshBackups, refreshSchedules, refreshVariables,
      refreshSubusers, refreshAddons, refreshAddonCapability, refreshBedrockPacks,
      executeAddonSearch, refreshSoftware, refreshNetwork, refreshEgg, refreshProperties,
      refreshActivity, refreshAdminServer, refreshUserDetail, InTab, Form
  <2> QED
    BY <1>1, <1>2, <1>3, <1>4, <1>5 DEF Panes

----------------------------------------------------------------------------
(* Requests go out, and are answered *)

\* A refresh: one request more, after which those that may be painted are it and the
\* ones before; with no overlap, it alone.
LEMMA Asked ==
  ASSUME BrowserTypeOK, NEW cs \in Seq(Call), NEW s \in Sites, NEW gen \in {"newest", "none"},
         NEW dir \in Folders, Ask(cs, s, gen, dir),
         NEW call, call = [server |-> s, gen |-> gen, dir |-> dir]
  PROVE  /\ calls' \in Seq(Call) /\ rows' \in Seq(Row)
         /\ latch' \in Sites \cup {NoSite} /\ overlapped' \in BOOLEAN
         /\ call.server = s /\ call.gen # "superseded" /\ call.dir = dir
         /\ "latch" \notin pane.checks =>
              /\ pane.empties = "before" => rows' = <<>>
              /\ pane.empties # "before" => rows' = rows
              /\ \A i \in MayPaint(calls') :
                   calls'[i] = call \/ \E j \in MayPaint(cs) : calls'[i] = cs[j]
              /\ overlapped' = (MayPaint(cs) # {})
              /\ \E i \in DOMAIN calls' : calls'[i] = call
<1>1. call \in Call /\ call.server = s /\ call.gen # "superseded" /\ call.dir = dir
  BY DEF Call
<1>2. rows \in Seq(Row) /\ latch \in Sites \cup {NoSite} /\ overlapped \in BOOLEAN /\ <<>> \in Seq(Row)
  BY DEF BrowserTypeOK
<1>3. CASE "latch" \in pane.checks /\ latch = s
  BY <1>1, <1>2, <1>3 DEF Ask
<1>4. CASE ~("latch" \in pane.checks /\ latch = s)
  <2>1. /\ calls' = Append(cs, call)
        /\ rows' = IF pane.empties = "before" THEN <<>> ELSE rows
        /\ latch' = IF "latch" \in pane.checks THEN s ELSE latch
        /\ overlapped' = (MayPaint(cs) # {})
    BY <1>4 DEF Ask
  <2>2. /\ calls' \in Seq(Call) /\ DOMAIN cs = 1..Len(cs) /\ DOMAIN calls' = 1..(Len(cs) + 1)
        /\ Len(cs) \in Nat /\ calls'[Len(cs) + 1] = call
        /\ \A i \in 1..Len(cs) : calls'[i] = cs[i]
    BY <1>1, <2>1
  <2>3. Len(cs) + 1 \in DOMAIN calls'
    BY <2>2
  <2>4. ASSUME NEW i \in MayPaint(calls')
        PROVE  calls'[i] = call \/ \E j \in MayPaint(cs) : calls'[i] = cs[j]
    BY <2>2 DEF MayPaint
  <2>5. overlapped' \in BOOLEAN /\ latch' \in Sites \cup {NoSite} /\ rows' \in Seq(Row)
    BY <1>2, <2>1
  <2> QED
    BY <1>1, <2>1, <2>2, <2>3, <2>4, <2>5
<1> QED
  BY <1>3, <1>4

\* An answer takes its request away, and no other.
LEMMA AnswerTaken ==
  ASSUME NEW cs \in Seq(Call), NEW i \in DOMAIN cs, NEW rest, rest = Seqs!RemoveAt(cs, i)
  PROVE  /\ rest \in Seq(Call)
         /\ \A k \in DOMAIN rest : \E j \in DOMAIN cs : rest[k] = cs[j]
         /\ \A j \in DOMAIN cs : j # i => \E k \in DOMAIN rest : rest[k] = cs[j]
<1> DEFINE n == Len(cs)
           a == SubSeq(cs, 1, i - 1)
           b == SubSeq(cs, i + 1, n)
<1>1. n \in Nat /\ i \in 1..n /\ DOMAIN cs = 1..n
  OBVIOUS
<1>2. /\ a \in Seq(Call) /\ Len(a) = i - 1 /\ \A k \in 1..(i - 1) : a[k] = cs[k]
  <2>1. 1 \in 1..n /\ i - 1 \in 0..n
    BY <1>1
  <2> QED
    BY <1>1, <2>1, SubSeqProperties
<1>3. /\ b \in Seq(Call) /\ Len(b) = n - i /\ \A k \in 1..(n - i) : b[k] = cs[i + k]
  <2>1. i + 1 \in 1..(n + 1) /\ n \in i..n
    BY <1>1
  <2>2. b \in Seq(Call) /\ Len(b) = n - i
    BY <1>1, <2>1, SubSeqProperties
  <2>3. \A k \in 1..(n - i) : b[k] = cs[(i + 1) + k - 1]
    BY <1>1, <2>1, SubSeqProperties
  <2> QED
    BY <1>1, <2>2, <2>3
<1> HIDE DEF a, b, n
<1>4. rest = a \o b
  BY DEF Seqs!RemoveAt, a, b, n
<1>5. /\ rest \in Seq(Call) /\ DOMAIN rest = 1..(n - 1)
      /\ \A k \in 1..(n - 1) : rest[k] = IF k < i THEN cs[k] ELSE cs[k + 1]
  <2>1. /\ rest \in Seq(Call) /\ Len(rest) = n - 1
        /\ \A k \in 1..(n - 1) : rest[k] = IF k <= i - 1 THEN a[k] ELSE b[k - (i - 1)]
    <3>1. Len(a) + Len(b) = n - 1 /\ Len(a) = i - 1
      BY <1>1, <1>2, <1>3
    <3>2. /\ a \o b \in Seq(Call) /\ Len(a \o b) = Len(a) + Len(b)
          /\ \A k \in 1..(Len(a) + Len(b)) : (a \o b)[k] = IF k <= Len(a) THEN a[k] ELSE b[k - Len(a)]
      BY <1>2, <1>3, ConcatProperties
    <3> QED
      BY <1>4, <3>1, <3>2
  <2>2. ASSUME NEW k \in 1..(n - 1), ~(k < i) PROVE rest[k] = cs[k + 1]
    <3>1. k - (i - 1) \in 1..(n - i) /\ i + (k - (i - 1)) = k + 1
      BY <1>1, <2>2
    <3> QED
      BY <1>1, <1>3, <2>1, <2>2, <3>1
  <2>3. ASSUME NEW k \in 1..(n - 1), k < i PROVE rest[k] = cs[k]
    BY <1>1, <1>2, <2>1, <2>3
  <2> QED
    BY <2>1, <2>2, <2>3
<1>6. ASSUME NEW k \in DOMAIN rest PROVE \E j \in DOMAIN cs : rest[k] = cs[j]
  <2>1. k \in 1..(n - 1)
    BY <1>5, <1>6
  <2>2. k \in DOMAIN cs /\ k + 1 \in DOMAIN cs
    BY <1>1, <2>1
  <2> QED
    BY <1>5, <2>1, <2>2
<1>7. ASSUME NEW j \in DOMAIN cs, j # i PROVE \E k \in DOMAIN rest : rest[k] = cs[j]
  <2>1. CASE j < i
    BY <1>1, <1>5, <2>1
  <2>2. CASE i < j
    <3>1. j - 1 \in 1..(n - 1) /\ ~(j - 1 < i) /\ (j - 1) + 1 = j
      BY <1>1, <2>2
    <3> QED
      BY <1>5, <3>1
  <2> QED
    BY <1>1, <1>7, <2>1, <2>2
<1> QED
  BY <1>5, <1>6, <1>7

\* Requests of an older generation are painted no more.
LEMMA SupersededCalls ==
  ASSUME NEW cs \in Seq(Call)
  PROVE  /\ Superseded(cs) \in Seq(Call) /\ DOMAIN Superseded(cs) = DOMAIN cs
         /\ \A i \in DOMAIN cs : cs[i].gen # "none" => Superseded(cs)[i].gen = "superseded"
         /\ \A i \in MayPaint(Superseded(cs)) : i \in MayPaint(cs) /\ Superseded(cs)[i] = cs[i]
<1>1. ASSUME NEW c \in Call
      PROVE  [c EXCEPT !.gen = "superseded"] \in Call /\ [c EXCEPT !.gen = "superseded"].gen = "superseded"
             /\ c.gen \in {"newest", "superseded", "none"}
  BY DEF Call
<1>2. /\ DOMAIN Superseded(cs) = DOMAIN cs /\ Len(cs) \in Nat /\ DOMAIN cs = 1..Len(cs)
      /\ \A i \in DOMAIN cs : cs[i] \in Call
      /\ \A i \in DOMAIN cs :
           /\ cs[i].gen = "newest" => Superseded(cs)[i] = [cs[i] EXCEPT !.gen = "superseded"]
           /\ cs[i].gen # "newest" => Superseded(cs)[i] = cs[i]
  BY DEF Superseded
<1>3. ASSUME NEW i \in DOMAIN cs PROVE Superseded(cs)[i] \in Call
  <2>1. PICK c \in Call : c = cs[i]
    BY <1>2
  <2>2. Superseded(cs)[i] = c \/ Superseded(cs)[i] = [c EXCEPT !.gen = "superseded"]
    BY <1>2, <2>1
  <2> QED
    BY <1>1, <2>1, <2>2
<1>4. Superseded(cs) \in Seq(Call)
  <2>1. Superseded(cs) = [i \in 1..Len(cs) |-> Superseded(cs)[i]]
    BY <1>2 DEF Superseded
  <2> QED
    BY <1>2, <1>3, <2>1, IsASeq
<1>5. ASSUME NEW i \in DOMAIN cs, cs[i].gen # "none" PROVE Superseded(cs)[i].gen = "superseded"
  <2>1. PICK c \in Call : c = cs[i]
    BY <1>2
  <2>2. CASE c.gen = "newest"
    BY <1>1, <1>2, <2>1, <2>2
  <2>3. CASE c.gen = "superseded"
    BY <1>2, <2>1, <2>3
  <2> QED
    BY <1>1, <1>5, <2>1, <2>2, <2>3
<1>6. \A i \in MayPaint(Superseded(cs)) : i \in MayPaint(cs) /\ Superseded(cs)[i] = cs[i]
  <2> SUFFICES ASSUME NEW i \in MayPaint(Superseded(cs))
               PROVE  i \in MayPaint(cs) /\ Superseded(cs)[i] = cs[i]
    OBVIOUS
  <2>1. i \in DOMAIN cs /\ Superseded(cs)[i].gen # "superseded"
    BY <1>2 DEF MayPaint
  <2>2. Superseded(cs)[i] = cs[i]
    BY <1>1, <1>2, <2>1
  <2> QED
    BY <2>1, <2>2 DEF MayPaint
<1> QED
  BY <1>2, <1>4, <1>5, <1>6

----------------------------------------------------------------------------
(* What the actions have in common *)

\* A handler's refresh of the pane, whatever asked for it.
HandlerAsks ==
  \/ AskWithGeneration \/ AskBare \/ SetTab
  \/ \E dir \in Folders : OpenFolder(dir) \/ MoveDone(dir)
LEMMA HandlerAsked ==
  ASSUME BrowserTypeOK, HandlerAsks
  PROVE  /\ cur \in Sites /\ ~Form(pane) /\ UNCHANGED <<pane, placeVars, lateVars, wandered>>
         /\ visible' \in BOOLEAN /\ filesDir' \in Folders
         /\ \E gen \in {"newest", "none"}, dir \in Folders :
              Ask(calls, cur, gen, dir) /\ (pane = refreshFiles => dir = filesDir')
<1>1. cur \in Sites \cup {NoSite} /\ pane \in Panes /\ visible \in BOOLEAN /\ filesDir \in Folders
      /\ Root \in Folders
  BY BrowserAssumption DEF BrowserTypeOK
<1>2. PaneFact(pane)
  BY <1>1, PaneFacts
<1>3. CASE AskWithGeneration
  <2>1. "act" \in pane.asks
    BY <1>3 DEF AskWithGeneration
  <2>2. ~Form(pane)
    BY <1>2, <2>1 DEF PaneFact
  <2> QED
    BY <1>1, <1>3, <2>2 DEF AskWithGeneration
<1>4. CASE AskBare
  <2>1. "act-bare" \in pane.asks
    BY <1>4 DEF AskBare
  <2>2. ~Form(pane)
    BY <1>2, <2>1 DEF PaneFact
  <2> QED
    BY <1>1, <1>4, <2>2 DEF AskBare
<1>5. CASE SetTab
  <2>1. "tab" \in pane.asks \/ "tab-bare" \in pane.asks
    BY <1>5 DEF SetTab
  <2>2. ~Form(pane)
    BY <1>2, <2>1 DEF PaneFact
  <2>3. CASE /\ "tab" \in pane.asks /\ Ask(calls, cur, "newest", Root) /\ filesDir' = Root
    BY <1>1, <1>5, <2>2, <2>3 DEF SetTab
  <2>4. CASE "tab-bare" \in pane.asks /\ Ask(calls, cur, "none", filesDir) /\ UNCHANGED filesDir
    BY <1>1, <1>2, <1>5, <2>2, <2>4 DEF SetTab, PaneFact
  <2> QED
    BY <1>5, <2>3, <2>4 DEF SetTab
<1>6. ASSUME NEW dir \in Folders, OpenFolder(dir) \/ MoveDone(dir)
      PROVE  /\ cur \in Sites /\ ~Form(pane) /\ UNCHANGED <<pane, placeVars, lateVars, wandered>>
             /\ visible' \in BOOLEAN /\ filesDir' = dir /\ Ask(calls, cur, "none", dir)
  <2>1. pane = refreshFiles
    BY <1>6 DEF OpenFolder, MoveDone, Browsing
  <2>2. ~Form(pane)
    BY <1>2, <2>1 DEF PaneFact
  <2> QED
    BY <1>1, <1>6, <2>2 DEF OpenFolder, MoveDone, Browsing
<1>7. CASE \E dir \in Folders : OpenFolder(dir) \/ MoveDone(dir)
  BY <1>6, <1>7
<1> QED
  BY <1>3, <1>4, <1>5, <1>7 DEF HandlerAsks

\* openServer(), once it has the detail: it asks, or the pane is not on the screen, or
\* it is emptied.
LEMMA OpenedAsks ==
  ASSUME BrowserTypeOK, Opened
  PROVE  /\ opening \in Sites /\ cur' = opening /\ opening' = NoSite /\ wandered' = FALSE
         /\ UNCHANGED <<pane, path, homing, late, reading>>
         /\ view' = "server" /\ filesDir' = Root /\ editor' = NoSite /\ visible' \in BOOLEAN
         /\ \/ \E gen \in {"newest", "none"} : Ask(calls, opening, gen, Root)
            \/ /\ "open" \notin pane.asks /\ visible' = ~InTab(pane)
               /\ rows' = IF pane = executeAddonSearch THEN <<>> ELSE rows
               /\ UNCHANGED <<calls, latch, overlapped>>
<1>1. InTab(pane) \in BOOLEAN
  BY DEF InTab
<1> QED
  BY <1>1 DEF Opened, BrowserTypeOK

\* Where the browser is.
PlaceOK ==
  /\ path \in Sites \cup {NoSite} /\ view \in {"server", "away"} /\ homing \in BOOLEAN
  /\ cur \in Sites \cup {NoSite} /\ opening \in Sites \cup {NoSite}
  /\ path \in {opening, NoSite} \/ opening = NoSite
  /\ visible \in BOOLEAN /\ wandered \in BOOLEAN
  /\ late \subseteq Sites /\ reading \subseteq Sites /\ editor \in Sites \cup {NoSite}
\* What the rest does to the page, its requests and the server on the screen.
Leaves == cur' = NoSite /\ wandered' = wandered /\ rows' \in {rows, <<>>} /\ calls' \in {calls, Superseded(calls)}
Stays == UNCHANGED <<cur, wandered, rows, calls, opening>>
Reopens == opening' \in Sites /\ calls' = Superseded(calls) /\ UNCHANGED <<cur, wandered, rows>>
Wanders == wandered' = TRUE /\ UNCHANGED <<rows, calls, opening>>
AsksNothing ==
  \/ LeaveTab \/ GoAway \/ HomeListed \/ NotOpened \/ AwaitDetail \/ openFile
  \/ \E s \in Sites : OpenServer(s) \/ AssignDetail(s) \/ FileRead(s)
  \/ UNCHANGED browserVars
LEMMA NothingAsked ==
  ASSUME BrowserTypeOK, AsksNothing
  PROVE  /\ PlaceOK' /\ UNCHANGED <<pane, latch, filesDir, overlapped>> /\ visible' \in {visible, FALSE}
         /\ Leaves \/ Stays \/ Reopens \/ Wanders
         /\ Form(pane) => opening' \in {opening, NoSite}
<1> USE DEF PlaceOK, Leaves, Stays, Reopens, Wanders
<1>1. PlaceOK
  BY DEF BrowserTypeOK
<1>2. CASE LeaveTab \/ HomeListed \/ AwaitDetail \/ openFile \/ UNCHANGED browserVars
  <2>1. CASE LeaveTab
    BY <1>1, <2>1 DEF LeaveTab, placeVars, lateVars
  <2>2. CASE HomeListed
    BY <1>1, <2>2 DEF HomeListed, paneVars, lateVars
  <2>3. CASE AwaitDetail
    BY <1>1, <2>3 DEF AwaitDetail, placeVars, paneVars
  <2>4. CASE openFile
    BY <1>1, <2>4 DEF openFile, Browsing, placeVars, paneVars
  <2>5. CASE UNCHANGED browserVars
    BY <1>1, <2>5 DEF browserVars, placeVars, paneVars, lateVars
  <2> QED
    BY <1>2, <2>1, <2>2, <2>3, <2>4, <2>5
<1>3. CASE GoAway
  <2>1. homing' \in BOOLEAN /\ view' \in {"server", "away"}
    BY <1>1, <1>3 DEF GoAway
  <2> QED
    BY <1>1, <1>3, <2>1 DEF GoAway, leaveServer, lateVars
<1>4. CASE NotOpened
  BY <1>1, <1>4 DEF NotOpened, leaveServer, lateVars
<1>5. ASSUME NEW s \in Sites, OpenServer(s)
      PROVE  /\ PlaceOK' /\ UNCHANGED <<pane, latch, filesDir, overlapped>> /\ visible' = visible
             /\ Leaves \/ Reopens
             /\ ~Form(pane)
  BY <1>1, <1>5, BrowserAssumption DEF OpenServer, lateVars
<1>6. ASSUME NEW s \in Sites, AssignDetail(s)
      PROVE  /\ PlaceOK' /\ UNCHANGED <<pane, latch, filesDir, overlapped>> /\ visible' = visible
             /\ Stays \/ Wanders
             /\ opening' = opening
  <2>1. UNCHANGED <<path, view, opening, homing, visible, reading, editor, rows, calls, pane, latch,
                    filesDir, overlapped>>
    BY <1>6 DEF AssignDetail, paneVars
  <2>2. cur' = s /\ late' \subseteq Sites /\ wandered' = (wandered \/ cur # s)
    BY <1>1, <1>6 DEF AssignDetail
  <2>3. CASE cur = s /\ wandered' = wandered
    BY <1>1, <2>1, <2>2, <2>3
  <2>4. CASE wandered' = TRUE
    BY <1>1, <2>1, <2>2, <2>4
  <2> QED
    BY <1>1, <2>2, <2>3, <2>4
<1>7. ASSUME NEW s \in Sites, FileRead(s)
      PROVE  /\ PlaceOK' /\ UNCHANGED <<pane, latch, filesDir, overlapped>> /\ visible' = visible
             /\ Stays
  BY <1>1, <1>7 DEF FileRead, placeVars, paneVars
<1>8. CASE \E s \in Sites : OpenServer(s) \/ AssignDetail(s) \/ FileRead(s)
  <2> HIDE DEF PlaceOK, Leaves, Reopens, Wanders
  <2> QED
    BY <1>5, <1>6, <1>7, <1>8
<1> QED
  BY <1>2, <1>3, <1>4, <1>8 DEF AsksNothing

\* A step answers, is a handler's refresh, opens a server, visits a form, or asks nothing.
LEMMA Kinds ==
  ASSUME [BrowserNext]_browserVars
  PROVE  \/ \E i \in DOMAIN calls : Answer(i)
         \/ HandlerAsks \/ Opened
         \/ \E s \in Sites : Visit(s)
         \/ AsksNothing
BY DEF BrowserNext, HandlerAsks, AsksNothing

LEMMA BrowserTypeStep ==
  ASSUME BrowserTypeOK, FormInv, [BrowserNext]_browserVars PROVE BrowserTypeOK'
<1>0. /\ pane \in Panes /\ calls \in Seq(Call) /\ rows \in Seq(Row) /\ latch \in Sites \cup {NoSite}
      /\ filesDir \in Folders /\ overlapped \in BOOLEAN /\ <<>> \in Seq(Row) /\ PlaceOK
      /\ Superseded(calls) \in Seq(Call) /\ Root \in Folders
  BY SupersededCalls, BrowserAssumption DEF BrowserTypeOK, PlaceOK
<1>1. ASSUME NEW i \in DOMAIN calls, Answer(i) PROVE BrowserTypeOK'
  <2>1. calls' \in Seq(Call)
    BY <1>0, <1>1, AnswerTaken DEF Answer
  <2>2. rows' \in Seq(Row)
    <3>1. PICK row : row = [server |-> calls[i].server, dir |-> calls[i].dir, under |-> filesDir]
      OBVIOUS
    <3>2. calls[i] \in Call
      BY <1>0
    <3>3. row \in Row
      BY <1>0, <3>1, <3>2 DEF Call, Row
    <3>4. PICK old : old \in Seq(Row) /\ (rows' = rows \/ rows' = old \o <<row>>)
      <4>1. CASE pane.empties = "after"
        BY <1>0, <1>1, <3>1, <4>1 DEF Answer
      <4>2. CASE pane.empties # "after"
        BY <1>0, <1>1, <3>1, <4>2 DEF Answer
      <4> QED
        BY <4>1, <4>2
    <3>5. <<row>> \in Seq(Row)
      BY <3>3
    <3>6. old \o <<row>> \in Seq(Row)
      BY <3>4, <3>5, ConcatProperties
    <3> QED
      BY <1>0, <3>4, <3>6
  <2>3. latch' \in Sites \cup {NoSite}
    BY <1>0, <1>1 DEF Answer
  <2> QED
    BY <1>0, <1>1, <2>1, <2>2, <2>3 DEF Answer, BrowserTypeOK, placeVars, lateVars
<1>2. CASE HandlerAsks
  <2>1. /\ cur \in Sites /\ UNCHANGED <<pane, placeVars, lateVars, wandered>>
        /\ visible' \in BOOLEAN /\ filesDir' \in Folders
    BY <1>2, HandlerAsked
  <2>2. calls' \in Seq(Call) /\ rows' \in Seq(Row) /\ latch' \in Sites \cup {NoSite} /\ overlapped' \in BOOLEAN
    BY <1>0, <1>2, HandlerAsked, Asked
  <2> QED
    BY <1>0, <2>1, <2>2 DEF BrowserTypeOK, PlaceOK, placeVars, lateVars
<1>3. CASE Opened
  <2>1. /\ opening \in Sites /\ cur' = opening /\ opening' = NoSite /\ wandered' = FALSE
        /\ UNCHANGED <<pane, path, homing, late, reading>>
        /\ view' = "server" /\ filesDir' = Root /\ editor' = NoSite /\ visible' \in BOOLEAN
    BY <1>3, OpenedAsks
  <2>2. calls' \in Seq(Call) /\ rows' \in Seq(Row) /\ latch' \in Sites \cup {NoSite} /\ overlapped' \in BOOLEAN
    <3>1. CASE \E gen \in {"newest", "none"} : Ask(calls, opening, gen, Root)
      BY <1>0, <2>1, <3>1, Asked
    <3>2. CASE rows' \in {rows, <<>>} /\ UNCHANGED <<calls, latch, overlapped>>
      BY <1>0, <3>2
    <3> QED
      BY <1>3, <3>1, <3>2, OpenedAsks
  <2> QED
    BY <1>0, <2>1, <2>2 DEF BrowserTypeOK, PlaceOK
<1>4. ASSUME NEW t \in Sites, Visit(t) PROVE BrowserTypeOK'
  <2>1. calls' \in Seq(Call) /\ rows' \in Seq(Row) /\ latch' \in Sites \cup {NoSite} /\ overlapped' \in BOOLEAN
    <3>1. Ask(Superseded(calls), t, "newest", Root)
      BY <1>4 DEF Visit
    <3> QED
      BY <1>0, <3>1, Asked
  <2>2. opening = NoSite
    BY <1>4 DEF Visit, FormInv
  <2> QED
    BY <1>0, <1>4, <2>1, <2>2 DEF Visit, BrowserTypeOK, PlaceOK, lateVars
<1>5. CASE AsksNothing
  <2>1. PlaceOK' /\ UNCHANGED <<pane, latch, filesDir, overlapped>> /\ (Leaves \/ Stays \/ Reopens \/ Wanders)
    BY <1>5, NothingAsked
  <2>2. calls' \in Seq(Call) /\ rows' \in Seq(Row)
    BY <1>0, <2>1 DEF Leaves, Stays, Reopens, Wanders
  <2> QED
    BY <1>0, <2>1, <2>2 DEF BrowserTypeOK, PlaceOK
<1> QED
  BY <1>1, <1>2, <1>3, <1>4, <1>5, Kinds

----------------------------------------------------------------------------
(* The invariants *)

\* What an answer paints: nothing when it is stale, else its own row, at the end.
LEMMA Painting ==
  ASSUME BrowserTypeOK, NEW i \in DOMAIN calls, Answer(i),
         NEW row, row = [server |-> calls[i].server, dir |-> calls[i].dir, under |-> filesDir]
  PROVE  /\ UNCHANGED <<pane, visible, filesDir, placeVars, wandered, overlapped>>
         /\ \A k \in DOMAIN calls' : \E j \in DOMAIN calls : calls'[k] = calls[j]
         /\ \A j \in DOMAIN calls : j # i => \E k \in DOMAIN calls' : calls'[k] = calls[j]
         /\ Stale(calls[i]) => rows' = rows
         /\ ~Stale(calls[i]) =>
              /\ rows' # <<>>
              /\ \A k \in DOMAIN rows' : rows'[k] = row \/ \E j \in DOMAIN rows : rows'[k] = rows[j]
              /\ pane.empties = "after" => rows'[1] = row
<1>1. calls \in Seq(Call) /\ rows \in Seq(Row)
  BY DEF BrowserTypeOK
<1>2. /\ \A k \in DOMAIN calls' : \E j \in DOMAIN calls : calls'[k] = calls[j]
      /\ \A j \in DOMAIN calls : j # i => \E k \in DOMAIN calls' : calls'[k] = calls[j]
  <2>1. calls' = Seqs!RemoveAt(calls, i)
    BY DEF Answer
  <2> QED
    BY ONLY <1>1, <2>1, i \in DOMAIN calls, AnswerTaken
<1>3. UNCHANGED <<pane, visible, filesDir, placeVars, wandered, overlapped>>
  BY DEF Answer
<1>4. Stale(calls[i]) => rows' = rows
  BY DEF Answer
<1>5. ASSUME ~Stale(calls[i])
      PROVE  /\ rows' # <<>>
             /\ \A k \in DOMAIN rows' : rows'[k] = row \/ \E j \in DOMAIN rows : rows'[k] = rows[j]
             /\ pane.empties = "after" => rows'[1] = row
  <2>1. PICK old \in Seq(Row) : old = IF pane.empties = "after" THEN <<>> ELSE rows
    <3>1. <<>> \in Seq(Row)
      OBVIOUS
    <3> QED
      BY <1>1, <3>1
  <2>2. rows' = old \o <<row>>
    BY <1>5, <2>1 DEF Answer
  <2>3. calls[i] \in Call /\ filesDir \in Folders
    BY <1>1 DEF BrowserTypeOK
  <2>4. row \in Row
    BY <2>3 DEF Call, Row
  <2>5. <<row>> \in Seq(Row) /\ Len(<<row>>) = 1 /\ <<row>>[1] = row
    BY <2>4
  <2>6. /\ rows' \in Seq(Row) /\ Len(rows') = Len(old) + 1 /\ Len(old) \in Nat
        /\ \A k \in 1..(Len(old) + 1) :
             rows'[k] = IF k <= Len(old) THEN old[k] ELSE <<row>>[k - Len(old)]
    BY <2>1, <2>2, <2>5, ConcatProperties
  <2>7. DOMAIN rows' = 1..(Len(old) + 1) /\ rows' # <<>>
    BY <2>6
  <2>8. ASSUME NEW k \in DOMAIN rows' PROVE rows'[k] = row \/ \E j \in DOMAIN old : rows'[k] = old[j]
    <3>1. CASE k <= Len(old)
      BY <2>1, <2>6, <2>7, <3>1
    <3>2. CASE ~(k <= Len(old))
      <4>1. k - Len(old) = 1
        BY <2>6, <2>7, <3>2
      <4> QED
        BY <2>5, <2>6, <2>7, <3>2, <4>1
    <3> QED
      BY <3>1, <3>2
  <2>9. ASSUME pane.empties = "after" PROVE rows'[1] = row
    <3>1. old = <<>> /\ Len(old) = 0
      BY <2>1, <2>9
    <3> QED
      BY <2>5, <2>6, <3>1
  <2>10. \A j \in DOMAIN old : \E m \in DOMAIN rows : old[j] = rows[m]
    BY <2>1
  <2> QED
    BY <2>7, <2>8, <2>9, <2>10
<1> QED
  BY <1>2, <1>3, <1>4, <1>5

LEMMA FormStep ==
  ASSUME BrowserTypeOK, FormInv, [BrowserNext]_browserVars PROVE FormInv'
<1>0. calls \in Seq(Call) /\ opening \in Sites \cup {NoSite} /\ Root \in Folders
  BY BrowserAssumption DEF BrowserTypeOK
<1>1. ASSUME NEW i \in DOMAIN calls, Answer(i) PROVE FormInv'
  <2>1. UNCHANGED <<pane, opening>>
    BY <1>1 DEF Answer, placeVars
  <2>2. \A k \in DOMAIN calls' : \E j \in DOMAIN calls : calls'[k] = calls[j]
    BY <1>1, Painting
  <2> QED
    BY <2>1, <2>2 DEF FormInv, Form
<1>2. CASE HandlerAsks
  BY <1>2, HandlerAsked DEF FormInv, Form
<1>3. CASE Opened
  BY <1>3, OpenedAsks, BrowserAssumption DEF FormInv, Form
<1>4. ASSUME NEW t \in Sites, Visit(t) PROVE FormInv'
  <2>1. UNCHANGED <<pane, opening>> /\ Form(pane) /\ Ask(Superseded(calls), t, "newest", Root)
    BY <1>4 DEF Visit
  <2>2. PaneFact(pane)
    BY PaneFacts DEF BrowserTypeOK
  <2>3. calls' = Append(Superseded(calls), [server |-> t, gen |-> "newest", dir |-> Root])
    BY <2>1, <2>2 DEF PaneFact, Ask
  <2>4. /\ Superseded(calls) \in Seq(Call)
        /\ \A i \in DOMAIN Superseded(calls) : Superseded(calls)[i].gen # "none"
    <3>1. \A i \in DOMAIN calls : calls[i].gen # "none"
      BY <2>1 DEF FormInv
    <3> QED
      BY <1>0, <3>1, SupersededCalls
  <2>5. PICK c : c = [server |-> t, gen |-> "newest", dir |-> Root]
    OBVIOUS
  <2>6. c \in Call /\ c.gen = "newest" /\ calls' = Append(Superseded(calls), c)
    BY <1>0, <2>3, <2>5 DEF Call
  <2>7. \A i \in DOMAIN calls' : calls'[i] = c \/ (i \in DOMAIN Superseded(calls) /\ calls'[i] = Superseded(calls)[i])
    BY <2>4, <2>6
  <2> QED
    BY <2>1, <2>4, <2>6, <2>7 DEF FormInv
<1>5. CASE AsksNothing
  <2>1. UNCHANGED pane /\ (Form(pane) => opening' \in {opening, NoSite}) /\ calls' \in {calls, Superseded(calls)}
    BY <1>5, NothingAsked DEF Leaves, Stays, Reopens, Wanders
  <2>2. (\A i \in DOMAIN calls : calls[i].gen # "none") =>
          \A i \in DOMAIN Superseded(calls) : Superseded(calls)[i].gen # "none"
    BY <1>0, SupersededCalls
  <2> QED
    BY <2>1, <2>2 DEF FormInv, Form
<1> QED
  BY <1>1, <1>2, <1>3, <1>4, <1>5, Kinds

\* What a refresh leaves of the requests and the rows, for every pane but the feed and
\* the list that openServer() does not fill.
LEMMA AskedOne ==
  ASSUME BrowserTypeOK, NEW s \in Sites, NEW gen \in {"newest", "none"}, NEW dir \in Folders,
         NEW cs \in Seq(Call), Ask(cs, s, gen, dir), "latch" \notin pane.checks
  PROVE  /\ \E i \in DOMAIN calls' : calls'[i].server = s /\ calls'[i].gen # "superseded"
         /\ ~overlapped' \/ MayPaint(cs) = {} =>
              \A i \in MayPaint(calls') : calls'[i].server = s /\ calls'[i].dir = dir
         /\ pane.empties = "before" => rows' = <<>>
         /\ pane.empties # "before" => rows' = rows
<1>1. PICK call : call = [server |-> s, gen |-> gen, dir |-> dir]
  OBVIOUS
<1>2. /\ call.server = s /\ call.gen # "superseded" /\ call.dir = dir
      /\ pane.empties = "before" => rows' = <<>>
      /\ pane.empties # "before" => rows' = rows
      /\ \A i \in MayPaint(calls') :
           calls'[i] = call \/ \E j \in MayPaint(cs) : calls'[i] = cs[j]
      /\ overlapped' = (MayPaint(cs) # {})
      /\ \E i \in DOMAIN calls' : calls'[i] = call
  <2>1. /\ BrowserTypeOK /\ s \in Sites /\ gen \in {"newest", "none"} /\ dir \in Folders
        /\ cs \in Seq(Call) /\ Ask(cs, s, gen, dir)
    OBVIOUS
  <2>2. /\ call.server = s /\ call.gen # "superseded" /\ call.dir = dir
        /\ "latch" \notin pane.checks =>
              /\ pane.empties = "before" => rows' = <<>>
              /\ pane.empties # "before" => rows' = rows
              /\ \A i \in MayPaint(calls') :
                   calls'[i] = call \/ \E j \in MayPaint(cs) : calls'[i] = cs[j]
              /\ overlapped' = (MayPaint(cs) # {})
              /\ \E i \in DOMAIN calls' : calls'[i] = call
    BY ONLY <1>1, <2>1, Asked
  <2> QED
    BY ONLY <2>2, "latch" \notin pane.checks
<1> QED
  BY <1>2

\* A handler's refresh, for such a pane.
LEMMA HandlerAskedOne ==
  ASSUME BrowserTypeOK, HandlerAsks, "latch" \notin pane.checks
  PROVE  /\ cur \in Sites /\ ~Form(pane) /\ UNCHANGED <<pane, cur, opening, wandered>>
         /\ \E i \in DOMAIN calls' : calls'[i].server = cur /\ calls'[i].gen # "superseded"
         /\ ~overlapped' => \A i \in MayPaint(calls') :
              calls'[i].server = cur /\ (pane = refreshFiles => calls'[i].dir = filesDir')
         /\ pane.empties = "before" => rows' = <<>>
         /\ pane.empties # "before" => rows' = rows
<1>1. calls \in Seq(Call)
  BY DEF BrowserTypeOK
<1>2. /\ cur \in Sites /\ ~Form(pane) /\ UNCHANGED <<pane, cur, opening, wandered>>
      /\ \E gen \in {"newest", "none"}, dir \in Folders :
           Ask(calls, cur, gen, dir) /\ (pane = refreshFiles => dir = filesDir')
  BY HandlerAsked DEF placeVars
<1>3. PICK gen \in {"newest", "none"}, dir \in Folders :
        Ask(calls, cur, gen, dir) /\ (pane = refreshFiles => dir = filesDir')
  BY <1>2
<1> QED
  BY <1>1, <1>2, <1>3, AskedOne

\* Whose the rows are.
LEMMA ServerStep ==
  ASSUME BrowserTypeOK, OwnServer, LiveInv, [BrowserNext]_browserVars PROVE OwnServer'
<1>0. PaneFact(pane) /\ calls \in Seq(Call) /\ Root \in Folders
  BY PaneFacts, BrowserAssumption DEF BrowserTypeOK
<1> SUFFICES ASSUME pane' = pane => pane \notin Lingering PROVE OwnServer'
  BY DEF OwnServer
<1>1. ASSUME NEW i \in DOMAIN calls, Answer(i) PROVE OwnServer'
  <2>1. PICK row : row = [server |-> calls[i].server, dir |-> calls[i].dir, under |-> filesDir]
    OBVIOUS
  <2>2. /\ UNCHANGED <<pane, visible, cur, wandered, overlapped>>
        /\ Stale(calls[i]) => rows' = rows
        /\ ~Stale(calls[i]) =>
             \A k \in DOMAIN rows' : rows'[k] = row \/ \E j \in DOMAIN rows : rows'[k] = rows[j]
    BY <1>1, <2>1, Painting DEF placeVars
  <2> SUFFICES ASSUME visible, cur # NoSite, ~wandered, ~Stale(calls[i]),
                      overlapped => pane.name \in {"software", "network", "egg", "properties", "search"}
               PROVE  row.server = cur
    BY <2>2 DEF OwnServer
  <2>3. CASE ComparesId
    BY <2>1, <2>3 DEF ComparesId, Stale
  <2>4. CASE ~ComparesId
    <3>1. "generation" \in pane.checks /\ ~overlapped
      BY <1>0, <2>2, <2>4 DEF PaneFact, ComparesId
    <3>2. i \in MayPaint(calls)
      BY <3>1 DEF Stale, MayPaint
    <3> QED
      BY <2>1, <2>2, <2>4, <3>1, <3>2 DEF LiveInv, Steady
  <2> QED
    BY <2>3, <2>4
<1>2. CASE HandlerAsks
  <2>1. "latch" \notin pane.checks /\ pane.empties = "before"
    BY <1>0, <1>2, HandlerAsked DEF PaneFact
  <2>2. rows' = <<>>
    BY <1>2, <2>1, HandlerAskedOne
  <2> QED
    BY <2>2 DEF OwnServer
<1>3. CASE Opened
  <2>1. pane' = pane /\ opening \in Sites
    BY <1>3, OpenedAsks
  <2>2. "latch" \notin pane.checks /\ pane.empties = "before"
    BY <1>0, <2>1 DEF PaneFact
  <2>3. CASE \E gen \in {"newest", "none"} : Ask(calls, opening, gen, Root)
    <3>1. rows' = <<>>
      BY <1>0, <2>1, <2>2, <2>3, AskedOne
    <3> QED
      BY <3>1 DEF OwnServer
  <2>4. CASE /\ "open" \notin pane.asks /\ visible' = ~InTab(pane)
             /\ rows' = IF pane = executeAddonSearch THEN <<>> ELSE rows
    <3>1. ~visible' \/ rows' = <<>>
      BY <1>0, <2>1, <2>4 DEF PaneFact
    <3> QED
      BY <3>1 DEF OwnServer
  <2> QED
    BY <1>3, <2>3, <2>4, OpenedAsks
<1>4. ASSUME NEW t \in Sites, Visit(t) PROVE OwnServer'
  BY <1>0, <1>4 DEF Visit, PaneFact
<1>5. CASE AsksNothing
  <2>1. UNCHANGED <<pane, overlapped>> /\ visible' \in {visible, FALSE} /\ (Leaves \/ Stays \/ Reopens \/ Wanders)
    BY <1>5, NothingAsked
  <2>2. cur' = NoSite \/ wandered' \/ UNCHANGED <<cur, wandered, rows>>
    BY <2>1 DEF Leaves, Stays, Reopens, Wanders
  <2> QED
    BY <2>1, <2>2 DEF OwnServer
<1> QED
  BY <1>1, <1>2, <1>3, <1>4, <1>5, Kinds

\* Of which folder, and which answers are let through.
LEMMA FolderStep ==
  ASSUME BrowserTypeOK, OwnFolder, LiveInv, [BrowserNext]_browserVars PROVE OwnFolder'
<1>0. PaneFact(pane) /\ calls \in Seq(Call) /\ Root \in Folders
  BY PaneFacts, BrowserAssumption DEF BrowserTypeOK
<1>1. ASSUME NEW i \in DOMAIN calls, Answer(i) PROVE OwnFolder'
  <2>1. PICK row : row = [server |-> calls[i].server, dir |-> calls[i].dir, under |-> filesDir]
    OBVIOUS
  <2>2. /\ UNCHANGED <<pane, filesDir, overlapped>>
        /\ Stale(calls[i]) => rows' = rows
        /\ ~Stale(calls[i]) =>
             \A k \in DOMAIN rows' : rows'[k] = row \/ \E j \in DOMAIN rows : rows'[k] = rows[j]
    BY <1>1, <2>1, Painting
  <2>3. ASSUME pane = refreshFiles, ~overlapped, ~Stale(calls[i])
        PROVE  row.dir = filesDir /\ row.under = filesDir
    <3>1. i \in MayPaint(calls)
      BY <1>0, <2>3 DEF PaneFact, Stale, MayPaint
    <3> QED
      BY <2>1, <2>3, <3>1 DEF LiveInv
  <2> QED
    BY <2>2, <2>3 DEF OwnFolder
<1>2. CASE HandlerAsks
  <2>1. ASSUME pane = refreshFiles PROVE rows' = <<>>
    <3>1. "latch" \notin pane.checks /\ pane.empties = "before"
      BY <1>0, <2>1 DEF PaneFact
    <3> QED
      BY <1>2, <3>1, HandlerAskedOne
  <2>2. UNCHANGED pane
    BY <1>2, HandlerAsked
  <2> QED
    BY <2>1, <2>2 DEF OwnFolder
<1>3. CASE Opened
  <2>1. pane' = pane /\ opening \in Sites
    BY <1>3, OpenedAsks
  <2>2. ASSUME pane = refreshFiles PROVE rows' = <<>>
    <3>1. "latch" \notin pane.checks /\ pane.empties = "before" /\ "open" \in pane.asks
      BY <1>0, <2>2 DEF PaneFact
    <3>2. PICK gen \in {"newest", "none"} : Ask(calls, opening, gen, Root)
      BY <1>3, <3>1, OpenedAsks
    <3> QED
      BY <1>0, <2>1, <3>1, <3>2, AskedOne
  <2> QED
    BY <2>1, <2>2 DEF OwnFolder
<1>4. ASSUME NEW t \in Sites, Visit(t) PROVE OwnFolder'
  BY <1>0, <1>4 DEF Visit, PaneFact, OwnFolder
<1>5. CASE AsksNothing
  <2>1. UNCHANGED <<pane, overlapped, filesDir>> /\ (Leaves \/ Stays \/ Reopens \/ Wanders)
    BY <1>5, NothingAsked
  <2> QED
    BY <2>1 DEF OwnFolder, Leaves, Stays, Reopens, Wanders
<1> QED
  BY <1>1, <1>2, <1>3, <1>4, <1>5, Kinds

LEMMA LiveStep ==
  ASSUME BrowserTypeOK, FormInv, LiveInv, [BrowserNext]_browserVars PROVE LiveInv'
<1>0. PaneFact(pane) /\ calls \in Seq(Call) /\ Root \in Folders
  BY PaneFacts, BrowserAssumption DEF BrowserTypeOK
<1>1. ASSUME NEW i \in DOMAIN calls, Answer(i) PROVE LiveInv'
  <2>1. /\ UNCHANGED <<pane, cur, filesDir, wandered, overlapped>>
        /\ \A k \in DOMAIN calls' : \E j \in DOMAIN calls : calls'[k] = calls[j]
    BY <1>1, Painting DEF placeVars
  <2>2. \A k \in MayPaint(calls') : \E j \in MayPaint(calls) : calls'[k] = calls[j]
    BY <2>1 DEF MayPaint
  <2> QED
    BY <2>1, <2>2 DEF LiveInv, Steady, ComparesId, Form
<1>2. CASE HandlerAsks
  <2>1. ~Form(pane) /\ UNCHANGED <<pane, cur>>
    BY <1>2, HandlerAsked DEF placeVars
  <2>2. ASSUME pane \notin Lingering, ~overlapped'
        PROVE  \A i \in MayPaint(calls') :
                 calls'[i].server = cur /\ (pane = refreshFiles => calls'[i].dir = filesDir')
    <3>1. "latch" \notin pane.checks
      BY <1>0, <2>2 DEF PaneFact
    <3> QED
      BY <1>2, <2>2, <3>1, HandlerAskedOne
  <2>3. pane = refreshFiles => pane \notin Lingering
    BY <1>0 DEF PaneFact
  <2> QED
    BY <2>1, <2>2, <2>3 DEF LiveInv, Form
<1>3. CASE Opened
  <2>1. pane' = pane /\ opening \in Sites /\ cur' = opening /\ filesDir' = Root /\ ~Form(pane)
    BY <1>3, OpenedAsks, BrowserAssumption DEF FormInv
  <2>2. ASSUME pane \notin Lingering, ~ComparesId, ~overlapped'
        PROVE  \A i \in MayPaint(calls') : calls'[i].server = opening /\ calls'[i].dir = Root
    <3>1. "latch" \notin pane.checks /\ "open" \in pane.asks
      BY <1>0, <2>2 DEF PaneFact, ComparesId
    <3>2. PICK gen \in {"newest", "none"} : Ask(calls, opening, gen, Root)
      BY <1>3, <3>1, OpenedAsks
    <3> QED
      BY <1>0, <2>1, <2>2, <3>1, <3>2, AskedOne
  <2>3. pane = refreshFiles => pane \notin Lingering /\ ~ComparesId
    BY <1>0 DEF PaneFact, ComparesId
  <2> QED
    BY <2>1, <2>2, <2>3 DEF LiveInv, Form, ComparesId
<1>4. ASSUME NEW t \in Sites, Visit(t) PROVE LiveInv'
  <2>1. /\ pane' = pane /\ Form(pane) /\ cur' = t /\ Ask(Superseded(calls), t, "newest", Root)
        /\ "latch" \notin pane.checks /\ pane # refreshFiles
    BY <1>0, <1>4 DEF Visit, PaneFact
  <2>2. MayPaint(Superseded(calls)) = {} /\ Superseded(calls) \in Seq(Call)
    <3>1. \A i \in DOMAIN calls : calls[i].gen # "none"
      BY <2>1 DEF FormInv
    <3> QED
      BY <1>0, <3>1, SupersededCalls DEF MayPaint
  <2>3. \A i \in MayPaint(calls') : calls'[i].server = t
    BY <1>0, <2>1, <2>2, AskedOne
  <2> QED
    BY <2>1, <2>3 DEF LiveInv
<1>5. CASE AsksNothing
  <2>1. UNCHANGED <<pane, overlapped, filesDir>> /\ (Leaves \/ Stays \/ Reopens \/ Wanders)
    BY <1>5, NothingAsked
  <2>2. /\ cur' = NoSite \/ wandered' \/ UNCHANGED <<cur, wandered>>
        /\ calls' \in {calls, Superseded(calls)}
    BY <2>1 DEF Leaves, Stays, Reopens, Wanders
  <2>3. \A k \in MayPaint(calls') : k \in MayPaint(calls) /\ calls'[k] = calls[k]
    BY <1>0, <2>2, SupersededCalls
  <2> QED
    BY <2>1, <2>2, <2>3 DEF LiveInv, Steady, ComparesId, Form
<1> QED
  BY <1>1, <1>2, <1>3, <1>4, <1>5, Kinds

\* What was asked for is shown, or will be.
LEMMA LoadStep ==
  ASSUME BrowserTypeOK, FormInv, LiveInv, LoadInv, [BrowserNext]_browserVars PROVE LoadInv'
<1>0. PaneFact(pane) /\ calls \in Seq(Call) /\ Root \in Folders /\ opening \in Sites \cup {NoSite}
  BY PaneFacts, BrowserAssumption DEF BrowserTypeOK
<1>1. ASSUME NEW i \in DOMAIN calls, Answer(i) PROVE LoadInv'
  <2>1. PICK row : row = [server |-> calls[i].server, dir |-> calls[i].dir, under |-> filesDir]
    OBVIOUS
  <2>2. /\ UNCHANGED <<pane, cur, opening, wandered>>
        /\ \A j \in DOMAIN calls : j # i => \E k \in DOMAIN calls' : calls'[k] = calls[j]
        /\ Stale(calls[i]) => rows' = rows
        /\ ~Stale(calls[i]) => rows' # <<>> /\ (pane.empties = "after" => rows'[1] = row)
    BY <1>1, <2>1, Painting DEF placeVars
  <2> SUFFICES ASSUME Steady, opening = NoSite, Fills
               PROVE  \/ rows' # <<>> /\ (Form(pane) => rows'[1].server = cur)
                      \/ \E k \in DOMAIN calls' : ~Stale(calls'[k])
    BY <2>2 DEF LoadInv, Steady, Fills, Form, Stale
  <2>3. CASE Stale(calls[i])
    <3>1. CASE rows # <<>> /\ (Form(pane) => rows[1].server = cur)
      BY <2>2, <2>3, <3>1
    <3>2. CASE \E j \in DOMAIN calls : ~Stale(calls[j])
      <4>1. PICK j \in DOMAIN calls : ~Stale(calls[j])
        BY <3>2
      <4>2. PICK k \in DOMAIN calls' : calls'[k] = calls[j]
        BY <2>2, <2>3, <4>1
      <4> QED
        BY <4>1, <4>2
    <3> QED
      BY <3>1, <3>2 DEF LoadInv
  <2>4. CASE ~Stale(calls[i])
    <3>1. ASSUME Form(pane) PROVE rows'[1].server = cur
      <4>1. i \in MayPaint(calls)
        BY <1>0, <2>4, <3>1 DEF PaneFact, Stale, MayPaint
      <4>2. calls[i].server = cur
        BY <3>1, <4>1 DEF LiveInv
      <4>3. rows'[1] = row
        BY <1>0, <2>2, <2>4, <3>1 DEF PaneFact
      <4> QED
        BY <2>1, <4>2, <4>3
    <3> QED
      BY <2>2, <2>4, <3>1
  <2> QED
    BY <2>3, <2>4
<1>2. CASE HandlerAsks
  <2>1. UNCHANGED <<pane, cur, opening, wandered>>
    BY <1>2, HandlerAsked DEF placeVars
  <2>2. ASSUME Fills PROVE \E i \in DOMAIN calls' : calls'[i].server = cur /\ calls'[i].gen # "superseded"
    <3>1. "latch" \notin pane.checks
      BY <1>0, <2>2 DEF PaneFact, Fills
    <3> QED
      BY <1>2, <3>1, HandlerAskedOne
  <2>3. Fills => (\E i \in DOMAIN calls : ~Stale(calls[i]))'
    BY <2>1, <2>2 DEF Stale
  <2> QED
    BY <2>1, <2>3 DEF LoadInv, Fills, Form
<1>3. CASE Opened
  <2>1. pane' = pane /\ opening \in Sites /\ cur' = opening /\ ~Form(pane)
    BY <1>3, OpenedAsks, BrowserAssumption DEF FormInv
  <2>2. ASSUME Fills PROVE \E i \in DOMAIN calls' : calls'[i].server = opening /\ calls'[i].gen # "superseded"
    <3>1. "latch" \notin pane.checks /\ "open" \in pane.asks
      BY <1>0, <2>1, <2>2 DEF PaneFact, Fills
    <3>2. PICK gen \in {"newest", "none"} : Ask(calls, opening, gen, Root)
      BY <1>3, <3>1, OpenedAsks
    <3> QED
      BY <1>0, <2>1, <3>1, <3>2, AskedOne
  <2>3. Fills => (\E i \in DOMAIN calls : ~Stale(calls[i]))'
    BY <2>1, <2>2 DEF Stale
  <2> QED
    BY <2>1, <2>3 DEF LoadInv, Fills, Form
<1>4. ASSUME NEW t \in Sites, Visit(t) PROVE LoadInv'
  <2>1. /\ pane' = pane /\ cur' = t /\ Ask(Superseded(calls), t, "newest", Root)
        /\ "latch" \notin pane.checks /\ Superseded(calls) \in Seq(Call)
    BY <1>0, <1>4, SupersededCalls DEF Visit, PaneFact
  <2>2. \E i \in DOMAIN calls' : calls'[i].server = t /\ calls'[i].gen # "superseded"
    BY <1>0, <2>1, AskedOne
  <2>3. (\E i \in DOMAIN calls : ~Stale(calls[i]))'
    BY <2>1, <2>2 DEF Stale
  <2> QED
    BY <2>3 DEF LoadInv
<1>5. CASE AsksNothing
  <2>1. UNCHANGED pane /\ (Leaves \/ Stays \/ Reopens \/ Wanders)
    BY <1>5, NothingAsked
  <2>2. cur' = NoSite \/ wandered' \/ opening' \in Sites \/ UNCHANGED <<cur, wandered, opening, rows, calls>>
    BY <2>1 DEF Leaves, Stays, Reopens, Wanders
  <2>3. CASE cur' = NoSite \/ wandered' \/ opening' \in Sites
    BY <2>3, BrowserAssumption DEF LoadInv, Steady
  <2>4. CASE UNCHANGED <<cur, wandered, opening, rows, calls>>
    BY <2>1, <2>4 DEF LoadInv, Steady, Fills, Form, Stale
  <2> QED
    BY <2>2, <2>3, <2>4
<1> QED
  BY <1>1, <1>2, <1>3, <1>4, <1>5, Kinds

----------------------------------------------------------------------------
(* The theorems *)

LEMMA BrowserInitInv == BrowserInit => BrowserInv
<1> SUFFICES ASSUME BrowserInit PROVE BrowserInv
  OBVIOUS
<1>1. <<>> \in Seq(Call) /\ <<>> \in Seq(Row) /\ Root \in Folders /\ DOMAIN <<>> = {}
  BY BrowserAssumption
<1>2. BrowserTypeOK
  BY <1>1 DEF BrowserInit, BrowserTypeOK
<1>3. OwnServer /\ OwnFolder /\ FormInv /\ LiveInv /\ LoadInv
  BY <1>1 DEF BrowserInit, OwnServer, OwnFolder, FormInv, LiveInv, LoadInv, Steady, MayPaint
<1> QED
  BY <1>2, <1>3 DEF BrowserInv

LEMMA BrowserStep == BrowserInv /\ [BrowserNext]_browserVars => BrowserInv'
<1> SUFFICES ASSUME BrowserInv, [BrowserNext]_browserVars PROVE BrowserInv'
  OBVIOUS
<1>1. BrowserTypeOK /\ OwnServer /\ OwnFolder /\ FormInv /\ LiveInv /\ LoadInv
  BY DEF BrowserInv
<1> QED
  BY <1>1, BrowserTypeStep, ServerStep, FolderStep, FormStep, LiveStep, LoadStep DEF BrowserInv

\* The requests in flight and what they will paint: one inductive invariant for every
\* set of servers and every pane.
THEOREM BrowserInvariant == BrowserSpec => []BrowserInv
BY BrowserInitInv, BrowserStep, PTL DEF BrowserSpec

LEMMA ShowsFromInv == BrowserInv => PaneShowsOwn /\ PaneLoads
<1> SUFFICES ASSUME BrowserInv PROVE PaneShowsOwn /\ PaneLoads
  OBVIOUS
<1>1. PaneShowsOwn
  BY DEF BrowserInv, PaneShowsOwn
<1>2. PaneLoads
  <2> SUFFICES ASSUME Steady, opening = NoSite, Fills, calls = <<>>
               PROVE  rows # <<>> /\ (Form(pane) => rows[1].server = cur)
    BY DEF PaneLoads, Steady, Fills
  <2>1. DOMAIN calls = {}
    OBVIOUS
  <2> QED
    BY <2>1 DEF BrowserInv, LoadInv
<1> QED
  BY <1>1, <1>2

\* Nothing of another server, or another folder, is on the screen.
THEOREM PaneShowsOwnHolds == BrowserSpec => []PaneShowsOwn
BY BrowserInvariant, ShowsFromInv, PTL

\* No load ends with an empty pane.
THEOREM PaneLoadsHolds == BrowserSpec => []PaneLoads
BY BrowserInvariant, ShowsFromInv, PTL
=============================================================================
