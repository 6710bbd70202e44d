-------------------------- MODULE PowerEngineProofs --------------------------
(* Proofs about PowerEngine for any set of requests and any number of spawns. *)
EXTENDS PowerEngine, SequenceTheorems, TLAPS

\* Removing the i-th element of a sequence shifts the later ones down by one.
LEMMA RemoveAtProperties ==
  ASSUME NEW S, NEW q \in Seq(S), NEW i \in 1..Len(q)
  PROVE  /\ RemoveAt(q, i) \in Seq(S)
         /\ Len(RemoveAt(q, i)) = Len(q) - 1
         /\ \A k \in 1..(Len(q) - 1) :
              RemoveAt(q, i)[k] = IF k < i THEN q[k] ELSE q[k + 1]
<1>1. PICK a \in Seq(S), b \in Seq(S) :
         /\ RemoveAt(q, i) = a \o b
         /\ Len(a) = i - 1 /\ \A k \in 1..(i - 1) : a[k] = q[k]
         /\ Len(b) = Len(q) - i /\ \A k \in 1..(Len(q) - i) : b[k] = q[k + i]
  <2>1. Len(q) \in Nat
    OBVIOUS
  <2>2. /\ SubSeq(q, 1, i - 1) \in Seq(S)
        /\ Len(SubSeq(q, 1, i - 1)) = i - 1
        /\ \A k \in 1..(i - 1) : SubSeq(q, 1, i - 1)[k] = q[k]
    BY <2>1
  <2>3. /\ SubSeq(q, i + 1, Len(q)) \in Seq(S)
        /\ Len(SubSeq(q, i + 1, Len(q))) = Len(q) - i
        /\ \A k \in 1..(Len(q) - i) : SubSeq(q, i + 1, Len(q))[k] = q[k + i]
    BY <2>1
  <2> QED
    BY <2>2, <2>3 DEF RemoveAt
<1>2. /\ a \o b \in Seq(S)
      /\ Len(a \o b) = Len(a) + Len(b)
      /\ \A k \in 1..(Len(a) + Len(b)) :
           (a \o b)[k] = IF k <= Len(a) THEN a[k] ELSE b[k - Len(a)]
  BY ConcatProperties
<1>3. ASSUME NEW k \in 1..(Len(q) - 1)
      PROVE  (a \o b)[k] = IF k < i THEN q[k] ELSE q[k + 1]
  <2>1. CASE k < i
    BY <2>1, <1>1, <1>2
  <2>2. CASE ~(k < i)
    <3>1. k - Len(a) \in 1..(Len(q) - i) /\ (k - Len(a)) + i = k + 1
      BY <2>2, <1>1
    <3> QED
      BY <2>2, <3>1, <1>1, <1>2
  <2> QED
    BY <2>1, <2>2
<1> QED
  BY <1>1, <1>2, <1>3

\* The head of the queue is a request; the rest of it is a queue of requests.
LEMMA QueueHead ==
  ASSUME RequestTypeOK, micro # <<>>
  PROVE  /\ Head(micro) \in Reqs
         /\ Head(micro) = micro[1]
         /\ Len(micro) \in Nat \ {0}
         /\ Tail(micro) \in Seq(Reqs)
         /\ Len(Tail(micro)) = Len(micro) - 1
         /\ \A i \in 1..(Len(micro) - 1) : Tail(micro)[i] = micro[i + 1]
  BY HeadTailProperties DEF RequestTypeOK

-----------------------------------------------------------------------------
\* Initially every variable has its type.
LEMMA TypeInit == Init => TypeOK
<1> SUFFICES ASSUME Init PROVE TypeOK
  OBVIOUS
<1>1. SlotTypeOK
  BY DEF Init, SlotTypeOK, Rows, Runtime, NoProc
<1>2. ProcessTypeOK
  BY MaxSpawnsAssumption DEF Init, ProcessTypeOK
<1>3. RequestTypeOK
  BY DEF Init, RequestTypeOK, PCs, Finished, NoProc
<1>4. stopping \in BOOLEAN
  BY DEF Init
<1> QED
  BY <1>1, <1>2, <1>3, <1>4 DEF TypeOK

\* Slot, record and row keep their types.
LEMMA SlotTypeStep == TypeOK /\ [Next]_vars => SlotTypeOK'
<1> SUFFICES ASSUME TypeOK, [Next]_vars PROVE SlotTypeOK'
  OBVIOUS
<1> USE DEF TypeOK, SlotTypeOK, ProcessTypeOK, Rows, Runtime, NoProc, slotVars, osVars, reqVars
<1>1. ASSUME NEW r \in Reqs, Start(r) PROVE SlotTypeOK'
  <2>1. CASE Launch(r)
    BY <2>1, MaxSpawnsAssumption DEF Launch
  <2>2. CASE StartThrows(r)
    BY <2>2 DEF StartThrows
  <2> QED
    BY <1>1, <2>1, <2>2 DEF Start
<1>2. ASSUME NEW r \in Reqs, EndGrace(r) PROVE SlotTypeOK'
  BY <1>2 DEF EndGrace
<1>3. ASSUME NEW r \in Reqs, BeginStop(r) PROVE SlotTypeOK'
  BY <1>3 DEF BeginStop
<1>4. ASSUME NEW r \in Reqs, PowerKill(r) PROVE SlotTypeOK'
  BY <1>4 DEF PowerKill, BeginKill
<1>5. ASSUME NEW r \in Reqs, StopTimeout(r) PROVE SlotTypeOK'
  BY <1>5 DEF StopTimeout
<1>6. ASSUME NEW r \in Reqs, KillTimeout(r) PROVE SlotTypeOK'
  BY <1>6 DEF KillTimeout
<1>7. ASSUME NEW r \in Reqs, AdminRequest(r) PROVE SlotTypeOK'
  BY <1>7 DEF AdminRequest, AtOnce, AfterKill, BeginKill
<1>8. ASSUME NEW r \in Reqs, Shutdown(r) PROVE SlotTypeOK'
  BY <1>8 DEF Shutdown, AtOnce, AfterKill, BeginKill
<1>9. ASSUME NEW p \in Procs, ExitEvent(p) PROVE SlotTypeOK'
  BY <1>9 DEF ExitEvent, Finish
<1>10. CASE RunMicrotask
  <2>1. micro # <<>> /\ RequestTypeOK
    BY <1>10 DEF RunMicrotask
  <2>2. Head(micro) \in Reqs
    BY <2>1, QueueHead
  <2> QED
    BY <1>10, <1>1, <2>2 DEF RunMicrotask, StopResumes, KillResumes, Finish, RestartResumes,
       HandlerResumes, AfterKill
<1>11. CASE Unsuspend \/ PanelEnds \/ Boot \/ \E p \in Procs : ProcessDies(p)
  BY <1>11 DEF Unsuspend, PanelEnds, Boot, ProcessDies
<1>12. CASE UNCHANGED vars
  BY <1>12 DEF vars
<1> QED
  BY <1>1, <1>2, <1>3, <1>4, <1>5, <1>6, <1>7, <1>8, <1>9, <1>10, <1>11, <1>12 DEF Next, BeginStart

\* The stopping flag stays Boolean.
LEMMA FlagTypeStep == stopping \in BOOLEAN /\ [Next]_vars => (stopping \in BOOLEAN)'
  BY DEF Next, vars, slotVars, BeginStart, Start, Launch, StartThrows, EndGrace, BeginStop,
     PowerKill, BeginKill, StopTimeout, KillTimeout, AdminRequest, AtOnce, AfterKill, Shutdown,
     ExitEvent, Finish, RunMicrotask, StopResumes, KillResumes, RestartResumes, HandlerResumes,
     ProcessDies, Unsuspend, PanelEnds, Boot

\* Process names are the numbers given out so far.
LEMMA ProcessTypeStep == TypeOK /\ [Next]_vars => ProcessTypeOK'
<1> SUFFICES ASSUME TypeOK, [Next]_vars PROVE ProcessTypeOK'
  OBVIOUS
<1> USE DEF TypeOK, ProcessTypeOK, SlotTypeOK, osVars, NoProc
<1>1. ASSUME NEW r \in Reqs, Start(r) PROVE ProcessTypeOK'
  <2>1. CASE Launch(r)
    BY <2>1, MaxSpawnsAssumption DEF Launch
  <2>2. CASE StartThrows(r)
    BY <2>2 DEF StartThrows
  <2> QED
    BY <1>1, <2>1, <2>2 DEF Start
<1>2. ASSUME NEW r \in Reqs, EndGrace(r) \/ BeginStop(r) \/ KillTimeout(r) PROVE ProcessTypeOK'
  BY <1>2 DEF EndGrace, BeginStop, KillTimeout
<1>3. ASSUME NEW r \in Reqs, PowerKill(r) \/ StopTimeout(r) PROVE ProcessTypeOK'
  BY <1>3 DEF PowerKill, BeginKill, StopTimeout, Sigkill
<1>4. ASSUME NEW r \in Reqs, AdminRequest(r) \/ Shutdown(r) PROVE ProcessTypeOK'
  BY <1>4 DEF AdminRequest, Shutdown, AtOnce, BeginKill, Sigkill
<1>5. ASSUME NEW p \in Procs, ExitEvent(p) \/ ProcessDies(p) PROVE ProcessTypeOK'
  BY <1>5 DEF ExitEvent, ProcessDies
<1>6. CASE RunMicrotask
  <2>1. micro # <<>> /\ RequestTypeOK
    BY <1>6 DEF RunMicrotask
  <2>2. Head(micro) \in Reqs
    BY <2>1, QueueHead
  <2> QED
    BY <1>6, <1>1, <2>2 DEF RunMicrotask, StopResumes, KillResumes, RestartResumes, HandlerResumes
<1>7. CASE Unsuspend \/ PanelEnds \/ Boot \/ UNCHANGED vars
  BY <1>7 DEF Unsuspend, PanelEnds, Boot, vars
<1> QED
  BY <1>1, <1>2, <1>3, <1>4, <1>5, <1>6, <1>7 DEF Next, BeginStart

\* Requests stay at known points, the queues hold requests.
LEMMA RequestTypeStep == TypeOK /\ [Next]_vars => RequestTypeOK'
<1> SUFFICES ASSUME TypeOK, [Next]_vars PROVE RequestTypeOK'
  OBVIOUS
<1> USE DEF TypeOK, RequestTypeOK, ProcessTypeOK, SlotTypeOK, osVars, reqVars, NoProc, Ops,
        PCs, Finished, Waiting, Woken, Later, Grace
<1>0. ASSUME NEW r \in Reqs, NEW result \in Finished, Return(r, result), spawned' = spawned,
             waiters' \in Seq(Reqs), micro' \in Seq(Reqs)
      PROVE  RequestTypeOK'
  BY <1>0 DEF Return
<1>1. ASSUME NEW r \in Reqs, Start(r), waiters' = waiters, micro' \in Seq(Reqs)
      PROVE  RequestTypeOK'
  <2>1. CASE Launch(r)
    BY <1>1, <2>1, MaxSpawnsAssumption DEF Launch
  <2>2. CASE StartThrows(r)
    BY <1>0, <1>1, <2>2 DEF StartThrows
  <2> QED
    BY <1>1, <2>1, <2>2 DEF Start
<1>2. ASSUME NEW r \in Reqs, BeginStart(r) PROVE RequestTypeOK'
  BY <1>1, <1>2 DEF BeginStart
<1>3. ASSUME NEW r \in Reqs, EndGrace(r) PROVE RequestTypeOK'
  BY <1>0, <1>3 DEF EndGrace
<1>4. ASSUME NEW r \in Reqs, BeginStop(r) PROVE RequestTypeOK'
  BY <1>4 DEF BeginStop, WaitForExit
<1>5. ASSUME NEW r \in Reqs, NEW o \in Ops, BeginKill(r, o) PROVE RequestTypeOK'
  BY <1>5 DEF BeginKill, WaitForExit
<1>6. ASSUME NEW r \in Reqs, StopTimeout(r) PROVE RequestTypeOK'
  <2>1. PICK i \in 1..Len(waiters) : waiters' = Append(RemoveAt(waiters, i), r)
    BY <1>6 DEF StopTimeout
  <2>2. RemoveAt(waiters, i) \in Seq(Reqs)
    BY RemoveAtProperties
  <2> QED
    BY <1>6, <2>1, <2>2 DEF StopTimeout
<1>7. ASSUME NEW r \in Reqs, KillTimeout(r) PROVE RequestTypeOK'
  <2>1. PICK i \in 1..Len(waiters) : waiters' = RemoveAt(waiters, i)
    BY <1>7 DEF KillTimeout
  <2>2. RemoveAt(waiters, i) \in Seq(Reqs)
    BY RemoveAtProperties
  <2> QED
    BY <1>0, <1>7, <2>1, <2>2 DEF KillTimeout
<1>8. ASSUME NEW r \in Reqs, NEW o \in Ops, AtOnce(r, o) PROVE RequestTypeOK'
  BY <1>0, <1>8 DEF AtOnce
<1>9. ASSUME NEW p \in Procs, ExitEvent(p) PROVE RequestTypeOK'
  BY <1>9 DEF ExitEvent, AfterExit
<1>10. CASE RunMicrotask
  <2>1. micro # <<>> /\ RequestTypeOK
    BY <1>10 DEF RunMicrotask
  <2>2. Head(micro) \in Reqs /\ Tail(micro) \in Seq(Reqs)
    BY <2>1, QueueHead
  <2>r. ASSUME NEW where \in Later, Requeue(Head(micro), where), spawned' = spawned,
               waiters' = waiters
        PROVE  RequestTypeOK'
    BY <2>2, <2>r DEF Requeue
  <2>3. CASE StopResumes(Head(micro))
    BY <1>0, <2>2, <2>r, <2>3 DEF StopResumes
  <2>4. CASE KillResumes(Head(micro))
    BY <1>0, <2>2, <2>r, <2>4 DEF KillResumes
  <2>5. CASE RestartResumes(Head(micro))
    BY <1>1, <2>2, <2>5 DEF RestartResumes
  <2>6. CASE HandlerResumes(Head(micro))
    BY <1>0, <2>2, <2>6 DEF HandlerResumes
  <2> QED
    BY <1>10, <2>3, <2>4, <2>5, <2>6 DEF RunMicrotask
<1>11. ASSUME NEW p \in Procs, ProcessDies(p) PROVE RequestTypeOK'
  BY <1>11 DEF ProcessDies
<1>12. CASE PanelEnds
  BY <1>12 DEF PanelEnds
<1>13. CASE Unsuspend \/ Boot \/ UNCHANGED vars
  BY <1>13 DEF Unsuspend, Boot, vars
<1> QED
  BY <1>2, <1>3, <1>4, <1>5, <1>6, <1>7, <1>8, <1>9, <1>10, <1>11, <1>12, <1>13
     DEF Next, PowerKill, AdminRequest, Shutdown

\* Every step keeps every type.
LEMMA TypeStep == TypeOK /\ [Next]_vars => TypeOK'
  BY SlotTypeStep, FlagTypeStep, ProcessTypeStep, RequestTypeStep DEF TypeOK

\* Every variable of the engine model keeps its type (PowerEngine!TypeOK).
THEOREM TypeCorrect == Spec => []TypeOK
  BY TypeInit, TypeStep, PTL DEF Spec

-----------------------------------------------------------------------------
\* Nothing is spawned, queued or awaited initially.
LEMMA IndInit == Init => IndInv
<1> SUFFICES ASSUME Init PROVE IndInv
  OBVIOUS
<1>1. TypeOK
  BY TypeInit
<1>2. SlotInv /\ RecordMatchesSlot /\ WaitInv /\ QueueInv /\ DeadInv /\ StopInv
  BY DEF Init, SlotInv, RecordMatchesSlot, WaitInv, QueueInv, DeadInv, StopInv, Finished,
         Waiting, Woken, Later, Grace, NoProc
<1> QED
  BY <1>1, <1>2 DEF IndInv

\* A continuation is at one of the points a continuation can be at, its caller is
\* no longer waiting, and the panel is up.
LEMMA HeadFacts ==
  ASSUME IndInv, micro # <<>>
  PROVE  /\ Head(micro) \in Reqs
         /\ pc[Head(micro)] \in Woken \cup Later
         /\ pc[Head(micro)] \in Woken => proc = NoProc
         /\ panel # "down"
         /\ waiters = <<>>
         /\ \A r \in Reqs : pc[r] \notin Waiting
<1>1. RequestTypeOK
  BY DEF IndInv, TypeOK
<1>2. Head(micro) \in Reqs /\ Head(micro) = micro[1] /\ 1 \in 1..Len(micro)
  BY <1>1, QueueHead
<1>3. \A r \in Reqs : pc[r] \notin Waiting
  BY DEF IndInv, WaitInv
<1>4. waiters = <<>>
  <2>1. \A i \in 1..Len(waiters) : waiters[i] \in Reqs
    BY <1>1 DEF RequestTypeOK
  <2>2. Len(waiters) = 0
    BY <1>1, <1>3, <2>1 DEF IndInv, WaitInv, RequestTypeOK
  <2> QED
    BY <1>1, <2>2 DEF RequestTypeOK
<1> QED
  BY <1>2, <1>3, <1>4 DEF IndInv, SlotInv, QueueInv

\* The slot keeps holding the panel's only child.
LEMMA SlotStep == IndInv /\ [Next]_vars => SlotInv'
<1> SUFFICES ASSUME IndInv, [Next]_vars PROVE SlotInv'
  OBVIOUS
<1>t. SlotTypeOK /\ ProcessTypeOK /\ RequestTypeOK
  BY DEF IndInv, TypeOK
<1> USE DEF SlotInv, slotVars, osVars, reqVars, NoProc
<1>1. ASSUME NEW r \in Reqs, Start(r), panel # "down" PROVE SlotInv'
  <2>1. CASE Launch(r)
    <3>1. proc = 0 /\ row = "ready"
      BY <2>1, <1>t DEF Launch, StartChecks, StateOf
    <3>2. children = {}
      BY <3>1, <1>t DEF IndInv, ProcessTypeOK
    <3> QED
      BY <1>1, <2>1, <3>1, <3>2, <1>t, MaxSpawnsAssumption DEF Launch, ProcessTypeOK
  <2>2. CASE StartThrows(r)
    BY <1>1, <2>2 DEF StartThrows, IndInv
  <2> QED
    BY <1>1, <2>1, <2>2 DEF Start
<1>2. ASSUME NEW r \in Reqs, EndGrace(r) PROVE SlotInv'
  BY <1>2, <1>t DEF EndGrace, IndInv, Return, RequestTypeOK, Finished
<1>3. ASSUME NEW r \in Reqs, BeginStop(r) PROVE SlotInv'
  BY <1>3 DEF BeginStop, Accepts, IndInv
<1>4. ASSUME NEW r \in Reqs, PowerKill(r) PROVE SlotInv'
  BY <1>4 DEF PowerKill, BeginKill, Accepts, IndInv
<1>5. ASSUME NEW r \in Reqs, StopTimeout(r) PROVE SlotInv'
  BY <1>5, <1>t DEF StopTimeout, IndInv, Finished
<1>6. ASSUME NEW r \in Reqs, KillTimeout(r) PROVE SlotInv'
  BY <1>6, <1>t DEF KillTimeout, IndInv, Finished
<1>7. ASSUME NEW r \in Reqs, AdminRequest(r) PROVE SlotInv'
  BY <1>7 DEF AdminRequest, Accepts, AtOnce, AfterKill, BeginKill, IndInv
<1>8. ASSUME NEW r \in Reqs, Shutdown(r) PROVE SlotInv'
  BY <1>8 DEF Shutdown, AtOnce, AfterKill, BeginKill, IndInv
<1>9. ASSUME NEW p \in Procs, ExitEvent(p) PROVE SlotInv'
  BY <1>9 DEF ExitEvent, Finish, IndInv
<1>10. CASE RunMicrotask
  <2>1. micro # <<>>
    BY <1>10 DEF RunMicrotask
  <2>2. /\ Head(micro) \in Reqs /\ panel # "down"
        /\ pc[Head(micro)] = "killWoken" => proc = 0
    BY <2>1, HeadFacts DEF Woken
  <2>3. CASE StopResumes(Head(micro))
    BY <2>2, <2>3 DEF StopResumes, IndInv
  <2>4. CASE KillResumes(Head(micro))
    BY <2>2, <2>4 DEF KillResumes, Finish, IndInv
  <2>5. CASE RestartResumes(Head(micro))
    BY <1>1, <2>2, <2>5 DEF RestartResumes
  <2>6. CASE HandlerResumes(Head(micro))
    BY <2>2, <2>6 DEF HandlerResumes, AfterKill, IndInv
  <2> QED
    BY <1>10, <2>3, <2>4, <2>5, <2>6 DEF RunMicrotask
<1>11. CASE PanelEnds
  BY <1>11, <1>t DEF PanelEnds, IndInv, ProcessTypeOK, Finished
<1>12. CASE Unsuspend \/ Boot \/ \E p \in Procs : ProcessDies(p)
  BY <1>12 DEF Unsuspend, Boot, ProcessDies, IndInv
<1>13. CASE UNCHANGED vars
  BY <1>13 DEF vars, IndInv
<1> QED
  BY <1>1, <1>2, <1>3, <1>4, <1>5, <1>6, <1>7, <1>8, <1>9, <1>10, <1>11, <1>12, <1>13
     DEF Next, BeginStart, Accepts

\* The record keeps agreeing with the slot.
LEMMA RecordStep == IndInv /\ [Next]_vars => RecordMatchesSlot'
<1> SUFFICES ASSUME IndInv, [Next]_vars PROVE RecordMatchesSlot'
  OBVIOUS
<1>t. SlotTypeOK /\ ProcessTypeOK /\ RequestTypeOK
  BY DEF IndInv, TypeOK
<1>r. RecordMatchesSlot
  BY DEF IndInv
<1> USE DEF RecordMatchesSlot, slotVars, osVars, reqVars, NoProc
<1>1. ASSUME NEW r \in Reqs, Start(r) PROVE RecordMatchesSlot'
  <2>1. CASE Launch(r)
    BY <2>1, <1>t DEF Launch, ProcessTypeOK
  <2>2. CASE StartThrows(r)
    BY <2>2, <1>r DEF StartThrows, StartChecks, StateOf
  <2> QED
    BY <1>1, <2>1, <2>2 DEF Start
<1>2. ASSUME NEW r \in Reqs, EndGrace(r) PROVE RecordMatchesSlot'
  <2>1. panel # "down"
    BY <1>2, <1>t DEF EndGrace, IndInv, SlotInv, Grace, Finished
  <2>2. CASE StateOf = "offline"
    BY <1>2, <1>r, <2>2 DEF EndGrace
  <2>3. CASE StateOf # "offline"
    BY <1>2, <1>r, <2>1, <2>3 DEF EndGrace, StateOf
  <2> QED
    BY <2>2, <2>3
<1>3. ASSUME NEW r \in Reqs, BeginStop(r) PROVE RecordMatchesSlot'
  BY <1>3 DEF BeginStop
<1>4. ASSUME NEW r \in Reqs, PowerKill(r) \/ StopTimeout(r) PROVE RecordMatchesSlot'
  BY <1>4, <1>r DEF PowerKill, BeginKill, StopTimeout
<1>5. ASSUME NEW r \in Reqs, KillTimeout(r) PROVE RecordMatchesSlot'
  BY <1>5 DEF KillTimeout, IndInv, WaitInv, Waiting
<1>6. ASSUME NEW r \in Reqs, AdminRequest(r) PROVE RecordMatchesSlot'
  BY <1>6, <1>r DEF AdminRequest, AtOnce, AfterKill, BeginKill
<1>7. ASSUME NEW r \in Reqs, Shutdown(r) PROVE RecordMatchesSlot'
  BY <1>7, <1>r DEF Shutdown, AtOnce, AfterKill, BeginKill
<1>8. ASSUME NEW p \in Procs, ExitEvent(p) PROVE RecordMatchesSlot'
  BY <1>8 DEF ExitEvent, Finish
<1>9. CASE RunMicrotask
  <2>1. micro # <<>>
    BY <1>9 DEF RunMicrotask
  <2>2. Head(micro) \in Reqs /\ panel # "down"
    BY <2>1, HeadFacts
  <2>3. CASE StopResumes(Head(micro))
    BY <2>3, <1>r DEF StopResumes
  <2>4. CASE KillResumes(Head(micro))
    BY <2>4 DEF KillResumes, Finish
  <2>5. CASE RestartResumes(Head(micro))
    BY <1>1, <2>2, <2>5 DEF RestartResumes
  <2>6. CASE HandlerResumes(Head(micro))
    BY <2>2, <2>6, <1>r DEF HandlerResumes, AfterKill
  <2> QED
    BY <1>9, <2>3, <2>4, <2>5, <2>6 DEF RunMicrotask
<1>10. CASE Boot
  BY <1>10, <1>t DEF Boot, IndInv, SlotInv
<1>11. CASE PanelEnds
  BY <1>11 DEF PanelEnds
<1>12. CASE Unsuspend \/ UNCHANGED vars \/ \E p \in Procs : ProcessDies(p)
  BY <1>12, <1>r DEF Unsuspend, ProcessDies, vars
<1> QED
  BY <1>1, <1>2, <1>3, <1>4, <1>5, <1>6, <1>7, <1>8, <1>9, <1>10, <1>11, <1>12
     DEF Next, BeginStart

\* Callers that wait keep waiting for the tracked process, each listed once.
LEMMA WaitStep == IndInv /\ [Next]_vars => WaitInv'
<1> SUFFICES ASSUME IndInv, [Next]_vars PROVE WaitInv'
  OBVIOUS
<1>t. SlotTypeOK /\ ProcessTypeOK /\ RequestTypeOK
  BY DEF IndInv, TypeOK
<1>i. WaitInv /\ SlotInv
  BY DEF IndInv
<1>w. \A i \in 1..Len(waiters) : waiters[i] \in Reqs
  BY <1>t DEF RequestTypeOK
<1> USE DEF WaitInv, slotVars, osVars, reqVars, NoProc, Waiting
<1>1. ASSUME waiters' = waiters, proc' = proc, on' = on, pc' = pc, micro' = micro PROVE WaitInv'
  BY <1>1, <1>i
\* A caller returns that was not waiting, or nobody is waiting at all.
<1>2. ASSUME NEW r \in Reqs, NEW result \in Finished, Return(r, result), waiters' = waiters,
             \/ proc' = proc /\ micro' = micro
             \/ \A s \in Reqs : pc[s] \notin Waiting,
             pc[r] \notin Waiting
      PROVE  WaitInv'
  BY <1>2, <1>i, <1>t, <1>w DEF Return, RequestTypeOK, Finished
<1>3. ASSUME NEW r \in Reqs, Start(r), waiters' = waiters, pc[r] \notin Waiting,
             micro' = micro \/ \A s \in Reqs : pc[s] \notin Waiting
      PROVE  WaitInv'
  <2>1. CASE Launch(r)
    <3>1. proc = 0
      BY <2>1, <1>t DEF Launch, StartChecks, StateOf
    <3>2. \A s \in Reqs : pc[s] \notin Waiting
      BY <3>1, <1>i
    <3>3. \A s \in Reqs : pc'[s] \notin Waiting
      BY <3>2, <2>1, <1>t DEF Launch, RequestTypeOK
    <3> QED
      BY <1>3, <3>2, <3>3, <1>i, <1>w
  <2>2. CASE StartThrows(r)
    <3>1. Return(r, "err") /\ proc' = proc
      BY <2>2 DEF StartThrows
    <3> QED
      BY <1>2, <1>3, <3>1 DEF Finished
  <2> QED
    BY <1>3, <2>1, <2>2 DEF Start
<1>4. ASSUME NEW r \in Reqs, EndGrace(r) PROVE WaitInv'
  BY <1>2, <1>4 DEF EndGrace, Grace, Finished
<1>5. ASSUME NEW r \in Reqs, NEW o \in Ops, NEW where \in Waiting, WaitForExit(r, o, where),
             proc # 0, proc' = proc, micro = <<>>, micro' = micro, pc[r] \in Finished
      PROVE  WaitInv'
  <2>1. \A i \in 1..Len(waiters) : waiters[i] # r
    BY <1>5, <1>i DEF Finished
  <2>2. \A s \in Reqs : pc'[s] \in Waiting => proc' # 0 /\ on'[s] = proc' /\ micro' = <<>>
    BY <1>5, <1>i, <1>t DEF WaitForExit, RequestTypeOK
  <2>3. /\ waiters' \in Seq(Reqs)
        /\ Len(waiters') = Len(waiters) + 1
        /\ \A i \in 1..Len(waiters) : waiters'[i] = waiters[i]
        /\ waiters'[Len(waiters) + 1] = r
    BY <1>5, <1>t, AppendProperties DEF WaitForExit, RequestTypeOK
  <2>4. \A s \in Reqs : pc'[s] = IF s = r THEN where ELSE pc[s]
    BY <1>5, <1>t DEF WaitForExit, RequestTypeOK
  <2>n. Len(waiters) \in Nat
    BY <1>t DEF RequestTypeOK
  <2>5. ASSUME NEW i \in 1..Len(waiters') PROVE pc'[waiters'[i]] \in Waiting
    <3>1. CASE i \in 1..Len(waiters)
      BY <2>3, <2>4, <3>1, <1>i, <1>w
    <3>2. CASE i = Len(waiters) + 1
      BY <2>3, <2>4, <3>2
    <3> QED
      BY <2>3, <2>n, <3>1, <3>2
  <2>6. \A i, j \in 1..Len(waiters') : waiters'[i] = waiters'[j] => i = j
    BY <2>1, <2>3, <2>n, <1>i
  <2> QED
    BY <2>2, <2>5, <2>6
<1>6. ASSUME NEW r \in Reqs, BeginStop(r) PROVE WaitInv'
  BY <1>5, <1>6 DEF BeginStop, Accepts, Ops
<1>7. ASSUME NEW r \in Reqs, NEW o \in Ops, BeginKill(r, o), micro = <<>>, pc[r] \in Finished
      PROVE  WaitInv'
  BY <1>5, <1>7 DEF BeginKill
<1>8. ASSUME NEW r \in Reqs, StopTimeout(r) PROVE WaitInv'
  <2>1. PICK i \in 1..Len(waiters) :
          waiters[i] = r /\ waiters' = Append(RemoveAt(waiters, i), r)
    BY <1>8 DEF StopTimeout
  <2>2. /\ RemoveAt(waiters, i) \in Seq(Reqs)
        /\ Len(RemoveAt(waiters, i)) = Len(waiters) - 1
        /\ \A k \in 1..(Len(waiters) - 1) :
             RemoveAt(waiters, i)[k] = IF k < i THEN waiters[k] ELSE waiters[k + 1]
    BY <1>t, RemoveAtProperties DEF RequestTypeOK
  <2>3. /\ Len(waiters') = Len(waiters)
        /\ \A k \in 1..(Len(waiters) - 1) :
             waiters'[k] = IF k < i THEN waiters[k] ELSE waiters[k + 1]
        /\ waiters'[Len(waiters)] = r
    <3>1. Len(waiters) \in Nat
      BY <1>t DEF RequestTypeOK
    <3> QED
      BY <2>1, <2>2, <3>1, AppendProperties
  <2>4. \A s \in Reqs : pc'[s] = IF s = r THEN "killWait" ELSE pc[s]
    BY <1>8, <1>t DEF StopTimeout, RequestTypeOK
  <2>5. \A s \in Reqs : pc'[s] \in Waiting => proc' # 0 /\ on'[s] = proc' /\ micro' = <<>>
    BY <1>8, <2>4, <1>i DEF StopTimeout
  <2>n. Len(waiters) \in Nat
    BY <1>t DEF RequestTypeOK
  <2>6. ASSUME NEW k \in 1..Len(waiters') PROVE pc'[waiters'[k]] \in Waiting
    <3>1. CASE k = Len(waiters)
      BY <2>3, <2>4, <3>1
    <3>2. CASE k # Len(waiters)
      <4>1. PICK m \in 1..Len(waiters) : waiters'[k] = waiters[m]
        BY <2>3, <2>n, <3>2
      <4> QED
        BY <2>4, <4>1, <1>i, <1>w
    <3> QED
      BY <3>1, <3>2
  <2>7. \A k, j \in 1..Len(waiters') : waiters'[k] = waiters'[j] => k = j
    BY <2>1, <2>3, <2>n, <1>i
  <2> QED
    BY <2>5, <2>6, <2>7
<1>9. ASSUME NEW r \in Reqs, KillTimeout(r) PROVE WaitInv'
  <2>1. PICK i \in 1..Len(waiters) : waiters[i] = r /\ waiters' = RemoveAt(waiters, i)
    BY <1>9 DEF KillTimeout
  <2>2. /\ Len(waiters') = Len(waiters) - 1
        /\ \A k \in 1..(Len(waiters) - 1) :
             waiters'[k] = IF k < i THEN waiters[k] ELSE waiters[k + 1]
    BY <2>1, <1>t, RemoveAtProperties DEF RequestTypeOK
  <2>3. \A s \in Reqs : pc'[s] = IF s = r THEN "err" ELSE pc[s]
    BY <1>9, <1>t DEF KillTimeout, Return, RequestTypeOK
  <2>4. \A s \in Reqs : s # r => on'[s] = on[s]
    BY <1>9, <1>t DEF KillTimeout, Return, RequestTypeOK
  <2>5. \A s \in Reqs : pc'[s] \in Waiting => proc' # 0 /\ on'[s] = proc' /\ micro' = <<>>
    BY <1>9, <2>3, <2>4, <1>i DEF KillTimeout
  <2>n. Len(waiters) \in Nat
    BY <1>t DEF RequestTypeOK
  <2>6. ASSUME NEW k \in 1..Len(waiters')
        PROVE  \E m \in 1..Len(waiters) : m # i /\ waiters'[k] = waiters[m]
    <3>1. CASE k < i
      BY <2>2, <2>n, <3>1
    <3>2. CASE ~(k < i)
      <4>1. k + 1 \in 1..Len(waiters) /\ k + 1 # i /\ waiters'[k] = waiters[k + 1]
        BY <2>2, <2>n, <3>2
      <4> QED
        BY <4>1
    <3> QED
      BY <3>1, <3>2
  <2>7. ASSUME NEW k \in 1..Len(waiters') PROVE pc'[waiters'[k]] \in Waiting
    <3>1. PICK m \in 1..Len(waiters) : m # i /\ waiters'[k] = waiters[m]
      BY <2>6
    <3>2. waiters[m] # r
      BY <2>1, <3>1, <1>i
    <3> QED
      BY <2>3, <3>1, <3>2, <1>i, <1>w
  <2>8. \A k, j \in 1..Len(waiters') : waiters'[k] = waiters'[j] => k = j
    BY <2>1, <2>2, <2>n, <1>i
  <2> QED
    BY <2>5, <2>7, <2>8
<1>10. ASSUME NEW r \in Reqs, NEW o \in Ops, AtOnce(r, o), pc[r] \in Finished PROVE WaitInv'
  BY <1>2, <1>10 DEF AtOnce, AfterKill, Finished
<1>11. ASSUME NEW p \in Procs, ExitEvent(p) PROVE WaitInv'
  <2>1. \A s \in Reqs : pc'[s] \notin Waiting
    <3>1. \A s \in Reqs : pc[s] \in Waiting => on[s] = p
      BY <1>11, <1>i DEF ExitEvent, SlotInv
    <3> QED
      BY <1>11, <3>1, <1>t DEF ExitEvent, AfterExit
  <2>2. waiters' = <<>>
    <3>1. CASE p = proc
      BY <1>11, <3>1 DEF ExitEvent
    <3>2. CASE p # proc
      <4>1. waiters' = waiters /\ \A s \in Reqs : pc[s] \notin Waiting
        BY <1>11, <3>2, <1>i DEF ExitEvent, SlotInv
      <4>2. Len(waiters) = 0
        BY <4>1, <1>i, <1>w, <1>t DEF RequestTypeOK
      <4> QED
        BY <4>1, <4>2, <1>t DEF RequestTypeOK
    <3> QED
      BY <3>1, <3>2
  <2> QED
    BY <2>1, <2>2
<1>12. CASE RunMicrotask
  <2>1. micro # <<>>
    BY <1>12 DEF RunMicrotask
  <2>2. Head(micro) \in Reqs /\ \A s \in Reqs : pc[s] \notin Waiting
    BY <2>1, HeadFacts DEF Waiting
  <2>r. ASSUME NEW where \in Later, Requeue(Head(micro), where), waiters' = waiters
        PROVE  WaitInv'
    <3>1. \A s \in Reqs : pc'[s] \notin Waiting
      BY <2>2, <2>r, <1>t DEF Requeue, Later, RequestTypeOK
    <3> QED
      BY <2>2, <2>r, <3>1, <1>i, <1>w
  <2>3. CASE StopResumes(Head(micro))
    BY <1>2, <2>2, <2>r, <2>3 DEF StopResumes, Finished, Later
  <2>4. CASE KillResumes(Head(micro))
    BY <1>2, <2>2, <2>r, <2>4 DEF KillResumes, Finished, Later
  <2>5. CASE RestartResumes(Head(micro))
    BY <1>3, <2>2, <2>5 DEF RestartResumes
  <2>6. CASE HandlerResumes(Head(micro))
    BY <1>2, <2>2, <2>6 DEF HandlerResumes, Finished
  <2> QED
    BY <1>12, <2>3, <2>4, <2>5, <2>6 DEF RunMicrotask
<1>13. ASSUME NEW p \in Procs, ProcessDies(p) PROVE WaitInv'
  BY <1>1, <1>13 DEF ProcessDies
<1>14. CASE Unsuspend \/ Boot \/ UNCHANGED vars
  BY <1>1, <1>14 DEF Unsuspend, Boot, vars
<1>15. CASE PanelEnds
  BY <1>15 DEF PanelEnds
<1>16. ASSUME NEW r \in Reqs, BeginStart(r) PROVE WaitInv'
  BY <1>3, <1>16 DEF BeginStart, Accepts, Finished
<1>17. ASSUME NEW r \in Reqs, PowerKill(r) \/ AdminRequest(r) \/ Shutdown(r) PROVE WaitInv'
  BY <1>7, <1>10, <1>17 DEF PowerKill, AdminRequest, Shutdown, Accepts, Ops
<1> QED
  BY <1>4, <1>6, <1>8, <1>9, <1>11, <1>12, <1>13, <1>14, <1>15, <1>16, <1>17 DEF Next

\* The queue stays in order: woken callers first, each request once.
LEMMA QueueStep == IndInv /\ [Next]_vars => QueueInv'
<1> SUFFICES ASSUME IndInv, [Next]_vars PROVE QueueInv'
  OBVIOUS
<1>t. SlotTypeOK /\ ProcessTypeOK /\ RequestTypeOK
  BY DEF IndInv, TypeOK
<1>i. WaitInv /\ SlotInv /\ QueueInv
  BY DEF IndInv
<1>m. \A i \in 1..Len(micro) : micro[i] \in Reqs
  BY <1>t DEF RequestTypeOK
<1> USE DEF QueueInv, slotVars, osVars, reqVars, NoProc
<1>1. ASSUME micro' = <<>> PROVE QueueInv'
  BY <1>1
<1>2. ASSUME NEW r \in Reqs,
             \/ BeginStart(r) \/ EndGrace(r) \/ BeginStop(r) \/ PowerKill(r) \/ StopTimeout(r)
             \/ KillTimeout(r) \/ AdminRequest(r) \/ Shutdown(r)
      PROVE  QueueInv'
  BY <1>1, <1>2 DEF BeginStart, EndGrace, BeginStop, PowerKill, StopTimeout, KillTimeout,
     AdminRequest, Shutdown, Accepts, AtOnce, BeginKill
<1>3. ASSUME NEW p \in Procs, ExitEvent(p) PROVE QueueInv'
  <2>1. CASE p # proc
    BY <1>1, <1>3, <2>1 DEF ExitEvent
  <2>2. CASE p = proc
    <3>1. proc' = 0 /\ micro' = waiters
      BY <1>3, <2>2 DEF ExitEvent, Finish
    <3>2. ASSUME NEW i \in 1..Len(waiters) PROVE pc'[waiters[i]] \in Woken
      <4>1. waiters[i] \in Reqs /\ pc[waiters[i]] \in Waiting
        BY <1>i, <1>t DEF WaitInv, RequestTypeOK
      <4>2. on[waiters[i]] = p
        BY <4>1, <2>2, <1>i DEF WaitInv
      <4> QED
        BY <1>3, <4>1, <4>2 DEF ExitEvent, AfterExit, Waiting, Woken
    <3>3. \A i, j \in 1..Len(waiters) : waiters[i] = waiters[j] => i = j
      BY <1>i DEF WaitInv
    <3> QED
      BY <3>1, <3>2, <3>3
  <2> QED
    BY <2>1, <2>2
<1>4. CASE RunMicrotask
  <2>1. micro # <<>>
    BY <1>4 DEF RunMicrotask
  <2> DEFINE h == Head(micro)
             n == Len(micro)
  <2>2. /\ h \in Reqs /\ h = micro[1] /\ n \in Nat \ {0}
        /\ Tail(micro) \in Seq(Reqs) /\ Len(Tail(micro)) = n - 1
        /\ \A i \in 1..(n - 1) : Tail(micro)[i] = micro[i + 1]
    BY <1>t, <2>1, QueueHead
  <2>3. pc[h] \in Woken => proc = 0
    BY <2>1, HeadFacts
  \* What is behind the head is another request, and woken only if the head is.
  <2>4. ASSUME NEW i \in 1..(n - 1)
        PROVE  /\ i + 1 \in 1..n
               /\ micro[i + 1] \in Reqs \ {h}
               /\ pc[micro[i + 1]] \in Woken \cup Later
               /\ pc[micro[i + 1]] \in Woken => pc[h] \in Woken
    <3>1. i + 1 \in 1..n /\ 1 \in 1..n /\ 1 < i + 1
      BY <2>2
    <3> QED
      BY <3>1, <2>2, <1>m, <1>i
  <2> HIDE DEF h, n
  <2>5. ASSUME \A s \in Reqs \ {h} : pc'[s] = pc[s], micro' = Tail(micro),
               proc' = 0 \/ proc' = proc \/ pc[h] \notin Woken
        PROVE  QueueInv'
    <3>1. Len(micro') = n - 1 /\ \A i \in 1..(n - 1) : micro'[i] = micro[i + 1]
      BY <2>2, <2>5
    <3>2. \A i \in 1..(n - 1) : pc'[micro'[i]] = pc[micro[i + 1]]
      BY <2>4, <2>5, <3>1
    <3>3. \A i, j \in 1..(n - 1) : micro'[i] = micro'[j] => i = j
      <4>1. \A i, j \in 1..(n - 1) : micro[i + 1] = micro[j + 1] => i + 1 = j + 1
        BY <2>4, <1>i DEF n
      <4> QED
        BY <3>1, <4>1, <2>2
    <3>4. \A i, j \in 1..(n - 1) :
            i < j /\ pc'[micro'[j]] \in Woken => pc'[micro'[i]] \in Woken
      <4>1. \A i, j \in 1..(n - 1) :
              i + 1 < j + 1 /\ pc[micro[j + 1]] \in Woken => pc[micro[i + 1]] \in Woken
        BY <2>4, <1>i DEF n
      <4>2. ASSUME NEW i \in 1..(n - 1), NEW j \in 1..(n - 1), i < j, pc'[micro'[j]] \in Woken
            PROVE  pc'[micro'[i]] \in Woken
        <5>1. i + 1 < j + 1
          BY <4>2, <2>2
        <5> QED
          BY <3>2, <4>1, <4>2, <5>1
      <4> QED
        BY <4>2
    <3>5. \A i \in 1..(n - 1) : pc'[micro'[i]] \in Woken => proc' = 0
      BY <2>3, <2>4, <2>5, <3>2
    <3> QED
      BY <2>4, <3>1, <3>2, <3>3, <3>4, <3>5
  <2>6. ASSUME NEW where \in Later, Requeue(h, where), proc' = 0 \/ proc' = proc
        PROVE  QueueInv'
    <3>1. /\ Len(micro') = n
          /\ \A i \in 1..(n - 1) : micro'[i] = micro[i + 1]
          /\ micro'[n] = h
      BY <2>2, <2>6, AppendProperties DEF Requeue
    <3>2. pc'[h] \in Later /\ \A s \in Reqs \ {h} : pc'[s] = pc[s]
      BY <2>2, <2>6, <1>t DEF Requeue, RequestTypeOK
    <3>3. \A i \in 1..(n - 1) : pc'[micro'[i]] = pc[micro[i + 1]] /\ micro'[i] # h
      BY <2>4, <3>1, <3>2
    <3>4. \A i \in 1..n : i = n \/ i \in 1..(n - 1)
      BY <2>2
    <3>5. \A i \in 1..n : pc'[micro'[i]] \in Woken \cup Later
      BY <2>4, <3>1, <3>2, <3>3, <3>4
    <3>6. \A i, j \in 1..n : micro'[i] = micro'[j] => i = j
      <4>1. \A i, j \in 1..(n - 1) : micro[i + 1] = micro[j + 1] => i + 1 = j + 1
        BY <2>4, <1>i DEF n
      <4>2. \A i, j \in 1..(n - 1) : micro'[i] = micro'[j] => i = j
        BY <3>1, <4>1, <2>2
      <4> QED
        BY <4>2, <3>1, <3>3, <3>4
    <3>7. pc'[h] \notin Woken
      BY <3>2 DEF Woken, Later
    <3>8. \A i, j \in 1..n : i < j /\ pc'[micro'[j]] \in Woken => pc'[micro'[i]] \in Woken
      <4>1. \A i, j \in 1..(n - 1) :
              i + 1 < j + 1 /\ pc[micro[j + 1]] \in Woken => pc[micro[i + 1]] \in Woken
        BY <2>4, <1>i DEF n
      <4>2. ASSUME NEW i \in 1..n, NEW j \in 1..n, i < j, pc'[micro'[j]] \in Woken
            PROVE  pc'[micro'[i]] \in Woken
        <5>1. j \in 1..(n - 1)
          BY <4>2, <3>1, <3>4, <3>7
        <5>2. i \in 1..(n - 1) /\ i + 1 < j + 1
          BY <4>2, <5>1, <2>2
        <5> QED
          BY <4>1, <4>2, <5>1, <5>2, <3>3
      <4> QED
        BY <4>2
    <3>9. \A i \in 1..n : pc'[micro'[i]] \in Woken => proc' = 0
      BY <2>3, <2>4, <2>6, <3>1, <3>3, <3>4, <3>7
    <3> QED
      BY <3>1, <3>5, <3>6, <3>8, <3>9
  <2>r. ASSUME NEW result \in Finished, Return(h, result)
        PROVE  \A s \in Reqs \ {h} : pc'[s] = pc[s]
    BY <2>r, <1>t DEF Return, RequestTypeOK
  <2>7. CASE StopResumes(h)
    BY <2>5, <2>6, <2>r, <2>7 DEF StopResumes, Finished, Later
  <2>8. CASE KillResumes(h)
    BY <2>5, <2>6, <2>r, <2>8 DEF KillResumes, Finish, Finished, Later
  <2>9. CASE RestartResumes(h)
    <3>1. pc[h] \notin Woken /\ micro' = Tail(micro)
      BY <2>9 DEF RestartResumes, Woken
    <3>2. \A s \in Reqs \ {h} : pc'[s] = pc[s]
      BY <2>r, <2>9, <1>t DEF RestartResumes, Start, Launch, StartThrows, Finished, RequestTypeOK
    <3> QED
      BY <2>5, <3>1, <3>2
  <2>10. CASE HandlerResumes(h)
    <3>1. pc[h] \notin Woken /\ micro' = Tail(micro)
      BY <2>10 DEF HandlerResumes, Woken
    <3>2. \A s \in Reqs \ {h} : pc'[s] = pc[s]
      BY <2>r, <2>10 DEF HandlerResumes, Finished
    <3> QED
      BY <2>5, <3>1, <3>2
  <2> QED
    BY <1>4, <2>7, <2>8, <2>9, <2>10 DEF RunMicrotask, h
<1>5. CASE Unsuspend \/ Boot \/ UNCHANGED vars \/ \E p \in Procs : ProcessDies(p)
  BY <1>5, <1>i DEF Unsuspend, Boot, ProcessDies, vars
<1>6. CASE PanelEnds
  BY <1>1, <1>6 DEF PanelEnds
<1> QED
  BY <1>2, <1>3, <1>4, <1>5, <1>6 DEF Next

\* A continuation never finds alive the process it waited for: a new process has
\* a new name, and grace periods belong to starts.
LEMMA DeadStep == IndInv /\ [Next]_vars => DeadInv'
<1> SUFFICES ASSUME IndInv, [Next]_vars PROVE DeadInv'
  OBVIOUS
<1>t. SlotTypeOK /\ ProcessTypeOK /\ RequestTypeOK
  BY DEF IndInv, TypeOK
<1>i. DeadInv
  BY DEF IndInv
<1> USE DEF DeadInv, slotVars, osVars, reqVars, NoProc, Finished, Waiting, Woken, Later, Grace
<1>1. ASSUME NEW r \in Reqs, NEW result \in Finished, Return(r, result), alive' = alive
      PROVE  DeadInv'
  BY <1>1, <1>i, <1>t DEF Return, RequestTypeOK
<1>2. ASSUME NEW r \in Reqs, Start(r) PROVE DeadInv'
  <2>1. CASE Launch(r)
    <3>1. \A s \in Reqs : on[s] # spawned'
      BY <2>1, <1>t, MaxSpawnsAssumption DEF Launch, RequestTypeOK, ProcessTypeOK
    <3> QED
      BY <2>1, <3>1, <1>i, <1>t DEF Launch, RequestTypeOK
  <2>2. CASE StartThrows(r)
    BY <1>1, <2>2 DEF StartThrows
  <2> QED
    BY <1>2, <2>1, <2>2 DEF Start
<1>3. ASSUME NEW r \in Reqs, EndGrace(r) \/ KillTimeout(r) PROVE DeadInv'
  BY <1>1, <1>3 DEF EndGrace, KillTimeout
<1>4. ASSUME NEW r \in Reqs, NEW o \in Ops, NEW where \in Waiting, WaitForExit(r, o, where),
             alive' = alive
      PROVE  DeadInv'
  BY <1>4, <1>i, <1>t DEF WaitForExit, RequestTypeOK
<1>5. ASSUME NEW r \in Reqs, BeginStop(r) PROVE DeadInv'
  BY <1>4, <1>5 DEF BeginStop, Ops
<1>6. ASSUME NEW r \in Reqs, NEW o \in Ops, BeginKill(r, o) PROVE DeadInv'
  BY <1>4, <1>6 DEF BeginKill
<1>7. ASSUME NEW r \in Reqs, StopTimeout(r) PROVE DeadInv'
  BY <1>7, <1>i, <1>t DEF StopTimeout, RequestTypeOK
<1>8. ASSUME NEW r \in Reqs, NEW o \in Ops, AtOnce(r, o) PROVE DeadInv'
  BY <1>1, <1>8 DEF AtOnce
<1>9. ASSUME NEW p \in Procs, ExitEvent(p) PROVE DeadInv'
  BY <1>9, <1>i, <1>t DEF ExitEvent, AfterExit, RequestTypeOK
<1>10. ASSUME NEW p \in Procs, ProcessDies(p) PROVE DeadInv'
  BY <1>10, <1>i DEF ProcessDies
<1>11. CASE RunMicrotask
  <2>1. micro # <<>>
    BY <1>11 DEF RunMicrotask
  <2>2. Head(micro) \in Reqs /\ pc[Head(micro)] \in Woken \cup Later
    BY <2>1, HeadFacts
  <2>r. ASSUME NEW where \in Later, Requeue(Head(micro), where), alive' = alive PROVE DeadInv'
    BY <2>2, <2>r, <1>i, <1>t DEF Requeue, RequestTypeOK
  <2>3. CASE StopResumes(Head(micro))
    BY <1>1, <2>2, <2>r, <2>3 DEF StopResumes
  <2>4. CASE KillResumes(Head(micro))
    BY <1>1, <2>2, <2>r, <2>4 DEF KillResumes
  <2>5. CASE RestartResumes(Head(micro))
    BY <1>2, <2>2, <2>5 DEF RestartResumes
  <2>6. CASE HandlerResumes(Head(micro))
    BY <1>1, <2>2, <2>6 DEF HandlerResumes
  <2> QED
    BY <1>11, <2>3, <2>4, <2>5, <2>6 DEF RunMicrotask
<1>12. CASE PanelEnds
  BY <1>12 DEF PanelEnds
<1>13. CASE Unsuspend \/ Boot \/ UNCHANGED vars
  BY <1>13, <1>i DEF Unsuspend, Boot, vars
<1> QED
  BY <1>2, <1>3, <1>5, <1>6, <1>7, <1>8, <1>9, <1>10, <1>11, <1>12, <1>13
     DEF Next, BeginStart, PowerKill, AdminRequest, Shutdown, Ops

\* The stopping flag stays up as long as anyone waits for the process.
LEMMA StopStep == IndInv /\ [Next]_vars => StopInv'
<1> SUFFICES ASSUME IndInv, [Next]_vars PROVE StopInv'
  OBVIOUS
<1>t. ProcessTypeOK /\ RequestTypeOK
  BY DEF IndInv, TypeOK
<1>i. StopInv /\ WaitInv /\ SlotInv
  BY DEF IndInv
<1> USE DEF StopInv, slotVars, osVars, reqVars, NoProc, Finished, Waiting, Later, Grace
<1>1. ASSUME NEW r \in Reqs, NEW result \in Finished, Return(r, result), stopping' = stopping
      PROVE  StopInv'
  BY <1>1, <1>i, <1>t DEF Return, RequestTypeOK
<1>2. ASSUME \A s \in Reqs : pc'[s] \notin Waiting PROVE StopInv'
  BY <1>2
<1>3. ASSUME NEW r \in Reqs, Start(r) PROVE StopInv'
  <2>1. CASE StartChecks
    <3>1. proc = 0
      BY <2>1, <1>t DEF StartChecks, StateOf
    <3>2. \A s \in Reqs : pc[s] \notin Waiting
      BY <3>1, <1>i DEF WaitInv
    <3>3. \A s \in Reqs : pc'[s] \notin Waiting
      BY <1>3, <3>2, <1>t DEF Start, Launch, StartThrows, Return, RequestTypeOK
    <3> QED
      BY <1>2, <3>3
  <2>2. CASE ~StartChecks
    BY <1>1, <1>3, <2>2 DEF Start, Launch, StartThrows
  <2> QED
    BY <2>1, <2>2
<1>4. ASSUME NEW r \in Reqs, EndGrace(r) \/ KillTimeout(r) PROVE StopInv'
  BY <1>1, <1>4 DEF EndGrace, KillTimeout
<1>5. ASSUME stopping' PROVE StopInv'
  BY <1>5
<1>6. ASSUME NEW r \in Reqs, NEW o \in Ops, BeginStop(r) \/ BeginKill(r, o) \/ StopTimeout(r)
      PROVE  StopInv'
  BY <1>5, <1>6 DEF BeginStop, BeginKill, StopTimeout
<1>7. ASSUME NEW r \in Reqs, NEW o \in Ops, AtOnce(r, o) PROVE StopInv'
  <2>1. \A s \in Reqs : pc[s] \notin Waiting
    BY <1>7, <1>i DEF AtOnce, WaitInv
  <2> QED
    BY <1>2, <1>7, <2>1, <1>t DEF AtOnce, Return, RequestTypeOK
<1>8. ASSUME NEW p \in Procs, ExitEvent(p) PROVE StopInv'
  <2>1. ASSUME NEW s \in Reqs PROVE pc'[s] \notin Waiting
    <3>1. CASE pc[s] \in Waiting
      <4>1. on[s] = p
        BY <1>8, <3>1, <1>i DEF ExitEvent, WaitInv, SlotInv
      <4> QED
        BY <1>8, <3>1, <4>1 DEF ExitEvent, AfterExit
    <3>2. CASE pc[s] \notin Waiting
      BY <1>8, <3>2 DEF ExitEvent, AfterExit
    <3> QED
      BY <3>1, <3>2
  <2> QED
    BY <1>2, <2>1
<1>9. CASE RunMicrotask
  <2>1. micro # <<>>
    BY <1>9 DEF RunMicrotask
  <2>2. Head(micro) \in Reqs /\ \A s \in Reqs : pc[s] \notin Waiting
    BY <2>1, HeadFacts
  <2>3. CASE RestartResumes(Head(micro))
    BY <1>3, <2>2, <2>3 DEF RestartResumes
  <2>4. ASSUME NEW result \in Finished \cup Later, pc' = [pc EXCEPT ![Head(micro)] = result]
        PROVE  StopInv'
    BY <1>2, <2>2, <2>4, <1>t DEF RequestTypeOK
  <2>5. CASE StopResumes(Head(micro)) \/ KillResumes(Head(micro)) \/ HandlerResumes(Head(micro))
    BY <2>4, <2>5 DEF StopResumes, KillResumes, HandlerResumes, Return, Requeue
  <2> QED
    BY <1>9, <2>3, <2>5 DEF RunMicrotask
<1>10. CASE PanelEnds
  BY <1>10 DEF PanelEnds
<1>11. CASE Unsuspend \/ Boot \/ UNCHANGED vars \/ \E p \in Procs : ProcessDies(p)
  BY <1>11, <1>i DEF Unsuspend, Boot, ProcessDies, vars
<1> QED
  BY <1>3, <1>4, <1>6, <1>7, <1>8, <1>9, <1>10, <1>11
     DEF Next, BeginStart, PowerKill, AdminRequest, Shutdown, Ops

\* IndInv is inductive.
LEMMA IndStep == IndInv /\ [Next]_vars => IndInv'
  BY TypeStep, SlotStep, RecordStep, WaitStep, QueueStep, DeadStep, StopStep DEF IndInv

\* The inductive invariant holds in every reachable state, for any number of
\* concurrent requests and of spawns.
THEOREM IndInvariant == Spec => []IndInv
  BY IndInit, IndStep, PTL DEF Spec

-----------------------------------------------------------------------------
\* No interleaving of requests, timers and exits gives one server two live
\* processes of this panel (engine.ts start(), finish()).
THEOREM OneLiveChildHolds == Spec => []OneLiveChild
<1>1. IndInv => OneLiveChild
  BY DEF IndInv, SlotInv, OneLiveChild
<1> QED
  BY <1>1, IndInvariant, PTL

\* The engine never loses track of a child of an existing server, although
\* finish() clears the slot by server id, not by process.
THEOREM NoLostChildHolds == Spec => []NoLostChild
<1>1. IndInv => NoLostChild
  BY DEF IndInv, SlotInv, NoLostChild
<1> QED
  BY <1>1, IndInvariant, PTL

\* runtime_state is offline exactly when no process is tracked.
THEOREM RecordMatchesSlotHolds == Spec => []RecordMatchesSlot
<1>1. IndInv => RecordMatchesSlot
  BY DEF IndInv
<1> QED
  BY <1>1, IndInvariant, PTL

-----------------------------------------------------------------------------
\* stop(), kill(), suspension and deletion answer success only about a dead
\* process: the routes' "refuses to lie".
THEOREM SuccessMeansDeadHolds == Spec => SuccessMeansDead
<1> DEFINE A == \A r \in Reqs :
      op[r] \in {"stop", "kill", "suspend", "delete"} /\ pc[r] \notin Finished /\ pc'[r] = "ok"
        => on[r] \notin alive'
<1>1. IndInv /\ [Next]_vars => [A]_vars
  <2> SUFFICES ASSUME IndInv, Next, NEW s \in Reqs, pc[s] \notin Finished, pc'[s] = "ok",
                      op[s] \in {"stop", "kill", "suspend", "delete"}
               PROVE  on[s] \notin alive'
    BY DEF vars
  <2>t. ProcessTypeOK /\ RequestTypeOK /\ DeadInv
    BY DEF IndInv, TypeOK
  <2> USE DEF DeadInv, osVars, reqVars, Finished, Waiting, Woken, Later, Grace
  \* Only the request a step is about can reach "ok" in it, and not by a start.
  <2>1. ASSUME NEW r \in Reqs, Start(r) PROVE FALSE
    <3>1. pc'[s] # "ok" \/ pc'[s] = pc[s]
      BY <2>1, <2>t DEF Start, Launch, StartThrows, Return, RequestTypeOK
    <3> QED
      BY <3>1
  <2>2. ASSUME NEW r \in Reqs, EndGrace(r) PROVE FALSE
    <3>1. s = r /\ op[r] = "start"
      BY <2>2, <2>t DEF EndGrace, Return, RequestTypeOK
    <3> QED
      BY <3>1
  <2>3. ASSUME NEW r \in Reqs, NEW o \in Ops, NEW where \in Waiting, WaitForExit(r, o, where)
        PROVE  FALSE
    BY <2>3, <2>t DEF WaitForExit, RequestTypeOK
  <2>4. ASSUME NEW r \in Reqs, StopTimeout(r) \/ KillTimeout(r) PROVE FALSE
    BY <2>4, <2>t DEF StopTimeout, KillTimeout, Return, RequestTypeOK
  <2>5. ASSUME NEW r \in Reqs, NEW o \in Ops, AtOnce(r, o), pc[r] \in Finished PROVE FALSE
    BY <2>5, <2>t DEF AtOnce, Return, RequestTypeOK
  <2>6. ASSUME NEW p \in Procs, ExitEvent(p) PROVE FALSE
    BY <2>6, <2>t DEF ExitEvent, AfterExit, RequestTypeOK
  <2>7. CASE RunMicrotask
    <3>1. micro # <<>>
      BY <2>7 DEF RunMicrotask
    <3>2. Head(micro) \in Reqs /\ pc[Head(micro)] \in Woken \cup Later
      BY <3>1, HeadFacts
    <3>3. ASSUME s # Head(micro) PROVE pc'[s] = pc[s]
      BY <3>2, <3>3, <2>7, <2>t DEF RunMicrotask, StopResumes, KillResumes, RestartResumes,
         HandlerResumes, Requeue, Return, Start, Launch, StartThrows, RequestTypeOK
    <3>4. s = Head(micro)
      BY <3>3
    <3>5. ~RestartResumes(Head(micro))
      BY <2>1, <3>2 DEF RestartResumes
    <3>6. alive' = alive
      BY <2>7, <3>5 DEF RunMicrotask, StopResumes, KillResumes, HandlerResumes
    <3> QED
      BY <3>2, <3>4, <3>6, <2>t
  <2>8. ~PanelEnds
    BY DEF PanelEnds
  <2>9. ~(Unsuspend \/ Boot \/ \E p \in Procs : ProcessDies(p))
    BY DEF Unsuspend, Boot, ProcessDies
  <2> QED
    BY <2>1, <2>2, <2>3, <2>4, <2>5, <2>6, <2>7, <2>8, <2>9
       DEF Next, BeginStart, BeginStop, PowerKill, BeginKill, AdminRequest, Shutdown, Accepts, Ops
<1>2. Spec => [][A]_vars
  BY <1>1, IndInvariant, PTL DEF Spec
<1> QED
  BY <1>2 DEF SuccessMeansDead

-----------------------------------------------------------------------------
\* A request that neither was nor is in a grace period leaves the starts alone.
LEMMA SettlingStays ==
  ASSUME RequestTypeOK, NEW r \in Reqs, NEW where \in PCs \ Grace, pc[r] \notin Grace,
         pc' = [pc EXCEPT ![r] = where]
  PROVE  Settling' = Settling
<1>1. \A s \in Reqs : pc'[s] \in Grace <=> pc[s] \in Grace
  BY DEF RequestTypeOK
<1> QED
  BY <1>1 DEF Settling

\* Both power states of a server, the one that stateOf reports and the one that
\* runtime_state shows, move as PowerContract says: each step of the engine is one
\* step of it, or none.
THEOREM EngineImplementsContract == Spec => ImplementsContract
<1>1. Init => Contract!Init
  BY DEF Init, Contract!Init, Power, Shown, Settling, Grace
<1>2. IndInv /\ [Next]_vars => [Contract!Next]_Contract!vars
  <2> SUFFICES ASSUME IndInv, [Next]_vars PROVE [Contract!Next]_Contract!vars
    OBVIOUS
  <2>t. SlotTypeOK /\ stopping \in BOOLEAN /\ ProcessTypeOK /\ RequestTypeOK
    BY DEF IndInv, TypeOK
  <2>i. SlotInv /\ StopInv /\ RecordMatchesSlot /\ WaitInv
    BY DEF IndInv
  <2> USE DEF Contract!Next, Contract!vars, NoProc, slotVars, osVars, reqVars
  \* What the record shows of a server that the panel is up for.
  <2>o. panel # "down" /\ row # "deleted" =>
          Shown = runtimeState /\ (Power = "offline" <=> Shown = "offline")
    BY <2>t, <2>i DEF Shown, Power, StateOf, RecordMatchesSlot
  <2>r. ASSUME NEW r \in Reqs, NEW where \in Finished \cup Waiting \cup Later,
               pc[r] \notin Grace, pc' = [pc EXCEPT ![r] = where]
        PROVE  Settling' = Settling
    BY <2>r, <2>t, SettlingStays DEF PCs, Finished, Waiting, Later, Grace
  <2>1. ASSUME NEW r \in Reqs, Start(r), panel # "down", pc[r] \notin Grace
        PROVE  [Contract!Next]_Contract!vars
    <3>1. CASE Launch(r)
      <4>1. Power = "offline" /\ Shown = "offline"
        BY <2>1, <3>1, <2>t, <2>o DEF Launch, StartChecks, Power
      <4>2. Power' = "running" /\ Shown' = "starting"
        BY <2>1, <3>1, <2>t, MaxSpawnsAssumption
           DEF Launch, StartChecks, Power, Shown, StateOf, ProcessTypeOK
      <4>3. Settling'
        BY <3>1, <2>t DEF Launch, Settling, Grace, RequestTypeOK
      <4> QED
        BY <3>1, <4>1, <4>2, <4>3 DEF Launch, StartChecks, Contract!Begin
    <3>2. CASE StartThrows(r)
      <4>1. Settling' = Settling
        BY <2>1, <2>r, <3>2 DEF StartThrows, Return, Finished
      <4>2. Power' = Power /\ Shown' = Shown
        BY <2>1, <3>2, <2>t, <2>i
           DEF StartThrows, StartChecks, Power, Shown, StateOf, RecordMatchesSlot
      <4> QED
        BY <3>2, <4>1, <4>2 DEF StartThrows
    <3> QED
      BY <2>1, <3>1, <3>2 DEF Start
  <2>2. ASSUME NEW r \in Reqs, EndGrace(r) PROVE [Contract!Next]_Contract!vars
    <3>1. Settling /\ Settling' \in BOOLEAN
      BY <2>2 DEF EndGrace, Settling
    <3>2. CASE runtimeState' = runtimeState
      <4>1. Power' = Power /\ Shown' = Shown
        BY <2>2, <3>2 DEF EndGrace, Power, Shown, StateOf
      <4> QED
        BY <2>2, <3>1, <4>1 DEF EndGrace, Contract!Settle
    <3>3. CASE runtimeState' # runtimeState
      <4>1. runtimeState' = "running" /\ StateOf # "offline"
        BY <2>2, <3>3 DEF EndGrace
      <4>2. Power' = Power /\ Shown' \in {Shown, "running"}
        BY <2>2, <4>1 DEF EndGrace, Power, Shown, StateOf
      <4>3. Power = "offline" => Shown' = Shown
        BY <2>2, <4>1, <2>t, <2>i DEF EndGrace, Power, Shown, StateOf, RecordMatchesSlot,
           SlotTypeOK, Runtime
      <4> QED
        BY <2>2, <3>1, <4>2, <4>3 DEF EndGrace, Contract!Settle
    <3> QED
      BY <3>2, <3>3
  <2>3. ASSUME NEW r \in Reqs, BeginStop(r) PROVE [Contract!Next]_Contract!vars
    <3>1. Power \in {"running", "stopping"} /\ Power' = "stopping" /\ Shown' = "stopping"
      BY <2>3 DEF BeginStop, Accepts, Power, Shown, StateOf
    <3>2. Settling' = Settling
      BY <2>3, <2>r DEF BeginStop, Accepts, WaitForExit, Finished, Waiting, Grace
    <3> QED
      BY <2>3, <3>1, <3>2 DEF BeginStop, Contract!AskToStop, Contract!Insist
  <2>4. ASSUME NEW r \in Reqs, NEW o \in Ops, BeginKill(r, o), pc[r] \notin Grace,
               panel' = panel \/ (panel' = "sweeping" /\ panel = "up")
        PROVE  [Contract!Next]_Contract!vars
    <3>1. Power \in {"running", "stopping"} /\ Power' = "stopping" /\ Shown' = Shown
      BY <2>4 DEF BeginKill, Power, Shown, StateOf
    <3>2. Settling' = Settling
      BY <2>4, <2>r DEF BeginKill, WaitForExit, Waiting
    <3> QED
      BY <2>4, <3>1, <3>2 DEF BeginKill, Contract!AskToStop
  <2>5. ASSUME NEW r \in Reqs, StopTimeout(r) PROVE [Contract!Next]_Contract!vars
    <3>1. Power' = Power /\ Shown' = Shown
      BY <2>5, <2>i DEF StopTimeout, StopInv, Waiting, Power, Shown, StateOf
    <3>2. Settling' = Settling
      BY <2>5, <2>r DEF StopTimeout, Waiting, Grace
    <3> QED
      BY <2>5, <3>1, <3>2 DEF StopTimeout
  <2>6. ASSUME NEW r \in Reqs, KillTimeout(r) PROVE [Contract!Next]_Contract!vars
    <3>1. proc # 0 /\ stopping /\ panel # "down" /\ row # "deleted"
      BY <2>6, <2>i DEF KillTimeout, StopInv, WaitInv, SlotInv, Waiting, Finished
    <3>2. Power = "stopping" /\ Power' = "stopping" /\ Shown' = "stopping"
      BY <2>6, <3>1 DEF KillTimeout, Power, Shown, StateOf
    <3>3. Settling' = Settling
      BY <2>6, <2>r DEF KillTimeout, Return, Finished, Grace
    <3> QED
      BY <2>6, <3>2, <3>3 DEF KillTimeout, Contract!Insist
  \* The second half of suspension, deletion and shutdown.
  <2>7. ASSUME NEW o \in Ops, AfterKill(o), panel # "down", Settling' = Settling,
               runtimeState' = runtimeState
        PROVE [Contract!Next]_Contract!vars
    <3>1. CASE o = "suspend"
      <4>1. Power' = Power /\ Shown' = Shown
        BY <2>7, <3>1, <2>i DEF AfterKill, Power, Shown, StateOf, SlotInv
      <4> QED
        BY <2>7, <3>1, <4>1, <2>t DEF AfterKill, SlotTypeOK, Rows, Contract!Freeze
    <3>2. CASE o = "delete"
      <4>1. Power' = "offline" /\ Shown' = "offline" /\ row' = "deleted"
        BY <2>7, <3>2 DEF AfterKill, Power, Shown
      <4>2. row = "deleted" => Power = "offline" /\ Shown = "offline"
        BY <2>i DEF Power, Shown, SlotInv
      <4> QED
        BY <2>7, <4>1, <4>2 DEF Contract!Delete
    <3>3. CASE o = "shutdown"
      BY <2>7, <3>3 DEF AfterKill, Power, Shown, StateOf
    <3> QED
      BY <2>7, <3>1, <3>2, <3>3 DEF AfterKill
  <2>8. ASSUME NEW r \in Reqs, NEW o \in Ops, AtOnce(r, o), panel # "down", pc[r] \in Finished
        PROVE [Contract!Next]_Contract!vars
    <3>1. Settling' = Settling
      BY <2>8, <2>r DEF AtOnce, Return, Finished, Grace
    <3> QED
      BY <2>7, <2>8, <3>1 DEF AtOnce
  <2>9. ASSUME NEW p \in Procs, ExitEvent(p) PROVE [Contract!Next]_Contract!vars
    <3>1. Power' = "offline" /\ Shown' = "offline"
      BY <2>9 DEF ExitEvent, Finish, Power, Shown
    <3>2. \A s \in Reqs : pc'[s] \in Grace <=> pc[s] \in Grace
      BY <2>9 DEF ExitEvent, AfterExit, Grace
    <3>3. Settling' = Settling
      BY <3>2 DEF Settling
    <3>4. Power = "offline" => Shown = "offline"
      BY <2>o DEF Shown
    <3> QED
      BY <2>9, <3>1, <3>3, <3>4 DEF ExitEvent, Contract!End
  <2>10. CASE RunMicrotask
    <3> DEFINE h == Head(micro)
    <3>1. micro # <<>>
      BY <2>10 DEF RunMicrotask
    <3>2. h \in Reqs /\ pc[h] \in Woken \cup Later /\ panel # "down"
          /\ (pc[h] \in Woken => proc = 0)
      BY <3>1, HeadFacts
    <3>3. pc[h] \notin Grace
      BY <3>2 DEF Woken, Later, Grace
    <3> HIDE DEF h
    <3>4. CASE StopResumes(h)
      <4>1. Settling' = Settling
        BY <2>r, <3>2, <3>3, <3>4 DEF StopResumes, Return, Requeue, Finished, Later
      <4> QED
        BY <3>4, <4>1 DEF StopResumes, Power, Shown, StateOf
    <3>5. CASE KillResumes(h)
      <4>1. Settling' = Settling
        BY <2>r, <3>2, <3>3, <3>5 DEF KillResumes, Return, Requeue, Finished, Later
      <4>2. proc = 0
        BY <3>2, <3>5 DEF KillResumes, Woken
      <4>3. Power' = Power /\ Shown' = Shown
        BY <3>2, <3>5, <4>2, <2>i DEF KillResumes, Finish, Power, Shown, RecordMatchesSlot
      <4> QED
        BY <3>5, <4>1, <4>3 DEF KillResumes
    <3>6. CASE RestartResumes(h)
      BY <2>1, <3>2, <3>3, <3>6 DEF RestartResumes
    <3>7. CASE HandlerResumes(h)
      <4>1. Settling' = Settling
        BY <2>r, <3>2, <3>3, <3>7 DEF HandlerResumes, Return, Finished
      <4> QED
        BY <2>7, <3>2, <3>7, <4>1 DEF HandlerResumes, AfterKill, Ops
    <3> QED
      BY <2>10, <3>4, <3>5, <3>6, <3>7 DEF RunMicrotask, h
  <2>11. CASE PanelEnds
    <3>1. Power' = "offline" /\ Shown' = "offline" /\ ~Settling'
      BY <2>11 DEF PanelEnds, Power, Shown, Settling, Grace
    <3> QED
      BY <2>11, <3>1 DEF PanelEnds, Contract!PanelEnds
  <2>12. CASE Boot
    <3>1. proc = 0 /\ Settling' = Settling
      BY <2>12, <2>i, <2>t DEF Boot, SlotInv, SlotTypeOK, Settling
    <3> QED
      BY <2>12, <3>1 DEF Boot, Power, Shown
  <2>13. CASE Unsuspend
    <3>1. Power' = Power /\ Shown' = Shown /\ Settling' = Settling
      BY <2>13, <2>i DEF Unsuspend, Power, Shown, StateOf, Settling, RecordMatchesSlot
    <3> QED
      BY <2>13, <3>1 DEF Unsuspend, Contract!Thaw
  <2>14. CASE UNCHANGED vars \/ \E p \in Procs : ProcessDies(p)
    BY <2>14 DEF vars, ProcessDies, Power, Shown, StateOf, Settling
  <2>15. ASSUME NEW r \in Reqs, pc[r] \in Finished PROVE pc[r] \notin Grace
    BY <2>15 DEF Finished, Grace
  <2>16. ASSUME NEW r \in Reqs, BeginStart(r) \/ PowerKill(r) \/ AdminRequest(r) \/ Shutdown(r)
         PROVE  [Contract!Next]_Contract!vars
    <3>1. CASE BeginStart(r)
      BY <2>1, <2>15, <3>1 DEF BeginStart, Accepts
    <3>2. CASE PowerKill(r)
      <4>1. BeginKill(r, "kill") /\ pc[r] \in Finished /\ panel' = panel
        BY <3>2 DEF PowerKill, Accepts
      <4> QED
        BY <2>4, <2>15, <4>1 DEF Ops
    <3>3. CASE AdminRequest(r)
      <4>1. PICK o \in Ops : AtOnce(r, o) \/ (BeginKill(r, o) /\ panel' = panel)
        BY <3>3 DEF AdminRequest, Ops
      <4>2. pc[r] \in Finished /\ panel # "down"
        BY <3>3 DEF AdminRequest, Accepts
      <4> QED
        BY <2>4, <2>8, <2>15, <4>1, <4>2
    <3>4. CASE Shutdown(r)
      <4>1. \/ AtOnce(r, "shutdown")
            \/ BeginKill(r, "shutdown") /\ panel' = "sweeping"
        BY <3>4 DEF Shutdown
      <4>2. pc[r] \in Finished /\ panel = "up"
        BY <3>4 DEF Shutdown
      <4> QED
        BY <2>4, <2>8, <2>15, <4>1, <4>2 DEF Ops
    <3> QED
      BY <2>16, <3>1, <3>2, <3>3, <3>4
  <2> QED
    BY <2>2, <2>3, <2>5, <2>6, <2>9, <2>10, <2>11, <2>12, <2>13, <2>14, <2>16 DEF Next
<1> QED
  BY <1>1, <1>2, IndInvariant, PTL DEF Spec, ImplementsContract, Contract!Spec
=============================================================================
