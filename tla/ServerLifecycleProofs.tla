------------------------ MODULE ServerLifecycleProofs ------------------------
(* Proofs about ServerLifecycle for any number of jobs and any versions. *)
EXTENDS ServerLifecycle, TLAPS

\* The strengthening holds of a fresh server.
LEMMA LifeInit == Init => IndInv
<1> SUFFICES ASSUME Init PROVE IndInv
  OBVIOUS
<1> USE DEF Init, Idle
<1>1. status \in Statuses /\ version \in Rows /\ job \in [Jobs -> JobStates]
  BY DEF Statuses, Rows, JobStates
<1>2. deleted = FALSE /\ running = FALSE /\ disturbed = FALSE
  OBVIOUS
<1>3. InstallingHasJob /\ UndisturbedInstallIsAlone /\ AloneInv
  BY <1>2 DEF InstallingHasJob, UndisturbedInstallIsAlone, AloneInv, Installing
<1> QED
  BY <1>1, <1>2, <1>3 DEF IndInv, TypeOK

\* The Boolean variables stay Boolean.
LEMMA LifeFlagStep ==
  /\ deleted \in BOOLEAN /\ running \in BOOLEAN /\ disturbed \in BOOLEAN
  /\ [Next]_vars
  => deleted' \in BOOLEAN /\ running' \in BOOLEAN /\ disturbed' \in BOOLEAN
  BY DEF Next, JobStep, BeginReinstall, BeginSwitch, Switch, BackupDone, BackupFails, InstallDone,
     InstallFails, Start, Ends, EditVersion, Suspend, Unsuspend, Delete, PanelRestarts, Disturb, vars

\* Every variable keeps its type.
LEMMA LifeTypeStep == TypeOK /\ [Next]_vars => TypeOK'
<1> SUFFICES ASSUME TypeOK, [Next]_vars PROVE TypeOK'
  OBVIOUS
<1> DEFINE DataOK == status \in Statuses /\ version \in Rows /\ job \in [Jobs -> JobStates]
<1>1. DataOK
  BY DEF TypeOK
<1>2. SUFFICES DataOK'
  BY LifeFlagStep DEF TypeOK
<1> USE DEF Statuses, Rows, JobStates, Idle
<1>3. ASSUME NEW j \in Jobs, JobStep(j) PROVE DataOK'
  <2>1. CASE BeginReinstall(j)
    BY <2>1, <1>1 DEF BeginReinstall, Stored
  <2>2. ASSUME NEW asked \in Rows, Switch(j, asked) PROVE DataOK'
    BY <2>2, <1>1 DEF Switch
  <2>3. ASSUME NEW asked \in Rows, BeginSwitch(j, asked) PROVE DataOK'
    <3>1. CASE Switch(j, asked)
      BY <3>1, <2>2
    <3>2. CASE /\ job' = [job EXCEPT ![j] = [at |-> "backup", asked |-> asked]]
               /\ UNCHANGED <<status, deleted, running, version>>
      BY <3>2, <1>1
    <3> QED
      BY <2>3, <3>1, <3>2 DEF BeginSwitch
  <2>4. CASE BackupDone(j)
    <3>1. job[j].asked \in Rows
      BY <1>1
    <3> QED
      BY <3>1, <2>2, <2>4 DEF BackupDone
  <2>5. CASE BackupFails(j)
    BY <2>5, <1>1 DEF BackupFails
  <2>7. CASE InstallFails(j)
    BY <2>7, <1>1 DEF InstallFails
  <2>6. CASE InstallDone(j)
    BY <2>6, <1>1 DEF InstallDone, Persist
  <2> QED
    BY <1>3, <2>1, <2>3, <2>4, <2>5, <2>6, <2>7 DEF JobStep
<1>4. CASE Start \/ Ends \/ UNCHANGED vars
  BY <1>1, <1>4 DEF Start, Ends, vars
<1>6. CASE Suspend \/ Unsuspend \/ Delete
  BY <1>1, <1>6 DEF Suspend, Unsuspend, Delete
<1>7. CASE PanelRestarts
  BY <1>1, <1>7 DEF PanelRestarts
<1>5. CASE \E v \in Versions \cup {"latest"} : EditVersion(v)
  BY <1>1, <1>5 DEF EditVersion
<1> QED
  BY <1>3, <1>4, <1>5, <1>6, <1>7 DEF Next

\* A step keeps the strengthening.
LEMMA LifeStep == IndInv /\ [Next]_vars => IndInv'
<1> SUFFICES ASSUME IndInv, [Next]_vars PROVE IndInv'
  OBVIOUS
<1>0. TypeOK'
  BY LifeTypeStep DEF IndInv
<1>t. /\ job \in [Jobs -> JobStates]
      /\ deleted \in BOOLEAN /\ running \in BOOLEAN /\ disturbed \in BOOLEAN
      /\ deleted' \in BOOLEAN /\ running' \in BOOLEAN /\ disturbed' \in BOOLEAN
  BY <1>0 DEF IndInv, TypeOK
<1> DEFINE Rest == /\ deleted => ~running
                   /\ InstallingHasJob
                   /\ UndisturbedInstallIsAlone
                   /\ AloneInv
<1>r. Rest
  BY DEF IndInv
<1> SUFFICES Rest'
  BY <1>0 DEF IndInv
<1> USE DEF InstallingHasJob, UndisturbedInstallIsAlone, AloneInv, Installing, Idle, Disturb
<1>1. ASSUME NEW j \in Jobs, BeginReinstall(j) PROVE Rest'
  BY <1>1, <1>r, <1>t DEF BeginReinstall
<1>2. ASSUME NEW j \in Jobs, NEW asked \in Rows, BeginSwitch(j, asked) PROVE Rest'
  <2>1. CASE Switch(j, asked) /\ Disturb(FALSE)
    BY <1>2, <2>1, <1>r, <1>t DEF BeginSwitch, Switch
  <2>2. CASE /\ job' = [job EXCEPT ![j] = [at |-> "backup", asked |-> asked]]
             /\ Disturb(TRUE)
             /\ UNCHANGED <<status, deleted, running, version>>
    <3>1. job'[j] # Idle /\ disturbed' = TRUE
      BY <2>2, <1>t
    <3>2. \A i \in Jobs : Installing(i)' <=> Installing(i) /\ i # j
      BY <2>2, <1>2, <1>t DEF BeginSwitch
    <3>3. \A i \in Jobs : Installing(i)' <=> Installing(i)
      BY <3>2, <1>2, <1>t DEF BeginSwitch
    <3> QED
      BY <2>2, <3>1, <3>3, <1>r
  <2> QED
    BY <1>2, <2>1, <2>2 DEF BeginSwitch
<1>3. ASSUME NEW j \in Jobs, BackupDone(j) PROVE Rest'
  BY <1>3, <1>r, <1>t DEF BackupDone, Switch
<1>4. ASSUME NEW j \in Jobs, BackupFails(j) PROVE Rest'
  BY <1>4, <1>r, <1>t DEF BackupFails
<1>5. ASSUME NEW j \in Jobs, InstallDone(j) PROVE Rest'
  BY <1>5, <1>r, <1>t DEF InstallDone
<1>13. ASSUME NEW j \in Jobs, InstallFails(j) PROVE Rest'
  BY <1>13, <1>r, <1>t DEF InstallFails
<1>6. CASE Start
  BY <1>6, <1>r, <1>t DEF Start
<1>7. CASE Ends \/ \E v \in Versions \cup {"latest"} : EditVersion(v)
  BY <1>7, <1>r, <1>t DEF Ends, EditVersion
<1>8. CASE Suspend
  BY <1>8, <1>r, <1>t DEF Suspend
<1>9. CASE Unsuspend
  BY <1>9, <1>r, <1>t DEF Unsuspend
<1>10. CASE Delete
  BY <1>10, <1>r, <1>t DEF Delete
<1>11. CASE PanelRestarts
  BY <1>11, <1>r, <1>t DEF PanelRestarts
<1>12. CASE UNCHANGED vars
  BY <1>12, <1>r, <1>t DEF vars
<1> QED
  BY <1>1, <1>2, <1>3, <1>4, <1>5, <1>6, <1>7, <1>8, <1>9, <1>10, <1>11, <1>12, <1>13 DEF Next, JobStep

\* The strengthening holds in every reachable state.
THEOREM LifeInvariant == Spec => []IndInv
  BY LifeInit, LifeStep, PTL DEF Spec

\* Every variable of the life cycle keeps its type.
THEOREM LifeTypeCorrect == Spec => []TypeOK
<1>1. IndInv => TypeOK
  BY DEF IndInv
<1> QED
  BY <1>1, LifeInvariant, PTL

\* No row is left "installing" without an install that will end it.
THEOREM InstallingHasJobHolds == Spec => []InstallingHasJob
<1>1. IndInv => InstallingHasJob
  BY DEF IndInv
<1> QED
  BY <1>1, LifeInvariant, PTL

\* Unless a suspension or an awaited backup came between check and install, an
\* install has the server's directory for itself, for any number of requests.
THEOREM UndisturbedInstallIsAloneHolds == Spec => []UndisturbedInstallIsAlone
<1>1. IndInv => UndisturbedInstallIsAlone
  BY DEF IndInv
<1> QED
  BY <1>1, LifeInvariant, PTL
=============================================================================
