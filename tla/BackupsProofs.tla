---------------------------- MODULE BackupsProofs ----------------------------
(* Proofs about Backups for any requests, retention and number of backups. *)
EXTENDS Backups, FiniteSetTheorems, TLAPS

Busy == {"archive", "sum", "hash", "list", "extract", "adrift"}
Dirs == [Backups -> Contents]

\* What the types of a state say, in the form the steps below use.
LEMMA BackupTypes ==
  ASSUME TypeOK
  PROVE  /\ begun \in Nat /\ begun <= MaxBackups
         /\ DOMAIN req = Requests
         /\ \A r \in Requests : req[r] = Idle \/ (req[r].at \in Busy /\ req[r].b \in Backups)
         /\ disk = [dir |-> disk.dir, staging |-> disk.staging, displaced |-> disk.displaced]
         /\ disk.dir \in Contents /\ disk.staging \in Dirs /\ disk.displaced \in Dirs
         /\ row \in [Backups -> {"none", "live", "purged"}]
         /\ locked \in [Backups -> BOOLEAN]
         /\ file \in [Backups -> {"none", "part", "whole", "rotten"}]
<1>1. begun \in 0..MaxBackups
  BY DEF TypeOK
<1>2. disk \in [dir : Contents, staging : Dirs, displaced : Dirs]
  BY DEF TypeOK, Dirs
<1>3. req \in [Requests -> {Idle} \cup [at : Busy, b : Backups]]
  BY DEF TypeOK, Busy
<1>4. \A r \in Requests : req[r] = Idle \/ (req[r].at \in Busy /\ req[r].b \in Backups)
  BY <1>3
<1>5. disk = [dir |-> disk.dir, staging |-> disk.staging, displaced |-> disk.displaced]
      /\ disk.dir \in Contents /\ disk.staging \in Dirs /\ disk.displaced \in Dirs
  BY <1>2
<1> QED
  BY <1>1, <1>3, <1>4, <1>5, BackupsAssumption DEF TypeOK, Backups

\* A fresh panel satisfies the strengthening.
LEMMA BackupsInit == Init => IndInv
<1> SUFFICES ASSUME Init PROVE IndInv
  OBVIOUS
<1> USE BackupsAssumption DEF Init, Idle
<1>0. disk \in [dir : Contents, staging : [Backups -> Contents], displaced : [Backups -> Contents]]
  BY DEF Contents
<1>1. TypeOK
  <2>1. begun \in 0..MaxBackups /\ cutSwaps \in 0..2
    OBVIOUS
  <2>5. twice \in BOOLEAN
    BY Zenon
  <2>2. row \in [Backups -> {"none", "live", "purged"}] /\ locked \in [Backups -> BOOLEAN]
        /\ file \in [Backups -> {"none", "part", "whole", "rotten"}]
    OBVIOUS
  <2>3. req \in [Requests -> {Idle} \cup
       [at : {"archive", "sum", "hash", "list", "extract", "adrift"}, b : Backups]]
    OBVIOUS
  <2>4. cut \subseteq Backups /\ told \subseteq Backups
    OBVIOUS
  <2> QED
    BY <1>0, <2>1, <2>2, <2>3, <2>4, <2>5 DEF TypeOK
<1>2. MakingInv /\ NumberInv /\ StagingInv
  BY DEF MakingInv, NumberInv, StagingInv, At, Staging
<1>3. ListedHasFile /\ DirNeverTorn /\ HomeInv /\ NothingLost
  BY DEF ListedHasFile, DirNeverTorn, HomeInv, NothingLost
<1> QED
  BY <1>1, <1>2, <1>3 DEF IndInv

-----------------------------------------------------------------------------
(* The parts of a step *)

\* The requests keep their type when a staging directory changes hands.
LEMMA OthersType ==
  ASSUME TypeOK, NEW r \in Requests, NEW b, NEW n \in {Idle} \cup [at : Busy, b : Backups],
         req' = Others(r, b, n), begun' = begun
  PROVE  req' \in [Requests -> {Idle} \cup [at : Busy, b : Backups]]
<1>1. req \in [Requests -> {Idle} \cup [at : Busy, b : Backups]]
  BY DEF TypeOK, Busy
<1>2. ASSUME NEW q \in Requests, Staging(q, b)
      PROVE  [req[q] EXCEPT !.at = "adrift"] \in [at : Busy, b : Backups]
  BY <1>1, <1>2 DEF Staging, Idle, Busy
<1> QED
  BY <1>1, <1>2 DEF Others

\* So do the directories, after each file operation of a swap.
LEMMA DiskTypes ==
  ASSUME NEW d \in [dir : Contents, staging : Dirs, displaced : Dirs], NEW b \in Backups,
         NEW c \in Contents
  PROVE  LET Disks == [dir : Contents, staging : Dirs, displaced : Dirs] IN
         /\ Drop(d, b) \in Disks /\ Aside(d, b) \in Disks /\ MoveIn(d, b) \in Disks
         /\ [d EXCEPT !.staging[b] = c] \in Disks
         /\ [d EXCEPT !.displaced[b] = c] \in Disks
         /\ [d EXCEPT !.dir = c] \in Disks
<1>1. d = [dir |-> d.dir, staging |-> d.staging, displaced |-> d.displaced]
      /\ d.dir \in Contents /\ d.staging \in Dirs /\ d.displaced \in Dirs
  OBVIOUS
<1>2. \A x \in Contents : [d.staging EXCEPT ![b] = x] \in Dirs /\ [d.displaced EXCEPT ![b] = x] \in Dirs
  BY <1>1 DEF Dirs
<1>3. "absent" \in Contents /\ d.staging[b] \in Contents
  BY <1>1 DEF Dirs, Contents
<1>4. /\ [d EXCEPT !.staging[b] = c] = [dir |-> d.dir, staging |-> [d.staging EXCEPT ![b] = c], displaced |-> d.displaced]
      /\ [d EXCEPT !.displaced[b] = c] = [dir |-> d.dir, staging |-> d.staging, displaced |-> [d.displaced EXCEPT ![b] = c]]
      /\ [d EXCEPT !.dir = c] = [dir |-> c, staging |-> d.staging, displaced |-> d.displaced]
  BY <1>1
<1>5. Drop(d, b) = [dir |-> d.dir, staging |-> d.staging, displaced |-> [d.displaced EXCEPT ![b] = "absent"]]
  BY <1>1 DEF Drop
<1>6. Aside(d, b) = d \/ Aside(d, b) = [dir |-> "absent", staging |-> d.staging, displaced |-> [d.displaced EXCEPT ![b] = d.dir]]
  BY <1>1 DEF Aside
<1>7. MoveIn(d, b) = [dir |-> d.staging[b], staging |-> [d.staging EXCEPT ![b] = "absent"], displaced |-> d.displaced]
  <2> DEFINE e == [d EXCEPT !.dir = d.staging[b]]
  <2>1. e = [dir |-> d.staging[b], staging |-> d.staging, displaced |-> d.displaced]
    BY <1>1
  <2>2. MoveIn(d, b) = [e EXCEPT !.staging[b] = "absent"]
    BY DEF MoveIn
  <2> HIDE DEF e
  <2> QED
    BY <2>1, <2>2
<1>a. [d.displaced EXCEPT ![b] = "absent"] \in Dirs
  BY <1>2, <1>3
<1>b. [d.displaced EXCEPT ![b] = d.dir] \in Dirs
  BY <1>1, <1>2
<1>c. [d.staging EXCEPT ![b] = "absent"] \in Dirs
  BY <1>2, <1>3
<1>8. Drop(d, b) \in [dir : Contents, staging : Dirs, displaced : Dirs]
  BY <1>1, <1>5, <1>a
<1>9. Aside(d, b) \in [dir : Contents, staging : Dirs, displaced : Dirs]
  BY <1>1, <1>3, <1>6, <1>b
<1>10. MoveIn(d, b) \in [dir : Contents, staging : Dirs, displaced : Dirs]
  BY <1>1, <1>3, <1>7, <1>c
<1> QED
  BY <1>1, <1>2, <1>4, <1>8, <1>9, <1>10

\* What tar has extracted is a directory.
LEMMA ExtractedType ==
  ASSUME TypeOK, NEW r \in Requests, req[r].b \in Backups
  PROVE  Extracted(r) \in [dir : Contents, staging : Dirs, displaced : Dirs]
<1>1. disk \in [dir : Contents, staging : Dirs, displaced : Dirs]
  BY DEF TypeOK, Dirs
<1>2. \A c \in Contents : [disk EXCEPT !.staging[req[r].b] = c] \in [dir : Contents, staging : Dirs, displaced : Dirs]
  BY <1>1, DiskTypes
<1>3. "torn" \in Contents /\ "whole" \in Contents
  BY DEF Contents
<1> QED
  BY <1>1, <1>2, <1>3 DEF Extracted

\* A request that works for a backup works for a backup.
LEMMA BusyHasBackup ==
  ASSUME TypeOK, NEW r \in Requests, req[r].at \in Busy
  PROVE  req[r].b \in Backups
  BY BackupTypes DEF Idle, Busy

\* Every variable keeps its type.
LEMMA BackupsTypeStep == TypeOK /\ [Next]_vars => TypeOK'
<1> SUFFICES ASSUME TypeOK, [Next]_vars PROVE TypeOK'
  OBVIOUS
<1> DEFINE Reqs == [Requests -> {Idle} \cup [at : Busy, b : Backups]]
           Disks == [dir : Contents, staging : Dirs, displaced : Dirs]
<1>t. /\ begun \in 0..MaxBackups /\ req \in Reqs /\ disk \in Disks
      /\ row \in [Backups -> {"none", "live", "purged"}] /\ locked \in [Backups -> BOOLEAN]
      /\ file \in [Backups -> {"none", "part", "whole", "rotten"}]
      /\ cutSwaps \in 0..2
      /\ cut \subseteq Backups /\ twice \in BOOLEAN /\ told \subseteq Backups
  BY DEF TypeOK, Busy, Dirs
<1> DEFINE ReqNext == req' \in [Requests -> {Idle} \cup [at : Busy, b : Backups]]
           RowNext == /\ row' \in [Backups -> {"none", "live", "purged"}]
                      /\ locked' \in [Backups -> BOOLEAN]
                      /\ file' \in [Backups -> {"none", "part", "whole", "rotten"}]
           HistNext == /\ cutSwaps' \in 0..2 /\ twice' \in BOOLEAN
                       /\ cut' \subseteq Backups /\ told' \subseteq Backups
           TypedNext == begun' \in 0..MaxBackups /\ ReqNext /\ disk' \in Disks /\ RowNext /\ HistNext
<1>q. SUFFICES TypedNext
  BY DEF TypeOK, Busy, Dirs
<1> USE BackupsAssumption
<1>f. ASSUME NEW r \in Requests, Finish(r), begun' = begun PROVE ReqNext
  BY <1>t, <1>f DEF Finish
<1>g. ASSUME NEW r \in Requests, NEW n \in [at : Busy, b : Backups], req' = [req EXCEPT ![r] = n], begun' = begun
      PROVE  ReqNext
  BY <1>t, <1>g
<1>h. ASSUME Reboot PROVE ReqNext /\ begun' = begun /\ twice' = twice
  BY <1>h DEF Reboot
<1>r. UNCHANGED <<row, locked, file>> => RowNext
  BY <1>t
<1>s. UNCHANGED <<cut, cutSwaps, twice, told>> => HistNext
  BY <1>t, Zenon
<1>o. ASSUME NEW r \in Requests, NEW b, NEW n \in {Idle} \cup [at : Busy, b : Backups],
             req' = Others(r, b, n), begun' = begun
      PROVE  ReqNext
  BY <1>o, OthersType
<1>1. ASSUME NEW r \in Requests, Create(r) PROVE TypedNext
  <2>1. begun' \in 0..MaxBackups /\ begun' \in Backups
    BY <1>1, <1>t DEF Create, Backups
  <2>2. ReqNext
    <3>1. [at |-> "archive", b |-> begun'] \in [at : Busy, b : Backups]
      BY <2>1 DEF Busy
    <3> QED
      BY <1>1, <1>t, <2>1, <3>1 DEF Create
  <2>3. disk' \in Disks
    BY <1>1, <1>t DEF Create, Contents
  <2>4. RowNext
    BY <1>1, <1>t DEF Create, rowVars
  <2>5. HistNext
    BY <1>1, <1>s DEF Create, histVars
  <2> QED
    BY <2>1, <2>2, <2>3, <2>4, <2>5
<1>2. ASSUME NEW r \in Requests, ArchiveDone(r) PROVE TypedNext
  <2>1. req[r].b \in Backups
    BY <1>2, BusyHasBackup DEF ArchiveDone, At, Busy
  <2>2. ReqNext
    <3>1. req[r] \in [at : Busy, b : Backups]
      BY <1>2, <1>t DEF ArchiveDone, At, Idle
    <3>2. [req[r] EXCEPT !.at = "sum"] \in [at : Busy, b : Backups]
      BY <3>1 DEF Busy
    <3>3. req' = [req EXCEPT ![r] = [req[r] EXCEPT !.at = "sum"]] /\ begun' = begun
      BY <1>2 DEF ArchiveDone
    <3> QED
      BY <1>g, <3>2, <3>3
  <2>3. RowNext
    BY <1>2, <1>t DEF ArchiveDone, rowVars
  <2>4. HistNext
    BY <1>2, <1>s DEF ArchiveDone, histVars
  <2> QED
    BY <1>2, <1>t, <2>2, <2>3, <2>4 DEF ArchiveDone
<1>3. ASSUME NEW r \in Requests, ArchiveFails(r) PROVE TypedNext
  <2>1. ReqNext
    BY <1>3, <1>f DEF ArchiveFails
  <2>2. RowNext
    BY <1>3, <1>t DEF ArchiveFails, rowVars
  <2>3. HistNext
    BY <1>3, <1>s DEF ArchiveFails, histVars
  <2> QED
    BY <1>3, <1>t, <2>1, <2>2, <2>3 DEF ArchiveFails
<1>4. ASSUME NEW r \in Requests, SumFails(r) PROVE TypedNext
  <2>1. ReqNext
    BY <1>4, <1>f DEF SumFails
  <2>2. RowNext /\ HistNext
    BY <1>4, <1>r, <1>s DEF SumFails, rowVars, histVars
  <2> QED
    BY <1>4, <1>t, <2>1, <2>2 DEF SumFails
<1>x. ASSUME NEW b, NEW l \in BOOLEAN, NEW m, NEW g, Record(b, l, m, g) PROVE RowNext
  BY <1>t, <1>x DEF Record
<1>5. ASSUME NEW r \in Requests, NEW l \in BOOLEAN, SumDone(r, l) PROVE TypedNext
  <2>1. req[r].b \in Backups
    BY <1>5, BusyHasBackup DEF SumDone, At, Busy
  <2> DEFINE extras == Extras(AfterInsert(req[r].b, l))
  <2>2. /\ Record(req[r].b, l, extras, extras) /\ Finish(r)
        /\ told' = (told \cup {req[r].b}) \ extras /\ cut' = cut \ extras
        /\ UNCHANGED <<begun, disk, cutSwaps, twice>>
    BY <1>5 DEF SumDone
  <2> HIDE DEF extras
  <2>3. RowNext /\ ReqNext
    BY <1>f, <1>x, <2>2
  <2>4. cut' \subseteq Backups /\ told' \subseteq Backups
    BY <1>t, <2>1, <2>2
  <2>5. cutSwaps' \in 0..2 /\ twice' \in BOOLEAN
    BY <1>t, <2>2, Zenon
  <2> QED
    BY <1>t, <2>2, <2>3, <2>4, <2>5
<1>6. ASSUME NEW r \in Requests, NEW l \in BOOLEAN, EndsInRetention(r, l) PROVE TypedNext
  <2>1. RowNext
    BY <1>6, <1>x DEF EndsInRetention
  <2>2. cut' \subseteq Backups /\ told' \subseteq Backups
    BY <1>6, <1>t DEF EndsInRetention
  <2>3. ReqNext /\ UNCHANGED <<begun, twice, disk, cutSwaps>>
    BY <1>6, <1>h DEF EndsInRetention
  <2>4. cutSwaps' \in 0..2 /\ twice' \in BOOLEAN
    BY <1>t, <2>3, Zenon
  <2> QED
    BY <1>t, <2>1, <2>2, <2>3, <2>4
<1>7. ASSUME NEW r \in Requests, NEW b \in Backups, BeginRestore(r, b) PROVE TypedNext
  <2>1. [at |-> "hash", b |-> b] \in [at : Busy, b : Backups]
    BY DEF Busy
  <2>2. ReqNext
    BY <1>7, <1>g, <2>1 DEF BeginRestore
  <2>3. RowNext /\ HistNext
    BY <1>7, <1>r, <1>s DEF BeginRestore, rowVars, histVars
  <2> QED
    BY <1>7, <1>t, <2>2, <2>3 DEF BeginRestore
<1>8. ASSUME NEW r \in Requests, HashFails(r) PROVE TypedNext
  <2>1. ReqNext
    BY <1>8, <1>f DEF HashFails
  <2>2. RowNext /\ HistNext
    BY <1>8, <1>r, <1>s DEF HashFails, rowVars, histVars
  <2> QED
    BY <1>8, <1>t, <2>1, <2>2 DEF HashFails
<1>9. ASSUME NEW r \in Requests, HashOk(r) PROVE TypedNext
  <2>1. req[r].b \in Backups /\ req[r] \in [at : Busy, b : Backups]
    BY <1>9, <1>t DEF HashOk, At, Idle
  <2>2. [req[r] EXCEPT !.at = "list"] \in [at : Busy, b : Backups]
    BY <2>1 DEF Busy
  <2>3. ReqNext
    BY <1>9, <1>o, <2>2 DEF HashOk, EmptyStaging
  <2>4. disk' \in Disks
    <3>1. \A c \in Contents : [disk EXCEPT !.staging[req[r].b] = c] \in Disks
      BY <1>t, <2>1, DiskTypes
    <3>2. "torn" \in Contents
      BY DEF Contents
    <3>3. disk' = [disk EXCEPT !.staging[req[r].b] = "torn"]
      BY <1>9 DEF HashOk, EmptyStaging
    <3> QED
      BY <3>1, <3>2, <3>3
  <2>5. RowNext
    BY <1>9, <1>r DEF HashOk, EmptyStaging, rowVars
  <2>6. HistNext
    <3>1. twice' \in BOOLEAN
      BY <1>9 DEF HashOk, EmptyStaging
    <3> QED
      BY <1>9, <1>t, <3>1 DEF HashOk, EmptyStaging
  <2> QED
    BY <1>9, <1>t, <2>3, <2>4, <2>5, <2>6 DEF HashOk, EmptyStaging
<1>10. ASSUME NEW r \in Requests, ListOk(r) PROVE TypedNext
  <2>1. req[r] \in [at : Busy, b : Backups]
    BY <1>10, <1>t DEF ListOk, At, Idle
  <2>2. [req[r] EXCEPT !.at = "extract"] \in [at : Busy, b : Backups]
    BY <2>1 DEF Busy
  <2>3. req' = [req EXCEPT ![r] = [req[r] EXCEPT !.at = "extract"]] /\ begun' = begun
    BY <1>10 DEF ListOk
  <2>4. ReqNext
    BY <1>g, <2>2, <2>3
  <2>5. RowNext /\ HistNext
    BY <1>10, <1>r, <1>s DEF ListOk, rowVars, histVars
  <2> QED
    BY <1>10, <1>t, <2>4, <2>5 DEF ListOk
<1>11. ASSUME NEW r \in Requests, RestoreFails(r) PROVE TypedNext
  <2>1. req[r].b \in Backups
    BY <1>11, BusyHasBackup DEF RestoreFails, Busy
  <2>2. ReqNext
    BY <1>11, <1>o DEF RestoreFails
  <2>3. disk' \in Disks
    <3>1. \A c \in Contents : [disk EXCEPT !.staging[req[r].b] = c] \in Disks
      BY <1>t, <2>1, DiskTypes
    <3>2. "absent" \in Contents
      BY DEF Contents
    <3>3. disk' = [disk EXCEPT !.staging[req[r].b] = "absent"]
      BY <1>11 DEF RestoreFails
    <3> QED
      BY <3>1, <3>2, <3>3
  <2>4. RowNext /\ HistNext
    BY <1>11, <1>r, <1>s DEF RestoreFails, rowVars, histVars
  <2> QED
    BY <1>11, <1>t, <2>2, <2>3, <2>4 DEF RestoreFails
<1>12. ASSUME NEW r \in Requests, Swap(r) PROVE TypedNext
  <2>1. req[r].b \in Backups
    BY <1>12, BusyHasBackup DEF Swap, Busy
  <2>2. ReqNext
    BY <1>12, <1>o DEF Swap
  <2>3. disk' \in Disks
    <3> DEFINE b == req[r].b
               aside == Aside(Drop(Extracted(r), b), b)
    <3>1. aside \in Disks
      BY <2>1, ExtractedType, DiskTypes
    <3>2. Drop(MoveIn(aside, b), b) \in Disks
      BY <2>1, <3>1, DiskTypes
    <3> QED
      BY <1>12, <3>1, <3>2 DEF Swap
  <2>4. RowNext /\ HistNext
    BY <1>12, <1>r, <1>s DEF Swap, rowVars, histVars
  <2> QED
    BY <1>12, <1>t, <2>2, <2>3, <2>4 DEF Swap
<1>13. ASSUME NEW r \in Requests, EndsInSwap(r) PROVE TypedNext
  <2> DEFINE b == req[r].b
             d0 == Extracted(r)
             d1 == Drop(d0, b)
             d2 == Aside(d1, b)
             d3 == MoveIn(d2, b)
             Dropping(d) == [d EXCEPT !.displaced[b] = IF @ = "absent" THEN "absent" ELSE "torn"]
  <2>1. b \in Backups
    BY <1>13, BusyHasBackup DEF EndsInSwap, Busy
  <2>2. d0 \in Disks /\ d1 \in Disks /\ d2 \in Disks /\ d3 \in Disks
    BY <2>1, ExtractedType, DiskTypes
  <2>3. ASSUME NEW d \in Disks PROVE Dropping(d) \in Disks
    <3>1. \A c \in Contents : [d EXCEPT !.displaced[b] = c] \in Disks
      BY <2>1, <2>3, DiskTypes
    <3>2. (IF d.displaced[b] = "absent" THEN "absent" ELSE "torn") \in Contents
      BY DEF Contents
    <3>3. Dropping(d) = [d EXCEPT !.displaced[b] = IF d.displaced[b] = "absent" THEN "absent" ELSE "torn"]
      OBVIOUS
    <3> QED
      BY <3>1, <3>2, <3>3
  <2>4. disk' \in {d0, Dropping(d0), d1, d2, d3, Dropping(d3)}
    BY <1>13 DEF EndsInSwap
  <2> HIDE DEF d0, d1, d2, d3, Dropping
  <2>5. disk' \in Disks
    BY <2>2, <2>3, <2>4
  <2>6. cutSwaps' \in 0..2
    BY <1>13 DEF EndsInSwap
  <2>7. Reboot /\ UNCHANGED <<rowVars, file, cut, told>>
    BY <1>13 DEF EndsInSwap
  <2>8. RowNext /\ ReqNext /\ begun' = begun /\ twice' = twice
    BY <2>7, <1>h, <1>r DEF rowVars
  <2>9. HistNext
    BY <1>t, <2>6, <2>7, <2>8
  <2> QED
    BY <1>t, <2>5, <2>8, <2>9
<1>14. ASSUME NEW b \in Backups, Remove(b) PROVE TypedNext
  <2>1. RowNext /\ ReqNext
    BY <1>14, <1>t DEF Remove
  <2>2. HistNext
    BY <1>14, <1>t DEF Remove
  <2> QED
    BY <1>14, <1>t, <2>1, <2>2 DEF Remove
<1>15. ASSUME NEW b \in Backups, Unlock(b) PROVE TypedNext
  <2>1. RowNext /\ ReqNext
    BY <1>15, <1>t DEF Unlock
  <2>2. HistNext
    BY <1>15, <1>s DEF Unlock, histVars
  <2> QED
    BY <1>15, <1>t, <2>1, <2>2 DEF Unlock
<1>16. ASSUME NEW b \in Backups, Rot(b) PROVE TypedNext
  <2>1. RowNext /\ ReqNext
    BY <1>16, <1>t DEF Rot, rowVars
  <2>2. HistNext
    BY <1>16, <1>s DEF Rot, histVars
  <2> QED
    BY <1>16, <1>t, <2>1, <2>2 DEF Rot
<1>17. ASSUME NEW b \in Backups, EndsInRemove(b) PROVE TypedNext
  <2>1. RowNext
    BY <1>17, <1>t DEF EndsInRemove, rowVars
  <2>2. ReqNext /\ UNCHANGED <<begun, twice>>
    BY <1>17, <1>h DEF EndsInRemove
  <2>3. HistNext
    BY <1>17, <1>t, <2>2 DEF EndsInRemove
  <2> QED
    BY <1>17, <1>t, <2>1, <2>2, <2>3 DEF EndsInRemove
<1>18. CASE MakeDir
  <2>1. disk' \in Disks
    BY <1>18, <1>t DEF MakeDir, Contents
  <2>2. RowNext /\ ReqNext /\ HistNext
    BY <1>18, <1>t, <1>r, <1>s DEF MakeDir, rowVars, histVars
  <2> QED
    BY <1>18, <1>t, <2>1, <2>2 DEF MakeDir
<1>19. CASE PanelEnds
  <2>1. ReqNext /\ UNCHANGED <<begun, twice>>
    BY <1>19, <1>h DEF PanelEnds
  <2>2. RowNext /\ HistNext
    BY <1>19, <2>1, <1>r, <1>s DEF PanelEnds, rowVars
  <2> QED
    BY <1>19, <1>t, <2>1, <2>2 DEF PanelEnds
<1>20. CASE UNCHANGED vars
  <2>1. RowNext /\ ReqNext /\ HistNext
    BY <1>20, <1>t, <1>r, <1>s DEF vars, rowVars, histVars
  <2> QED
    BY <1>20, <1>t, <2>1 DEF vars
<1> QED
  BY <1>1, <1>2, <1>3, <1>4, <1>5, <1>6, <1>7, <1>8, <1>9, <1>10, <1>11, <1>12, <1>13, <1>14,
     <1>15, <1>16, <1>17, <1>18, <1>19, <1>20 DEF Next

-----------------------------------------------------------------------------
(* The rows and their archives *)

RowsInv == MakingInv /\ NumberInv /\ ListedHasFile

\* What a request that does not make or list anything leaves alone.
LEMMA RowsKept ==
  ASSUME TypeOK, RowsInv, UNCHANGED <<begun, row, file, cut>>,
         \A q \in Requests : /\ req'[q].at \in {"archive", "sum"} => req'[q] = req[q]
                             /\ req'[q].b <= begun
  PROVE  RowsInv'
<1>1. MakingInv'
  BY DEF RowsInv, MakingInv, At
<1>2. NumberInv'
  BY DEF RowsInv, NumberInv
<1>3. ListedHasFile'
  BY DEF RowsInv, ListedHasFile
<1> QED
  BY <1>1, <1>2, <1>3 DEF RowsInv

\* One request changes hands or place, and no maker comes of it.
LEMMA RowsKeptOne ==
  ASSUME TypeOK, RowsInv, NEW r \in Requests, NEW n, UNCHANGED <<begun, row, file, cut>>,
         req' = [req EXCEPT ![r] = n], n.at \notin {"archive", "sum"}, n.b <= begun
  PROVE  RowsInv'
<1>1. \A q \in Requests : req'[q] = IF q = r THEN n ELSE req[q]
  BY BackupTypes
<1>2. \A q \in Requests : req[q].b <= begun
  BY DEF RowsInv, NumberInv
<1> QED
  BY <1>1, <1>2, RowsKept

\* Several requests lose their staging directory.
LEMMA RowsKeptOthers ==
  ASSUME TypeOK, RowsInv, NEW r \in Requests, NEW b, NEW n, UNCHANGED <<begun, row, file, cut>>,
         req' = Others(r, b, n), n.at \notin {"archive", "sum"}, n.b <= begun
  PROVE  RowsInv'
<1>1. \A q \in Requests : req[q].b <= begun
  BY DEF RowsInv, NumberInv
<1>2. ASSUME NEW q \in Requests
      PROVE  /\ req'[q].at \in {"archive", "sum"} => req'[q] = req[q]
             /\ req'[q].b <= begun
  <2>1. CASE q = r
    BY <2>1 DEF Others
  <2>2. CASE q # r /\ Staging(q, b) /\ At(q, "extract")
    <3>1. req[q] \in [at : Busy, b : Backups]
      BY <2>2 DEF TypeOK, Busy, Idle, At
    <3>2. req'[q] = [req[q] EXCEPT !.at = "adrift"]
      BY <2>2 DEF Others
    <3>3. req'[q].at = "adrift" /\ req'[q].b = req[q].b
      BY <3>1, <3>2
    <3> QED
      BY <1>1, <3>3
  <2>3. CASE q # r /\ ~(Staging(q, b) /\ At(q, "extract"))
    BY <1>1, <2>3 DEF Others
  <2> QED
    BY <2>1, <2>2, <2>3
<1> QED
  BY <1>2, RowsKept

\* When the panel ends, only rows and archives are left.
LEMMA RowsReboot ==
  ASSUME TypeOK, Reboot, ListedHasFile', \A b \in Backups : b > begun => row'[b] = "none"
  PROVE  RowsInv'
<1>1. \A q \in Requests : req'[q] = [at |-> "idle", b |-> 0]
  BY DEF Reboot, Idle
<1>2. begun' = begun /\ begun \in Nat
  BY BackupTypes DEF Reboot
<1>3. MakingInv'
  BY <1>1 DEF MakingInv, At
<1>4. NumberInv'
  BY <1>1, <1>2 DEF NumberInv
<1> QED
  BY <1>3, <1>4 DEF RowsInv

\* The row a creation writes, with retention as far as it comes.
LEMMA RecordRows ==
  ASSUME TypeOK, RowsInv, NEW r \in Requests, At(r, "sum"), NEW l \in BOOLEAN, NEW marked, NEW gone,
         marked \subseteq Extras(AfterInsert(req[r].b, l)), gone \subseteq marked,
         Record(req[r].b, l, marked, gone), cut' = cut \ marked
  PROVE  /\ ListedHasFile'
         /\ \A b \in Backups : b > begun => row'[b] = "none"
         /\ \A b \in Backups : row[b] = "none" /\ b # req[r].b => row'[b] = "none" /\ file'[b] = file[b]
<1> DEFINE b == req[r].b
<1>1. b \in Backups /\ file[b] = "whole" /\ row[b] = "none"
  BY BusyHasBackup DEF RowsInv, MakingInv, At, Busy
<1>2. marked \subseteq Unlocked \cup {b}
  BY DEF Extras, AfterInsert
<1>3. /\ \A x \in Backups : row'[x] = IF x \in marked THEN "purged" ELSE IF x = b THEN "live" ELSE row[x]
      /\ \A x \in Backups : file'[x] = IF x \in gone THEN "none" ELSE file[x]
  BY DEF Record
<1>4. \A x \in Backups : x > begun => row[x] = "none" /\ x # b
  BY BackupTypes DEF RowsInv, NumberInv, Backups
<1> HIDE DEF b
<1>5. ListedHasFile'
  BY <1>1, <1>3 DEF RowsInv, ListedHasFile
<1>6. \A x \in Backups : row[x] = "none" /\ x # b => x \notin marked /\ row'[x] = "none" /\ file'[x] = file[x]
  BY <1>2, <1>3 DEF Unlocked
<1> QED
  BY <1>4, <1>5, <1>6 DEF b

\* The rows and archives agree after every step.
LEMMA RowsStep == TypeOK /\ RowsInv /\ [Next]_vars => RowsInv'
<1> SUFFICES ASSUME TypeOK, RowsInv, [Next]_vars PROVE RowsInv'
  OBVIOUS
<1>a. begun \in Nat /\ Idle.at \notin {"archive", "sum"} /\ Idle.b <= begun
  BY BackupTypes DEF Idle
<1>b. \A q \in Requests : req[q].b <= begun
  BY DEF RowsInv, NumberInv
<1>c. \A b \in Backups : row[b] # "none" => b <= begun
  BY <1>a DEF RowsInv, NumberInv, Backups
<1>d. \A q \in Requests : At(q, "archive") \/ At(q, "sum") => row[req[q].b] = "none" /\ req[q].b \in Backups
  BY BusyHasBackup DEF RowsInv, MakingInv, At, Busy
<1>e. \A b \in Backups : b > begun => row[b] = "none"
  BY DEF RowsInv, NumberInv
<1>1. ASSUME NEW r \in Requests, Create(r) PROVE RowsInv'
  <2> DEFINE b == begun + 1
  <2>1. b \in Backups /\ begun' = b /\ UNCHANGED <<row, cut>> /\ row[b] = "none"
    BY <1>1, <1>a, <1>e, BackupsAssumption DEF Create, Backups, rowVars, histVars
  <2>2. file' = [file EXCEPT ![b] = "part"] /\ req' = [req EXCEPT ![r] = [at |-> "archive", b |-> b]]
    BY <1>1, <2>1 DEF Create
  <2>3. /\ \A x \in Backups : file'[x] = IF x = b THEN "part" ELSE file[x]
        /\ \A q \in Requests : req'[q] = IF q = r THEN [at |-> "archive", b |-> b] ELSE req[q]
    BY <2>2, BackupTypes
  <2>4. \A q \in Requests : req[q].b # b
    <3>1. \A q \in Requests : req[q].b \in Nat
      BY BackupTypes DEF Idle, Backups
    <3> QED
      BY <1>a, <1>b, <3>1
  <2>5. MakingInv'
    BY <2>1, <2>3, <2>4, <1>d DEF RowsInv, MakingInv, At
  <2>6. NumberInv'
    <3>1. \A r1, r2 \in Requests :
             req'[r1].at \in {"archive", "sum"} /\ req'[r2].at \in {"archive", "sum"}
               /\ req'[r1].b = req'[r2].b => r1 = r2
      BY <2>3, <2>4 DEF RowsInv, NumberInv
    <3>2. \A q \in Requests : req'[q].b <= begun'
      <4>1. \A q \in Requests : req[q].b \in Nat
        BY BackupTypes DEF Idle, Backups
      <4> QED
        BY <2>1, <2>3, <1>a, <1>b, <4>1
    <3>3. \A x \in Backups : x > begun' => row'[x] = "none"
      BY <2>1, <1>a, <1>e DEF Backups
    <3> QED
      BY <3>1, <3>2, <3>3 DEF NumberInv
  <2>7. ListedHasFile'
    BY <2>1, <2>3 DEF RowsInv, ListedHasFile
  <2> QED
    BY <2>5, <2>6, <2>7 DEF RowsInv
<1>2. ASSUME NEW r \in Requests, ArchiveDone(r) PROVE RowsInv'
  <2> DEFINE b == req[r].b
  <2>1. b \in Backups /\ row[b] = "none"
    BY <1>2, <1>d DEF ArchiveDone
  <2>2. UNCHANGED <<begun, row, cut>>
    BY <1>2 DEF ArchiveDone, rowVars, histVars
  <2>3. \A x \in Backups : file'[x] = IF x = b THEN "whole" ELSE file[x]
    BY <1>2, BackupTypes DEF ArchiveDone
  <2>4. /\ req'[r].at = "sum" /\ req'[r].b = b
        /\ \A q \in Requests \ {r} : req'[q] = req[q]
    <3>1. req[r] \in [at : Busy, b : Backups]
      BY <1>2 DEF TypeOK, ArchiveDone, At, Busy, Idle
    <3>2. [req[r] EXCEPT !.at = "sum"].at = "sum" /\ [req[r] EXCEPT !.at = "sum"].b = b
      BY <3>1
    <3> QED
      BY <1>2, <3>2, BackupTypes DEF ArchiveDone
  <2>5. \A q \in Requests \ {r} : At(q, "archive") \/ At(q, "sum") => req[q].b # b
    BY <1>2 DEF RowsInv, NumberInv, At, ArchiveDone
  <2>6. MakingInv'
    BY <2>1, <2>2, <2>3, <2>4, <2>5, <1>d DEF RowsInv, MakingInv, At
  <2>7. NumberInv'
    <3>1. \A q \in Requests : /\ req'[q].b = req[q].b
                              /\ req'[q].at \in {"archive", "sum"} => req[q].at \in {"archive", "sum"}
      BY <1>2, <2>4 DEF ArchiveDone, At
    <3>2. \A r1, r2 \in Requests :
             req'[r1].at \in {"archive", "sum"} /\ req'[r2].at \in {"archive", "sum"}
               /\ req'[r1].b = req'[r2].b => r1 = r2
      BY <3>1 DEF RowsInv, NumberInv
    <3>3. /\ \A q \in Requests : req'[q].b <= begun'
          /\ \A x \in Backups : x > begun' => row'[x] = "none"
      BY <1>b, <1>e, <2>2, <3>1
    <3> QED
      BY <3>2, <3>3 DEF NumberInv
  <2>8. ListedHasFile'
    BY <2>1, <2>2, <2>3 DEF RowsInv, ListedHasFile
  <2> QED
    BY <2>6, <2>7, <2>8 DEF RowsInv
<1>f. ASSUME NEW r \in Requests, At(r, "archive") \/ At(r, "sum"), Finish(r), begun' = begun,
             ListedHasFile',
             \A b \in Backups : b > begun => row'[b] = "none",
             \A b \in Backups : row[b] = "none" /\ b # req[r].b => row'[b] = "none" /\ file'[b] = file[b]
      PROVE  RowsInv'
  <2>1. \A q \in Requests : req'[q] = IF q = r THEN Idle ELSE req[q]
    BY <1>f, BackupTypes DEF Finish
  <2>2. \A q \in Requests \ {r} : At(q, "archive") \/ At(q, "sum") => req[q].b # req[r].b
    BY <1>f DEF RowsInv, NumberInv, At
  <2>3. MakingInv'
    BY <1>a, <1>d, <1>f, <2>1, <2>2 DEF RowsInv, MakingInv, At
  <2>4. NumberInv'
    BY <1>a, <1>b, <1>f, <2>1 DEF RowsInv, NumberInv
  <2> QED
    BY <1>f, <2>3, <2>4 DEF RowsInv
<1>3. ASSUME NEW r \in Requests, ArchiveFails(r) PROVE RowsInv'
  <2>1. At(r, "archive") /\ Finish(r) /\ UNCHANGED <<begun, row, cut>>
    BY <1>3 DEF ArchiveFails, rowVars, histVars
  <2>2. row[req[r].b] = "none" /\ \A x \in Backups : file'[x] = IF x = req[r].b THEN "none" ELSE file[x]
    BY <1>3, <1>d, <2>1, BackupTypes DEF ArchiveFails
  <2>3. ListedHasFile'
    BY <2>1, <2>2 DEF RowsInv, ListedHasFile
  <2> QED
    BY <1>e, <1>f, <2>1, <2>2, <2>3
<1>4. ASSUME NEW r \in Requests, SumFails(r) PROVE RowsInv'
  <2>1. UNCHANGED <<begun, row, file, cut>> /\ req' = [req EXCEPT ![r] = Idle]
    BY <1>4 DEF SumFails, Finish, rowVars, histVars
  <2> QED
    BY <1>a, <2>1, RowsKeptOne
<1>5. ASSUME NEW r \in Requests, NEW l \in BOOLEAN, SumDone(r, l) PROVE RowsInv'
  <2> DEFINE extras == Extras(AfterInsert(req[r].b, l))
  <2>1. /\ At(r, "sum") /\ Finish(r) /\ begun' = begun
        /\ Record(req[r].b, l, extras, extras) /\ cut' = cut \ extras
    BY <1>5 DEF SumDone
  <2>2. /\ ListedHasFile'
        /\ \A b \in Backups : b > begun => row'[b] = "none"
        /\ \A b \in Backups : row[b] = "none" /\ b # req[r].b => row'[b] = "none" /\ file'[b] = file[b]
    BY <2>1, RecordRows
  <2> HIDE DEF extras
  <2> QED
    BY <1>f, <2>1, <2>2
<1>6. ASSUME NEW r \in Requests, NEW l \in BOOLEAN, EndsInRetention(r, l) PROVE RowsInv'
  <2> DEFINE extras == Extras(AfterInsert(req[r].b, l))
             From(n) == {x \in extras : x >= n}
  <2>1. At(r, "sum") /\ Reboot
    BY <1>6 DEF EndsInRetention
  <2>2. PICK last \in extras \cup {MaxBackups + 1} :
          /\ Record(req[r].b, l, From(last), From(last)) \/ Record(req[r].b, l, From(last), From(last + 1))
          /\ cut' = cut \ From(last)
    BY <1>6 DEF EndsInRetention
  <2>3. From(last) \subseteq extras
    OBVIOUS
  <2>4. From(last + 1) \subseteq From(last)
    <3>1. extras \subseteq Nat
      <4>1. req[r].b \in Nat
        BY <1>d, <2>1 DEF Backups
      <4> QED
        BY <4>1 DEF Extras, AfterInsert, Unlocked, Backups
    <3>2. last \in Nat
      BY <3>1, BackupsAssumption
    <3>3. \A x \in extras : x >= last + 1 => x >= last
      <4> HIDE DEF extras
      <4> QED
        BY <3>1, <3>2
    <3> QED
      BY <3>3
  <2>5. \A gone : Record(req[r].b, l, From(last), gone) /\ gone \subseteq From(last) =>
          /\ ListedHasFile'
          /\ \A b \in Backups : b > begun => row'[b] = "none"
    <3> DEFINE marked == From(last)
    <3>1. marked \subseteq Extras(AfterInsert(req[r].b, l)) /\ cut' = cut \ marked
      BY <2>2, <2>3
    <3> HIDE DEF marked
    <3>2. \A gone : Record(req[r].b, l, marked, gone) /\ gone \subseteq marked =>
          /\ ListedHasFile'
          /\ \A b \in Backups : b > begun => row'[b] = "none"
      BY <2>1, <3>1, RecordRows
    <3> QED
      BY <3>2 DEF marked
  <2>6. ListedHasFile' /\ \A b \in Backups : b > begun => row'[b] = "none"
    BY <2>2, <2>4, <2>5
  <2> QED
    BY <2>1, <2>6, RowsReboot
<1>7. ASSUME NEW r \in Requests, NEW b \in Backups, BeginRestore(r, b) PROVE RowsInv'
  <2> DEFINE n == [at |-> "hash", b |-> b]
  <2>1. UNCHANGED <<begun, row, file, cut>> /\ req' = [req EXCEPT ![r] = n]
    BY <1>7 DEF BeginRestore, rowVars, histVars
  <2>2. n.at \notin {"archive", "sum"} /\ n.b <= begun
    BY <1>7, <1>c DEF BeginRestore
  <2> QED
    BY <2>1, <2>2, RowsKeptOne
<1>8. ASSUME NEW r \in Requests, HashFails(r) PROVE RowsInv'
  <2>1. UNCHANGED <<begun, row, file, cut>> /\ req' = [req EXCEPT ![r] = Idle]
    BY <1>8 DEF HashFails, Finish, rowVars, histVars
  <2> QED
    BY <1>a, <2>1, RowsKeptOne
<1>9. ASSUME NEW r \in Requests, HashOk(r) PROVE RowsInv'
  <2> DEFINE n == [req[r] EXCEPT !.at = "list"]
  <2>1. UNCHANGED <<begun, row, file, cut>> /\ req' = Others(r, req[r].b, n)
    BY <1>9 DEF HashOk, EmptyStaging, rowVars
  <2>2. req[r] \in [at : Busy, b : Backups]
    BY <1>9 DEF TypeOK, HashOk, At, Busy, Idle
  <2>3. n.at = "list" /\ n.b = req[r].b
    BY <2>2
  <2> HIDE DEF n
  <2> QED
    BY <1>b, <2>1, <2>3, RowsKeptOthers
<1>10. ASSUME NEW r \in Requests, ListOk(r) PROVE RowsInv'
  <2> DEFINE n == [req[r] EXCEPT !.at = "extract"]
  <2>1. UNCHANGED <<begun, row, file, cut>> /\ req' = [req EXCEPT ![r] = n]
    BY <1>10 DEF ListOk, rowVars, histVars
  <2>2. req[r] \in [at : Busy, b : Backups]
    BY <1>10 DEF TypeOK, ListOk, At, Busy, Idle
  <2>3. n.at = "extract" /\ n.b = req[r].b
    BY <2>2
  <2> HIDE DEF n
  <2> QED
    BY <1>b, <2>1, <2>3, RowsKeptOne
<1>11. ASSUME NEW r \in Requests, RestoreFails(r) PROVE RowsInv'
  <2>1. UNCHANGED <<begun, row, file, cut>> /\ req' = Others(r, req[r].b, Idle)
    BY <1>11 DEF RestoreFails, rowVars, histVars
  <2> QED
    BY <1>a, <2>1, RowsKeptOthers
<1>12. ASSUME NEW r \in Requests, Swap(r) PROVE RowsInv'
  <2>1. UNCHANGED <<begun, row, file, cut>> /\ req' = Others(r, req[r].b, Idle)
    BY <1>12 DEF Swap, rowVars, histVars
  <2> QED
    BY <1>a, <2>1, RowsKeptOthers
<1>13. ASSUME NEW r \in Requests, EndsInSwap(r) PROVE RowsInv'
  <2>1. Reboot /\ UNCHANGED <<row, file, cut>>
    BY <1>13 DEF EndsInSwap, rowVars
  <2>2. ListedHasFile'
    BY <2>1 DEF RowsInv, ListedHasFile
  <2> QED
    BY <1>e, <2>1, <2>2, RowsReboot
<1>14. ASSUME NEW b \in Backups, Remove(b) PROVE RowsInv'
  <2>1. UNCHANGED <<begun, req>> /\ cut' = cut \ {b} /\ row[b] = "live"
    BY <1>14 DEF Remove
  <2>2. /\ \A x \in Backups : row'[x] = IF x = b THEN "purged" ELSE row[x]
        /\ \A x \in Backups : file'[x] = IF x = b THEN "none" ELSE file[x]
    BY <1>14, BackupTypes DEF Remove
  <2>3. MakingInv'
    BY <1>d, <2>1, <2>2 DEF RowsInv, MakingInv, At
  <2>4. NumberInv'
    BY <1>e, <2>1, <2>2 DEF RowsInv, NumberInv
  <2>5. ListedHasFile'
    BY <2>1, <2>2 DEF RowsInv, ListedHasFile
  <2> QED
    BY <2>3, <2>4, <2>5 DEF RowsInv
<1>15. ASSUME NEW b \in Backups, Unlock(b) PROVE RowsInv'
  <2>1. UNCHANGED <<begun, row, file, cut, req>>
    BY <1>15 DEF Unlock, histVars
  <2> QED
    BY <2>1 DEF RowsInv, MakingInv, NumberInv, ListedHasFile, At
<1>16. ASSUME NEW b \in Backups, Rot(b) PROVE RowsInv'
  <2>1. UNCHANGED <<begun, row, cut, req>> /\ row[b] = "live"
    BY <1>16 DEF Rot, rowVars, histVars
  <2>2. \A x \in Backups : file'[x] = IF x = b THEN "rotten" ELSE file[x]
    BY <1>16, BackupTypes DEF Rot
  <2>3. MakingInv'
    BY <1>d, <2>1, <2>2 DEF RowsInv, MakingInv, At
  <2>4. NumberInv'
    BY <2>1 DEF RowsInv, NumberInv
  <2>5. ListedHasFile'
    BY <2>1, <2>2 DEF RowsInv, ListedHasFile
  <2> QED
    BY <2>3, <2>4, <2>5 DEF RowsInv
<1>17. ASSUME NEW b \in Backups, EndsInRemove(b) PROVE RowsInv'
  <2>1. Reboot /\ UNCHANGED row /\ cut' = cut \cup {b}
    BY <1>17 DEF EndsInRemove, rowVars
  <2>2. \A x \in Backups : file'[x] = IF x = b THEN "none" ELSE file[x]
    BY <1>17, BackupTypes DEF EndsInRemove
  <2>3. ListedHasFile'
    BY <2>1, <2>2 DEF RowsInv, ListedHasFile
  <2> QED
    BY <1>e, <2>1, <2>3, RowsReboot
<1>18. CASE MakeDir
  <2>1. UNCHANGED <<begun, row, file, cut, req>>
    BY <1>18 DEF MakeDir, rowVars, histVars
  <2> QED
    BY <2>1 DEF RowsInv, MakingInv, NumberInv, ListedHasFile, At
<1>19. CASE PanelEnds
  <2>1. Reboot /\ UNCHANGED <<row, file, cut>>
    BY <1>19 DEF PanelEnds, rowVars
  <2>2. ListedHasFile'
    BY <2>1 DEF RowsInv, ListedHasFile
  <2> QED
    BY <1>e, <2>1, <2>2, RowsReboot
<1>20. CASE UNCHANGED vars
  <2>1. UNCHANGED <<begun, row, file, cut, req>>
    BY <1>20 DEF vars, rowVars, histVars
  <2> QED
    BY <2>1 DEF RowsInv, MakingInv, NumberInv, ListedHasFile, At
<1> QED
  BY <1>1, <1>2, <1>3, <1>4, <1>5, <1>6, <1>7, <1>8, <1>9, <1>10, <1>11, <1>12, <1>13, <1>14,
     <1>15, <1>16, <1>17, <1>18, <1>19, <1>20 DEF Next

-----------------------------------------------------------------------------
(* The directories *)

\* What each file operation of a swap does to the directories.
LEMMA DiskFields ==
  ASSUME NEW d \in [dir : Contents, staging : Dirs, displaced : Dirs], NEW b \in Backups
  PROVE  /\ Drop(d, b).dir = d.dir /\ Drop(d, b).staging = d.staging
         /\ Aside(d, b).dir = "absent" /\ Aside(d, b).staging = d.staging
         /\ d.dir # "absent" => Aside(d, b).displaced[b] = d.dir
         /\ MoveIn(d, b).dir = d.staging[b]
         /\ \A x \in Backups : x # b => MoveIn(d, b).staging[x] = d.staging[x]
<1>1. d = [dir |-> d.dir, staging |-> d.staging, displaced |-> d.displaced]
      /\ d.staging \in Dirs /\ d.displaced \in Dirs
  OBVIOUS
<1>2. Drop(d, b) = [dir |-> d.dir, staging |-> d.staging, displaced |-> [d.displaced EXCEPT ![b] = "absent"]]
  BY <1>1 DEF Drop
<1>3. /\ MoveIn(d, b).dir = d.staging[b]
      /\ \A x \in Backups : x # b => MoveIn(d, b).staging[x] = d.staging[x]
  <2> DEFINE e == [d EXCEPT !.dir = d.staging[b]]
  <2>1. e = [dir |-> d.staging[b], staging |-> d.staging, displaced |-> d.displaced]
    BY <1>1
  <2>2. MoveIn(d, b) = [e EXCEPT !.staging[b] = "absent"]
    BY DEF MoveIn
  <2> HIDE DEF e
  <2>3. MoveIn(d, b) = [dir |-> d.staging[b], staging |-> [d.staging EXCEPT ![b] = "absent"], displaced |-> d.displaced]
    BY <2>1, <2>2
  <2> QED
    BY <1>1, <2>3 DEF Dirs
<1>4. CASE d.dir = "absent"
  <2>1. Aside(d, b) = d
    BY <1>4 DEF Aside
  <2> QED
    BY <1>2, <1>3, <1>4, <2>1
<1>5. CASE d.dir # "absent"
  <2>1. Aside(d, b) = [dir |-> "absent", staging |-> d.staging, displaced |-> [d.displaced EXCEPT ![b] = d.dir]]
    BY <1>1, <1>5 DEF Aside
  <2>2. [d.displaced EXCEPT ![b] = d.dir][b] = d.dir
    BY <1>1 DEF Dirs
  <2> QED
    BY <1>2, <1>3, <2>1, <2>2
<1> QED
  BY <1>4, <1>5

\* What tar leaves in the staging directory when nothing else went there.
LEMMA ExtractedFields ==
  ASSUME TypeOK, NEW r \in Requests, At(r, "extract"), file[req[r].b] # "rotten"
  PROVE  /\ Extracted(r).dir = disk.dir /\ Extracted(r).displaced = disk.displaced
         /\ Extracted(r).staging[req[r].b] = "whole"
         /\ \A x \in Backups : x # req[r].b => Extracted(r).staging[x] = disk.staging[x]
<1>1. disk = [dir |-> disk.dir, staging |-> disk.staging, displaced |-> disk.displaced]
      /\ disk.staging \in [Backups -> Contents]
  BY BackupTypes DEF Dirs
<1>2. req[r].b \in Backups
  BY BusyHasBackup DEF At, Busy
<1>3. Extracted(r) = [dir |-> disk.dir, staging |-> [disk.staging EXCEPT ![req[r].b] = "whole"], displaced |-> disk.displaced]
  BY <1>1 DEF Extracted
<1> QED
  BY <1>1, <1>2, <1>3

\* Staging directories and their users, when nobody takes one up and none goes.
LEMMA StagingKept ==
  ASSUME TypeOK, TypeOK', StagingInv, twice' = twice,
         \A q \in Requests, b \in Backups : Staging(q, b)' =>
             Staging(q, b) /\ (file'[b] = "rotten" => file[b] = "rotten") /\ disk'.staging[b] = disk.staging[b],
         \A q \in Requests : req'[q].at = "adrift" => req[q].at = "adrift"
  PROVE  StagingInv'
<1> SUFFICES ASSUME ~twice PROVE StagingInv'
  BY DEF StagingInv
<1>1. \A q \in Requests : Staging(q, req[q].b)' => req'[q].b \in Backups
  BY BackupTypes DEF TypeOK, Staging, Idle
<1>2. \A q \in Requests : ~At(q, "adrift")'
  BY DEF StagingInv, At
<1>3. \A r, q \in Requests : \A b \in Backups : Staging(r, b)' /\ Staging(q, b)' => q = r
  BY DEF StagingInv
<1>4. ASSUME NEW q \in Requests, NEW b \in Backups, Staging(q, b)'
      PROVE  file'[b] # "rotten" /\ disk'.staging[b] # "absent"
  <2>1. Staging(q, req[q].b) /\ req[q].b = b
    BY <1>4 DEF Staging
  <2>2. file[req[q].b] # "rotten" /\ disk.staging[req[q].b] # "absent"
    BY <2>1 DEF StagingInv
  <2> QED
    BY <1>4, <2>1, <2>2
<1>5. \A q \in Requests : Staging(q, req[q].b)' =>
        file'[req'[q].b] # "rotten" /\ disk'.staging[req'[q].b] # "absent"
  BY <1>1, <1>4
<1> QED
  BY <1>2, <1>3, <1>5 DEF StagingInv

\* The user of a staging directory leaves it.
LEMMA StagingLeft ==
  ASSUME TypeOK, TypeOK', StagingInv, NEW r \in Requests, req[r].at \in {"list", "extract", "adrift"},
         req' = Others(r, req[r].b, Idle), twice' = twice, file' = file,
         ~twice => \A x \in Backups : x # req[r].b => disk'.staging[x] = disk.staging[x]
  PROVE  StagingInv'
<1> SUFFICES ASSUME ~twice PROVE StagingInv'
  BY DEF StagingInv
<1>1. req[r].b \in Backups /\ Staging(r, req[r].b)
  BY BusyHasBackup DEF Staging, Busy
<1>2. \A q \in Requests : q # r => ~Staging(q, req[r].b)
  BY <1>1 DEF StagingInv
<1>3. \A q \in Requests : req'[q] = IF q = r THEN Idle ELSE req[q]
  BY <1>2 DEF Others
<1>4. \A q \in Requests, b \in Backups : Staging(q, b)' => Staging(q, b) /\ b # req[r].b
  BY <1>2, <1>3 DEF Staging, Idle
<1>5. \A q \in Requests : req'[q].at = "adrift" => req[q].at = "adrift"
  BY <1>3 DEF Idle
<1>6. \A q \in Requests, b \in Backups : Staging(q, b)' =>
             Staging(q, b) /\ (file'[b] = "rotten" => file[b] = "rotten") /\ disk'.staging[b] = disk.staging[b]
  BY <1>4
<1> QED
  BY <1>5, <1>6, StagingKept

\* Without an overlap the staging directories have one user each after every step.
LEMMA StagingStep == TypeOK /\ TypeOK' /\ StagingInv /\ [Next]_vars => StagingInv'
<1> SUFFICES ASSUME TypeOK, TypeOK', StagingInv, [Next]_vars PROVE StagingInv'
  OBVIOUS
<1> DEFINE Disks == [dir : Contents, staging : Dirs, displaced : Dirs]
<1>t. disk \in Disks
  BY DEF TypeOK, Dirs
\* A request at a place where it has no staging directory.
<1>p. ASSUME NEW r \in Requests, NEW n, req' = [req EXCEPT ![r] = n], twice' = twice,
             n.at \in {"idle", "archive", "sum", "hash"}, disk'.staging = disk.staging,
             \A b \in Backups : file'[b] = "rotten" => file[b] = "rotten"
      PROVE  StagingInv'
  <2>1. \A q \in Requests : req'[q] = IF q = r THEN n ELSE req[q]
    BY <1>p, BackupTypes
  <2>2. \A q \in Requests, b \in Backups : Staging(q, b)' =>
          Staging(q, b) /\ (file'[b] = "rotten" => file[b] = "rotten") /\ disk'.staging[b] = disk.staging[b]
    BY <1>p, <2>1 DEF Staging
  <2>3. \A q \in Requests : req'[q].at = "adrift" => req[q].at = "adrift"
    BY <1>p, <2>1
  <2> QED
    BY <1>p, <2>2, <2>3, StagingKept
\* The panel ends.
<1>e. ASSUME Reboot PROVE StagingInv'
  <2>1. \A q \in Requests : req'[q].at = "idle"
    BY <1>e DEF Reboot, Idle
  <2> QED
    BY <2>1 DEF StagingInv, Staging, At
\* No request moves.
<1>k. ASSUME UNCHANGED <<req, twice>>, disk'.staging = disk.staging,
             \A b \in Backups : (\E q \in Requests : Staging(q, b)) /\ file'[b] = "rotten" => file[b] = "rotten"
      PROVE  StagingInv'
  <2>1. \A q \in Requests, b \in Backups : Staging(q, b)' = Staging(q, b)
    BY <1>k DEF Staging
  <2> QED
    BY <1>k, <2>1, StagingKept
<1>i. Idle.at = "idle"
  BY DEF Idle
<1>1. ASSUME NEW r \in Requests, Create(r) PROVE StagingInv'
  <2>1. \A b \in Backups : file'[b] = "rotten" => file[b] = "rotten"
    BY <1>1, BackupTypes DEF Create
  <2>2. disk'.staging = disk.staging /\ twice' = twice
    BY <1>1, <1>t DEF Create, histVars
  <2>3. req' = [req EXCEPT ![r] = [at |-> "archive", b |-> begun']]
    BY <1>1 DEF Create
  <2> QED
    BY <1>p, <2>1, <2>2, <2>3
<1>2. ASSUME NEW r \in Requests, ArchiveDone(r) PROVE StagingInv'
  <2>1. \A b \in Backups : file'[b] = "rotten" => file[b] = "rotten"
    BY <1>2, BackupTypes DEF ArchiveDone
  <2>2. disk'.staging = disk.staging /\ twice' = twice
    BY <1>2 DEF ArchiveDone, histVars
  <2>3. req[r] \in [at : Busy, b : Backups]
    BY <1>2 DEF TypeOK, ArchiveDone, At, Busy, Idle
  <2>4. req' = [req EXCEPT ![r] = [req[r] EXCEPT !.at = "sum"]]
    BY <1>2 DEF ArchiveDone
  <2>5. [req[r] EXCEPT !.at = "sum"].at = "sum"
    BY <2>3
  <2> QED
    BY <1>p, <2>1, <2>2, <2>4, <2>5
<1>3. ASSUME NEW r \in Requests, ArchiveFails(r) PROVE StagingInv'
  <2>1. \A b \in Backups : file'[b] = "rotten" => file[b] = "rotten"
    BY <1>3, BackupTypes DEF ArchiveFails
  <2> QED
    BY <1>3, <1>i, <1>p, <2>1 DEF ArchiveFails, Finish, histVars
<1>4. ASSUME NEW r \in Requests, SumFails(r) PROVE StagingInv'
  BY <1>4, <1>i, <1>p DEF SumFails, Finish, histVars
<1>5. ASSUME NEW r \in Requests, NEW l \in BOOLEAN, SumDone(r, l) PROVE StagingInv'
  <2>1. \A b \in Backups : file'[b] = "rotten" => file[b] = "rotten"
    BY <1>5 DEF SumDone, Record
  <2> QED
    BY <1>5, <1>i, <1>p, <2>1 DEF SumDone, Finish
<1>6. ASSUME NEW r \in Requests, NEW l \in BOOLEAN, EndsInRetention(r, l) PROVE StagingInv'
  BY <1>6, <1>e DEF EndsInRetention
<1>7. ASSUME NEW r \in Requests, NEW b \in Backups, BeginRestore(r, b) PROVE StagingInv'
  <2>1. req' = [req EXCEPT ![r] = [at |-> "hash", b |-> b]] /\ UNCHANGED <<file, disk, twice>>
    BY <1>7 DEF BeginRestore, histVars
  <2> QED
    BY <1>p, <2>1
<1>8. ASSUME NEW r \in Requests, HashFails(r) PROVE StagingInv'
  BY <1>8, <1>i, <1>p DEF HashFails, Finish, histVars
<1>9. ASSUME NEW r \in Requests, HashOk(r) PROVE StagingInv'
  <2> DEFINE c == req[r].b
             n == [req[r] EXCEPT !.at = "list"]
  <2>1. /\ At(r, "hash") /\ file[c] # "rotten" /\ file' = file
        /\ disk' = [disk EXCEPT !.staging[c] = "torn"] /\ req' = Others(r, c, n)
    BY <1>9 DEF HashOk, EmptyStaging
  <2>2. twice' = (twice \/ \E q \in Requests \ {r} : Staging(q, c))
    BY <1>9 DEF HashOk, EmptyStaging
  <2>3. c \in Backups /\ n.at = "list" /\ n.b = c
    BY <2>1 DEF TypeOK, At, Idle
  <2>4. SUFFICES ASSUME ~twice' PROVE StagingInv'
    BY DEF StagingInv
  <2>5. ~twice /\ \A q \in Requests : q # r => ~Staging(q, c)
    BY <2>2, <2>4
  <2> HIDE DEF n
  <2>6. \A q \in Requests : req'[q] = IF q = r THEN n ELSE req[q]
    BY <2>1, <2>5 DEF Others
  <2>7. \A b \in Backups : disk'.staging[b] = IF b = c THEN "torn" ELSE disk.staging[b]
    <3>1. disk = [dir |-> disk.dir, staging |-> disk.staging, displaced |-> disk.displaced]
          /\ disk.staging \in [Backups -> Contents]
      BY BackupTypes DEF Dirs
    <3> QED
      BY <2>1, <3>1
  <2>8. \A q \in Requests : ~At(q, "adrift")'
    BY <2>3, <2>5, <2>6 DEF StagingInv, At
  <2>9. \A p, q \in Requests : \A b \in Backups : Staging(p, b)' /\ Staging(q, b)' => q = p
    <3>1. \A q \in Requests, b \in Backups : Staging(q, b)' => IF q = r THEN b = c ELSE Staging(q, b) /\ b # c
      BY <2>3, <2>5, <2>6 DEF Staging
    <3> QED
      BY <2>5, <3>1 DEF StagingInv
  <2>10. ASSUME NEW q \in Requests, Staging(q, req[q].b)'
         PROVE  file'[req'[q].b] # "rotten" /\ disk'.staging[req'[q].b] # "absent"
    <3>1. CASE q = r
      BY <2>1, <2>3, <2>6, <2>7, <3>1
    <3>2. CASE q # r
      <4>1. req'[q] = req[q] /\ Staging(q, req[q].b)
        BY <2>6, <2>10, <3>2 DEF Staging
      <4>2. req[q].b \in Backups /\ req[q].b # c
        BY <2>5, <3>2, <4>1, BusyHasBackup DEF Staging, Busy
      <4> QED
        BY <2>1, <2>5, <2>7, <4>1, <4>2 DEF StagingInv
    <3> QED
      BY <3>1, <3>2
  <2> QED
    BY <2>8, <2>9, <2>10 DEF StagingInv
<1>10. ASSUME NEW r \in Requests, ListOk(r) PROVE StagingInv'
  <2> DEFINE n == [req[r] EXCEPT !.at = "extract"]
  <2>1. At(r, "list") /\ req' = [req EXCEPT ![r] = n] /\ UNCHANGED <<file, disk, twice>>
    BY <1>10 DEF ListOk, histVars
  <2>2. req[r] \in [at : Busy, b : Backups]
    BY <2>1 DEF TypeOK, At, Busy, Idle
  <2>3. n.at = "extract" /\ n.b = req[r].b
    BY <2>2
  <2> HIDE DEF n
  <2>4. \A q \in Requests : req'[q] = IF q = r THEN n ELSE req[q]
    BY <2>1, BackupTypes
  <2>5. \A q \in Requests, b \in Backups : Staging(q, b)' => Staging(q, b)
    BY <2>1, <2>3, <2>4 DEF Staging, At
  <2>6. \A q \in Requests : req'[q].at = "adrift" => req[q].at = "adrift"
    BY <2>3, <2>4
  <2> QED
    BY <2>1, <2>5, <2>6, StagingKept
<1>11. ASSUME NEW r \in Requests, RestoreFails(r) PROVE StagingInv'
  <2>1. /\ req[r].at \in {"list", "extract", "adrift"} /\ req' = Others(r, req[r].b, Idle)
        /\ disk' = [disk EXCEPT !.staging[req[r].b] = "absent"] /\ UNCHANGED <<file, twice>>
    BY <1>11 DEF RestoreFails, histVars
  <2>2. \A x \in Backups : x # req[r].b => disk'.staging[x] = disk.staging[x]
    <3>1. disk = [dir |-> disk.dir, staging |-> disk.staging, displaced |-> disk.displaced]
          /\ disk.staging \in [Backups -> Contents]
      BY BackupTypes DEF Dirs
    <3> QED
      BY <2>1, <3>1
  <2> QED
    BY <2>1, <2>2, StagingLeft
<1>12. ASSUME NEW r \in Requests, Swap(r) PROVE StagingInv'
  <2> DEFINE b == req[r].b
             d1 == Drop(Extracted(r), b)
             aside == Aside(d1, b)
  <2>1. /\ req[r].at \in {"list", "extract", "adrift"} /\ req' = Others(r, b, Idle)
        /\ UNCHANGED <<file, twice>>
    BY <1>12 DEF Swap, histVars
  <2>2. disk' = aside \/ disk' = Drop(MoveIn(aside, b), b)
    BY <1>12 DEF Swap
  <2>3. b \in Backups
    BY <2>1, BusyHasBackup DEF Busy
  <2>4. ASSUME ~twice, NEW x \in Backups, x # b PROVE disk'.staging[x] = disk.staging[x]
    <3>1. At(r, "extract") /\ file[b] # "rotten"
      BY <1>12, <2>4 DEF Swap, StagingInv, Staging, At
    <3>2. Extracted(r).staging[x] = disk.staging[x]
      BY <2>4, <3>1, ExtractedFields
    <3>3. Extracted(r) \in Disks
      BY <2>3, ExtractedType
    <3>4. d1 \in Disks /\ d1.staging = Extracted(r).staging
      BY <2>3, <3>3, DiskTypes, DiskFields
    <3>5. aside \in Disks /\ aside.staging = d1.staging
      BY <2>3, <3>4, DiskTypes, DiskFields
    <3> HIDE DEF d1, aside, b
    <3>6. MoveIn(aside, b) \in Disks /\ MoveIn(aside, b).staging[x] = aside.staging[x]
      <4>1. MoveIn(aside, b) \in Disks
        BY <2>3, <3>5, DiskTypes
      <4>2. \A y \in Backups : y # b => MoveIn(aside, b).staging[y] = aside.staging[y]
        BY <2>3, <3>5, DiskFields
      <4> QED
        BY <2>4, <4>1, <4>2
    <3>7. Drop(MoveIn(aside, b), b).staging = MoveIn(aside, b).staging
      BY <2>3, <3>6, DiskFields
    <3> QED
      BY <2>2, <3>2, <3>4, <3>5, <3>6, <3>7
  <2> QED
    BY <2>1, <2>4, StagingLeft
<1>13. ASSUME NEW r \in Requests, EndsInSwap(r) PROVE StagingInv'
  BY <1>13, <1>e DEF EndsInSwap
<1>14. ASSUME NEW b \in Backups, Remove(b) PROVE StagingInv'
  <2>1. \A x \in Backups : file'[x] = "rotten" => file[x] = "rotten"
    BY <1>14, BackupTypes DEF Remove
  <2> QED
    BY <1>14, <1>k, <2>1 DEF Remove
<1>15. ASSUME NEW b \in Backups, Unlock(b) PROVE StagingInv'
  BY <1>15, <1>k DEF Unlock, histVars
<1>16. ASSUME NEW b \in Backups, Rot(b) PROVE StagingInv'
  <2>1. \A x \in Backups : (\E q \in Requests : Staging(q, x)) /\ file'[x] = "rotten" => file[x] = "rotten"
    BY <1>16, BackupTypes DEF Rot
  <2> QED
    BY <1>16, <1>k, <2>1 DEF Rot, histVars
<1>17. ASSUME NEW b \in Backups, EndsInRemove(b) PROVE StagingInv'
  BY <1>17, <1>e DEF EndsInRemove
<1>18. CASE MakeDir
  <2>1. disk'.staging = disk.staging
    BY <1>18, <1>t DEF MakeDir
  <2> QED
    BY <1>18, <1>k, <2>1 DEF MakeDir, histVars
<1>19. CASE PanelEnds
  BY <1>19, <1>e DEF PanelEnds
<1>20. CASE UNCHANGED vars
  BY <1>20, <1>k DEF vars, histVars
<1> QED
  BY <1>1, <1>2, <1>3, <1>4, <1>5, <1>6, <1>7, <1>8, <1>9, <1>10, <1>11, <1>12, <1>13, <1>14,
     <1>15, <1>16, <1>17, <1>18, <1>19, <1>20 DEF Next

DirInv == DirNeverTorn /\ HomeInv /\ NothingLost

\* A swap that nobody disturbs, operation by operation.
LEMMA SwapFields ==
  ASSUME TypeOK, StagingInv, ~twice, NEW r \in Requests, req[r].at \in {"extract", "adrift"}
  PROVE  LET b == req[r].b
             d0 == Extracted(r)
             d1 == Drop(d0, b)
             d2 == Aside(d1, b)
             d3 == MoveIn(d2, b)
         IN  /\ ~Throws(r)
             /\ d0.dir = disk.dir /\ d1.dir = disk.dir
             /\ disk.dir # "absent" => d2.displaced[b] = disk.dir
             /\ d2.dir = "absent" /\ d3.dir = "whole" /\ Drop(d3, b).dir = "whole"
<1> DEFINE Disks == [dir : Contents, staging : Dirs, displaced : Dirs]
           b == req[r].b
           d0 == Extracted(r)
           d1 == Drop(d0, b)
           d2 == Aside(d1, b)
           d3 == MoveIn(d2, b)
<1>1. At(r, "extract") /\ b \in Backups /\ file[b] # "rotten" /\ ~Throws(r)
  <2>1. At(r, "extract")
    BY DEF StagingInv, At
  <2>2. Staging(r, b) /\ b \in Backups
    BY <2>1, BusyHasBackup DEF Staging, At, Busy
  <2> QED
    BY <2>1, <2>2 DEF StagingInv, Throws
<1>2. d0 \in Disks /\ d0.dir = disk.dir /\ d0.staging[b] = "whole"
  BY <1>1, ExtractedType, ExtractedFields
<1>3. d1 \in Disks /\ d1.dir = d0.dir /\ d1.staging = d0.staging
  <2> HIDE DEF d0
  <2> QED
    BY <1>1, <1>2, DiskTypes, DiskFields
<1>4. /\ d2 \in Disks /\ d2.dir = "absent" /\ d2.staging = d1.staging
      /\ d1.dir # "absent" => d2.displaced[b] = d1.dir
  <2> HIDE DEF d0, d1
  <2> QED
    BY <1>1, <1>3, DiskTypes, DiskFields
<1>5. d3 \in Disks /\ d3.dir = d2.staging[b]
  <2> HIDE DEF d0, d1, d2
  <2> QED
    BY <1>1, <1>4, DiskTypes, DiskFields
<1>6. Drop(d3, b).dir = d3.dir
  <2> HIDE DEF d0, d1, d2, d3
  <2> QED
    BY <1>1, <1>5, DiskFields
<1>7. d3.dir = "whole"
  BY <1>2, <1>3, <1>4, <1>5
<1> QED
  BY <1>1, <1>2, <1>3, <1>4, <1>6, <1>7

\* The directory the server has, or the one set aside, survives every step.
LEMMA DirStep == TypeOK /\ StagingInv /\ DirInv /\ [Next]_vars => DirInv'
<1> SUFFICES ASSUME TypeOK, StagingInv, DirInv, [Next]_vars PROVE DirInv'
  OBVIOUS
<1>t. disk = [dir |-> disk.dir, staging |-> disk.staging, displaced |-> disk.displaced]
      /\ disk.displaced \in [Backups -> Contents]
  BY BackupTypes DEF Dirs
<1>k. ASSUME disk'.dir = disk.dir, disk'.displaced = disk.displaced, cutSwaps' = cutSwaps, twice => twice'
      PROVE  DirInv'
  BY <1>k DEF DirInv, DirNeverTorn, HomeInv, NothingLost
<1>w. ASSUME twice \/ disk'.dir = "whole", twice' = twice PROVE DirInv'
  BY <1>w DEF DirInv, DirNeverTorn, HomeInv, NothingLost
<1>1. ASSUME NEW r \in Requests, Create(r) PROVE DirInv'
  <2>1. cutSwaps' = cutSwaps /\ twice' = twice
    BY <1>1 DEF Create, histVars
  <2>2. disk' = disk \/ disk'.dir = "whole"
    BY <1>1, <1>t DEF Create
  <2> QED
    BY <2>1, <2>2, <1>k, <1>w
<1>2. ASSUME NEW r \in Requests, HashOk(r) PROVE DirInv'
  <2>1. disk' = [disk EXCEPT !.staging[req[r].b] = "torn"] /\ cutSwaps' = cutSwaps /\ (twice => twice')
    BY <1>2 DEF HashOk, EmptyStaging
  <2>2. disk'.dir = disk.dir /\ disk'.displaced = disk.displaced
    BY <2>1, <1>t
  <2> QED
    BY <2>1, <2>2, <1>k
<1>3. ASSUME NEW r \in Requests, RestoreFails(r) PROVE DirInv'
  <2>1. disk' = [disk EXCEPT !.staging[req[r].b] = "absent"] /\ UNCHANGED <<cutSwaps, twice>>
    BY <1>3 DEF RestoreFails, histVars
  <2>2. disk'.dir = disk.dir /\ disk'.displaced = disk.displaced
    BY <2>1, <1>t
  <2> QED
    BY <2>1, <2>2, <1>k
<1>4. ASSUME NEW r \in Requests, Swap(r) PROVE DirInv'
  <2>1. req[r].at \in {"extract", "adrift"} /\ twice' = twice
    BY <1>4 DEF Swap, histVars
  <2>2. ASSUME ~twice PROVE disk'.dir = "whole"
    <3>1. ~Throws(r)
      BY <2>1, <2>2, SwapFields
    <3>2. disk' = Drop(MoveIn(Aside(Drop(Extracted(r), req[r].b), req[r].b), req[r].b), req[r].b)
      BY <1>4, <3>1 DEF Swap
    <3> QED
      BY <2>1, <2>2, <3>2, SwapFields
  <2> QED
    BY <2>1, <2>2, <1>w
<1>5. ASSUME NEW r \in Requests, EndsInSwap(r) PROVE DirInv'
  <2> DEFINE b == req[r].b
             d0 == Extracted(r)
             d1 == Drop(d0, b)
             d2 == Aside(d1, b)
             d3 == MoveIn(d2, b)
             Dropping(d) == [d EXCEPT !.displaced[b] = IF @ = "absent" THEN "absent" ELSE "torn"]
  <2>1. /\ req[r].at \in {"extract", "adrift"} /\ twice' = twice
        /\ cutSwaps' = IF cutSwaps = 0 THEN 1 ELSE 2
        /\ disk' \in {d0, Dropping(d0), d1, d2, d3, Dropping(d3)}
    BY <1>5 DEF EndsInSwap, Reboot
  <2>2. SUFFICES ASSUME ~twice PROVE DirInv'
    BY <2>1 DEF DirInv, DirNeverTorn, HomeInv, NothingLost
  <2>3. /\ d0.dir = disk.dir /\ d1.dir = disk.dir
        /\ disk.dir # "absent" => d2.displaced[b] = disk.dir
        /\ d2.dir = "absent" /\ d3.dir = "whole"
    BY <2>1, <2>2, SwapFields
  <2>4. b \in Backups
    BY <2>1, BusyHasBackup DEF Busy
  <2>5. ASSUME NEW d \in [dir : Contents, staging : Dirs, displaced : Dirs] PROVE Dropping(d).dir = d.dir
    OBVIOUS
  <2>6. Dropping(d0).dir = d0.dir /\ Dropping(d3).dir = d3.dir
    BY <2>4, <2>5, ExtractedType, DiskTypes
  <2>7. CASE disk' = d2
    <3>1. disk'.dir = "absent" /\ (disk.dir # "absent" => disk'.displaced[b] = disk.dir)
      BY <2>3, <2>7
    <3>2. cutSwaps' # 0 /\ (cutSwaps' < 2 => cutSwaps = 0)
      BY <2>1
    <3>3. cutSwaps = 0 => disk.dir = "whole"
      BY <2>2 DEF DirInv, HomeInv
    <3> QED
      BY <2>4, <3>1, <3>2, <3>3 DEF DirInv, DirNeverTorn, HomeInv, NothingLost
  <2>8. CASE disk' # d2
    <3>1. disk'.dir = disk.dir \/ disk'.dir = "whole"
      <4> HIDE DEF d0, d1, d2, d3, Dropping
      <4> QED
        BY <2>1, <2>3, <2>6, <2>8
    <3>2. cutSwaps' # 0 /\ (cutSwaps' < 2 => cutSwaps = 0)
      BY <2>1
    <3>3. cutSwaps = 0 => disk.dir = "whole"
      BY <2>2 DEF DirInv, HomeInv
    <3> QED
      BY <2>1, <2>2, <3>1, <3>2, <3>3 DEF DirInv, DirNeverTorn, HomeInv, NothingLost
  <2> QED
    BY <2>7, <2>8
<1>6. CASE MakeDir
  <2>1. disk'.dir = "whole" /\ twice' = twice
    BY <1>6, <1>t DEF MakeDir, histVars
  <2> QED
    BY <2>1, <1>w
<1>7. ASSUME UNCHANGED <<disk, cutSwaps, twice>> PROVE DirInv'
  BY <1>7, <1>k
<1>8. ASSUME NEW r \in Requests,
             \/ ArchiveDone(r) \/ ArchiveFails(r) \/ SumFails(r)
             \/ \E l \in BOOLEAN : SumDone(r, l) \/ EndsInRetention(r, l)
             \/ \E b \in Backups : BeginRestore(r, b)
             \/ HashFails(r) \/ ListOk(r)
      PROVE  DirInv'
  BY <1>7, <1>8 DEF ArchiveDone, ArchiveFails, SumFails, SumDone, EndsInRetention, BeginRestore, HashFails,
       ListOk, Reboot, histVars
<1>9. ASSUME NEW b \in Backups, Remove(b) \/ Unlock(b) \/ Rot(b) \/ EndsInRemove(b) PROVE DirInv'
  BY <1>7, <1>9 DEF Remove, Unlock, Rot, EndsInRemove, Reboot, histVars
<1>10. CASE PanelEnds \/ UNCHANGED vars
  BY <1>7, <1>10 DEF PanelEnds, Reboot, vars, histVars
<1> QED
  BY <1>1, <1>2, <1>3, <1>4, <1>5, <1>6, <1>8, <1>9, <1>10 DEF Next

-----------------------------------------------------------------------------
(* What retention leaves *)

\* Among some backups there is a newest one.
LEMMA NewestOf ==
  ASSUME NEW E, E \subseteq Backups, E # {}
  PROVE  \E m \in E : \A x \in E : x <= m
<1> SUFFICES ASSUME \A m \in E : \E x \in E : x > m PROVE FALSE
  BY DEF Backups
<1> DEFINE S == {n \in 0..MaxBackups : \E x \in E : x >= n}
           T == S \ {0}
           f == [n \in S |-> n + 1]
<1>1. MaxBackups \in Nat /\ E \subseteq 1..MaxBackups
  BY BackupsAssumption DEF Backups
<1>2. 0 \in S /\ \A n \in S : n \in Nat
  <2>1. PICK x \in E : TRUE
    OBVIOUS
  <2>2. x \in Nat /\ x >= 0
    BY <1>1
  <2> QED
    BY <1>1, <2>2
<1>3. \A n \in S : n + 1 \in T
  <2> TAKE n \in S
  <2>1. PICK x \in E : x >= n
    OBVIOUS
  <2>2. PICK y \in E : y > x
    OBVIOUS
  <2> QED
    BY <1>1, <2>1, <2>2
<1>4. IsFiniteSet(S) /\ IsFiniteSet(T) /\ Cardinality(T) < Cardinality(S)
  <2>1. S \in SUBSET (0..MaxBackups)
    OBVIOUS
  <2>2. IsFiniteSet(0..MaxBackups)
    BY <1>1, FS_Interval
  <2> HIDE DEF S
  <2>3. IsFiniteSet(S)
    BY <2>1, <2>2, FS_Subset
  <2>4. IsFiniteSet(T) /\ Cardinality(T) = Cardinality(S) - 1
    BY ONLY <1>2, <2>3, FS_RemoveElement
  <2>5. Cardinality(S) \in Nat
    BY <2>3, FS_CardinalityType
  <2> QED
    BY <2>3, <2>4, <2>5
<1>5. f \in [S -> T]
  BY <1>3
<1>6. \A x, y \in S : f[x] = f[y] => x = y
  BY <1>2
<1> QED
  <2> HIDE DEF S, T, f
  <2> QED
    BY <1>4, <1>5, <1>6, FS_PigeonHole

\* Whatever retention finds too old has enough newer backups among those it keeps.
LEMMA NewestAreKept ==
  ASSUME NEW U, U \subseteq Backups, NEW V, V \subseteq Backups, U \ Extras(U) \subseteq V,
         NEW b \in Extras(U)
  PROVE  Cardinality({x \in V : x > b}) >= Retain
<1>1. Extras(U) \subseteq U /\ Extras(U) \subseteq Backups /\ Extras(U) # {}
  BY DEF Extras
<1>2. PICK m \in Extras(U) : \A x \in Extras(U) : x <= m
  BY <1>1, NewestOf
<1> DEFINE K == {x \in U : x > m}
           W == {x \in V : x > b}
<1>3. Cardinality(K) >= Retain
  BY <1>2 DEF Extras
<1>4. K \subseteq W
  <2>1. \A x \in U : x > m => x \notin Extras(U) /\ x > b
    BY <1>1, <1>2, BackupsAssumption DEF Backups
  <2> QED
    BY <2>1
<1>5. IsFiniteSet(W)
  <2>1. IsFiniteSet(Backups)
    BY BackupsAssumption, FS_Interval DEF Backups
  <2>2. W \in SUBSET Backups
    OBVIOUS
  <2> QED
    BY ONLY <2>1, <2>2, FS_Subset
<1>6. IsFiniteSet(K) /\ Cardinality(K) <= Cardinality(W)
  <2>1. K \in SUBSET W
    BY <1>4
  <2> QED
    BY ONLY <1>5, <2>1, FS_Subset
<1>7. Cardinality(K) \in Nat /\ Cardinality(W) \in Nat
  BY <1>5, <1>6, FS_CardinalityType
<1> QED
  BY <1>3, <1>6, <1>7, BackupsAssumption

\* A row written with retention: what it purges has enough newer unlocked rows.
LEMMA RecordKeepsNewest ==
  ASSUME TypeOK, MakingInv, NEW r \in Requests, At(r, "sum"), NEW l \in BOOLEAN, NEW marked, NEW gone,
         marked \subseteq Extras(AfterInsert(req[r].b, l)), Record(req[r].b, l, marked, gone),
         NEW x \in Backups, row[x] = "live", row'[x] = "purged"
  PROVE  ~locked[x] /\ Cardinality({y \in Unlocked' : y > x}) >= Retain
<1> DEFINE b == req[r].b
           U == AfterInsert(b, l)
<1>1. b \in Backups /\ row[b] = "none"
  BY BusyHasBackup DEF MakingInv, At, Busy
<1>2. U \subseteq Backups /\ Unlocked' \subseteq Backups
  BY <1>1 DEF AfterInsert, Unlocked
<1>3. /\ \A y \in Backups : row'[y] = IF y \in marked THEN "purged" ELSE IF y = b THEN "live" ELSE row[y]
      /\ \A y \in Backups : locked'[y] = IF y = b THEN l ELSE locked[y]
  BY <1>1, BackupTypes DEF Record
<1>4. x \in marked /\ x # b
  BY <1>1, <1>3
<1>5. x \in Extras(U) /\ x \in Unlocked
  BY <1>4 DEF Extras, AfterInsert
<1>6. U \ Extras(U) \subseteq Unlocked'
  BY <1>1, <1>3 DEF AfterInsert, Unlocked
<1> HIDE DEF U
<1>7. PICK V : V = Unlocked'
  OBVIOUS
<1>8. Cardinality({y \in V : y > x}) >= Retain
  BY <1>2, <1>5, <1>6, <1>7, NewestAreKept
<1> QED
  BY <1>5, <1>7, <1>8 DEF Unlocked

-----------------------------------------------------------------------------
(* Theorems *)

\* The strengthening holds in every reachable state.
THEOREM BackupsInvariant == Spec => []IndInv
<1>1. Init => IndInv
  BY BackupsInit
<1>2. IndInv /\ [Next]_vars => IndInv'
  <2> SUFFICES ASSUME IndInv, [Next]_vars PROVE IndInv'
    OBVIOUS
  <2>1. TypeOK'
    BY BackupsTypeStep DEF IndInv
  <2>2. RowsInv'
    BY RowsStep DEF IndInv, RowsInv
  <2>3. StagingInv'
    BY <2>1, StagingStep DEF IndInv
  <2>4. DirInv'
    BY DirStep DEF IndInv, DirInv
  <2> QED
    BY <2>1, <2>2, <2>3, <2>4 DEF IndInv, RowsInv, DirInv
<1> QED
  BY <1>1, <1>2, PTL DEF Spec

\* Every variable keeps its type: rows, archives, directories and requests.
THEOREM BackupsTypeCorrect == Spec => []TypeOK
<1>1. IndInv => TypeOK
  BY DEF IndInv
<1> QED
  BY <1>1, BackupsInvariant, PTL

\* A backup that remove(), retention and crashes leave listed has its archive.
THEOREM ListedHasFileHolds == Spec => []ListedHasFile
<1>1. IndInv => ListedHasFile
  BY DEF IndInv
<1> QED
  BY <1>1, BackupsInvariant, PTL

\* However restores of different backups and crashes interleave, restore() never
\* leaves the server a half-written directory.
THEOREM DirNeverTornHolds == Spec => []DirNeverTorn
<1>1. IndInv => DirNeverTorn
  BY DEF IndInv
<1> QED
  BY <1>1, BackupsInvariant, PTL

\* After one crash in restore(), a server without its directory has it set aside.
THEOREM NothingLostHolds == Spec => []NothingLost
<1>1. IndInv => NothingLost
  BY DEF IndInv
<1> QED
  BY <1>1, BackupsInvariant, PTL

\* create() reports only backups that retention, even its own, has left listed.
THEOREM SuccessIsListedHolds == Spec => SuccessIsListed
<1> DEFINE A == \A b \in told' \ told : row'[b] = "live" /\ file'[b] = "whole"
<1>1. IndInv /\ [Next]_vars => A
  <2> SUFFICES ASSUME IndInv, [Next]_vars PROVE A
    OBVIOUS
  <2>1. TypeOK /\ MakingInv
    BY DEF IndInv
  <2>2. ASSUME NEW r \in Requests, NEW l \in BOOLEAN, SumDone(r, l) PROVE A
    <3> DEFINE extras == Extras(AfterInsert(req[r].b, l))
    <3>1. /\ At(r, "sum") /\ Record(req[r].b, l, extras, extras)
          /\ told' = (told \cup {req[r].b}) \ extras
      BY <2>2 DEF SumDone
    <3>2. req[r].b \in Backups /\ file[req[r].b] = "whole"
      BY <2>1, <3>1, BusyHasBackup DEF MakingInv, At, Busy
    <3> HIDE DEF extras
    <3> QED
      BY <3>1, <3>2 DEF Record
  <2>3. CASE told' \subseteq told
    BY <2>3
  <2> QED
    BY <2>2, <2>3 DEF Next, vars, histVars, Create, ArchiveDone, ArchiveFails, SumFails, EndsInRetention,
       BeginRestore, HashFails, HashOk, EmptyStaging, ListOk, RestoreFails, Swap, EndsInSwap, Remove, Unlock,
       Rot, EndsInRemove, MakeDir, PanelEnds
<1>2. Spec => [][A]_vars
  BY <1>1, BackupsInvariant, PTL DEF Spec
<1> QED
  BY <1>2 DEF SuccessIsListed

\* enforceRetention() purges a row only when RETAIN_UNLOCKED newer unlocked ones are
\* there afterwards, also when the panel ends before it is through.
THEOREM KeepsNewestHolds == Spec => KeepsNewest
<1> DEFINE A == \A b \in Backups : row[b] = "live" /\ row'[b] = "purged" =>
                  \/ Remove(b)
                  \/ ~locked[b] /\ Cardinality({x \in Unlocked' : x > b}) >= Retain
<1>1. IndInv /\ [Next]_vars => A
  <2> SUFFICES ASSUME IndInv, [Next]_vars PROVE A
    OBVIOUS
  <2>1. TypeOK /\ MakingInv
    BY DEF IndInv
  <2>2. ASSUME NEW r \in Requests, NEW l \in BOOLEAN, SumDone(r, l) PROVE A
    <3> DEFINE extras == Extras(AfterInsert(req[r].b, l))
    <3>1. At(r, "sum") /\ Record(req[r].b, l, extras, extras)
      BY <2>2 DEF SumDone
    <3> QED
      BY <2>1, <3>1, RecordKeepsNewest
  <2>3. ASSUME NEW r \in Requests, NEW l \in BOOLEAN, EndsInRetention(r, l) PROVE A
    <3> DEFINE extras == Extras(AfterInsert(req[r].b, l))
               From(n) == {x \in extras : x >= n}
    <3>1. /\ At(r, "sum")
          /\ \E last : Record(req[r].b, l, From(last), From(last)) \/ Record(req[r].b, l, From(last), From(last + 1))
      BY <2>3 DEF EndsInRetention
    <3>2. \A n : From(n) \subseteq extras
      OBVIOUS
    <3> HIDE DEF From
    <3> QED
      BY <2>1, <3>1, <3>2, RecordKeepsNewest
  <2>4. ASSUME NEW b \in Backups, Remove(b) PROVE A
    <3>1. \A x \in Backups : row'[x] # row[x] => x = b
      BY <2>4, BackupTypes, <2>1 DEF Remove
    <3> QED
      BY <2>4, <3>1
  <2>5. CASE UNCHANGED row
    BY <2>5
  <2> QED
    BY <2>2, <2>3, <2>4, <2>5 DEF Next, vars, rowVars, Create, ArchiveDone, ArchiveFails, SumFails,
       BeginRestore, HashFails, HashOk, EmptyStaging, ListOk, RestoreFails, Swap, EndsInSwap, Unlock,
       Rot, EndsInRemove, MakeDir, PanelEnds
<1>2. Spec => [][A]_vars
  BY <1>1, BackupsInvariant, PTL DEF Spec
<1> QED
  BY <1>2, PTL DEF KeepsNewest
=============================================================================
