------------------------------- MODULE Backups -------------------------------
(***************************************************************************)
(* The backups of one server (modules/backups/service.ts): rows in the     *)
(* database, archives on disk, and the directories a restore works with.   *)
(*                                                                         *)
(* A step is what the panel does between two awaits.  File operations are  *)
(* not transactions: the panel can end between any two of them, so the     *)
(* actions that do several also say what each of them leaves behind.  tar  *)
(* is a child of the panel and is taken to end with it.                    *)
(***************************************************************************)
EXTENDS Naturals, FiniteSets

CONSTANTS
  Requests,    \* create and restore requests in flight at once
  Retain,      \* RETAIN_UNLOCKED
  MaxBackups   \* bound on the backups ever begun

ASSUME BackupsAssumption ==
  /\ Retain \in Nat \ {0}
  /\ MaxBackups \in Nat

VARIABLES
  begun,    \* how many backups were begun; they are numbered in that order
  row,      \* the state of each row; "live" is purged_at NULL
  locked,   \* its locked flag
  file,     \* each archive: "part" while tar writes it, "rotten" if it changed later
  disk,     \* the server's directory, and per backup staging and displaced
  req,      \* where each request is
  cut,      \* history: rows whose removal a crash cut short
  cutSwaps, \* history: swaps a crash cut short, counted up to two
  twice,    \* history: two restores of one backup overlapped
  told      \* history: the rows whose creation was reported as done

rowVars == <<row, locked>>
histVars == <<cut, cutSwaps, twice, told>>
vars == <<begun, rowVars, file, disk, req, histVars>>

Backups == 1..MaxBackups
Idle == [at |-> "idle", b |-> 0]

\* A directory is whole as the server left it or as an archive has it, and torn when
\* something in it is missing or half written.
Contents == {"absent", "torn", "whole"}

TypeOK ==
  /\ begun \in 0..MaxBackups
  /\ row \in [Backups -> {"none", "live", "purged"}]
  /\ locked \in [Backups -> BOOLEAN]
  /\ file \in [Backups -> {"none", "part", "whole", "rotten"}]
  /\ disk \in [dir : Contents, staging : [Backups -> Contents], displaced : [Backups -> Contents]]
  /\ req \in [Requests -> {Idle} \cup
       [at : {"archive", "sum", "hash", "list", "extract", "adrift"}, b : Backups]]
  /\ cutSwaps \in 0..2
  /\ cut \subseteq Backups /\ twice \in BOOLEAN /\ told \subseteq Backups

At(r, at) == req[r].at = at

Unlocked == {b \in Backups : row[b] = "live" /\ ~locked[b]}

\* Past its checksum, a restore works in the staging directory of its backup.
Staging(q, b) == req[q].b = b /\ req[q].at \in {"list", "extract", "adrift"}

\* The requests after r is done with `next`, when the staging directory of b that
\* others work in was removed or moved away: their tar goes on where it was.
Others(r, b, next) ==
  [q \in Requests |->
    IF q = r THEN next
    ELSE IF Staging(q, b) /\ At(q, "extract") THEN [req[q] EXCEPT !.at = "adrift"]
    ELSE req[q]]

Finish(r) == req' = [req EXCEPT ![r] = Idle]

-----------------------------------------------------------------------------
(* create() *)

\* The checks, the reservation of a name, and the start of tar.  A server whose
\* directory is missing gets an empty one.
Create(r) ==
  /\ req[r] = Idle
  /\ begun < MaxBackups
  /\ begun' = begun + 1
  /\ file' = [file EXCEPT ![begun'] = "part"]
  /\ disk' = [disk EXCEPT !.dir = IF @ = "absent" THEN "whole" ELSE @]
  /\ req' = [req EXCEPT ![r] = [at |-> "archive", b |-> begun']]
  /\ UNCHANGED <<rowVars, histVars>>

ArchiveDone(r) ==
  /\ At(r, "archive")
  /\ file' = [file EXCEPT ![req[r].b] = "whole"]
  /\ req' = [req EXCEPT ![r].at = "sum"]
  /\ UNCHANGED <<begun, rowVars, disk, histVars>>

ArchiveFails(r) ==
  /\ At(r, "archive")
  /\ file' = [file EXCEPT ![req[r].b] = "none"]
  /\ Finish(r)
  /\ UNCHANGED <<begun, rowVars, disk, histVars>>

\* The checksum cannot be read: the archive stays without a row.
SumFails(r) ==
  /\ At(r, "sum")
  /\ Finish(r)
  /\ UNCHANGED <<begun, rowVars, file, disk, histVars>>

\* enforceRetention(): of these unlocked backups, those after the newest ones.
\* Variant for KeepsNewest: ORDER BY created_at without DESC.
ExtrasOldest(unlocked) == {b \in unlocked : Cardinality({x \in unlocked : x < b}) >= Retain}
Extras(unlocked) == {b \in unlocked : Cardinality({x \in unlocked : x > b}) >= Retain}

\* The row is written, and the backups in `marked` are purged, the archives in
\* `gone` deleted.
Record(b, l, marked, gone) ==
  /\ row' = [x \in Backups |-> IF x \in marked THEN "purged" ELSE IF x = b THEN "live" ELSE row[x]]
  /\ locked' = [locked EXCEPT ![b] = l]
  /\ file' = [x \in Backups |-> IF x \in gone THEN "none" ELSE file[x]]

AfterInsert(b, l) == IF l THEN Unlocked ELSE Unlocked \cup {b}

\* Variant for SuccessIsListed: create() answers with the record it wrote.
SumDoneUnread(r, l) ==
  /\ At(r, "sum")
  /\ LET b == req[r].b
         extras == Extras(AfterInsert(b, l))
     IN  /\ Record(b, l, extras, extras)
         /\ told' = (told \ extras) \cup {b}
         /\ cut' = cut \ extras
  /\ Finish(r)
  /\ UNCHANGED <<begun, disk, cutSwaps, twice>>

\* The checksum is known: row, retention, and the answer, if the row is still
\* there after retention.
SumDone(r, l) ==
  /\ At(r, "sum")
  /\ LET b == req[r].b
         extras == Extras(AfterInsert(b, l))
     IN  /\ Record(b, l, extras, extras)
         /\ told' = (told \cup {b}) \ extras
         /\ cut' = cut \ extras
  /\ Finish(r)
  /\ UNCHANGED <<begun, disk, cutSwaps, twice>>

-----------------------------------------------------------------------------
(* remove(), unlock(), and what happens to an archive outside the panel *)

\* Variant for ListedHasFile: the row stays listed.
RemoveFileOnly(b) ==
  /\ row[b] = "live" /\ ~locked[b]
  /\ file' = [file EXCEPT ![b] = "none"]
  /\ UNCHANGED <<begun, rowVars, disk, req, histVars>>

Remove(b) ==
  /\ row[b] = "live" /\ ~locked[b]
  /\ file' = [file EXCEPT ![b] = "none"]
  /\ row' = [row EXCEPT ![b] = "purged"]
  /\ cut' = cut \ {b} /\ told' = told \ {b}
  /\ UNCHANGED <<begun, locked, disk, req, cutSwaps, twice>>

Unlock(b) ==
  /\ row[b] = "live" /\ locked[b]
  /\ locked' = [locked EXCEPT ![b] = FALSE]
  /\ UNCHANGED <<begun, row, file, disk, req, histVars>>

\* The archive changes on the disk.  (Not between a restore's checksum and its
\* last read of it.)
Rot(b) ==
  /\ row[b] = "live" /\ file[b] = "whole"
  /\ \A r \in Requests : ~Staging(r, b)
  /\ file' = [file EXCEPT ![b] = "rotten"]
  /\ UNCHANGED <<begun, rowVars, disk, req, histVars>>

-----------------------------------------------------------------------------
(* restore() *)

\* The checks.  (One more is the engine's: the server has no process now.)
BeginRestore(r, b) ==
  /\ req[r] = Idle
  /\ row[b] = "live"
  /\ file[b] # "none"
  /\ req' = [req EXCEPT ![r] = [at |-> "hash", b |-> b]]
  /\ UNCHANGED <<begun, rowVars, file, disk, histVars>>

\* The archive is not what the row says, or gone.
HashFails(r) ==
  /\ At(r, "hash")
  /\ file[req[r].b] # "whole"
  /\ Finish(r)
  /\ UNCHANGED <<begun, rowVars, file, disk, histVars>>

\* Variant for NothingLost: whatever an earlier restore left is cleared away first.
EmptyStagingTidy(r) ==
  LET b == req[r].b IN
    /\ disk' = [disk EXCEPT !.staging[b] = "torn", !.displaced[b] = "absent"]
    /\ req' = Others(r, b, [req[r] EXCEPT !.at = "list"])
    /\ twice' = (twice \/ \E q \in Requests \ {r} : Staging(q, b))
    /\ UNCHANGED <<begun, rowVars, file, cut, cutSwaps, told>>

\* A staging directory made anew; tar lists the archive.
EmptyStaging(r) ==
  LET b == req[r].b IN
    /\ disk' = [disk EXCEPT !.staging[b] = "torn"]
    /\ req' = Others(r, b, [req[r] EXCEPT !.at = "list"])
    /\ twice' = (twice \/ \E q \in Requests \ {r} : Staging(q, b))
    /\ UNCHANGED <<begun, rowVars, file, cut, cutSwaps, told>>

\* Variant for DirNeverTorn: the checksum is not compared.
HashUnchecked(r) == At(r, "hash") /\ EmptyStaging(r)

\* The checksum is right.  (An archive deleted meanwhile was open already.)
HashOk(r) ==
  /\ At(r, "hash")
  /\ file[req[r].b] # "rotten"
  /\ EmptyStaging(r)

\* The members are harmless, and tar extracts into the staging directory.
ListOk(r) ==
  /\ At(r, "list")
  /\ file[req[r].b] # "none"
  /\ disk.staging[req[r].b] # "absent"
  /\ req' = [req EXCEPT ![r].at = "extract"]
  /\ UNCHANGED <<begun, rowVars, file, disk, histVars>>

\* tar cannot list or extract, or takes too long: the staging directory goes, whoever
\* works in it.
RestoreFails(r) ==
  /\ req[r].at \in {"list", "extract", "adrift"}
  /\ disk' = [disk EXCEPT !.staging[req[r].b] = "absent"]
  /\ req' = Others(r, req[r].b, Idle)
  /\ UNCHANGED <<begun, rowVars, file, histVars>>

\* The file operations of the swap, each on what the one before left.
Extracted(r) ==
  IF At(r, "extract")
  THEN [disk EXCEPT !.staging[req[r].b] = IF file[req[r].b] = "rotten" THEN "torn" ELSE "whole"]
  ELSE disk
Drop(d, b)  == [d EXCEPT !.displaced[b] = "absent"]
Aside(d, b) == IF d.dir = "absent" THEN d ELSE [d EXCEPT !.displaced[b] = d.dir, !.dir = "absent"]
MoveIn(d, b) == [[d EXCEPT !.dir = d.staging[b]] EXCEPT !.staging[b] = "absent"]

\* There is nothing to move in: another restore of this backup has moved it.
Throws(r) == disk.staging[req[r].b] = "absent"

\* tar is done: the swap.  If its last rename throws, the directory stays aside.
\* (A tar that is adrift was done before, or works on where its directory went.)
Swap(r) ==
  LET b == req[r].b
      aside == Aside(Drop(Extracted(r), b), b)
  IN  /\ req[r].at \in {"extract", "adrift"}
      /\ disk' = IF Throws(r) THEN aside ELSE Drop(MoveIn(aside, b), b)
      /\ req' = Others(r, b, Idle)
      /\ UNCHANGED <<begun, rowVars, file, histVars>>

-----------------------------------------------------------------------------
(* Other writers, and the end of the panel *)

\* Variant for TypeOK: a directory made anew is told apart from a whole one.
MakeDirEmpty ==
  /\ disk.dir = "absent"
  /\ disk' = [disk EXCEPT !.dir = "empty"]
  /\ UNCHANGED <<begun, rowVars, file, req, histVars>>

\* Starts, installs and uploads make a directory that is missing.
MakeDir ==
  /\ disk.dir = "absent"
  /\ disk' = [disk EXCEPT !.dir = "whole"]
  /\ UNCHANGED <<begun, rowVars, file, req, histVars>>

\* The panel ends and boots again; every request is gone with it.
Reboot ==
  /\ req' = [r \in Requests |-> Idle]
  /\ UNCHANGED <<begun, twice>>

PanelEnds ==
  /\ Reboot
  /\ UNCHANGED <<rowVars, file, disk, cut, cutSwaps, told>>

\* ... after some of the operations of a swap.  A directory that was being deleted
\* is torn.
EndsInSwap(r) ==
  LET b == req[r].b
      d0 == Extracted(r)
      d1 == Drop(d0, b)
      d2 == Aside(d1, b)
      d3 == MoveIn(d2, b)
      Dropping(d) == [d EXCEPT !.displaced[b] = IF @ = "absent" THEN "absent" ELSE "torn"]
  IN  /\ req[r].at \in {"extract", "adrift"}
      /\ disk' \in {d0, Dropping(d0), d1, d2}
                   \cup (IF Throws(r) THEN {} ELSE {d3, Dropping(d3)})
      /\ cutSwaps' = IF cutSwaps = 0 THEN 1 ELSE 2
      /\ Reboot
      /\ UNCHANGED <<rowVars, file, cut, told>>

\* ... between the deletion of an archive and the update of its row.
EndsInRemove(b) ==
  /\ row[b] = "live" /\ ~locked[b]
  /\ file' = [file EXCEPT ![b] = "none"]
  /\ cut' = cut \cup {b}
  /\ Reboot
  /\ UNCHANGED <<rowVars, disk, cutSwaps, told>>

\* ... after the row was written and before retention is through: it has come to
\* `last`, the newest first, and may not have deleted its archive.
EndsInRetention(r, l) ==
  /\ At(r, "sum")
  /\ LET b == req[r].b
         extras == Extras(AfterInsert(b, l))
         From(n) == {x \in extras : x >= n}
     IN  \E last \in extras \cup {MaxBackups + 1} :
           /\ Record(b, l, From(last), From(last)) \/ Record(b, l, From(last), From(last + 1))
           /\ cut' = cut \ From(last)
           /\ told' = told \ From(last)
  /\ Reboot
  /\ UNCHANGED <<disk, cutSwaps>>

-----------------------------------------------------------------------------
Init ==
  /\ begun = 0
  /\ row = [b \in Backups |-> "none"]
  /\ locked = [b \in Backups |-> FALSE]
  /\ file = [b \in Backups |-> "none"]
  /\ disk = [dir |-> "whole",
             staging |-> [b \in Backups |-> "absent"],
             displaced |-> [b \in Backups |-> "absent"]]
  /\ req = [r \in Requests |-> Idle]
  /\ cutSwaps = 0
  /\ cut = {} /\ twice = FALSE /\ told = {}

Next ==
  \/ \E r \in Requests :
       \/ Create(r) \/ ArchiveDone(r) \/ ArchiveFails(r) \/ SumFails(r)
       \/ \E l \in BOOLEAN : SumDone(r, l) \/ EndsInRetention(r, l)
       \/ \E b \in Backups : BeginRestore(r, b)
       \/ HashFails(r) \/ HashOk(r) \/ ListOk(r) \/ RestoreFails(r)
       \/ Swap(r) \/ EndsInSwap(r)
  \/ \E b \in Backups : Remove(b) \/ Unlock(b) \/ Rot(b) \/ EndsInRemove(b)
  \/ MakeDir
  \/ PanelEnds

Spec == Init /\ [][Next]_vars

-----------------------------------------------------------------------------
(* Properties *)

\* A backup that is listed has its archive.  (The exception: a crash during its
\* removal, which deletes the archive before it updates the row.)
ListedHasFile ==
  \A b \in Backups \ cut : row[b] = "live" => file[b] \in {"whole", "rotten"}

\* "The archive is extracted to a staging folder first, checksummed, then swapped
\* in": whatever fails or ends when, the server's directory is never half written.
\* (The exception: two restores of one backup at once, in one staging directory.)
DirNeverTorn == ~twice => disk.dir # "torn"

\* "A crash between the moves leaves <id>.pre-restore-<backup> behind ... nothing is
\* lost": while the server has no directory, the one it had waits there.  (The
\* exceptions: two restores at once, and a second crash, because the restore after
\* the first deletes what that one left before it moves anything.)
NothingLost ==
  ~twice /\ cutSwaps < 2 /\ disk.dir = "absent" => \E b \in Backups : disk.displaced[b] = "whole"

\* A creation is reported as done only if its backup is still listed, whatever
\* finished while it ran.
SuccessIsListed ==
  [][\A b \in told' \ told : row'[b] = "live" /\ file'[b] = "whole"]_vars

\* "The newest unlocked backups are kept": what nobody removed is purged only when
\* enough newer ones are there, also if the panel ends meanwhile.
KeepsNewest ==
  [][\A b \in Backups : row[b] = "live" /\ row'[b] = "purged" =>
       \/ Remove(b)
       \/ ~locked[b] /\ Cardinality({x \in Unlocked' : x > b}) >= Retain]_vars

\* "Failed restores never half-apply": a restore that ends with an error leaves the
\* directory as it was.
FailedRestoreChangesNothing ==
  [][\A r \in Requests :
       RestoreFails(r) \/ (Swap(r) /\ Throws(r)) => disk'.dir = disk.dir]_vars

-----------------------------------------------------------------------------
(* The strengthening that makes the safety properties inductive *)

\* What is in the making has no row yet, and its archive is as far as its request.
MakingInv ==
  \A r \in Requests : LET b == req[r].b IN
    /\ At(r, "archive") => row[b] = "none" /\ file[b] = "part"
    /\ At(r, "sum") => row[b] = "none" /\ file[b] = "whole"

\* Nobody makes a backup of another's number, and numbers ahead are free.
NumberInv ==
  /\ \A r1, r2 \in Requests :
       req[r1].at \in {"archive", "sum"} /\ req[r2].at \in {"archive", "sum"}
         /\ req[r1].b = req[r2].b => r1 = r2
  /\ \A r \in Requests : req[r].b <= begun
  /\ \A b \in Backups : b > begun => row[b] = "none"

\* Without an overlap a staging directory is there for its one user, whose archive is
\* sound.
StagingInv ==
  ~twice => \A r \in Requests :
    /\ ~At(r, "adrift")
    /\ \A q \in Requests : \A b \in Backups : Staging(r, b) /\ Staging(q, b) => q = r
    /\ Staging(r, req[r].b) => file[req[r].b] # "rotten" /\ disk.staging[req[r].b] # "absent"

\* As long as no crash cut a swap short, the server has its directory.
HomeInv == ~twice /\ cutSwaps = 0 => disk.dir = "whole"

IndInv ==
  /\ TypeOK
  /\ MakingInv
  /\ NumberInv
  /\ ListedHasFile
  /\ StagingInv
  /\ DirNeverTorn
  /\ HomeInv
  /\ NothingLost
=============================================================================
