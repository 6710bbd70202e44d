----------------------------- MODULE Allocations ----------------------------
(***************************************************************************)
(* The ports of servers: rows of `allocations`, which no two servers may   *)
(* share, and the port the game really listens on, which is the one its    *)
(* server.properties names last, written by several parts of the panel.    *)
(***************************************************************************)
EXTENDS Integers, Sequences, FiniteSets, FiniteSetsExt

CONSTANTS Servers,      \* server ids, each created at most once
          Ports,        \* the ports an administrator may name
          AutoPorts,    \* the range searched when no port is named
          Wild,         \* 0.0.0.0
          Addresses,    \* the other addresses an administrator may name
          NoPort,
          NoFile

\* A server.properties, as the server-port settings in it.  Whoever edits it may
\* leave them out or write them twice (two is the bound: the panel reads and
\* rewrites the first, the game listens on the last).
Settings == {<<>>} \cup {<<p>> : p \in Ports} \cup {<<p, q>> : p \in Ports, q \in Ports}

ASSUME AllocationsAssumption ==
  /\ AutoPorts \subseteq Ports /\ Ports \subseteq Nat
  /\ Wild \notin Addresses /\ NoPort \notin Ports /\ NoFile \notin Settings

VARIABLES
  exists,     \* "no", "live" or "deleted" (the row stays)
  alloc,      \* the allocations with released = 0
  installing, \* the port an install in flight will write, or NoPort
  file,       \* the server's server.properties, or NoFile
  stale       \* history: the exceptions of FileHasOwnPort

allocVars == <<exists, alloc, installing, file, stale>>

Allocation == [server : Servers, ip : Addresses \cup {Wild}, port : Ports, auto : BOOLEAN]

AllocTypeOK ==
  /\ exists \in [Servers -> {"no", "live", "deleted"}]
  /\ alloc \subseteq Allocation
  /\ installing \in [Servers -> Ports \cup {NoPort}]
  /\ file \in [Servers -> Settings \cup {NoFile}]
  /\ stale \in [Servers -> BOOLEAN]

AllocInit ==
  /\ exists = [s \in Servers |-> "no"]
  /\ alloc = {}
  /\ installing = [s \in Servers |-> NoPort]
  /\ file = [s \in Servers |-> NoFile]
  /\ stale = [s \in Servers |-> FALSE]

----------------------------------------------------------------------------

AllocationsOf(s) == {a \in alloc : a.server = s}
PrimaryPort(s) == IF AllocationsOf(s) = {} THEN NoPort
                  ELSE (CHOOSE a \in AllocationsOf(s) : TRUE).port

\* The ports claimFreePort() may take: it looks at the rows of one address only.
FreePorts == {p \in AutoPorts : \A a \in alloc : a.ip = Wild => a.port # p}

\* claimSpecificPort() looks at the rows of every address.
PortTaken(p) == \E a \in alloc : a.port = p

ClaimedPort(wanted) == IF wanted = NoPort THEN Min(FreePorts) ELSE wanted

\* Whether a row of another server has the address: 0.0.0.0 is every address.
ClashSameAddress(s, ip, p) ==
  \E a \in alloc : a.server # s /\ a.port = p /\ a.ip = ip
Clash(s, ip, p) ==
  \E a \in alloc : /\ a.server # s /\ a.port = p
                   /\ ip = Wild \/ a.ip \in {ip, Wild}

PortRead(f) == IF f \in {NoFile, <<>>} THEN NoPort ELSE f[Len(f)]

\* applyPropertyChanges(): the first setting is replaced, a missing one appended.
WithPort(f, p) == IF Len(f) <= 1 THEN <<p>> ELSE <<p, f[2]>>

\* Creation.  Row and allocation are one transaction; the install it may start
\* reads the port now; a server whose directory cannot be made is removed again
\* by the same handler.
Create(s, wanted, dirMade) ==
  /\ exists[s] = "no"
  /\ IF wanted = NoPort THEN FreePorts # {} ELSE ~PortTaken(wanted)
  /\ exists' = [exists EXCEPT ![s] = IF dirMade THEN "live" ELSE "deleted"]
  /\ IF dirMade
       THEN /\ alloc' = alloc \cup {[server |-> s, ip |-> Wild, auto |-> wanted = NoPort,
                                     port |-> ClaimedPort(wanted)]}
            /\ \/ UNCHANGED installing
               \/ installing' = [installing EXCEPT ![s] = ClaimedPort(wanted)]
       ELSE UNCHANGED <<alloc, installing>>
  /\ UNCHANGED <<file, stale>>

\* Assigning: one port per server, the old row is released in the same
\* transaction, and the file, if there is one, is put in step afterwards.  That
\* may fail: the failure is logged and the request succeeds.
Assign(s, ip, p, synced) ==
  LET f == IF file[s] # NoFile /\ synced THEN WithPort(file[s], p) ELSE file[s] IN
  /\ exists[s] = "live"
  /\ ~Clash(s, ip, p)
  /\ alloc' = {a \in alloc : a.server # s}
              \cup {[server |-> s, ip |-> ip, auto |-> FALSE, port |-> p]}
  /\ file' = [file EXCEPT ![s] = f]
  /\ stale' = [stale EXCEPT ![s] = \/ installing[s] \notin {NoPort, p}
                                   \/ f # NoFile /\ (~synced \/ Len(f) > 1)]
  /\ UNCHANGED <<exists, installing>>

\* DELETE of an allocation refuses to release a server's last one.
CanRelease(s) == Cardinality(AllocationsOf(s)) > 1

\* A reinstall reads the port when it begins and writes the file when it gets there.
BeginInstall(s) ==
  /\ exists[s] = "live" /\ installing[s] = NoPort
  /\ installing' = [installing EXCEPT ![s] = PrimaryPort(s)]
  /\ UNCHANGED <<exists, alloc, file, stale>>

InstallWrites(s) ==
  /\ installing[s] # NoPort
  /\ file' = [file EXCEPT ![s] = <<installing[s]>>]
  /\ stale' = [stale EXCEPT ![s] = @ /\ installing[s] # PrimaryPort(s)]
  /\ installing' = [installing EXCEPT ![s] = NoPort]
  /\ UNCHANGED <<exists, alloc>>

InstallFails(s) ==
  /\ installing[s] # NoPort
  /\ installing' = [installing EXCEPT ![s] = NoPort]
  /\ UNCHANGED <<exists, alloc, file, stale>>

\* A restored backup, an extracted archive, an upload, a rename or a deletion
\* leaves a server.properties of another time, or none; a game that finds no port
\* in its file writes its default there.
ReplaceFile(s, f) ==
  /\ exists[s] = "live"
  /\ file' = [file EXCEPT ![s] = f]
  /\ stale' = [stale EXCEPT ![s] = TRUE]
  /\ UNCHANGED <<exists, alloc, installing>>

\* The editor writes any text whose first setting, if it has one, is the
\* allocation's port.
WriteText(s, f) ==
  /\ exists[s] = "live"
  /\ file' = [file EXCEPT ![s] = f]
  /\ stale' = [stale EXCEPT ![s] = @ \/ Len(f) > 1]
  /\ UNCHANGED <<exists, alloc, installing>>
EditFileUnguarded(s, f) == WriteText(s, f)
EditFile(s, f) ==
  /\ f # <<>> => f[1] = PrimaryPort(s)
  /\ WriteText(s, f)

\* Soft deletion releases the allocation.
RemoveKeepsPort(s) ==
  /\ exists[s] = "live"
  /\ exists' = [exists EXCEPT ![s] = "deleted"]
  /\ UNCHANGED <<alloc, installing, file, stale>>
Remove(s) ==
  /\ exists[s] = "live"
  /\ exists' = [exists EXCEPT ![s] = "deleted"]
  /\ alloc' = alloc \ AllocationsOf(s)
  /\ UNCHANGED <<installing, file, stale>>

\* The panel ends: installs end with it, database and directories stay.
InstallsEnd ==
  /\ installing' = [s \in Servers |-> NoPort]
  /\ UNCHANGED <<exists, alloc, file, stale>>

AllocNext ==
  \/ \E s \in Servers :
       \/ \E wanted \in Ports \cup {NoPort}, dirMade \in BOOLEAN : Create(s, wanted, dirMade)
       \/ \E p \in Ports, ip \in Addresses \cup {Wild}, synced \in BOOLEAN :
            Assign(s, ip, p, synced)
       \/ \E f \in Settings \cup {NoFile} : ReplaceFile(s, f)
       \/ \E f \in Settings : EditFile(s, f)
       \/ BeginInstall(s) \/ InstallWrites(s) \/ InstallFails(s)
       \/ Remove(s)
  \/ InstallsEnd

AllocSpec == AllocInit /\ [][AllocNext]_allocVars

----------------------------------------------------------------------------
(* Properties *)

\* A live server has exactly one port, whatever assignments replaced it, so
\* DELETE of an allocation never releases one; a server that is gone holds none.
OneAllocation ==
  \A s \in Servers :
    /\ exists[s] = "live" => AllocationsOf(s) # {} /\ ~CanRelease(s)
    /\ exists[s] # "live" => AllocationsOf(s) = {}

\* Two servers share a port on overlapping addresses only if one of them was
\* created without a named port: an administrator's choice never clashes with
\* what is there.  In particular no two rows have one address and port, so the
\* unique index never fires and create() never needs its retries.
ClashesAreAutomatic ==
  \A a, b \in alloc :
    a.server # b.server /\ a.port = b.port =>
      /\ a.ip # b.ip
      /\ Wild \in {a.ip, b.ip} => \E c \in {a, b} : c.ip = Wild /\ c.auto

\* The port the file gives a game is the server's own allocation, unless: the file
\* was replaced from outside; the port was changed while an install ran, which
\* writes the port it began with; the file could not be put in step with a new
\* port, which answers 201 all the same; or the text has the setting twice, of
\* which the editor checks the first, an assignment rewrites the first, and the
\* game reads the last.  (A file without the setting gives it no port.)
FileHasOwnPort ==
  \A s \in Servers : exists[s] = "live" /\ ~stale[s] =>
    PortRead(file[s]) \in {NoPort, PrimaryPort(s)}
=============================================================================
