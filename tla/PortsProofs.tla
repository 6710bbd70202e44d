---------------------------- MODULE PortsProofs -----------------------------
(* Proofs about Allocations and Tunnels, for any servers, ports, addresses, names
   and requests. *)
EXTENDS Allocations, Tunnels, FiniteSetTheorems, TLAPS

(***************************************************************************)
(* Allocations                                                             *)
(***************************************************************************)

----------------------------------------------------------------------------
(* The operators *)

\* The least element of a set of numbers is one of them: {0..x : x \in S} has a least
\* member with respect to inclusion.
LEMMA MinIsElement ==
  ASSUME NEW S, S \subseteq Nat, S # {}
  PROVE  Min(S) \in S
<1> DEFINE Below == {0..x : x \in S}
<1>1. Below \subseteq FiniteSubsetsOf(Nat) /\ Below # {}
  <2>1. ASSUME NEW x \in S PROVE 0..x \subseteq Nat /\ IsFiniteSet(0..x)
    BY FS_Interval
  <2> QED
    BY <2>1 DEF FiniteSubsetsOf
<1>2. PICK B \in Below : \A C \in Below : ~ (<<C, B>> \in StrictSubsetOrdering(Nat))
  <2> HIDE DEF Below
  <2> QED
    BY <1>1, FS_StrictSubsetOrderingWellFounded, WFMin
<1>3. PICK x \in S : B = 0..x
  OBVIOUS
<1>4. ASSUME NEW y \in S PROVE x <= y
  <2>1. SUFFICES ASSUME y < x PROVE FALSE
    OBVIOUS
  <2>2. 0..y \subseteq 0..x /\ 0..y # 0..x /\ 0..y \in SUBSET Nat /\ 0..x \in SUBSET Nat
    BY <2>1
  <2>3. <<0..y, B>> \in StrictSubsetOrdering(Nat)
    BY <2>2, <1>3 DEF StrictSubsetOrdering
  <2>4. 0..y \in Below
    OBVIOUS
  <2> QED
    BY <2>3, <2>4, <1>2
<1> QED
  BY <1>4 DEF Min

\* A search that finds a port finds a free one of the range; a named port is taken.
LEMMA ClaimedPortIsFree ==
  ASSUME NEW wanted \in Ports \cup {NoPort},
         IF wanted = NoPort THEN FreePorts # {} ELSE ~PortTaken(wanted)
  PROVE  /\ ClaimedPort(wanted) \in Ports
         /\ wanted = NoPort => \A a \in alloc : a.ip = Wild => a.port # ClaimedPort(wanted)
         /\ wanted # NoPort => \A a \in alloc : a.port # ClaimedPort(wanted)
<1>1. CASE wanted = NoPort
  <2>1. FreePorts \subseteq AutoPorts
    BY DEF FreePorts
  <2>2. Min(FreePorts) \in FreePorts
    BY <1>1, <2>1, MinIsElement, AllocationsAssumption
  <2> QED
    BY <1>1, <2>1, <2>2, AllocationsAssumption DEF ClaimedPort, FreePorts
<1>2. CASE wanted # NoPort
  BY <1>2 DEF ClaimedPort, PortTaken
<1> QED
  BY <1>1, <1>2

\* With one row, that row is the primary one and cannot be released.
LEMMA SingleRow ==
  ASSUME NEW s \in Servers, NEW a, AllocationsOf(s) = {a}
  PROVE  PrimaryPort(s) = a.port /\ ~CanRelease(s)
<1>1. Cardinality({a}) = 1
  BY FS_Singleton
<1> QED
  BY <1>1 DEF PrimaryPort, CanRelease

\* Putting a file in step gives it that port first; a file with no second setting
\* then gives the game that port.
LEMMA WithPortOf ==
  ASSUME NEW f \in Settings, NEW p \in Ports
  PROVE  /\ WithPort(f, p) \in Settings
         /\ ~(Len(WithPort(f, p)) > 1) => WithPort(f, p) = <<p>>
<1>1. CASE f = <<>> \/ \E q \in Ports : f = <<q>>
  BY <1>1 DEF WithPort, Settings
<1>2. ASSUME NEW q \in Ports, NEW q2 \in Ports, f = <<q, q2>>
      PROVE  WithPort(f, p) = <<p, q2>> /\ WithPort(f, p) \in Settings
  BY <1>2 DEF WithPort, Settings
<1> QED
  BY <1>1, <1>2 DEF Settings

\* A file of one setting gives that port, a file of none gives none.
LEMMA PortReadOf ==
  ASSUME NEW f \in Settings
  PROVE  /\ \A p \in Ports : f = <<p>> => PortRead(f) = p
         /\ ~(Len(f) > 1) => PortRead(f) = IF f = <<>> THEN NoPort ELSE f[1]
<1>1. f # NoFile
  BY AllocationsAssumption
<1>2. CASE f = <<>>
  BY <1>2 DEF PortRead
<1>3. ASSUME NEW p \in Ports, f = <<p>> PROVE PortRead(f) = p /\ f # <<>> /\ f[1] = p
  BY <1>1, <1>3 DEF PortRead
<1>4. ASSUME NEW p \in Ports, NEW q \in Ports, f = <<p, q>>
      PROVE  Len(f) > 1 /\ \A o \in Ports : f # <<o>>
  BY <1>4
<1> QED
  BY <1>2, <1>3, <1>4 DEF Settings

----------------------------------------------------------------------------
(* The inductive invariant *)

\* Every live server has one row, every other none.
RowInv ==
  \A s \in Servers : IF exists[s] = "live" THEN \E a \in Allocation : AllocationsOf(s) = {a}
                     ELSE AllocationsOf(s) = {}

\* The file, and the install that will write it, name the server's port; a server
\* that was never created has neither.
PortInv ==
  \A s \in Servers :
    /\ exists[s] = "live" /\ ~stale[s] =>
         {PortRead(file[s]), installing[s]} \subseteq {NoPort, PrimaryPort(s)}
    /\ exists[s] = "no" => file[s] = NoFile /\ installing[s] = NoPort

AllocIndInv == AllocTypeOK /\ RowInv /\ ClashesAreAutomatic /\ PortInv

\* Where nothing is, the invariant holds.
LEMMA AllocInitInv == AllocInit => AllocIndInv
  BY DEF AllocInit, AllocIndInv, AllocTypeOK, RowInv, ClashesAreAutomatic, PortInv,
     AllocationsOf, Allocation, PortRead

\* A server whose rows stay keeps its primary port.
LEMMA SameRows ==
  ASSUME RowInv, NEW t \in Servers, AllocationsOf(t)' = AllocationsOf(t)
  PROVE  PrimaryPort(t)' = PrimaryPort(t)
<1>1. CASE AllocationsOf(t) = {}
  BY <1>1 DEF PrimaryPort
<1>2. ASSUME NEW a, AllocationsOf(t) = {a} PROVE PrimaryPort(t)' = PrimaryPort(t)
  <2>1. PrimaryPort(t) = a.port
    BY <1>2 DEF PrimaryPort
  <2>2. AllocationsOf(t)' = {a}
    BY <1>2
  <2> QED
    BY <2>1, <2>2 DEF PrimaryPort
<1> QED
  BY <1>1, <1>2 DEF RowInv

\* What the two steps that add a row have in common.
LEMMA NewRow ==
  ASSUME AllocTypeOK, RowInv, NEW s \in Servers, NEW a \in Allocation, a.server = s,
         alloc' = {b \in alloc : b.server # s} \cup {a},
         exists' \in [Servers -> {"no", "live", "deleted"}], exists'[s] = "live",
         \A t \in Servers : t # s => exists'[t] = exists[t]
  PROVE  /\ alloc' \subseteq Allocation
         /\ RowInv'
         /\ PrimaryPort(s)' = a.port
         /\ \A t \in Servers : t # s => PrimaryPort(t)' = PrimaryPort(t)
<1>1. AllocationsOf(s)' = {a}
  BY DEF AllocationsOf
<1>2. ASSUME NEW t \in Servers, t # s PROVE AllocationsOf(t)' = AllocationsOf(t)
  BY <1>2 DEF AllocationsOf
<1>3. PrimaryPort(s)' = a.port
  BY <1>1 DEF PrimaryPort
<1>4. ASSUME NEW t \in Servers, t # s PROVE PrimaryPort(t)' = PrimaryPort(t)
  BY <1>2, <1>4, SameRows
<1>5. RowInv'
  BY <1>1, <1>2 DEF RowInv
<1> QED
  BY <1>3, <1>4, <1>5 DEF AllocTypeOK

\* A creation claims a port nobody has on 0.0.0.0, or one nobody has at all.
LEMMA CreateStep ==
  ASSUME AllocIndInv, NEW s \in Servers, NEW wanted \in Ports \cup {NoPort},
         NEW dirMade \in BOOLEAN, Create(s, wanted, dirMade)
  PROVE  AllocIndInv'
<1> USE DEF AllocIndInv
<1>0. file \in [Servers -> Settings \cup {NoFile}] /\ installing \in [Servers -> Ports \cup {NoPort}]
      /\ exists \in [Servers -> {"no", "live", "deleted"}] /\ alloc \subseteq Allocation
  BY DEF AllocTypeOK
<1>1. /\ exists[s] = "no" /\ file[s] = NoFile /\ installing[s] = NoPort
      /\ AllocationsOf(s) = {} /\ UNCHANGED <<file, stale>>
  BY DEF Create, PortInv, RowInv
<1>2. CASE ~dirMade
  <2>1. /\ exists' = [exists EXCEPT ![s] = "deleted"]
        /\ UNCHANGED <<alloc, installing>>
    BY <1>2 DEF Create
  <2>2. \A t \in Servers : AllocationsOf(t)' = AllocationsOf(t) /\ PrimaryPort(t)' = PrimaryPort(t)
    BY <2>1 DEF AllocationsOf, PrimaryPort
  <2>3. AllocTypeOK' /\ RowInv'
    BY <1>0, <1>1, <2>1, <2>2 DEF AllocTypeOK, RowInv
  <2>4. PortInv' /\ ClashesAreAutomatic'
    BY <1>0, <1>1, <2>1, <2>2 DEF PortInv, ClashesAreAutomatic, PortRead
  <2> QED
    BY <2>3, <2>4
<1>3. CASE dirMade
  <2> DEFINE p == ClaimedPort(wanted)
             a == [server |-> s, ip |-> Wild, auto |-> wanted = NoPort, port |-> p]
  <2>1. /\ p \in Ports
        /\ wanted = NoPort => \A b \in alloc : b.ip = Wild => b.port # p
        /\ wanted # NoPort => \A b \in alloc : b.port # p
    BY ClaimedPortIsFree DEF Create
  <2>2. a \in Allocation /\ a.server = s /\ a.port = p /\ a.ip = Wild /\ a.auto = (wanted = NoPort)
    BY <2>1 DEF Allocation
  <2>3. /\ exists' = [exists EXCEPT ![s] = "live"]
        /\ alloc' = alloc \cup {a}
        /\ installing' = installing \/ installing' = [installing EXCEPT ![s] = p]
    BY <1>3 DEF Create
  <2> HIDE DEF a, p
  <2>4. alloc' = {b \in alloc : b.server # s} \cup {a}
    BY <1>1, <2>3 DEF AllocationsOf
  <2>5. /\ alloc' \subseteq Allocation /\ RowInv' /\ PrimaryPort(s)' = p
        /\ \A t \in Servers : t # s => PrimaryPort(t)' = PrimaryPort(t)
    BY <1>0, <2>2, <2>3, <2>4, NewRow
  <2>6. AllocTypeOK'
    BY <1>0, <1>1, <2>1, <2>3, <2>5 DEF AllocTypeOK
  <2>7. ClashesAreAutomatic'
    <3>1. ASSUME NEW b \in alloc', NEW c \in alloc', b.server # c.server, b.port = c.port
          PROVE  b.ip # c.ip /\ (Wild \in {b.ip, c.ip} => \E d \in {b, c} : d.ip = Wild /\ d.auto)
      <4>1. CASE b \in alloc /\ c \in alloc
        BY <3>1, <4>1 DEF ClashesAreAutomatic
      <4>2. CASE b = a /\ c \in alloc
        BY <3>1, <4>2, <2>1, <2>2
      <4>3. CASE b \in alloc /\ c = a
        BY <3>1, <4>3, <2>1, <2>2
      <4> QED
        BY <3>1, <4>1, <4>2, <4>3, <2>3
    <3> QED
      BY <3>1 DEF ClashesAreAutomatic
  <2>8. PortInv'
    BY <1>0, <1>1, <2>3, <2>5 DEF PortInv, PortRead
  <2> QED
    BY <2>5, <2>6, <2>7, <2>8
<1> QED
  BY <1>2, <1>3

\* An assignment replaces the server's row by one that clashes with nobody's.
LEMMA AssignStep ==
  ASSUME AllocIndInv, NEW s \in Servers, NEW ip \in Addresses \cup {Wild}, NEW p \in Ports,
         NEW synced \in BOOLEAN, Assign(s, ip, p, synced)
  PROVE  AllocIndInv'
<1> USE DEF AllocIndInv
<1> DEFINE a == [server |-> s, ip |-> ip, auto |-> FALSE, port |-> p]
           f == IF file[s] # NoFile /\ synced THEN WithPort(file[s], p) ELSE file[s]
           odd == \/ installing[s] \notin {NoPort, p}
                  \/ f # NoFile /\ (~synced \/ Len(f) > 1)
<1>1. /\ exists \in [Servers -> {"no", "live", "deleted"}] /\ exists[s] = "live"
      /\ UNCHANGED <<exists, installing>>
      /\ file \in [Servers -> Settings \cup {NoFile}]
      /\ installing \in [Servers -> Ports \cup {NoPort}]
      /\ stale \in [Servers -> BOOLEAN]
  BY DEF Assign, AllocTypeOK
<1>2. a \in Allocation /\ a.server = s /\ a.port = p /\ a.ip = ip
  BY DEF Allocation
<1>3. /\ alloc' = {b \in alloc : b.server # s} \cup {a}
      /\ file' = [file EXCEPT ![s] = f]
      /\ stale' = [stale EXCEPT ![s] = odd]
  BY DEF Assign
<1>4. \A b \in alloc : b.server # s /\ b.port = p => ip # Wild /\ b.ip \notin {ip, Wild}
  BY DEF Assign, Clash
<1>9. /\ f \in Settings \cup {NoFile}
      /\ f # NoFile /\ synced /\ ~(Len(f) > 1) => PortRead(f) = p
      /\ f = NoFile => PortRead(f) = NoPort
  <2>1. CASE file[s] # NoFile /\ synced
    <3>1. file[s] \in Settings /\ f = WithPort(file[s], p)
      BY <1>1, <2>1
    <3> QED
      BY <3>1, WithPortOf, PortReadOf, AllocationsAssumption
  <2>2. CASE ~(file[s] # NoFile /\ synced)
    BY <1>1, <2>2 DEF PortRead
  <2> QED
    BY <2>1, <2>2
<1>10. odd \in BOOLEAN
  OBVIOUS
<1> HIDE DEF a, f, odd
<1>5. /\ alloc' \subseteq Allocation /\ RowInv' /\ PrimaryPort(s)' = p
      /\ \A t \in Servers : t # s => PrimaryPort(t)' = PrimaryPort(t)
  BY <1>1, <1>2, <1>3, NewRow
<1>6. AllocTypeOK'
  BY <1>1, <1>3, <1>5, <1>9, <1>10 DEF AllocTypeOK
<1>7. ClashesAreAutomatic'
  BY <1>2, <1>3, <1>4 DEF ClashesAreAutomatic
<1>8. PortInv'
  <2>1. ~stale'[s] => {PortRead(file'[s]), installing'[s]} \subseteq {NoPort, PrimaryPort(s)'}
    <3>1. /\ file'[s] = f /\ installing'[s] = installing[s]
          /\ stale'[s] = odd
      BY <1>1, <1>3
    <3>2. ~odd => installing[s] \in {NoPort, p} /\ (f # NoFile => synced /\ ~(Len(f) > 1))
      BY DEF odd
    <3> QED
      BY <3>1, <3>2, <1>5, <1>9
  <2>2. \A t \in Servers : t # s => /\ file'[t] = file[t] /\ stale'[t] = stale[t]
                                  /\ installing'[t] = installing[t]
    BY <1>1, <1>3
  <2> QED
    BY <1>1, <1>5, <2>1, <2>2 DEF PortInv, PortRead
<1> QED
  BY <1>5, <1>6, <1>7, <1>8

\* The steps that leave the rows alone.
LEMMA FileStep ==
  ASSUME AllocIndInv, NEW s \in Servers,
         \/ BeginInstall(s) \/ InstallWrites(s) \/ InstallFails(s)
         \/ \E f \in Settings \cup {NoFile} : ReplaceFile(s, f)
         \/ \E f \in Settings : EditFile(s, f)
  PROVE  AllocIndInv'
<1> USE DEF AllocIndInv
<1>1. /\ exists \in [Servers -> {"no", "live", "deleted"}]
      /\ file \in [Servers -> Settings \cup {NoFile}]
      /\ installing \in [Servers -> Ports \cup {NoPort}]
      /\ stale \in [Servers -> BOOLEAN]
  BY DEF AllocTypeOK
<1>2. UNCHANGED <<exists, alloc>>
  BY DEF BeginInstall, InstallWrites, InstallFails, ReplaceFile, EditFile, WriteText
<1>3. \A t \in Servers : AllocationsOf(t)' = AllocationsOf(t) /\ PrimaryPort(t)' = PrimaryPort(t)
  BY <1>2 DEF AllocationsOf, PrimaryPort
<1>4. RowInv' /\ ClashesAreAutomatic'
  BY <1>2, <1>3 DEF RowInv, ClashesAreAutomatic
<1>5. exists[s] = "live" => PrimaryPort(s) \in Ports
  <2>1. ASSUME NEW a \in Allocation, AllocationsOf(s) = {a} PROVE PrimaryPort(s) \in Ports
    BY <2>1, SingleRow DEF Allocation
  <2> QED
    BY <2>1 DEF RowInv
<1>6. AllocTypeOK' /\ PortInv'
  <2>1. CASE BeginInstall(s)
    BY <1>1, <1>2, <1>3, <1>5, <2>1 DEF BeginInstall, AllocTypeOK, PortInv, PortRead
  <2>2. CASE InstallWrites(s)
    <3>1. <<installing[s]>> \in Settings /\ PortRead(<<installing[s]>>) = installing[s]
      <4>1. installing[s] \in Ports
        BY <1>1, <2>2 DEF InstallWrites
      <4>2. <<installing[s]>> \in Settings
        BY <4>1 DEF Settings
      <4> QED
        BY <4>1, <4>2, PortReadOf
    <3>2. /\ file' = [file EXCEPT ![s] = <<installing[s]>>]
          /\ stale' = [stale EXCEPT ![s] = @ /\ installing[s] # PrimaryPort(s)]
          /\ installing' = [installing EXCEPT ![s] = NoPort] /\ installing[s] # NoPort
      BY <2>2 DEF InstallWrites
    <3>3. AllocTypeOK'
      BY <1>1, <1>2, <3>1, <3>2 DEF AllocTypeOK
    <3>4. exists[s] = "live" /\ ~stale'[s] => PortRead(file'[s]) = PrimaryPort(s)
      BY <1>1, <3>1, <3>2 DEF PortInv
    <3>5. \A t \in Servers : t # s => /\ file'[t] = file[t] /\ stale'[t] = stale[t]
                                    /\ installing'[t] = installing[t]
      BY <1>1, <3>2
    <3>6. exists[s] # "no" /\ installing'[s] = NoPort
      BY <1>1, <3>2 DEF PortInv
    <3> QED
      BY <1>2, <1>3, <3>3, <3>4, <3>5, <3>6 DEF PortInv, PortRead
  <2>3. CASE InstallFails(s)
    BY <1>1, <1>2, <1>3, <2>3 DEF InstallFails, AllocTypeOK, PortInv, PortRead
  <2>4. ASSUME NEW f \in Settings \cup {NoFile}, ReplaceFile(s, f) PROVE AllocTypeOK' /\ PortInv'
    BY <1>1, <1>2, <1>3, <2>4 DEF ReplaceFile, AllocTypeOK, PortInv, PortRead
  <2>5. ASSUME NEW f \in Settings, EditFile(s, f) PROVE AllocTypeOK' /\ PortInv'
    <3>1. /\ exists[s] = "live" /\ (f # <<>> => f[1] = PrimaryPort(s))
          /\ file' = [file EXCEPT ![s] = f] /\ UNCHANGED installing
          /\ stale' = [stale EXCEPT ![s] = @ \/ Len(f) > 1]
      BY <2>5 DEF EditFile, WriteText
    <3>2. AllocTypeOK'
      BY <1>1, <1>2, <3>1 DEF AllocTypeOK
    <3>3. ~stale'[s] => ~stale[s] /\ PortRead(file'[s]) \in {NoPort, PrimaryPort(s)}
      BY <1>1, <3>1, PortReadOf
    <3>4. \A t \in Servers : t # s => file'[t] = file[t] /\ stale'[t] = stale[t]
      BY <1>1, <3>1
    <3> QED
      BY <1>2, <1>3, <3>1, <3>2, <3>3, <3>4 DEF PortInv, PortRead
  <2> QED
    BY <2>1, <2>2, <2>3, <2>4, <2>5
<1> QED
  BY <1>4, <1>6

\* Deletion releases the row of the server it deletes and no other.
LEMMA RemoveStep ==
  ASSUME AllocIndInv, NEW s \in Servers, Remove(s)
  PROVE  AllocIndInv'
<1> USE DEF AllocIndInv
<1>1. /\ exists \in [Servers -> {"no", "live", "deleted"}]
      /\ exists' = [exists EXCEPT ![s] = "deleted"]
      /\ alloc' = alloc \ AllocationsOf(s)
      /\ UNCHANGED <<installing, file, stale>>
  BY DEF Remove, AllocTypeOK
<1>2. AllocationsOf(s)' = {}
  BY <1>1 DEF AllocationsOf
<1>3. \A t \in Servers : t # s =>
        AllocationsOf(t)' = AllocationsOf(t) /\ PrimaryPort(t)' = PrimaryPort(t)
  <2>1. ASSUME NEW t \in Servers, t # s PROVE AllocationsOf(t)' = AllocationsOf(t)
    BY <1>1, <2>1 DEF AllocationsOf
  <2> QED
    BY <2>1, SameRows
<1>4. AllocTypeOK' /\ ClashesAreAutomatic'
  BY <1>1 DEF AllocTypeOK, ClashesAreAutomatic
<1>5. RowInv' /\ PortInv'
  BY <1>1, <1>2, <1>3 DEF RowInv, PortInv, PortRead
<1> QED
  BY <1>4, <1>5

LEMMA AllocStep == AllocIndInv /\ [AllocNext]_allocVars => AllocIndInv'
<1> SUFFICES ASSUME AllocIndInv, [AllocNext]_allocVars PROVE AllocIndInv'
  OBVIOUS
<1>1. CASE AllocNext
  <2>1. CASE InstallsEnd
    <3>1. /\ UNCHANGED <<exists, alloc, file, stale>>
          /\ installing' = [s \in Servers |-> NoPort]
      BY <2>1 DEF InstallsEnd
    <3>2. \A t \in Servers : AllocationsOf(t)' = AllocationsOf(t) /\ PrimaryPort(t)' = PrimaryPort(t)
      BY <3>1 DEF AllocationsOf, PrimaryPort
    <3> QED
      BY <3>1, <3>2 DEF AllocIndInv, AllocTypeOK, RowInv, ClashesAreAutomatic,
         PortInv, PortRead
  <2> QED
    BY <1>1, <2>1, CreateStep, AssignStep, FileStep, RemoveStep DEF AllocNext
<1>2. CASE UNCHANGED allocVars
  <2>1. \A t \in Servers : AllocationsOf(t)' = AllocationsOf(t) /\ PrimaryPort(t)' = PrimaryPort(t)
    BY <1>2 DEF allocVars, AllocationsOf, PrimaryPort
  <2> QED
    BY <1>2, <2>1 DEF allocVars, AllocIndInv, AllocTypeOK, RowInv, ClashesAreAutomatic,
       PortInv, PortRead
<1> QED
  BY <1>1, <1>2

----------------------------------------------------------------------------
(* The theorems *)

\* The strengthened invariant holds in every reachable state (repo.ts, the routes of
\* allocations, installs and files).
THEOREM AllocInvariant == AllocSpec => []AllocIndInv
  BY AllocInitInv, AllocStep, PTL DEF AllocSpec

\* Every variable keeps its type.
THEOREM AllocTypeCorrect == AllocSpec => []AllocTypeOK
<1>1. AllocIndInv => AllocTypeOK
  BY DEF AllocIndInv
<1> QED
  BY <1>1, AllocInvariant, PTL

\* A live server has one port and keeps it; a deleted one has none.
THEOREM OneAllocationHolds == AllocSpec => []OneAllocation
<1>1. AllocIndInv => OneAllocation
  <2> SUFFICES ASSUME RowInv, AllocTypeOK, NEW s \in Servers
               PROVE  /\ exists[s] = "live" => AllocationsOf(s) # {} /\ ~CanRelease(s)
                      /\ exists[s] # "live" => AllocationsOf(s) = {}
    BY DEF AllocIndInv, OneAllocation
  <2>1. ASSUME NEW a, AllocationsOf(s) = {a} PROVE AllocationsOf(s) # {} /\ ~CanRelease(s)
    BY <2>1, SingleRow
  <2> QED
    BY <2>1 DEF RowInv
<1> QED
  BY <1>1, AllocInvariant, PTL

\* Only a port the panel chose by itself can clash, never one an administrator named.
THEOREM ClashesAreAutomaticHolds == AllocSpec => []ClashesAreAutomatic
<1>1. AllocIndInv => ClashesAreAutomatic
  BY DEF AllocIndInv
<1> QED
  BY <1>1, AllocInvariant, PTL

\* The file gives the game its server's own port, with the exceptions that
\* FileHasOwnPort lists.
THEOREM FileHasOwnPortHolds == AllocSpec => []FileHasOwnPort
<1>1. AllocIndInv => FileHasOwnPort
  BY DEF AllocIndInv, PortInv, FileHasOwnPort
<1> QED
  BY <1>1, AllocInvariant, PTL

(***************************************************************************)
(* Tunnels                                                                 *)
(***************************************************************************)

----------------------------------------------------------------------------
(* The inductive invariant *)

\* While no two requests of a server awaited with one endpoint: the request that was
\* the last to change the tunnel has what it reserved, and no other request's
\* compensation would find that endpoint, nor the one that was kept.
TunnelClaimInv ==
  \A s \in TunnelServers : ~shared[s] =>
    /\ \A q \in Awaiting(s) : claim[q].last =>
         /\ endpoint[s] = claim[q].name /\ provider[s]
         /\ \A r \in Awaiting(s) \ {q} : claim[r].name # claim[q].name
    /\ kept[s] # NoName =>
         /\ endpoint[s] = kept[s] /\ provider[s]
         /\ \A q \in Awaiting(s) : claim[q].name # kept[s]

TunnelIndInv == TunnelTypeOK /\ EndpointsDistinct /\ TunnelClaimInv

LEMMA TunnelInitInv == TunnelInit => TunnelIndInv
<1> SUFFICES ASSUME TunnelInit PROVE TunnelIndInv
  OBVIOUS
<1> USE TunnelsAssumption DEF TunnelInit
<1>1. TunnelTypeOK /\ EndpointsDistinct
  BY DEF TunnelTypeOK, EndpointsDistinct
<1>2. \A s \in TunnelServers : Awaiting(s) = {}
  BY DEF Awaiting, NoClaim
<1>3. TunnelClaimInv
  BY <1>2 DEF TunnelClaimInv
<1> QED
  BY <1>1, <1>3 DEF TunnelIndInv

\* A request that waits has a claim, and one server only.
LEMMA WaitingClaim ==
  ASSUME TunnelTypeOK
  PROVE  /\ \A s \in TunnelServers : \A r \in Awaiting(s) :
              r \in Requests /\ claim[r] # NoClaim /\ claim[r] \in Claim /\ claim[r].server = s
         /\ \A r \in Requests : claim[r] # NoClaim =>
              claim[r] \in Claim /\ claim[r].server \in TunnelServers /\ r \in Awaiting(claim[r].server)
  BY TunnelsAssumption DEF TunnelTypeOK, Awaiting, NoClaim, Claim

\* A claim and its copy that is no longer the last.
LEMMA ClaimRecord ==
  ASSUME NEW c \in Claim
  PROVE  /\ [c EXCEPT !.last = FALSE] \in Claim
         /\ [c EXCEPT !.last = FALSE].server = c.server
         /\ [c EXCEPT !.last = FALSE].name = c.name
         /\ ~[c EXCEPT !.last = FALSE].last
  BY DEF Claim

----------------------------------------------------------------------------
(* The steps *)

\* A reservation takes a name that no server has, and makes every other request of
\* its server an earlier one.
LEMMA ReserveStep ==
  ASSUME TunnelIndInv, NEW r \in Requests, NEW s \in TunnelServers, NEW n \in Names,
         Reserve(r, s, n), UNCHANGED jar,
         row' \in [TunnelServers -> {"no", "live", "deleted"}], row'[s] = "live",
         \A t \in TunnelServers : t # s => row'[t] = row[t]
  PROVE  TunnelIndInv'
<1> USE DEF TunnelIndInv
<1> DEFINE new == [server |-> s, name |-> n, last |-> TRUE]
           Demoted(q) == /\ claim'[q] \in Claim /\ claim'[q].server = s
                         /\ claim'[q].name = claim[q].name /\ ~claim'[q].last
<1>0. new \in Claim /\ new.server = s /\ new.name = n /\ new.last
  BY DEF Claim
<1> HIDE DEF new
<1>1. /\ claim[r] = NoClaim /\ \A t \in TunnelServers \ {s} : endpoint[t] # n
      /\ endpoint' = [endpoint EXCEPT ![s] = n]
      /\ provider' = [provider EXCEPT ![s] = TRUE]
      /\ kept' = [kept EXCEPT ![s] = NoName]
      /\ shared' = [shared EXCEPT ![s] = \E q \in Awaiting(s) : shared[s] \/ claim[q].name = n]
  BY DEF Reserve, EndpointTaken, TunnelTypeOK
<1>2. /\ endpoint \in [TunnelServers -> Names \cup {NoName}]
      /\ provider \in [TunnelServers -> BOOLEAN] /\ kept \in [TunnelServers -> Names \cup {NoName}]
      /\ shared \in [TunnelServers -> BOOLEAN] /\ jar' \in [TunnelServers -> BOOLEAN]
      /\ \A t \in TunnelServers : endpoint[t] # NoName => provider[t] /\ row[t] # "no"
  BY DEF TunnelTypeOK
<1>3. /\ claim'[r] = new
      /\ \A q \in Awaiting(s) : Demoted(q)
      /\ \A q \in Requests : q # r /\ q \notin Awaiting(s) => claim'[q] = claim[q]
  <2>1. r \notin Awaiting(s)
    BY <1>1, WaitingClaim
  <2>2. claim'[r] = new
    BY DEF Reserve, new
  <2>3. ASSUME NEW q \in Awaiting(s) PROVE Demoted(q)
    <3>1. claim[q] \in Claim /\ claim[q].server = s /\ q \in Requests /\ q # r
      BY <2>1, WaitingClaim
    <3>2. claim'[q] = [claim[q] EXCEPT !.last = FALSE]
      BY <3>1 DEF Reserve
    <3> QED
      BY <3>1, <3>2, ClaimRecord
  <2>4. \A q \in Requests : q # r /\ q \notin Awaiting(s) => claim'[q] = claim[q]
    BY DEF Reserve
  <2> QED
    BY <2>2, <2>3, <2>4
<1>4. claim' \in [Requests -> Claim \cup {NoClaim}]
  <2>1. claim' = [q \in Requests |-> claim'[q]]
    BY DEF Reserve
  <2>2. ASSUME NEW q \in Requests PROVE claim'[q] \in Claim \cup {NoClaim}
    <3>1. CASE q = r
      BY <1>0, <1>3, <3>1
    <3>2. CASE q \in Awaiting(s)
      BY <1>3, <3>2
    <3>3. CASE q # r /\ q \notin Awaiting(s)
      BY <1>3, <3>3 DEF TunnelTypeOK
    <3> QED
      BY <3>1, <3>2, <3>3
  <2> QED
    BY <2>1, <2>2
<1>5. TunnelTypeOK'
  BY <1>1, <1>2, <1>4 DEF TunnelTypeOK
<1>6. EndpointsDistinct'
  BY <1>1, <1>2 DEF EndpointsDistinct
<1>7. Awaiting(s)' = Awaiting(s) \cup {r}
  <2>1. \A q \in Requests : claim'[q].server = s <=> q = r \/ q \in Awaiting(s)
    BY <1>0, <1>3 DEF Awaiting
  <2> QED
    BY <2>1, WaitingClaim DEF Awaiting
<1>8. ASSUME NEW t \in TunnelServers, t # s
      PROVE  Awaiting(t)' = Awaiting(t) /\ \A q \in Awaiting(t) : claim'[q] = claim[q]
  <2>1. claim[r].server # t
    BY <1>1, TunnelsAssumption DEF NoClaim
  <2>2. ASSUME NEW q \in Requests PROVE claim'[q].server = t <=> claim[q].server = t
    <3>1. CASE q = r
      BY <3>1, <2>1, <1>0, <1>3, <1>8
    <3>2. CASE q \in Awaiting(s)
      BY <3>2, <1>3, <1>8, WaitingClaim
    <3> QED
      BY <3>1, <3>2, <1>3
  <2> QED
    BY <2>1, <2>2, <1>3, <1>8 DEF Awaiting
<1>9. TunnelClaimInv'
  <2>1. ASSUME NEW t \in TunnelServers, t # s, ~shared'[t]
        PROVE  /\ \A q \in Awaiting(t)' : claim'[q].last =>
                    /\ endpoint'[t] = claim'[q].name /\ provider'[t]
                    /\ \A p \in Awaiting(t)' \ {q} : claim'[p].name # claim'[q].name
               /\ kept'[t] # NoName =>
                    /\ endpoint'[t] = kept'[t] /\ provider'[t]
                    /\ \A q \in Awaiting(t)' : claim'[q].name # kept'[t]
    BY <2>1, <1>1, <1>2, <1>8 DEF TunnelClaimInv
  <2>2. ASSUME ~shared'[s]
        PROVE  /\ \A q \in Awaiting(s)' : claim'[q].last =>
                    /\ endpoint'[s] = claim'[q].name /\ provider'[s]
                    /\ \A p \in Awaiting(s)' \ {q} : claim'[p].name # claim'[q].name
               /\ kept'[s] = NoName
    <3>1. \A q \in Awaiting(s) : claim[q].name # n
      BY <2>2, <1>1, <1>2
    <3>2. \A q \in Awaiting(s)' : claim'[q].last => q = r
      BY <1>3, <1>7
    <3>3. \A p \in Awaiting(s)' \ {r} : claim'[p].name # n
      BY <3>1, <1>3, <1>7
    <3> QED
      BY <3>2, <3>3, <1>0, <1>1, <1>2, <1>3
  <2> QED
    BY <2>1, <2>2 DEF TunnelClaimInv
<1> QED
  BY <1>5, <1>6, <1>9

\* A request is done, and its endpoint is kept or, by value, deleted.
LEMMA AnswerStep ==
  ASSUME TunnelIndInv, NEW r \in Requests, PluginInstalled(r) \/ PluginFails(r)
  PROVE  TunnelIndInv'
<1> USE DEF TunnelIndInv
<1> DEFINE s == claim[r].server
<1>1. /\ claim[r] \in Claim /\ s \in TunnelServers /\ r \in Awaiting(s)
      /\ claim' = [claim EXCEPT ![r] = NoClaim]
      /\ UNCHANGED <<row, provider, shared>>
  BY WaitingClaim DEF PluginInstalled, PluginFails
<1> HIDE DEF s
<1>2. /\ endpoint \in [TunnelServers -> Names \cup {NoName}]
      /\ provider \in [TunnelServers -> BOOLEAN] /\ kept \in [TunnelServers -> Names \cup {NoName}]
      /\ jar \in [TunnelServers -> BOOLEAN] /\ claim \in [Requests -> Claim \cup {NoClaim}]
      /\ claim[r].name \in Names
      /\ \A t \in TunnelServers : endpoint[t] # NoName => provider[t] /\ row[t] # "no"
  BY <1>1 DEF TunnelTypeOK, Claim
<1>3. \A t \in TunnelServers : /\ Awaiting(t)' = Awaiting(t) \ {r}
                               /\ \A q \in Awaiting(t)' : claim'[q] = claim[q]
  BY <1>1, <1>2, TunnelsAssumption DEF Awaiting, NoClaim
<1>4. \A t \in TunnelServers : t # s => r \notin Awaiting(t)
  BY DEF Awaiting, s
<1>5. CASE PluginInstalled(r)
  <2>1. /\ jar' = [jar EXCEPT ![s] = TRUE] /\ UNCHANGED endpoint
        /\ kept' = [kept EXCEPT ![s] = IF claim[r].last THEN claim[r].name ELSE @]
    BY <1>5 DEF PluginInstalled, s
  <2>2. TunnelTypeOK' /\ EndpointsDistinct'
    BY <2>1, <1>1, <1>2 DEF TunnelTypeOK, EndpointsDistinct
  <2>3. TunnelClaimInv'
    BY <2>1, <1>1, <1>2, <1>3, <1>4 DEF TunnelClaimInv
  <2> QED
    BY <2>2, <2>3
<1>6. CASE PluginFails(r)
  <2>1. /\ UNCHANGED <<jar, kept>>
        /\ endpoint' = [endpoint EXCEPT ![s] = IF @ = claim[r].name THEN NoName ELSE @]
    BY <1>6 DEF PluginFails, s
  <2>2. TunnelTypeOK' /\ EndpointsDistinct'
    BY <2>1, <1>1, <1>2 DEF TunnelTypeOK, EndpointsDistinct
  <2>3. TunnelClaimInv'
    BY <2>1, <1>1, <1>2, <1>3, <1>4 DEF TunnelClaimInv
  <2> QED
    BY <2>2, <2>3
<1> QED
  BY <1>5, <1>6

\* A disabling or a switch of software takes both variables away, and no request is
\* the last any more.
LEMMA ForgetStep ==
  ASSUME TunnelIndInv, NEW s \in TunnelServers, ForgetTunnel(s)
  PROVE  TunnelIndInv'
<1> USE DEF TunnelIndInv
<1> DEFINE Demoted(q) == /\ claim'[q] \in Claim /\ claim'[q].server = s
                         /\ claim'[q].name = claim[q].name /\ ~claim'[q].last
<1>1. /\ UNCHANGED <<row, jar, shared>>
      /\ endpoint' = [endpoint EXCEPT ![s] = NoName]
      /\ provider' = [provider EXCEPT ![s] = FALSE]
      /\ kept' = [kept EXCEPT ![s] = NoName]
  BY DEF ForgetTunnel
<1>2. /\ endpoint \in [TunnelServers -> Names \cup {NoName}]
      /\ provider \in [TunnelServers -> BOOLEAN] /\ kept \in [TunnelServers -> Names \cup {NoName}]
      /\ shared \in [TunnelServers -> BOOLEAN] /\ jar \in [TunnelServers -> BOOLEAN]
      /\ row \in [TunnelServers -> {"no", "live", "deleted"}]
      /\ \A t \in TunnelServers : endpoint[t] # NoName => provider[t] /\ row[t] # "no"
  BY DEF TunnelTypeOK
<1>3. /\ \A q \in Awaiting(s) : Demoted(q)
      /\ \A q \in Requests : q \notin Awaiting(s) => claim'[q] = claim[q]
  <2>1. ASSUME NEW q \in Awaiting(s) PROVE Demoted(q)
    <3>1. claim[q] \in Claim /\ claim[q].server = s /\ q \in Requests
      BY WaitingClaim
    <3>2. claim'[q] = [claim[q] EXCEPT !.last = FALSE]
      BY <3>1 DEF ForgetTunnel
    <3> QED
      BY <3>1, <3>2, ClaimRecord
  <2> QED
    BY <2>1 DEF ForgetTunnel
<1>4. claim' \in [Requests -> Claim \cup {NoClaim}]
  <2>1. claim' = [q \in Requests |-> claim'[q]]
    BY DEF ForgetTunnel
  <2>2. ASSUME NEW q \in Requests PROVE claim'[q] \in Claim \cup {NoClaim}
    <3>1. CASE q \in Awaiting(s)
      BY <1>3, <3>1
    <3>2. CASE q \notin Awaiting(s)
      BY <1>3, <3>2 DEF TunnelTypeOK
    <3> QED
      BY <3>1, <3>2
  <2> QED
    BY <2>1, <2>2
<1>5. TunnelTypeOK' /\ EndpointsDistinct'
  BY <1>1, <1>2, <1>4 DEF TunnelTypeOK, EndpointsDistinct
<1>6. \A t \in TunnelServers : Awaiting(t)' = Awaiting(t)
  <2>1. \A q \in Requests : claim'[q].server = claim[q].server
    BY <1>3, WaitingClaim DEF Awaiting
  <2> QED
    BY <2>1 DEF Awaiting
<1>7. \A t \in TunnelServers : t # s => \A q \in Awaiting(t) : claim'[q] = claim[q]
  BY <1>3, WaitingClaim
<1>8. TunnelClaimInv'
  <2>1. \A q \in Awaiting(s)' : ~claim'[q].last
    BY <1>3, <1>6
  <2>2. kept'[s] = NoName
    BY <1>1, <1>2
  <2>3. \A t \in TunnelServers : t # s =>
          endpoint'[t] = endpoint[t] /\ provider'[t] = provider[t] /\ kept'[t] = kept[t]
    BY <1>1
  <2>4. \A t \in TunnelServers : t # s => \A q \in Awaiting(t)' : claim'[q] = claim[q]
    BY <1>6, <1>7
  <2> QED
    BY <2>1, <2>2, <2>3, <2>4, <1>1, <1>6 DEF TunnelClaimInv
<1> QED
  BY <1>5, <1>8

\* The other steps touch neither endpoints nor claims, or end all claims.
LEMMA OtherStep ==
  ASSUME TunnelIndInv,
         \/ \E s \in TunnelServers : CreatePlain(s) \/ JarGoes(s) \/ RemoveTunnelled(s)
         \/ RequestsEnd \/ UNCHANGED tunnelVars
  PROVE  TunnelIndInv'
<1> USE DEF TunnelIndInv
<1>1. UNCHANGED <<endpoint, provider, kept, shared>>
  BY DEF CreatePlain, JarGoes, RemoveTunnelled, RequestsEnd, tunnelVars
<1>2. EndpointsDistinct'
  BY <1>1 DEF EndpointsDistinct
<1>3. TunnelTypeOK'
  BY <1>1 DEF TunnelTypeOK, CreatePlain, JarGoes, RemoveTunnelled, RequestsEnd, tunnelVars
<1>4. CASE UNCHANGED claim
  <2>1. \A s \in TunnelServers : Awaiting(s)' = Awaiting(s)
    BY <1>4 DEF Awaiting
  <2> QED
    BY <1>1, <1>2, <1>3, <1>4, <2>1 DEF TunnelClaimInv
<1>5. CASE RequestsEnd
  <2>1. \A s \in TunnelServers : Awaiting(s)' = {}
    BY <1>5, TunnelsAssumption DEF RequestsEnd, Awaiting, NoClaim
  <2> QED
    BY <1>1, <1>2, <1>3, <2>1 DEF TunnelClaimInv
<1> QED
  BY <1>2, <1>3, <1>4, <1>5 DEF CreatePlain, JarGoes, RemoveTunnelled, tunnelVars

LEMMA TunnelStep == TunnelIndInv /\ [TunnelNext]_tunnelVars => TunnelIndInv'
<1> SUFFICES ASSUME TunnelIndInv, [TunnelNext]_tunnelVars PROVE TunnelIndInv'
  OBVIOUS
<1>1. ASSUME NEW s \in TunnelServers, NEW r \in Requests, NEW n \in Names,
             CreateTunnelled(r, s, n) \/ EnableTunnel(r, s, n)
      PROVE  TunnelIndInv'
  <2>1. /\ Reserve(r, s, n) /\ UNCHANGED jar
        /\ row' \in [TunnelServers -> {"no", "live", "deleted"}] /\ row'[s] = "live"
        /\ \A t \in TunnelServers : t # s => row'[t] = row[t]
    BY <1>1 DEF CreateTunnelled, EnableTunnel, TunnelIndInv, TunnelTypeOK
  <2> QED
    BY <2>1, ReserveStep
<1>2. ASSUME NEW s \in TunnelServers, DisableTunnel(s) \/ SwapDropsTunnel(s)
      PROVE  TunnelIndInv'
  BY <1>2, ForgetStep DEF DisableTunnel, SwapDropsTunnel
<1> QED
  BY <1>1, <1>2, AnswerStep, OtherStep DEF TunnelNext

----------------------------------------------------------------------------
(* The theorems *)

\* The strengthened invariant holds in every reachable state (tunnel.ts, minekube.ts).
THEOREM TunnelInvariant == TunnelSpec => []TunnelIndInv
  BY TunnelInitInv, TunnelStep, PTL DEF TunnelSpec

\* Every variable keeps its type, and an endpoint never stands without its provider.
THEOREM TunnelTypeCorrect == TunnelSpec => []TunnelTypeOK
<1>1. TunnelIndInv => TunnelTypeOK
  BY DEF TunnelIndInv
<1> QED
  BY <1>1, TunnelInvariant, PTL

\* No two servers share an endpoint, and one that was set up last stays.
THEOREM EndpointsKeptHolds == TunnelSpec => []EndpointsKept
<1>1. TunnelIndInv => EndpointsKept
  BY DEF TunnelIndInv, TunnelClaimInv, EndpointsKept, KeptUnlessShared
<1> QED
  BY <1>1, TunnelInvariant, PTL
=============================================================================
