------------------------------- MODULE MCParts ------------------------------
(* Six modules in one run.  None reads what another writes, so a behaviour is *)
(* one of a single module, its `subject`; the others stay where they begin.    *)
EXTENDS Allocations, Tunnels, Install, Browser, Console, Stats

VARIABLE subject

partsVars == <<subject, allocVars, tunnelVars, installVars, browserVars, consoleVars,
              statsVars>>

PartsInit ==
  /\ subject \in {"ports", "tunnels", "install", "browser", "console", "stats"}
  /\ AllocInit /\ TunnelInit /\ ConsoleInit /\ StatsInit
  /\ InstallInit /\ (subject # "install" => slug = "paper")
  /\ BrowserInit /\ (subject # "browser" => pane = refreshFiles)

PartsNext ==
  /\ UNCHANGED subject
  /\ \/ /\ subject = "ports" /\ AllocNext
        /\ UNCHANGED <<tunnelVars, installVars, browserVars, consoleVars, statsVars>>
     \/ /\ subject = "tunnels" /\ TunnelNext
        /\ UNCHANGED <<allocVars, installVars, browserVars, consoleVars, statsVars>>
     \/ /\ subject = "install" /\ InstallNext
        /\ UNCHANGED <<allocVars, tunnelVars, browserVars, consoleVars, statsVars>>
     \/ /\ subject = "browser" /\ BrowserNext
        /\ UNCHANGED <<allocVars, tunnelVars, installVars, consoleVars, statsVars>>
     \/ /\ subject = "console" /\ ConsoleNext
        /\ UNCHANGED <<allocVars, tunnelVars, installVars, browserVars, statsVars>>
     \/ /\ subject = "stats" /\ StatsNext
        /\ UNCHANGED <<allocVars, tunnelVars, installVars, browserVars, consoleVars>>

PartsSpec == PartsInit /\ [][PartsNext]_partsVars

\* Each module's type invariant.
PartsTypeOK ==
  CASE subject = "ports" -> AllocTypeOK
    [] subject = "tunnels" -> TunnelTypeOK
    [] subject = "install" -> InstallTypeOK
    [] subject = "browser" -> BrowserTypeOK
    [] subject = "console" -> ConsoleTypeOK
    [] subject = "stats" -> StatsTypeOK

\* Bounds.  Add-ons go into a Paper server only, after its first install and while one
\* version is out.  Suspensions, too, come while one version is out, and nothing else
\* makes the server loose.  Of the details, files and lists that the browser awaits
\* beside its pane there are no two at once.  No more than two events are on a wire;
\* no dropped line is remembered while the page is unsettled, of which nothing is
\* claimed then; and a process that ended writes one late line at most, while
\* the page is settled and no line was dropped.
Adding == \/ \E j \in Adders : prog[j] # <<>>
          \/ \E f \in Addons : place[f] # Absent \/ part[f] # Absent
Suspending == status = "suspended" \/ "suspended" \in loose
Late == {i \in DOMAIN history : history[i].of # history[i].run}
FewAtOnce ==
  /\ Adding => /\ slug = "paper" /\ installs = 1 /\ memo = "none" /\ released = 1
               /\ status \notin {"installing", "suspended"} /\ loose = {}
  /\ Suspending => released = 1 /\ loose \subseteq {"suspended"}
  /\ Cardinality(late) + Cardinality(reading) + (IF homing THEN 1 ELSE 0) <= 1
  /\ Len(events) <= 2 /\ Len(frames) <= 2 /\ (unsettled => lost = {})
  /\ Late # {} => lost = {} /\ ~unsettled /\ \A i \in Late : history[i].seq = 2

TwoReleases == <<"v1", "v2">>
=============================================================================
