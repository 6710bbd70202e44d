------------------------------ MODULE Browser -------------------------------
(***************************************************************************)
(* The browser client (public/app.js): one thread, whose requests are      *)
(* answered in any order while the user walks between servers and tabs.    *)
(* A behaviour follows one pane: panes share nothing but the navigation.   *)
(*                                                                         *)
(* Of serverGeneration only the comparison with a later value of it is     *)
(* ever used, so a request records whether the generation it was given is  *)
(* still the newest.  What a pane draws is left out; whose data it is and  *)
(* of which directory is kept.                                             *)
(***************************************************************************)
EXTENDS Naturals, Sequences
Seqs == INSTANCE SequencesExt

CONSTANTS
  Sites,     \* servers the user may open
  MaxCalls,  \* bound on the pane's requests in flight at once
  Folders,   \* directories of a server's files
  Root,      \* the directory that is ""
  NoSite

ASSUME BrowserAssumption == NoSite \notin Sites /\ Root \in Folders /\ MaxCalls \in Nat

VARIABLES
  pane,       \* the pane followed: one of the records below
  path,       \* the URL: a server, or NoSite for every other page
  view,       \* what is on the screen: "server" or "away"
  cur,        \* currentServer
  opening,    \* the server whose detail the newest openServer() awaits
  homing,     \* whether the home page awaits its list
  visible,    \* whether the pane is on the screen with its server
  calls,      \* the pane's requests in flight, in the order they went out
  rows,       \* what the pane shows: whose, of which folder, painted under which
  latch,      \* activityLoadingServerId
  filesDir,
  late,       \* servers whose detail a handler awaits to assign it to currentServer
  reading,    \* servers whose file openFile() awaits
  editor,     \* whose file the editor's dialog holds
  wandered,   \* history: a late detail moved currentServer since the last open
  overlapped  \* history: two loads that may both paint were in flight together

placeVars == <<path, view, cur, opening, homing>>
paneVars == <<pane, visible, calls, rows, latch, filesDir>>
lateVars == <<late, reading, editor>>
browserVars == <<placeVars, paneVars, lateVars, wandered, overlapped>>

----------------------------------------------------------------------------
(* The panes.  Who asks: openServer() ("open"), setTab() ("tab"), what a    *)
(* user does ("act"); a caller that passes no generation is "bare".  What   *)
(* the answer is compared with, and whether the list is emptied when the    *)
(* request goes out or when its answer is there.                            *)

refreshFiles ==
  [name |-> "files", asks |-> {"open", "tab", "act", "act-bare"}, checks |-> {"generation"},
   empties |-> "before"]
refreshBackups ==
  [name |-> "backups", asks |-> {"open", "act-bare"}, checks |-> {"generation"},
   empties |-> "before"]
refreshSchedules ==
  [name |-> "schedules", asks |-> {"open", "act-bare"}, checks |-> {"generation"},
   empties |-> "before"]
refreshVariables ==
  [name |-> "variables", asks |-> {"open", "act-bare"}, checks |-> {"generation"},
   empties |-> "before"]
refreshSubusers ==
  [name |-> "subusers", asks |-> {"open", "act-bare"}, checks |-> {"generation"},
   empties |-> "before"]
\* Asked by refreshAddonCapability() once it knows the kind, with its generation.
refreshAddons ==
  [name |-> "addons", asks |-> {"act", "act-bare"}, checks |-> {"generation"},
   empties |-> "before"]
refreshAddonCapability ==
  [name |-> "capability", asks |-> {"open", "act"}, checks |-> {"generation"},
   empties |-> "after"]
refreshBedrockPacks ==
  [name |-> "packs", asks |-> {"act"}, checks |-> {"generation", "id"}, empties |-> "after"]
executeAddonSearch ==
  [name |-> "search", asks |-> {"act"}, checks |-> {"generation", "id"}, empties |-> "before"]
refreshSoftware ==
  [name |-> "software", asks |-> {"open", "act-bare"}, checks |-> {"generation", "id"},
   empties |-> "before"]
refreshNetworkLatched ==
  [name |-> "network", asks |-> {"open", "act"}, checks |-> {"generation", "id", "latch"},
   empties |-> "before"]
refreshNetwork ==
  [name |-> "network", asks |-> {"open", "act"}, checks |-> {"generation", "id"},
   empties |-> "before"]
refreshEggUnnamed ==
  [name |-> "egg", asks |-> {"tab-bare", "act-bare"}, checks |-> {"generation"},
   empties |-> "before"]
refreshEgg ==
  [name |-> "egg", asks |-> {"tab-bare", "act-bare"}, checks |-> {"generation", "id"},
   empties |-> "before"]
refreshProperties ==
  [name |-> "properties", asks |-> {"tab-bare", "act-bare"}, checks |-> {"id"},
   empties |-> "before"]
refreshActivity ==
  [name |-> "activity", asks |-> {"open", "tab-bare"}, checks |-> {"generation", "id", "latch"},
   empties |-> "after"]
\* The administration's forms keep a counter of their own, bumped by every visit.
refreshAdminServer ==
  [name |-> "admin-server", asks |-> {"visit"}, checks |-> {"generation"}, empties |-> "after"]
refreshUserDetail ==
  [name |-> "user-detail", asks |-> {"visit"}, checks |-> {"generation"}, empties |-> "after"]

Panes ==
  {refreshFiles, refreshBackups, refreshSchedules, refreshVariables, refreshSubusers,
   refreshAddons, refreshAddonCapability, refreshBedrockPacks, executeAddonSearch,
   refreshSoftware, refreshNetwork, refreshEgg, refreshProperties, refreshActivity,
   refreshAdminServer, refreshUserDetail}
InTab(p) == "tab-bare" \in p.asks /\ "open" \notin p.asks
Form(p) == "visit" \in p.asks

----------------------------------------------------------------------------
(* Asking and answering *)

Superseded(cs) ==
  [i \in DOMAIN cs |-> IF cs[i].gen = "newest" THEN [cs[i] EXCEPT !.gen = "superseded"] ELSE cs[i]]
MayPaint(cs) == {i \in DOMAIN cs : cs[i].gen # "superseded"}

\* A refresh for server s, up to its await.
Ask(cs, s, gen, dir) ==
  IF "latch" \in pane.checks /\ latch = s
  THEN /\ calls' = cs
       /\ UNCHANGED <<rows, latch, overlapped>>
  ELSE /\ Len(cs) < MaxCalls
       /\ calls' = Append(cs, [server |-> s, gen |-> gen, dir |-> dir])
       /\ rows' = IF pane.empties = "before" THEN <<>> ELSE rows
       /\ latch' = IF "latch" \in pane.checks THEN s ELSE latch
       /\ overlapped' = (MayPaint(cs) # {})

\* isStaleLoad(), and the comparison of ids.
Stale(call) ==
  \/ "generation" \in pane.checks /\ call.gen = "superseded"
  \/ "id" \in pane.checks /\ call.server # cur

\* The answer, a refusal included: a message is about its server as well.
Answer(i) ==
  LET call == calls[i] IN
  /\ calls' = Seqs!RemoveAt(calls, i)
  /\ rows' = IF Stale(call) THEN rows
             ELSE (IF pane.empties = "after" THEN <<>> ELSE rows) \o
                  <<[server |-> call.server, dir |-> call.dir, under |-> filesDir]>>
  /\ latch' = IF latch = call.server THEN NoSite ELSE latch
  /\ UNCHANGED <<pane, visible, filesDir, placeVars, lateVars, wandered, overlapped>>

\* A handler refreshes the pane when its own request is done, whatever server is
\* the current one by then: refreshAfterSwap() and others pass the generation of that
\* moment, most pass none.
AskWithGeneration ==
  /\ cur # NoSite /\ "act" \in pane.asks
  /\ Ask(calls, cur, "newest", filesDir)
  /\ UNCHANGED <<pane, visible, filesDir, placeVars, lateVars, wandered>>
AskBare ==
  /\ cur # NoSite /\ "act-bare" \in pane.asks
  /\ Ask(calls, cur, "none", filesDir)
  /\ UNCHANGED <<pane, visible, filesDir, placeVars, lateVars, wandered>>

\* setTab(), on a click.
SetTab ==
  /\ cur # NoSite /\ view = "server"
  /\ \/ /\ "tab" \in pane.asks
        /\ Ask(calls, cur, "newest", Root)
        /\ filesDir' = Root
     \/ /\ "tab-bare" \in pane.asks
        /\ Ask(calls, cur, "none", filesDir)
        /\ UNCHANGED filesDir
  /\ visible' = TRUE
  /\ UNCHANGED <<pane, placeVars, lateVars, wandered>>
LeaveTab ==
  /\ view = "server" /\ visible /\ InTab(pane)
  /\ visible' = FALSE
  /\ UNCHANGED <<pane, calls, rows, latch, filesDir, placeVars, lateVars, wandered, overlapped>>

----------------------------------------------------------------------------
(* Navigation *)

leaveServer ==
  /\ cur' = NoSite
  /\ opening' = NoSite
  /\ calls' = Superseded(calls)
  /\ rows' = IF pane = executeAddonSearch THEN <<>> ELSE rows

\* navigate(), routeFromPath() and openServer() up to its await.
OpenServer(s) ==
  /\ ~Form(pane)
  /\ path' = s
  /\ opening' = s
  /\ cur' = IF cur = s THEN s ELSE NoSite
  /\ calls' = Superseded(calls)
  /\ rows' = IF cur \notin {s, NoSite} /\ pane = executeAddonSearch THEN <<>> ELSE rows
  /\ UNCHANGED <<view, homing, pane, visible, latch, filesDir, lateVars, wandered, overlapped>>

\* Every other page; the home page awaits the list of servers first.
GoAway ==
  /\ ~Form(pane)
  /\ path' = NoSite
  /\ \/ view' = "away" /\ UNCHANGED homing
     \/ homing' = TRUE /\ UNCHANGED view
  /\ IF cur # NoSite THEN leaveServer ELSE UNCHANGED <<cur, opening, calls, rows>>
  /\ UNCHANGED <<pane, visible, latch, filesDir, lateVars, wandered, overlapped>>
HomeListed ==
  /\ homing
  /\ homing' = FALSE
  /\ view' = IF path = NoSite THEN "away" ELSE view
  /\ UNCHANGED <<path, cur, opening, paneVars, lateVars, wandered, overlapped>>

\* The rest of openServer() once the detail is there.
Opened ==
  LET s == opening IN
  /\ s # NoSite
  /\ cur' = s
  /\ opening' = NoSite
  /\ view' = "server"
  /\ filesDir' = Root
  /\ editor' = NoSite
  /\ wandered' = FALSE
  /\ \/ /\ "open" \in pane.asks
        /\ visible' = TRUE
        /\ \/ Ask(calls, s, "newest", Root)
           \/ "tab-bare" \in pane.asks /\ Ask(calls, s, "none", Root)
     \/ InTab(pane) /\ visible' = TRUE /\ Ask(calls, s, "none", Root)
     \/ /\ "open" \notin pane.asks
        /\ visible' = ~InTab(pane)
        /\ rows' = IF pane = executeAddonSearch THEN <<>> ELSE rows
        /\ UNCHANGED <<calls, latch, overlapped>>
  /\ UNCHANGED <<pane, path, homing, late, reading>>
\* The detail is refused: navigate("/").
NotOpened ==
  /\ opening # NoSite
  /\ path' = NoSite
  /\ homing' = TRUE
  /\ IF cur # NoSite THEN leaveServer
     ELSE opening' = NoSite /\ UNCHANGED <<cur, calls, rows>>
  /\ UNCHANGED <<view, pane, visible, latch, filesDir, lateVars, wandered, overlapped>>

\* Power buttons, the settings form, awaitServerInstall() and refreshAfterSwap()
\* assign the detail they awaited to currentServer.
AwaitDetail ==
  /\ cur # NoSite
  /\ late' = late \cup {cur}
  /\ UNCHANGED <<placeVars, paneVars, reading, editor, wandered, overlapped>>
AssignDetail(s) ==
  /\ s \in late
  /\ late' = late \ {s}
  /\ cur' = s
  /\ wandered' = (wandered \/ cur # s)
  /\ UNCHANGED <<path, view, opening, homing, paneVars, reading, editor, overlapped>>

\* The administration's list opens a form for t.
Visit(t) ==
  /\ Form(pane)
  /\ path' = t /\ cur' = t /\ visible' = TRUE
  /\ Ask(Superseded(calls), t, "newest", Root)
  /\ UNCHANGED <<view, opening, homing, pane, filesDir, lateVars, wandered>>

----------------------------------------------------------------------------
(* Files *)

Browsing == pane = refreshFiles /\ cur # NoSite
\* A folder, or "up", of the list on the screen.
OpenFolder(dir) ==
  /\ Browsing
  /\ \E i \in DOMAIN rows : rows[i].dir = filesDir
  /\ filesDir' = dir
  /\ Ask(calls, cur, "none", dir)
  /\ UNCHANGED <<pane, visible, placeVars, lateVars, wandered>>
\* applyMove() has moved a file and follows it.
MoveDone(dir) ==
  /\ Browsing
  /\ filesDir' = dir
  /\ Ask(calls, cur, "none", dir)
  /\ UNCHANGED <<pane, visible, placeVars, lateVars, wandered>>
openFile ==
  /\ Browsing
  /\ reading' = reading \cup {cur}
  /\ UNCHANGED <<placeVars, paneVars, late, editor, wandered, overlapped>>
FileRead(s) ==
  /\ s \in reading
  /\ reading' = reading \ {s}
  /\ editor' \in {s, editor}
  /\ UNCHANGED <<placeVars, paneVars, late, wandered, overlapped>>

----------------------------------------------------------------------------

BrowserInit ==
  /\ pane \in Panes
  /\ path = NoSite /\ view = "away" /\ cur = NoSite /\ opening = NoSite /\ homing = FALSE
  /\ visible = FALSE
  /\ calls = <<>>
  /\ rows = <<>>
  /\ latch = NoSite
  /\ filesDir = Root
  /\ late = {} /\ reading = {} /\ editor = NoSite
  /\ wandered = FALSE /\ overlapped = FALSE

BrowserNext ==
  \/ \E i \in DOMAIN calls : Answer(i)
  \/ AskWithGeneration \/ AskBare \/ SetTab \/ LeaveTab
  \/ GoAway \/ HomeListed \/ Opened \/ NotOpened \/ AwaitDetail
  \/ \E s \in Sites : OpenServer(s) \/ AssignDetail(s) \/ Visit(s) \/ FileRead(s)
  \/ \E dir \in Folders : OpenFolder(dir) \/ MoveDone(dir)
  \/ openFile

BrowserSpec == BrowserInit /\ [][BrowserNext]_browserVars

----------------------------------------------------------------------------
(* Properties *)

Call == [server : Sites, gen : {"newest", "superseded", "none"}, dir : Folders]
Row == [server : Sites, dir : Folders, under : Folders]

\* The type invariant; a detail is awaited for the server of the URL, unless the user
\* has gone to a page that is not a server's.
BrowserTypeOK ==
  /\ pane \in Panes
  /\ path \in Sites \cup {NoSite} /\ view \in {"server", "away"} /\ homing \in BOOLEAN
  /\ cur \in Sites \cup {NoSite} /\ opening \in Sites \cup {NoSite}
  /\ path \in {opening, NoSite} \/ opening = NoSite
  /\ visible \in BOOLEAN
  /\ calls \in Seq(Call)
  /\ rows \in Seq(Row)
  /\ latch \in Sites \cup {NoSite} /\ filesDir \in Folders
  /\ late \subseteq Sites /\ reading \subseteq Sites /\ editor \in Sites \cup {NoSite}
  /\ wandered \in BOOLEAN /\ overlapped \in BOOLEAN

\* Panes that openServer() neither fills nor empties itself, or that keep what they
\* show until the next answer.
Lingering == {refreshAddons, refreshAddonCapability, refreshBedrockPacks, refreshActivity,
              refreshAdminServer, refreshUserDetail}

\* Whose the rows are: the current server's, always where the answer is compared with
\* the server's id, elsewhere as long as no two loads overlapped (isStaleLoad).  A late
\* detail that moved currentServer back is excepted.
OwnServer ==
  visible /\ cur # NoSite /\ ~wandered /\ pane \notin Lingering
    /\ (overlapped => pane.name \in {"software", "network", "egg", "properties", "search"}) =>
    \A i \in DOMAIN rows : rows[i].server = cur
\* Which folder the files are of: the one that handlers put before their names, some
\* when the row is painted and some when it is clicked.
OwnFolder ==
  pane = refreshFiles /\ ~overlapped =>
    \A i \in DOMAIN rows : rows[i].dir = filesDir /\ rows[i].under = filesDir
\* What a pane shows is of the server, and the folder, on the screen, in whatever order
\* the answers come: nothing done in it reaches another server or file.
PaneShowsOwn == OwnServer /\ OwnFolder

\* Once everything is answered, a pane that openServer() fills shows something, and an
\* administration form the one that was visited last; the activity feed is excepted.
PaneLoads ==
  calls = <<>> /\ opening = NoSite /\ cur # NoSite /\ ~wandered
    /\ (("open" \in pane.asks /\ pane # refreshActivity) \/ Form(pane)) =>
    rows # <<>> /\ (Form(pane) => rows[1].server = cur)

\* openServer(), app.js:1206-1207: the editor never carries another server's file.
EditorHoldsOwn == editor # NoSite /\ cur # NoSite => editor = cur

----------------------------------------------------------------------------
(* The strengthening that makes PaneShowsOwn and PaneLoads inductive *)

\* The panes whose answers are compared with the server's id before they are painted.
ComparesId == "id" \in pane.checks
Steady == cur # NoSite /\ ~wandered

\* A form has no openServer(), and every load of it has its generation.
FormInv == Form(pane) => opening = NoSite /\ \A i \in DOMAIN calls : calls[i].gen # "none"
\* An answer that isStaleLoad() lets through is the current server's, unless loads
\* overlapped; of a form's loads the last one is let through alone.
LiveInv ==
  /\ Steady /\ (Form(pane) \/ (~overlapped /\ ~ComparesId /\ pane \notin Lingering)) =>
       \A i \in MayPaint(calls) : calls[i].server = cur
  /\ pane = refreshFiles /\ ~overlapped => \A i \in MayPaint(calls) : calls[i].dir = filesDir
\* What openServer() has asked for is shown, or one of its answers will be.
Fills == ("open" \in pane.asks /\ pane # refreshActivity) \/ Form(pane)
LoadInv ==
  Steady /\ opening = NoSite /\ Fills =>
    \/ rows # <<>> /\ (Form(pane) => rows[1].server = cur)
    \/ \E i \in DOMAIN calls : ~Stale(calls[i])

BrowserInv == BrowserTypeOK /\ OwnServer /\ OwnFolder /\ FormInv /\ LiveInv /\ LoadInv
=============================================================================
