------------------------------- MODULE Console ------------------------------
(***************************************************************************)
(* The live console of one server: the engine's slot (engine.ts), the      *)
(* gateway's stream of it (console-gateway.ts), the history read over HTTP *)
(* (power.ts) and what the browser makes of the two (public/app.js), for a *)
(* user with control.console: any other is sent the stream, but reads no   *)
(* history and has no tab that shows it.                                   *)
(***************************************************************************)
EXTENDS Naturals, Sequences

CONSTANTS
  HistoryLimit,  \* lines the slot keeps, and the history read returns
  ReplayLimit,   \* lines a join replays
  MaxRuns, MaxSeq  \* bounds on the processes started and on the lines of a panel's life

ASSUME ConsoleAssumption ==
  /\ HistoryLimit \in Nat /\ ReplayLimit \in 1..HistoryLimit
  /\ MaxRuns \in Nat /\ MaxSeq \in Nat

VARIABLES
  run, seq, history,  \* the engine's slot
  wire,       \* the socket: "none", "joining" or "joined"
  wireFresh,  \* whether it was opened by the newest load
  events,     \* what the gateway has sent on it
  read,       \* the history read: "none", "asked" or its answer
  joinAfter,  \* whether the load that reads joins once it is answered
  consoleRun, consoleSeq, log,  \* the browser's
  lost,       \* history: the volatile lines dropped that no replay can bring back
  unsettled   \* history: the page was restored, or the panel restarted, since the last load

slotVars == <<run, seq, history>>
wireVars == <<wire, wireFresh, events>>
readVars == <<read, joinAfter>>
pageVars == <<consoleRun, consoleSeq, log>>
consoleVars == <<slotVars, wireVars, readVars, pageVars, lost, unsettled>>

\* A line: its number, the console that it was put in, the process that wrote it.
Line == [seq : 1..MaxSeq, run : 1..MaxRuns, of : 1..MaxRuns]
NoRun == MaxRuns + 1

\* The last n of a sequence.
LastOf(s, n) == IF Len(s) <= n THEN s ELSE SubSeq(s, Len(s) - n + 1, Len(s))

----------------------------------------------------------------------------
(* The engine *)

Send(e) == events' = IF wire = "joined" THEN Append(events, e) ELSE events

\* emit(): a line that the viewers' socket may drop.  Any process of the slot may
\* have written it: the last output of one that has ended may come when the next
\* has been started, and emit() does not ask whose it is.
emit ==
  \E p \in 1..run :
    LET line == [seq |-> seq + 1, run |-> run, of |-> p] IN
    /\ seq < MaxSeq
    /\ seq' = seq + 1
    /\ history' = LastOf(Append(history, line), HistoryLimit)
    /\ \/ Send([is |-> "line", line |-> line]) /\ UNCHANGED lost
       \/ wire = "joined" /\ lost' = lost \cup {seq + 1} /\ UNCHANGED events
    /\ UNCHANGED <<run, wire, wireFresh, readVars, pageVars, unsettled>>
\* start(): a new process is a new console, and viewers are told.
start ==
  /\ run < MaxRuns
  /\ run' = run + 1
  /\ history' = <<>>
  /\ Send([is |-> "reset", run |-> run + 1])
  /\ UNCHANGED <<seq, wire, wireFresh, readVars, pageVars, lost, unsettled>>
\* The panel ends and begins again, with new slots.
PanelRestart ==
  /\ run' = 0 /\ seq' = 0 /\ history' = <<>>
  /\ events' = <<>>
  /\ wire' = IF wire = "none" THEN "none" ELSE "joining"
  /\ unsettled' = TRUE
  /\ UNCHANGED <<wireFresh, readVars, pageVars, lost>>

----------------------------------------------------------------------------
(* The gateway and the history read *)

\* console:join: a replay, and then the stream.
join ==
  /\ wire = "joining" /\ wireFresh
  /\ wire' = "joined"
  /\ events' = <<[is |-> "history", run |-> run, lines |-> LastOf(history, ReplayLimit)]>>
  /\ lost' = {n \in lost : n <= consoleSeq}
  /\ UNCHANGED <<wireFresh, slotVars, readVars, pageVars, unsettled>>
Disconnect ==
  /\ wire = "joined"
  /\ wire' = "joining" /\ events' = <<>>
  /\ UNCHANGED <<wireFresh, slotVars, readVars, pageVars, lost, unsettled>>
ReadHistory ==
  /\ read = [is |-> "asked"]
  /\ read' = [is |-> "answer", run |-> run, lines |-> history]
  /\ UNCHANGED <<joinAfter, slotVars, wireVars, pageVars, lost, unsettled>>

----------------------------------------------------------------------------
(* The browser.  A page is [run, seq, log]. *)

Page == [run |-> consoleRun, seq |-> consoleSeq, log |-> log]
Shows(page) == consoleRun' = page.run /\ consoleSeq' = page.seq /\ log' = page.log

appendAlways(page, line) ==
  [page EXCEPT !.seq = line.seq, !.log = Append(@, line)]
appendConsoleLine(page, line) ==
  IF line.seq <= page.seq THEN page
  ELSE [page EXCEPT !.seq = line.seq, !.log = Append(@, line)]
appendLines(page, lines) ==
  LET after[i \in 0..Len(lines)] ==
        IF i = 0 THEN page ELSE appendConsoleLine(after[i - 1], lines[i])
  IN after[Len(lines)]
resetConsoleHistory(page, lines) == appendLines([page EXCEPT !.seq = 0, !.log = <<>>], lines)
adoptRun(page, r) ==
  CASE page.run = NoRun -> [page EXCEPT !.run = r]
    [] page.run = r -> page
    [] OTHER -> [page EXCEPT !.run = r, !.log = <<>>]

\* console:history looks at its generation line by line only.
Receive ==
  LET e == Head(events)
      page == CASE e.is = "history" /\ wireFresh -> appendLines(adoptRun(Page, e.run), e.lines)
                [] e.is = "history" /\ ~wireFresh -> adoptRun(Page, e.run)
                [] e.is = "line" /\ wireFresh -> appendConsoleLine(Page, e.line)
                [] e.is = "reset" /\ wireFresh -> adoptRun(Page, e.run)
                [] OTHER -> Page
  IN
  /\ events # <<>>
  /\ events' = Tail(events)
  /\ Shows(page)
  /\ UNCHANGED <<wire, wireFresh, slotVars, readVars, lost, unsettled>>

joinConsoleSocket == wire' = "joining" /\ wireFresh' = TRUE /\ events' = <<>>

\* refreshConsoleHistory() is answered, or refused; a load joins after that.
HistoryRead ==
  /\ \/ /\ read # [is |-> "none"] /\ read # [is |-> "asked"]
        /\ Shows(resetConsoleHistory(adoptRun(Page, read.run), read.lines))
     \/ /\ read = [is |-> "asked"]
        /\ Shows(resetConsoleHistory(Page, <<>>))
  /\ read' = [is |-> "none"] /\ joinAfter' = FALSE
  /\ IF joinAfter THEN joinConsoleSocket /\ lost' = {} ELSE UNCHANGED <<wireVars, lost>>
  /\ UNCHANGED <<slotVars, unsettled>>

\* openServer(): for a server left before, or again for the one on the screen.
Load ==
  /\ read' = [is |-> "asked"] /\ joinAfter' = TRUE
  /\ wireFresh' = FALSE
  /\ unsettled' = FALSE
  /\ UNCHANGED <<wire, events, slotVars, pageVars, lost>>
\* leaveServer()
Leave ==
  /\ wire' = "none" /\ wireFresh' = FALSE /\ events' = <<>>
  /\ read' = [is |-> "none"] /\ joinAfter' = FALSE
  /\ consoleRun' = NoRun /\ consoleSeq' = 0
  /\ UNCHANGED <<log, slotVars, lost, unsettled>>
\* pageshow: the socket is built again while the history is read.
PageRestored ==
  /\ wire # "none" /\ wireFresh /\ read = [is |-> "none"]
  /\ joinConsoleSocket
  /\ read' = [is |-> "asked"] /\ joinAfter' = FALSE
  /\ unsettled' = TRUE
  /\ UNCHANGED <<slotVars, pageVars, lost>>

ConsoleInit ==
  /\ run = 0 /\ seq = 0 /\ history = <<>>
  /\ wire = "none" /\ wireFresh = FALSE /\ events = <<>>
  /\ read = [is |-> "none"] /\ joinAfter = FALSE
  /\ consoleRun = NoRun /\ consoleSeq = 0 /\ log = <<>>
  /\ lost = {} /\ unsettled = FALSE

ConsoleNext ==
  \/ emit \/ start \/ PanelRestart
  \/ join \/ Disconnect \/ ReadHistory
  \/ Receive \/ HistoryRead \/ Load \/ Leave \/ PageRestored

ConsoleSpec == ConsoleInit /\ [][ConsoleNext]_consoleVars

----------------------------------------------------------------------------
(* Properties *)

Event == [is : {"line"}, line : Line] \cup [is : {"reset"}, run : 0..MaxRuns]
         \cup [is : {"history"}, run : 0..MaxRuns, lines : Seq(Line)]
HistoryAnswer == [is : {"answer"}, run : 0..MaxRuns, lines : Seq(Line)]

ConsoleTypeOK ==
  /\ run \in 0..MaxRuns /\ seq \in 0..MaxSeq /\ history \in Seq(Line)
  /\ Len(history) <= HistoryLimit
  /\ wire \in {"none", "joining", "joined"} /\ wireFresh \in BOOLEAN
  /\ events \in Seq(Event) /\ (events # <<>> => wire = "joined")
  /\ read \in [is : {"none", "asked"}] \cup HistoryAnswer /\ joinAfter \in BOOLEAN
  /\ joinAfter => read.is # "none"
  /\ consoleRun \in 0..NoRun /\ consoleSeq \in 0..MaxSeq /\ log \in Seq(Line)
  /\ lost \subseteq 1..MaxSeq /\ unsettled \in BOOLEAN

Following == wire = "joined" /\ wireFresh /\ ~unsettled

\* What a join replays.
Recent == LastOf(history, ReplayLimit)
Has(lines, line) == \E k \in DOMAIN lines : lines[k] = line

\* Each line of the console is shown once and in order.
InOrder(lines) == \A i, j \in DOMAIN lines : i < j => lines[i].seq < lines[j].seq
\* All of them were put in one console, the one the page believes to show.
OneConsole(lines, r) == \A i \in DOMAIN lines : lines[i].run = r
\* When everything sent has been received, the page shows the engine's console and
\* its last lines, but for the volatile ones that were dropped.
CaughtUp ==
  events = <<>> =>
    /\ consoleRun = run
    /\ \A i \in DOMAIN Recent : Recent[i].seq \in lost \/ Has(log, Recent[i])

\* A page that follows its server shows one console, in order, once, and all of
\* what is replayed or sent: over restarts of the server, lost connections, and loads
\* that overtake each other (appendConsoleLine, adoptRun, resetConsoleHistory).  A
\* dropped line with a later one on the page stays away until the next load.  A
\* page restored from the browser's cache reads and joins at once, and a restarted
\* panel counts from zero: both are excepted until the next load.  A console is what
\* the slot takes between two starts: late output of the process before is in it,
\* although start() says that a restart starts from zero.
ConsoleFollows ==
  Following => InOrder(log) /\ OneConsole(log, consoleRun) /\ CaughtUp

----------------------------------------------------------------------------
(* The strengthening that makes ConsoleFollows inductive *)

\* The slot keeps the last lines of its console, without a gap.
SlotInv ==
  \A i \in DOMAIN history :
    history[i].seq = seq - Len(history) + i /\ history[i].run = run

\* Lines taken from the slot, now or earlier in the panel's life, when it ran r.
Copied(lines, r) ==
  /\ r <= run /\ InOrder(lines) /\ OneConsole(lines, r)
  /\ \A i \in DOMAIN lines : lines[i].seq <= seq
  /\ r # run => \A i \in DOMAIN lines, k \in DOMAIN history : lines[i].seq < history[k].seq

\* Only a load reads, and its wire is not fresh before the answer, which has each
\* line of the slot that is not later than all of it.
ReadInv ==
  ~unsettled =>
    /\ read.is # "none" => joinAfter
    /\ joinAfter => ~wireFresh
    /\ read.is = "answer" =>
         /\ Copied(read.lines, read.run)
         /\ read.run = run =>
              \A k \in DOMAIN history :
                \/ Has(read.lines, history[k])
                \/ \A i \in DOMAIN read.lines : read.lines[i].seq < history[k].seq

\* The page, once a load has painted it, is behind the slot and never between two
\* consoles; what it has passed of the slot's last lines it shows, or it was dropped.
Settled == wireFresh /\ ~unsettled
PageInv ==
  Settled =>
    /\ consoleSeq <= seq
    /\ consoleSeq # 0 => consoleRun <= run
    /\ InOrder(log) /\ OneConsole(log, consoleRun)
    /\ \A i \in DOMAIN log : log[i].seq <= consoleSeq
    /\ consoleRun # run => \A k \in DOMAIN history : consoleSeq < history[k].seq
    /\ \A k \in DOMAIN Recent :
         Recent[k].seq <= consoleSeq => Recent[k].seq \in lost \/ Has(log, Recent[k])

\* An event as the lines that it carries, and the console that they are of.
Carried(e) ==
  CASE e.is = "line" -> <<e.line>> [] e.is = "history" -> e.lines [] e.is = "reset" -> <<>>
EventRun(e) == IF e.is = "line" THEN e.line.run ELSE e.run
\* The console that the page will show when it has received the first i events.
RunAfter(i) == IF i = 0 THEN consoleRun ELSE EventRun(events[i])

\* What is on its way: a replay comes first, lines are of the console named before
\* them, and both are in order; the last lines of the slot that are later than the
\* page are among them, or were dropped.
EventInv(i) ==
  LET e == events[i] IN
  /\ Copied(Carried(e), EventRun(e))
  /\ consoleSeq # 0 => consoleRun <= EventRun(e)
  /\ e.is = "history" => i = 1
  /\ e.is = "line" => e.line.run = RunAfter(i - 1)
  /\ e.is = "line" \/ consoleRun # e.run =>
       \A a \in DOMAIN Carried(e) : consoleSeq < Carried(e)[a].seq
OrderInv(i, j) ==
  /\ EventRun(events[i]) <= EventRun(events[j])
  /\ \A a \in DOMAIN Carried(events[i]), b \in DOMAIN Carried(events[j]) :
       Carried(events[i])[a].seq < Carried(events[j])[b].seq
StreamInv ==
  Following =>
    /\ \A i \in DOMAIN events : EventInv(i)
    /\ \A i, j \in DOMAIN events : i < j => OrderInv(i, j)
    /\ RunAfter(Len(events)) = run
    /\ \A k \in DOMAIN Recent :
         \/ Recent[k].seq <= consoleSeq
         \/ Recent[k].seq \in lost
         \/ \E i \in DOMAIN events : Has(Carried(events[i]), Recent[k])

ConsoleInv == ConsoleTypeOK /\ SlotInv /\ ReadInv /\ PageInv /\ StreamInv
=============================================================================
