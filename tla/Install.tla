------------------------------ MODULE Install -------------------------------
(***************************************************************************)
(* What fills a server's directory: the blueprint's install operations     *)
(* (modules/runtime/install.ts) and the add-on requests, which take no     *)
(* lock.  An operation is a program of small steps; a job runs one program *)
(* and awaits between its steps, so jobs interleave at every step.         *)
(*                                                                         *)
(* Bound: a server has one install at a time.  A suspension can bring it   *)
(* to two (ServerLifecycle), and here does everything else that it does:   *)
(* it falls into an install and out of it again.  What a person does to    *)
(* the files themselves is left out, except for the removal of an add-on.  *)
(***************************************************************************)
EXTENDS Naturals, Sequences, FiniteSets

CONSTANTS
  Slugs,    \* the blueprints the server may be given
  Releases, \* the versions of the game in order, and of everything published for them
  Adders,   \* add-on requests in flight at once
  Addons,   \* the jars a project may publish
  MaxInstalls  \* bound on the installs ever begun

Builds == {Releases[i] : i \in DOMAIN Releases}
Jobs == {"install"} \cup Adders
Jars == {"server.jar", "paper.jar", "purpur.jar", "velocity.jar", "phar",
         "php-runtime", "bedrock-server.zip", "installer.jar"}
Made == {"launcher", "args", "php", "bedrock_server", "py3", "py"}

\* The add-ons have a directory of their own, so none is a file of the blueprints.
ASSUME InstallAssumption ==
  /\ Slugs \subseteq {"paper", "vanilla", "purpur", "velocity", "fabric", "forge",
                       "bedrock-bds", "pocketmine-mp", "endstone"}
  /\ Releases \in Seq(Builds) /\ Releases # <<>>
  /\ {"none", "latest"} \cap Builds = {}
  /\ "install" \notin Adders
  /\ Addons \cap (Jars \cup Made) = {}
  /\ MaxInstalls \in Nat \ {0}

VARIABLES
  slug, status,   \* of the server's row
  saved,          \* its variables: mcVersion and what the installers derive
  released,       \* how many of the versions are published
  memo,           \* latestMcVersionCache
  prog,           \* the steps a job has yet to take
  ctx,            \* its InstallContext
  place, part,    \* every destination and its .part file
  writer,         \* the file a job's stream goes to: "part", "place" or "gone"
  untidy,         \* history: files a refusal, a failed extraction or a crash leaves
  installs,       \* history: installs begun
  loose           \* history: why the server may not be what is recorded

jobVars == <<prog, ctx, writer>>
diskVars == <<place, part, untidy>>
serverVars == <<slug, status, saved, loose, installs>>
worldVars == <<released, memo>>
installVars == <<jobVars, diskVars, serverVars, worldVars>>

Fetched == Jars \cup Addons
Archives == {"installer.jar", "bedrock-server.zip", "php-runtime"}
Projects == {fs \in Addons \X Addons : fs[1] # fs[2]} \cup {<<f>> : f \in Addons}
Files == Fetched \cup Made

\* What a file is made of, whether some of it is missing, and (history) whether two
\* downloads of it overlapped.
Content == [of : SUBSET Builds, cut : BOOLEAN, shared : BOOLEAN]
Absent == [of |-> {}, cut |-> FALSE, shared |-> FALSE]
Whole(b) == [of |-> {b}, cut |-> FALSE, shared |-> FALSE]
Cut(bs) == [of |-> bs, cut |-> TRUE, shared |-> FALSE]

Newest == Releases[released]

NoJob == [want |-> "none", got |-> "none", noted |-> {}, asked |-> "none", left |-> <<>>]

----------------------------------------------------------------------------
(* Steps, and the operations they make up *)

fetchJson == <<[do |-> "ask"]>>
Resolve(how) == <<[do |-> "resolve", how |-> how]>>
downloadFile(f, digest) == <<[do |-> "get", file |-> f, digest |-> digest]>>
Unless(fs, digest) ==
  [i \in DOMAIN fs |-> [do |-> "dedupe", file |-> fs[i], digest |-> digest]]
Run(outs, from, finally) ==
  <<[do |-> "run", outs |-> outs, from |-> from, finally |-> finally]>>
pipInstall == <<[do |-> "pip"]>>
Drop(f) == <<[do |-> "drop", file |-> f]>>
Note(k) == <<[do |-> "note", key |-> k]>>

\* The vendors' answers: which version, where its file is, and its digest.  Adjacent
\* requests are one step, since nothing is read or written between them.
resolveMinecraftVersion == Resolve("memo")
resolvePaperVersion == Resolve("newest")
latestPaperBuild == fetchJson
resolveVanilla == Resolve("newest") \o fetchJson
resolvePurpur == Resolve("newest") \o fetchJson
resolveVelocity == Resolve("newest") \o fetchJson
resolveBds == Resolve("newest") \o fetchJson
resolvePocketMine == Resolve("newest") \o fetchJson
fetchSidecarSha1 == fetchJson

fetchPaper ==
  resolvePaperVersion \o latestPaperBuild \o downloadFile("paper.jar", "sure") \o Note("mcVersion")
fetchVanilla == resolveVanilla \o downloadFile("server.jar", "sure") \o Note("mcVersion")
\* Purpur's md5 may be missing, and then the download is refused.
fetchPurpur == resolvePurpur \o downloadFile("purpur.jar", "maybe") \o Note("mcVersion")
\* No write-back: a build of the proxy is not a version of the game.
fetchVelocity == resolveVelocity \o downloadFile("velocity.jar", "sure")

\* The mod loaders: the vendor's installer, which goes whether it succeeds or not.
ByInstallerKept(outs) ==
  fetchSidecarSha1 \o downloadFile("installer.jar", "sure") \o Run(outs, "installer.jar", FALSE)
ByInstaller(outs) ==
  fetchSidecarSha1 \o downloadFile("installer.jar", "sure") \o Run(outs, "installer.jar", TRUE)
installFabric ==
  resolveMinecraftVersion \o Note("mcVersion") \o ByInstaller({"launcher", "server.jar"})
installForge ==
  resolveMinecraftVersion \o Note("mcVersion") \o ByInstaller({"args", "server.jar"})
    \o Note("derived")

\* An archive that does not extract stays.
fetchBds ==
  resolveBds \o downloadFile("bedrock-server.zip", "sure") \o
  Run({"bedrock_server"}, "bedrock-server.zip", FALSE) \o Drop("bedrock-server.zip")
fetchPocketmine ==
  resolvePocketMine \o downloadFile("phar", "maybe") \o downloadFile("php-runtime", "maybe") \o
  Run({"php"}, "php-runtime", FALSE) \o Drop("php-runtime") \o Note("derived")
fetchEndstone == pipInstall

Blueprint(s) ==
  CASE s = "paper" -> fetchPaper
    [] s = "vanilla" -> fetchVanilla
    [] s = "purpur" -> fetchPurpur
    [] s = "velocity" -> fetchVelocity
    [] s = "fabric" -> installFabric
    [] s = "forge" -> installForge
    [] s = "bedrock-bds" -> fetchBds
    [] s = "pocketmine-mp" -> fetchPocketmine
    [] s = "endstone" -> fetchEndstone

Category(s) ==
  CASE s \in {"paper", "vanilla", "purpur", "fabric", "forge"} -> "minecraft-java"
    [] s = "velocity" -> "proxy"
    [] OTHER -> "minecraft-bedrock"
HasVersion(s) == s \notin {"pocketmine-mp", "endstone"}
modrinthPlatform(s) == s \in {"fabric", "forge", "paper", "purpur", "velocity"}

\* Every project is resolved before the first is fetched.
installModrinthProjects(fs) ==
  resolveMinecraftVersion \o fetchJson \o Unless(fs, "maybe")

----------------------------------------------------------------------------
(* A job's step, its success and its failure *)

Now(j) == Head(prog[j])
Doing(j, what) == prog[j] # <<>> /\ Now(j).do = what /\ writer[j] = "no"
Go(j) == prog' = [prog EXCEPT ![j] = Tail(@)]

Writers(f, at) ==
  {j \in Jobs : writer[j] = at /\ prog[j] # <<>> /\ Now(j).file = f}

\* runInstallOps() or the request throws.
Fails(j) ==
  /\ prog' = [prog EXCEPT ![j] = <<>>]
  /\ ctx' = [ctx EXCEPT ![j] = NoJob]
  /\ writer' = [writer EXCEPT ![j] = "no"]
  /\ status' = IF j = "install" THEN "install_failed" ELSE status
  /\ UNCHANGED <<slug, saved, loose, installs>>

\* A network step that fails: no answer, an error, a host off the list.
AskFails(j) ==
  /\ \/ Doing(j, "ask") \/ Doing(j, "get")
     \/ Doing(j, "resolve") /\ ctx[j].want = "latest"
  /\ Fails(j)
  /\ UNCHANGED <<diskVars, worldVars>>
Answered(j) ==
  /\ Doing(j, "ask")
  /\ Go(j)
  /\ UNCHANGED <<ctx, writer, diskVars, serverVars, worldVars>>

\* A pinned version is taken as it is.  The mod loaders and the add-ons share a
\* memo of the newest; the other operations ask every time.
ResolveVersion(j) ==
  LET fresh == memo = "none" \/ Now(j).how = "newest"
      v == IF ctx[j].want # "latest" THEN ctx[j].want
           ELSE IF fresh THEN Newest ELSE memo
  IN
  /\ Doing(j, "resolve")
  /\ ctx' = [ctx EXCEPT ![j].got = v]
  /\ memo' = IF ctx[j].want = "latest" /\ Now(j).how = "memo" THEN v ELSE memo
  /\ Go(j)
  /\ UNCHANGED <<writer, diskVars, serverVars, released>>

NoteVariable(j) ==
  /\ Doing(j, "note")
  /\ ctx' = [ctx EXCEPT ![j].noted = @ \cup {Now(j).key}]
  /\ Go(j)
  /\ UNCHANGED <<writer, diskVars, serverVars, worldVars>>

Dedupe(j) ==
  LET f == Now(j).file
      rest == Tail(prog[j]) IN
  /\ Doing(j, "dedupe")
  /\ prog' = [prog EXCEPT ![j] =
       IF place[f].of = {ctx[j].got} /\ ~place[f].cut /\ Writers(f, "place") = {}
       THEN rest ELSE downloadFile(f, Now(j).digest) \o rest]
  /\ UNCHANGED <<ctx, writer, diskVars, serverVars, worldVars>>

----------------------------------------------------------------------------
(* downloadFile(): a stream into <dest>.part, which two downloads of one    *)
(* destination share, a digest of the stream, and a rename                  *)

Writing(j) == writer[j] # "no"

\* createWriteStream() truncates a .part that is there; whoever writes it goes on.
OpenPart(j) ==
  LET f == Now(j).file IN
  /\ Doing(j, "get")
  /\ part' = [part EXCEPT ![f] =
       [of |-> {ctx[k].got : k \in {j} \cup Writers(f, "part")}, cut |-> FALSE,
        shared |-> Writers(f, "part") # {}]]
  /\ writer' = [writer EXCEPT ![j] = "part"]
  /\ UNCHANGED <<prog, ctx, place, untidy, serverVars, worldVars>>

\* The stream has ended with the right digest.  A rename takes along whoever writes.
Verified(j) ==
  LET f == Now(j).file IN
  /\ Writing(j)
  /\ part[f] # Absent
  /\ place' = [place EXCEPT ![f] = [part[f] EXCEPT !.shared = @ \/ writer[j] # "part"]]
  /\ part' = [part EXCEPT ![f] = Absent]
  /\ writer' = [k \in Jobs |->
       IF k = j THEN "no"
       ELSE IF k \in Writers(f, "part") THEN "place"
       ELSE IF k \in Writers(f, "place") THEN "gone" ELSE writer[k]]
  /\ untidy' = untidy \ {<<"part", f>>}
  /\ Go(j)
  /\ UNCHANGED <<ctx, serverVars, worldVars>>
\* Another download has renamed or removed the .part.
VerifiedTooLate(j) ==
  /\ Writing(j)
  /\ part[Now(j).file] = Absent
  /\ Fails(j)
  /\ UNCHANGED <<diskVars, worldVars>>

\* No digest was published: the refusal leaves the .part.
Unverifiable(j) ==
  LET f == Now(j).file IN
  /\ Writing(j) /\ Now(j).digest = "maybe"
  /\ untidy' = IF part[f] = Absent THEN untidy ELSE untidy \cup {<<"part", f>>}
  /\ Fails(j)
  /\ UNCHANGED <<place, part, worldVars>>

\* Interrupted, too large or with the wrong digest: whatever .part there is goes,
\* and what the stream wrote into a file already renamed stays.
BrokenPromoted(j) ==
  LET f == Now(j).file IN
  /\ Writing(j)
  /\ part[f] # Absent
  /\ place' = [place EXCEPT ![f] = [part[f] EXCEPT !.cut = TRUE]]
  /\ part' = [part EXCEPT ![f] = Absent]
  /\ Fails(j)
  /\ UNCHANGED <<untidy, worldVars>>
Broken(j) ==
  LET f == Now(j).file IN
  /\ Writing(j)
  /\ \E cut \in {place[f].cut, place[f].cut \/ writer[j] = "place"} :
       place' = [place EXCEPT ![f].cut = cut]
  /\ part' = [part EXCEPT ![f] = Absent]
  /\ prog' = [prog EXCEPT ![j] = <<>>]
  /\ ctx' = [ctx EXCEPT ![j] = NoJob]
  /\ writer' = [k \in Jobs |->
       IF k = j THEN "no" ELSE IF k \in Writers(f, "part") THEN "gone" ELSE writer[k]]
  /\ status' = IF j = "install" THEN "install_failed" ELSE status
  /\ untidy' = untidy \ {<<"part", f>>}
  /\ UNCHANGED <<slug, saved, loose, installs, worldVars>>

----------------------------------------------------------------------------
(* Tools: the vendors' installers, tar and unzip, pip *)

RunDone(j) ==
  LET run == Now(j) IN
  /\ Doing(j, "run")
  /\ place' = [f \in Files |-> IF f \in run.outs THEN Whole(ctx[j].got)
                               ELSE IF f = run.from /\ run.finally THEN Absent
                               ELSE place[f]]
  /\ Go(j)
  /\ UNCHANGED <<ctx, writer, part, untidy, serverVars, worldVars>>
\* It may have written some of what it makes, or have made nothing at all.
RunFails(j) ==
  LET run == Now(j) IN
  /\ Doing(j, "run")
  /\ \E half \in SUBSET run.outs :
       place' = [f \in Files |-> IF f \in half THEN Cut({ctx[j].got})
                                 ELSE IF f = run.from /\ run.finally THEN Absent
                                 ELSE place[f]]
  /\ untidy' = IF run.finally THEN untidy ELSE untidy \cup {<<"place", run.from>>}
  /\ Fails(j)
  /\ UNCHANGED <<part, worldVars>>
DropArchive(j) ==
  LET f == Now(j).file IN
  /\ Doing(j, "drop")
  /\ place' = [place EXCEPT ![f] = Absent]
  /\ untidy' = untidy \ {<<"place", f>>}
  /\ Go(j)
  /\ UNCHANGED <<ctx, writer, part, serverVars, worldVars>>

Pythons == <<"py3", "py">>
Python(j) == Head(ctx[j].left)
Piping(j) == Doing(j, "pip") /\ ctx[j].left # <<>>
NextPython(j) ==
  /\ ctx' = [ctx EXCEPT ![j].left = Tail(@)]
  /\ UNCHANGED <<prog, writer, part, untidy, worldVars>>

\* Too old, or the probe fails: an environment made earlier stays.
ProbeFails(j) ==
  /\ Piping(j)
  /\ NextPython(j)
  /\ loose' = IF place[Python(j)] = Absent THEN loose ELSE loose \cup {"probe"}
  /\ UNCHANGED <<place, slug, status, saved, installs>>
MakesVenv(j) ==
  /\ Piping(j) /\ place[Python(j)] = Absent
  /\ place' = [place EXCEPT ![Python(j)] = Cut({})]
  /\ UNCHANGED <<jobVars, part, untidy, serverVars, worldVars>>
VenvFailsKept(j) ==
  /\ Piping(j)
  /\ NextPython(j)
  /\ UNCHANGED <<place, serverVars>>
VenvFails(j) ==
  /\ Piping(j)
  /\ NextPython(j)
  /\ place' = [place EXCEPT ![Python(j)] = Absent]
  /\ UNCHANGED serverVars
\* pip leaves a package that is there as it is.
PipDone(j) ==
  LET has == place[Python(j)].of IN
  /\ Piping(j) /\ place[Python(j)] # Absent
  /\ place' = [place EXCEPT ![Python(j)].of = IF has = {} THEN {Newest} ELSE has,
                            ![Python(j)].cut = FALSE]
  /\ Go(j)
  /\ UNCHANGED <<ctx, writer, part, untidy, serverVars, worldVars>>
PipGivesUp(j) ==
  /\ Doing(j, "pip") /\ ctx[j].left = <<>>
  /\ Fails(j)
  /\ UNCHANGED <<diskVars, worldVars>>

----------------------------------------------------------------------------
(* Jobs begin and end *)

Begin(j, steps, want, asked) ==
  /\ prog' = [prog EXCEPT ![j] = steps \o <<[do |-> "settle"]>>]
  /\ ctx' = [ctx EXCEPT ![j] = [want |-> want, got |-> "none", noted |-> {},
                                asked |-> asked, left |-> Pythons]]
  /\ UNCHANGED <<writer, diskVars, worldVars>>

NewInstall ==
  /\ status # "installing" /\ prog["install"] = <<>> /\ installs < MaxInstalls
  /\ status' = "installing"
  /\ installs' = installs + 1

\* storedVariables(): the blueprint's default is "latest".
Version(s, row) == IF HasVersion(s) /\ row # "none" THEN row ELSE "latest"

\* POST install: refused during an install only, not to a suspended server, and the
\* server is offline.
Reinstall ==
  LET v == Version(slug, saved.mcVersion) IN
  /\ NewInstall
  /\ Begin("install", Blueprint(slug), v, IF HasVersion(slug) THEN v ELSE "none")
  /\ loose' = {}
  /\ UNCHANGED <<slug, saved>>

\* PUT software, past its backup: the row, the variables, and the install.
SwapSoftware(s, v) ==
  LET kept == IF ~HasVersion(s) \/ (v = "none" /\ Category(s) # Category(slug))
              THEN "none" ELSE saved.mcVersion
      row == IF v # "none" /\ HasVersion(s) THEN v ELSE kept IN
  /\ NewInstall /\ status # "suspended"
  /\ slug' = s
  /\ saved' = [mcVersion |-> row,
               derived |-> IF s \in {"forge", "pocketmine-mp"} THEN saved.derived ELSE "none"]
  /\ Begin("install", Blueprint(s), Version(s, row), v)
  /\ loose' = IF v = "none" /\ row = "latest" THEN {"unnoted"} ELSE {}

\* persistInstalledVersion().
Persisted(c) ==
  LET explicit == c.asked \notin {"none", "latest"}
      v == IF explicit THEN c.asked
           ELSE IF ~HasVersion(slug) THEN "none"
           ELSE IF "mcVersion" \in c.noted THEN c.got ELSE c.want IN
  [mcVersion |-> IF v \in Builds /\ (explicit \/ saved.mcVersion \in {"none", c.asked})
                 THEN v ELSE saved.mcVersion,
   derived |-> IF "derived" \in c.noted THEN c.got ELSE saved.derived]

\* The rest of the blueprint (eula-accept, writefile) and the .then() of the install,
\* which ends a suspension.
InstallDone ==
  /\ Doing("install", "settle")
  /\ saved' = Persisted(ctx["install"])
  /\ status' = "ready"
  /\ prog' = [prog EXCEPT !["install"] = <<>>]
  /\ ctx' = [ctx EXCEPT !["install"] = NoJob]
  /\ loose' = loose \ {"suspended"}
  /\ UNCHANGED <<writer, slug, installs, diskVars, worldVars>>

\* POST suspend, whatever the row says, and POST unsuspend, which makes it ready.
Suspend ==
  /\ status # "suspended"
  /\ status' = "suspended"
  /\ loose' = IF status = "ready" THEN loose ELSE loose \cup {"suspended"}
  /\ UNCHANGED <<jobVars, diskVars, slug, saved, installs, worldVars>>
Unsuspend ==
  /\ status = "suspended"
  /\ status' = "ready"
  /\ UNCHANGED <<jobVars, diskVars, slug, saved, loose, installs, worldVars>>

\* POST addons: whatever the server is doing, unless it is suspended.
AskAddons(j, fs) ==
  /\ prog[j] = <<>> /\ status # "suspended"
  /\ modrinthPlatform(slug)
  /\ Begin(j, installModrinthProjects(fs),
           IF saved.mcVersion = "none" THEN "latest" ELSE saved.mcVersion, "none")
  /\ UNCHANGED serverVars
AddonsDone(j) ==
  /\ Doing(j, "settle")
  /\ prog' = [prog EXCEPT ![j] = <<>>]
  /\ ctx' = [ctx EXCEPT ![j] = NoJob]
  /\ UNCHANGED <<writer, diskVars, serverVars, worldVars>>

\* What the add-on routes search for: the version of the row, and for a row that says
\* "latest" the newest, by way of the memo.
mcVersionOf == IF saved.mcVersion = "latest" /\ memo = "none" THEN Newest ELSE memo
SearchAddons ==
  /\ modrinthPlatform(slug) /\ saved.mcVersion # "none"
  /\ memo' = mcVersionOf
  /\ UNCHANGED <<jobVars, diskVars, serverVars, released>>

\* DELETE of an add-on: a stream that goes on writes into nothing.
RemoveAddon(f) ==
  /\ place[f] # Absent /\ status # "suspended"
  /\ place' = [place EXCEPT ![f] = Absent]
  /\ writer' = [j \in Jobs |-> IF j \in Writers(f, "place") THEN "gone" ELSE writer[j]]
  /\ UNCHANGED <<prog, ctx, part, untidy, serverVars, worldVars>>

\* PUT variables, unless the server is suspended.
EditVersion(v) ==
  /\ HasVersion(slug) /\ saved.mcVersion # v /\ status # "suspended"
  /\ saved' = [saved EXCEPT !.mcVersion = v]
  /\ loose' = loose \cup {"edited"}
  /\ UNCHANGED <<jobVars, diskVars, slug, status, installs, worldVars>>

\* The vendors publish, and the memo expires after 30 minutes.
Publish ==
  /\ released < Len(Releases)
  /\ released' = released + 1
  /\ UNCHANGED <<jobVars, diskVars, serverVars, memo>>
MemoExpires ==
  /\ memo # "none"
  /\ memo' = "none"
  /\ UNCHANGED <<jobVars, diskVars, serverVars, released>>

\* The panel ends, at any step, and begins again.
PanelRestarts ==
  /\ \E j \in Jobs : prog[j] # <<>>
  /\ prog' = [j \in Jobs |-> <<>>]
  /\ ctx' = [j \in Jobs |-> NoJob]
  /\ writer' = [j \in Jobs |-> "no"]
  /\ status' = IF status = "installing" THEN "install_failed" ELSE status
  /\ part' = [f \in Files |-> IF Writers(f, "part") = {} THEN part[f]
                              ELSE [part[f] EXCEPT !.cut = TRUE]]
  /\ place' = [f \in Files |-> IF Writers(f, "place") = {} THEN place[f]
                               ELSE [place[f] EXCEPT !.cut = TRUE]]
  /\ untidy' = untidy \cup {<<"part", f>> : f \in {g \in Files : part[g] # Absent}}
                      \cup {<<"place", f>> : f \in {g \in Archives : place[g] # Absent}}
  /\ memo' = "none"
  /\ UNCHANGED <<slug, saved, loose, installs, released>>

\* Creation runs the blueprint with its defaults, whatever was saved.
InstallInit ==
  /\ slug \in Slugs
  /\ status = "installing"
  /\ saved = [mcVersion |-> "none", derived |-> "none"]
  /\ released = 1
  /\ memo = "none"
  /\ prog = [j \in Jobs |-> IF j = "install" THEN Blueprint(slug) \o <<[do |-> "settle"]>>
                            ELSE <<>>]
  /\ ctx = [j \in Jobs |-> IF j = "install"
              THEN [want |-> "latest", got |-> "none", noted |-> {},
                    asked |-> IF HasVersion(slug) THEN "latest" ELSE "none", left |-> Pythons]
              ELSE NoJob]
  /\ place = [f \in Files |-> Absent]
  /\ part = [f \in Files |-> Absent]
  /\ writer = [j \in Jobs |-> "no"]
  /\ untidy = {}
  /\ loose = {}
  /\ installs = 1

Download(j) ==
  OpenPart(j) \/ Verified(j) \/ VerifiedTooLate(j) \/ Unverifiable(j) \/ Broken(j)
Tool(j) ==
  \/ RunDone(j) \/ RunFails(j) \/ DropArchive(j)
  \/ ProbeFails(j) \/ MakesVenv(j) \/ VenvFails(j) \/ PipDone(j) \/ PipGivesUp(j)

InstallNext ==
  \/ \E j \in Jobs :
       \/ AskFails(j) \/ Answered(j) \/ ResolveVersion(j) \/ NoteVariable(j) \/ Dedupe(j)
       \/ Download(j) \/ Tool(j)
  \/ Reinstall \/ InstallDone \/ Suspend \/ Unsuspend
  \/ \E s \in Slugs, v \in Builds \cup {"none"} : SwapSoftware(s, v)
  \/ \E j \in Adders : AddonsDone(j) \/ \E fs \in Projects : AskAddons(j, fs)
  \/ SearchAddons
  \/ \E f \in Addons : RemoveAddon(f)
  \/ \E v \in Builds \cup {"latest"} : EditVersion(v)
  \/ Publish \/ MemoExpires \/ PanelRestarts

InstallSpec == InstallInit /\ [][InstallNext]_installVars

----------------------------------------------------------------------------
(* Properties *)

Step ==
  [do : {"ask", "pip", "settle"}] \cup [do : {"resolve"}, how : {"newest", "memo"}]
  \cup [do : {"get", "dedupe"}, file : Fetched, digest : {"sure", "maybe"}]
  \cup [do : {"run"}, outs : SUBSET Files, from : Fetched, finally : BOOLEAN]
  \cup [do : {"drop"}, file : Fetched] \cup [do : {"note"}, key : {"mcVersion", "derived"}]

Context ==
  [want : Builds \cup {"none", "latest"}, got : Builds \cup {"none"},
   noted : SUBSET {"mcVersion", "derived"}, asked : Builds \cup {"none", "latest"},
   left : {<<>>, <<"py">>, Pythons}]

\* The type invariant; a stream is open in a download only, and the server is
\* installing as long as its install runs, unless it was suspended since.
InstallTypeOK ==
  /\ slug \in Slugs /\ status \in {"installing", "ready", "install_failed", "suspended"}
  /\ saved \in [mcVersion : Builds \cup {"none", "latest"}, derived : Builds \cup {"none"}]
  /\ released \in DOMAIN Releases /\ memo \in Builds \cup {"none"}
  /\ prog \in [Jobs -> Seq(Step)]
  /\ ctx \in [Jobs -> Context]
  /\ \A j \in Jobs : writer[j] # "no" => prog[j] # <<>> /\ Now(j).do = "get"
  /\ place \in [Files -> Content] /\ part \in [Files -> Content]
  /\ writer \in [Jobs -> {"no", "part", "place", "gone"}]
  /\ untidy \subseteq {"part", "place"} \X Files
  /\ loose \subseteq {"edited", "unnoted", "probe", "suspended"}
  /\ installs \in 1..MaxInstalls
  /\ status = "installing" => prog["install"] # <<>>
  /\ prog["install"] # <<>> => status = "installing" \/ "suspended" \in loose

\* A file in place is the verified file of one version, whole and written by nobody,
\* unless two downloads of it overlapped (server.jar is also what the mod loaders'
\* installers make, who may stop half way).
InPlaceIsWhole ==
  \A f \in Fetched : place[f] # Absent /\ ~place[f].shared =>
    /\ \E b \in Builds : place[f] = Whole(b) \/ f = "server.jar"
    /\ Writers(f, "place") = {}

\* What the engine launches for each blueprint; of the environments it takes the
\* first that is there (LocalProcessEngine.start).
Interpreter == IF place["py3"] # Absent THEN "py3" ELSE "py"
Launched(s) ==
  CASE s = "paper" -> {"paper.jar"} [] s = "vanilla" -> {"server.jar"}
    [] s = "purpur" -> {"purpur.jar"} [] s = "velocity" -> {"velocity.jar"}
    [] s = "fabric" -> {"launcher", "server.jar"} [] s = "forge" -> {"args", "server.jar"}
    [] s = "bedrock-bds" -> {"bedrock_server"} [] s = "pocketmine-mp" -> {"phar", "php"}
    [] s = "endstone" -> {Interpreter}
Recorded(s) ==
  CASE s \in {"paper", "vanilla", "purpur", "fabric"} -> {saved.mcVersion}
    [] s = "forge" -> {saved.mcVersion, saved.derived}
    [] s = "pocketmine-mp" -> {saved.derived}
    [] OTHER -> {}

\* What it launches is there, whole and of one version, and the variables that the run
\* command and the add-on search read name that version.
Runnable ==
  \E b \in Builds :
    /\ \A f \in Launched(slug) : place[f] = Whole(b)
    /\ Recorded(slug) \subseteq {b}

\* A ready server can run; unless a person changed the version, the swap kept a row
\* that says latest, an interpreter whose environment is there stopped answering, or
\* the server was suspended during its install or after one that failed: the end of a
\* suspension makes any row ready, and the next install that succeeds repairs it.
ReadyIsRunnable == status = "ready" /\ loose = {} => Runnable

\* When nothing runs, no .part file, installer or archive is left over, except for a
\* download refused for want of a digest, an archive that did not extract, and the
\* jobs that a restart ended.
TidyWhenIdle ==
  (\A j \in Jobs : prog[j] = <<>>) =>
    /\ \A f \in Fetched : part[f] # Absent => <<"part", f>> \in untidy
    /\ \A f \in Archives : place[f] # Absent => <<"place", f>> \in untidy

----------------------------------------------------------------------------
(* The strengthening that makes the invariants inductive *)

Tools == {"launcher", "args", "php", "bedrock_server", "server.jar"}
Makes(step, f) == (step.do = "get" /\ step.file = f) \/ (step.do = "run" /\ f \in step.outs)

\* What may come after what in a program of job j: each archive is unpacked as soon as
\* it is there and then dropped, and only the install touches the blueprint's files.
Follows(j, now, next) ==
  /\ now.do # "settle"
  /\ now.do = "get" => now.file \in (IF j = "install" THEN Jars ELSE Addons)
  /\ now.do = "get" /\ now.file \in Archives => next.do = "run" /\ next.from = now.file
  /\ now.do = "run" =>
       /\ j = "install" /\ now.from \in Archives /\ now.outs \subseteq Tools
       /\ ~now.finally => next.do = "drop" /\ next.file = now.from
  /\ now.do = "drop" => j = "install" /\ now.file \in Archives
  /\ now.do \in {"note", "pip"} => j = "install"
  /\ now.do = "dedupe" => j # "install" /\ now.file \in Addons

\* ... and versions are resolved before anything is fetched or made.
Shaped(j, p) ==
  /\ p[Len(p)].do = "settle"
  /\ \A i \in 1..(Len(p) - 1) : Follows(j, p[i], p[i + 1])
  /\ \A i, k \in DOMAIN p : i < k /\ p[i].do \in {"dedupe", "get", "run"} => p[k].do # "resolve"

\* A version is known before a step that needs one.
Versioned(got, p) ==
  \A i \in DOMAIN p : p[i].do \in {"get", "dedupe", "run", "note"} =>
    got \in Builds \/ \E k \in 1..(i - 1) : p[k].do = "resolve"

ProgramInv ==
  \A j \in Jobs : prog[j] # <<>> =>
    Shaped(j, prog[j]) /\ Versioned(ctx[j].got, prog[j]) /\ ctx[j].want # "none"

\* The install is alone with its files; a stream that goes to a .part file has the
\* whole of it, alone or shared; one that goes to a file in place was renamed along.
DownloadInv ==
  /\ writer["install"] \in {"no", "part"} /\ \A f \in Jars : ~part[f].shared
  /\ \A j \in Jobs : LET f == Now(j).file IN
       /\ writer[j] = "part" =>
            /\ part[f] # Absent
            /\ ~part[f].shared => part[f] = Whole(ctx[j].got) /\ Writers(f, "part") = {j}
       /\ writer[j] = "place" => place[f].shared

\* What is left over has a reason: someone at work on it, or the exceptions.
LeftInv ==
  /\ \A f \in Files : part[f] # Absent => <<"part", f>> \in untidy \/ Writers(f, "part") # {}
  /\ \A f \in Archives : place[f] # Absent =>
       \/ <<"place", f>> \in untidy
       \/ /\ prog["install"] # <<>>
          /\ LET now == Now("install") IN
               (now.do = "run" /\ now.from = f) \/ (now.do = "drop" /\ now.file = f)

\* pip never mixes versions in one environment.
EnvInv ==
  \A f \in {"py3", "py"} : ~place[f].shared /\ (place[f].of = {} \/ \E b \in Builds : place[f].of = {b})

\* The install of `s` with what is ahead of it in p and what it noted in c.
NoteKeys(s) ==
  (IF s \in {"paper", "vanilla", "purpur", "fabric", "forge"} THEN {"mcVersion"} ELSE {})
  \cup (IF s \in {"forge", "pocketmine-mp"} THEN {"derived"} ELSE {})
\* It was asked for a version, or for none and takes the one of the row, or the row
\* takes what it gets.
Agree(c) ==
  \/ c.asked \in Builds /\ c.want = c.asked
  \/ c.asked \notin Builds /\ saved.mcVersion \in {"none", c.asked}
  \/ c.asked \notin Builds /\ saved.mcVersion \in Builds /\ c.want = saved.mcVersion
Resolved(p) == \A i \in DOMAIN p : p[i].do # "resolve"

\* The install runs, of what is recorded.
Sound == prog["install"] # <<>> /\ loose \subseteq {"suspended"}
FetchInv ==
  LET p == prog["install"]
      c == ctx["install"] IN
  Sound /\ slug # "endstone" =>
    /\ \A f \in Launched(slug) :
         (\E i \in DOMAIN p : Makes(p[i], f)) \/ (place[f] = Whole(c.got) /\ Resolved(p))
    /\ \A k \in NoteKeys(slug) : k \in c.noted \/ \E i \in DOMAIN p : p[i].do = "note" /\ p[i].key = k
    /\ Resolved(p) => c.got \in Builds /\ c.want \in {"latest", c.got}
    /\ "mcVersion" \in NoteKeys(slug) => Agree(c)

\* The interpreters before the one that is tried have no environment.
PipInv ==
  LET p == prog["install"] IN
  Sound /\ slug = "endstone" =>
    \/ /\ p = <<[do |-> "pip"], [do |-> "settle"]>>
       /\ ctx["install"].left # Pythons => place["py3"] = Absent
    \/ /\ p = <<[do |-> "settle"]>>
       /\ \E b \in Builds : place[Interpreter] = Whole(b)

\* A suspension keeps a ready server as it is.
SettledInv == status \in {"ready", "suspended"} /\ loose = {} => Runnable

InstallInv ==
  /\ InstallTypeOK /\ ProgramInv /\ DownloadInv /\ LeftInv /\ EnvInv
  /\ InPlaceIsWhole /\ FetchInv /\ PipInv /\ SettledInv
=============================================================================
