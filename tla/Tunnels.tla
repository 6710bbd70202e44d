------------------------------- MODULE Tunnels ------------------------------
(***************************************************************************)
(* Tunnel endpoints: variables of servers that no two servers may share,   *)
(* reserved before the plugin is downloaded and released if that fails.    *)
(* Names are valid: migration 0005 repaired those that older panels stored, *)
(* so the engine's own repair at a start finds nothing to do.              *)
(***************************************************************************)
EXTENDS Integers

CONSTANTS TunnelServers, Names, Requests, NoName

ASSUME TunnelsAssumption == NoName \notin Names \cup TunnelServers

VARIABLES
  row,        \* the server's row: "no", "live" or "deleted" (the variables stay)
  endpoint,   \* the variable tunnel.endpoint, or NoName
  provider,   \* whether the variable tunnel.provider is there
  jar,        \* whether the plugin is in the server's directory
  claim,      \* what each request awaiting installPlugin() has reserved
  kept,       \* history: the endpoint of the last change, once it succeeded
  shared      \* history: two requests awaited with one endpoint of one server

tunnelVars == <<row, endpoint, provider, jar, claim, kept, shared>>

NoClaim == [server |-> NoName, name |-> NoName, last |-> FALSE]
Claim == [server : TunnelServers, name : Names, last : BOOLEAN]

TunnelTypeOK ==
  /\ row \in [TunnelServers -> {"no", "live", "deleted"}]
  /\ endpoint \in [TunnelServers -> Names \cup {NoName}]
  /\ provider \in [TunnelServers -> BOOLEAN]
  /\ jar \in [TunnelServers -> BOOLEAN]
  /\ claim \in [Requests -> Claim \cup {NoClaim}]
  /\ kept \in [TunnelServers -> Names \cup {NoName}]
  /\ shared \in [TunnelServers -> BOOLEAN]
  /\ \A s \in TunnelServers : endpoint[s] # NoName => provider[s] /\ row[s] # "no"

TunnelInit ==
  /\ row = [s \in TunnelServers |-> "no"]
  /\ endpoint = [s \in TunnelServers |-> NoName]
  /\ provider = [s \in TunnelServers |-> FALSE]
  /\ jar = [s \in TunnelServers |-> FALSE]
  /\ claim = [r \in Requests |-> NoClaim]
  /\ kept = [s \in TunnelServers |-> NoName]
  /\ shared = [s \in TunnelServers |-> FALSE]

----------------------------------------------------------------------------

\* Rows of deleted servers count: their variables stay.
EndpointTaken(n, s) == \E t \in TunnelServers \ {s} : endpoint[t] = n

Awaiting(s) == {r \in Requests : claim[r].server = s}

\* The reservation: both rows are written before the first await, and the
\* request waits in installPlugin().
Reserve(r, s, n) ==
  /\ claim[r] = NoClaim
  /\ ~EndpointTaken(n, s)
  /\ endpoint' = [endpoint EXCEPT ![s] = n]
  /\ provider' = [provider EXCEPT ![s] = TRUE]
  /\ claim' = [q \in Requests |->
                IF q = r THEN [server |-> s, name |-> n, last |-> TRUE]
                ELSE IF q \in Awaiting(s) THEN [claim[q] EXCEPT !.last = FALSE]
                ELSE claim[q]]
  /\ kept' = [kept EXCEPT ![s] = NoName]
  /\ shared' = [shared EXCEPT ![s] = \E q \in Awaiting(s) : @ \/ claim[q].name = n]

\* POST of the tunnel, for a name given or generated.
EnableTunnel(r, s, n) ==
  /\ row[s] = "live"
  /\ Reserve(r, s, n)
  /\ UNCHANGED <<row, jar>>

\* Creation of a server whose blueprint takes the plugin reserves a generated
\* name in the same handler.
CreateTunnelled(r, s, n) ==
  /\ row[s] = "no"
  /\ row' = [row EXCEPT ![s] = "live"]
  /\ Reserve(r, s, n)
  /\ UNCHANGED jar
CreatePlain(s) ==
  /\ row[s] = "no"
  /\ row' = [row EXCEPT ![s] = "live"]
  /\ UNCHANGED <<endpoint, provider, jar, claim, kept, shared>>

\* The plugin is there, or its download has ended.
PluginInstalled(r) ==
  LET s == claim[r].server IN
  /\ claim[r] # NoClaim
  /\ jar' = [jar EXCEPT ![s] = TRUE]
  /\ kept' = [kept EXCEPT ![s] = IF claim[r].last THEN claim[r].name ELSE @]
  /\ claim' = [claim EXCEPT ![r] = NoClaim]
  /\ UNCHANGED <<row, endpoint, provider, shared>>

\* The compensation deletes by value; the provider row stays.
PluginFailsDeletesAny(r) ==
  LET s == claim[r].server IN
  /\ claim[r] # NoClaim
  /\ endpoint' = [endpoint EXCEPT ![s] = NoName]
  /\ claim' = [claim EXCEPT ![r] = NoClaim]
  /\ UNCHANGED <<row, provider, jar, kept, shared>>
PluginFails(r) ==
  LET s == claim[r].server IN
  /\ claim[r] # NoClaim
  /\ endpoint' = [endpoint EXCEPT ![s] = IF @ = claim[r].name THEN NoName ELSE @]
  /\ claim' = [claim EXCEPT ![r] = NoClaim]
  /\ UNCHANGED <<row, provider, jar, kept, shared>>

\* Both variables go, whoever awaits.
ForgetTunnel(s) ==
  /\ endpoint' = [endpoint EXCEPT ![s] = NoName]
  /\ provider' = [provider EXCEPT ![s] = FALSE]
  /\ claim' = [r \in Requests |-> IF r \in Awaiting(s)
                                 THEN [claim[r] EXCEPT !.last = FALSE] ELSE claim[r]]
  /\ kept' = [kept EXCEPT ![s] = NoName]
  /\ UNCHANGED <<row, jar, shared>>

\* DELETE of the tunnel.
DisableTunnelHalf(s) ==
  /\ row[s] = "live"
  /\ provider' = [provider EXCEPT ![s] = FALSE]
  /\ kept' = [kept EXCEPT ![s] = NoName]
  /\ UNCHANGED <<row, endpoint, jar, claim, shared>>
DisableTunnel(s) == row[s] = "live" /\ ForgetTunnel(s)

\* A switch to software that does not take the plugin forgets every variable that
\* software does not declare.  It does so after its awaited backup, and does not
\* look again whether the server is still there.
SwapDropsTunnel(s) == row[s] # "no" /\ ForgetTunnel(s)

\* A person deletes the plugin, or a switch of software clears it away.
JarGoes(s) ==
  /\ jar[s]
  /\ jar' = [jar EXCEPT ![s] = FALSE]
  /\ UNCHANGED <<row, endpoint, provider, claim, kept, shared>>

\* Soft deletion leaves the variables.
RemoveTunnelled(s) ==
  /\ row[s] = "live"
  /\ row' = [row EXCEPT ![s] = "deleted"]
  /\ UNCHANGED <<endpoint, provider, jar, claim, kept, shared>>

\* The panel ends and begins again with the database and the directories.
RequestsEnd ==
  /\ claim' = [r \in Requests |-> NoClaim]
  /\ UNCHANGED <<row, endpoint, provider, jar, kept, shared>>

TunnelNext ==
  \/ \E s \in TunnelServers :
       \/ \E r \in Requests, n \in Names : CreateTunnelled(r, s, n) \/ EnableTunnel(r, s, n)
       \/ CreatePlain(s) \/ DisableTunnel(s) \/ SwapDropsTunnel(s) \/ JarGoes(s) \/ RemoveTunnelled(s)
  \/ \E r \in Requests : PluginInstalled(r) \/ PluginFails(r)
  \/ RequestsEnd

TunnelSpec == TunnelInit /\ [][TunnelNext]_tunnelVars

----------------------------------------------------------------------------
(* Properties *)

\* No endpoint belongs to two servers, through any number of reservations,
\* failed installations, deletions and restarts.
EndpointsDistinct ==
  \A s, t \in TunnelServers : s # t /\ endpoint[s] = endpoint[t] => endpoint[s] = NoName

\* An endpoint whose request was the last to change the tunnel and succeeded
\* stays until the next change (another request, a disabling, or a switch to
\* software without the plugin): no earlier request's compensation takes it away,
\* except where two requests of one server awaited with the same endpoint.
KeptUnlessShared ==
  \A s \in TunnelServers :
    kept[s] # NoName /\ ~shared[s] => endpoint[s] = kept[s] /\ provider[s]

\* What a tunnel promises: an address of its own that stays.
EndpointsKept == EndpointsDistinct /\ KeptUnlessShared
=============================================================================
