------------------------------- MODULE Access -------------------------------
(***************************************************************************)
(* Who may do what, and what stays open when that changes: accounts, their *)
(* roles and passwords, sessions, API keys, grants on servers, and the     *)
(* console sockets, which keep the principal of their handshake.           *)
(***************************************************************************)
EXTENDS Integers, FiniteSets

CONSTANTS Users, Servers, Keys, Sockets,
          Perms,               \* the permissions a grant or a key may name
          Connect, Invite, Expel, \* websocket.connect, user.create, user.delete
          Offered,             \* the scope sets that requests ask for
          Nobody,
          MaxVersion,          \* bound on the password version of an account
          MaxSessions          \* bound on the tokens about and on the logins under way

ASSUME AccessAssumption == /\ {Connect, Invite, Expel} \subseteq Perms /\ "*" \notin Perms
                           /\ Offered \subseteq {{"*"}} \cup SUBSET Perms
                           /\ Nobody \notin Users \cup Keys
                           /\ MaxVersion \in Nat /\ MaxSessions \in Nat

VARIABLES
  role,       \* "none", "user", "admin", "owner", or "gone" for a deleted account
  suspended,  \* accounts
  version,    \* users.password_version
  secret,     \* which of its passwords is an account's present one
  ownerOf,    \* servers.owner_id
  status,     \* "none", "ready", "suspended", "deleted"
  grants,     \* the rows of subusers
  key,        \* API keys: whose, which scopes, and "live", "expired" or "revoked"
  login,      \* logins between verification and signature
  sessions,   \* the tokens signed and not past their lifetime
  sock        \* console sockets

vars == <<role, suspended, version, secret, ownerOf, status, grants, key, login,
          sessions, sock>>
accounts == <<role, suspended, version, secret>>

All == {"*"}
Scopes == {All} \cup SUBSET Perms
Roles == {"user", "admin", "owner"}
Grant == [server : Servers, user : Users, perms : Scopes, by : Users]
Session == [user : Users, version : 0..MaxVersion, secret : 0..MaxVersion]
NoKey == [user |-> Nobody, scopes |-> {}, state |-> "none"]
KeyRecord == [user : Users, scopes : Scopes, state : {"live", "expired", "revoked"}]
NoSocket == [user |-> Nobody, role |-> "none", key |-> Nobody, joined |-> {}, lapsed |-> {}]
Socket == [user : Users, role : Roles, key : Keys \cup {Nobody},
           joined : SUBSET Servers, lapsed : SUBSET Servers]

TypeOK ==
  /\ role \in [Users -> Roles \cup {"none", "gone"}]
  /\ suspended \in [Users -> BOOLEAN]
  /\ version \in [Users -> 0..MaxVersion]
  /\ secret \in [Users -> 0..MaxVersion]
  /\ ownerOf \in [Servers -> Users \cup {Nobody}]
  /\ status \in [Servers -> {"none", "ready", "suspended", "deleted"}]
  /\ \A s \in Servers : ownerOf[s] = Nobody <=> status[s] = "none"
  /\ grants \subseteq Grant
  /\ key \in [Keys -> KeyRecord \cup {NoKey}]
  /\ login \subseteq Session
  /\ sessions \subseteq Session
  /\ sock \in [Sockets -> Socket \cup {NoSocket}]

Init ==
  /\ role = [u \in Users |-> "none"]
  /\ suspended = [u \in Users |-> FALSE]
  /\ version = [u \in Users |-> 0]
  /\ secret = [u \in Users |-> 0]
  /\ ownerOf = [s \in Servers |-> Nobody]
  /\ status = [s \in Servers |-> "none"]
  /\ grants = {}
  /\ key = [k \in Keys |-> NoKey]
  /\ login = {}
  /\ sessions = {}
  /\ sock = [c \in Sockets |-> NoSocket]

----------------------------------------------------------------------------
(* Permissions *)

Account(u) == role[u] \in Roles
Active(u) == Account(u) /\ ~suspended[u]
Privileged(r) == r \in {"admin", "owner"}

\* resolveEffectivePermissions(), with the role the caller holds of the user.
GrantedTo(u, s) == UNION {g.perms : g \in {h \in grants : h.user = u /\ h.server = s}}
Effective(u, r, s) ==
  IF Privileged(r) THEN All
  ELSE IF ownerOf[s] = u THEN All ELSE GrantedTo(u, s)

\* intersectScopes(): a session narrows nothing, "*" on either side yields the other.
Intersect(effective, scopes) ==
  IF scopes = All THEN effective
  ELSE IF effective = All THEN scopes ELSE effective \cap scopes

HasPermission(held, p) == p \in held \/ held = All

\* authenticateToken(): a session must carry the current password version, a key
\* must be live, and the account active.
Accepts(t) == Active(t.user) /\ t.version = version[t.user]
KeyAccepted(k) == key[k].state = "live" /\ Active(key[k].user)

\* A principal: an account and what its credential narrows it to.
Principals ==
  {[user |-> t.user, role |-> role[t.user], key |-> Nobody, scopes |-> All] :
     t \in {t \in sessions : Accepts(t)}}
  \cup {[user |-> key[k].user, role |-> role[key[k].user], key |-> k, scopes |-> key[k].scopes] :
     k \in {k \in Keys : KeyAccepted(k)}}

May(p, s, perm) ==
  /\ status[s] \in {"ready", "suspended"}
  /\ HasPermission(Intersect(Effective(p.user, p.role, s), p.scopes), perm)

\* requireAdmin: a scoped key never inherits the role of its account.
Administers(p) == Privileged(p.role) /\ p.scopes = All

\* The rule of the user routes: admins change users, the owner changes anybody.
MayChange(p, u) == Administers(p) /\ (role[u] = "user" \/ p.role = "owner")

----------------------------------------------------------------------------
(* Cutting sockets *)

Leave(c, S) == IF c = NoSocket THEN NoSocket
               ELSE [c EXCEPT !.joined = @ \ S, !.lapsed = @ \ S]
DropGrants(S, U) == [c \in Sockets |-> IF sock[c].user \in U THEN Leave(sock[c], S) ELSE sock[c]]
DisconnectUser(u) == [c \in Sockets |-> IF sock[c].user = u THEN NoSocket ELSE sock[c]]
DropKey(k) == [c \in Sockets |-> IF sock[c].key = k THEN NoSocket ELSE sock[c]]

----------------------------------------------------------------------------
(* Accounts *)

\* The first account, from the setup page or the command line: the emptiness
\* check and the insertion are one transaction.
Setup(u) ==
  /\ \A v \in Users : role[v] \notin Roles
  /\ role[u] = "none"
  /\ role' = [role EXCEPT ![u] = "owner"]
  /\ UNCHANGED <<suspended, version, secret, ownerOf, status, grants, key, login, sessions, sock>>

CreateUser(p, u, r) ==
  /\ role[u] = "none"
  /\ Administers(p) /\ (r = "admin" => p.role = "owner")
  /\ role' = [role EXCEPT ![u] = r]
  /\ UNCHANGED <<suspended, version, secret, ownerOf, status, grants, key, login, sessions, sock>>

\* A password change on the account page, by an administrator, or (without
\* cutting sockets, as it is another process) from the command line.  The routes
\* write hash and version in two statements without a transaction, so the panel can
\* end between them: then secret[u] > version[u], and the sessions of the old
\* password still carry the present version.
SetPassword(u) ==
  /\ version[u] < MaxVersion
  /\ version' = [version EXCEPT ![u] = @ + 1]
  /\ secret' = [secret EXCEPT ![u] = version[u] + 1]

MaySetPassword(p, u) ==
  \/ p.user = u /\ p.key = Nobody
  \/ Account(u) /\ MayChange(p, u)

ChangePassword(p, u) ==
  /\ MaySetPassword(p, u)
  /\ SetPassword(u)
  /\ sock' = DisconnectUser(u)
  /\ UNCHANGED <<role, suspended, ownerOf, status, grants, key, login, sessions>>

EndsInPassword(p, u) ==
  /\ MaySetPassword(p, u)
  /\ version[u] < MaxVersion
  /\ secret' = [secret EXCEPT ![u] = version[u] + 1]
  /\ login' = {}
  /\ sock' = [c \in Sockets |-> NoSocket]
  /\ UNCHANGED <<role, suspended, version, ownerOf, status, grants, key, sessions>>

ResetPassword(u) ==
  /\ Account(u)
  /\ SetPassword(u)
  /\ UNCHANGED <<role, suspended, ownerOf, status, grants, key, login, sessions, sock>>

\* PATCH of a user: a new role, or a suspension, bumps the password version and
\* cuts the sockets; resuming does neither.
BumpOnly(u) ==
  /\ version[u] < MaxVersion
  /\ version' = [version EXCEPT ![u] = @ + 1]
  /\ UNCHANGED sock
Bump(u) ==
  /\ version[u] < MaxVersion
  /\ version' = [version EXCEPT ![u] = @ + 1]
  /\ sock' = DisconnectUser(u)

ChangeRole(p, u, r) ==
  /\ Account(u) /\ role[u] \notin {"owner", r} /\ r \in {"user", "admin"}
  /\ MayChange(p, u) /\ (r = "admin" => p.role = "owner")
  /\ role' = [role EXCEPT ![u] = r]
  /\ Bump(u)
  /\ UNCHANGED <<suspended, secret, ownerOf, status, grants, key, login, sessions>>

SuspendUser(p, u) ==
  /\ Account(u) /\ role[u] # "owner" /\ MayChange(p, u)
  /\ suspended' = [suspended EXCEPT ![u] = TRUE]
  /\ Bump(u)
  /\ UNCHANGED <<role, secret, ownerOf, status, grants, key, login, sessions>>

ResumeUser(p, u) ==
  /\ Account(u) /\ suspended[u] /\ MayChange(p, u)
  /\ suspended' = [suspended EXCEPT ![u] = FALSE]
  /\ UNCHANGED <<role, version, secret, ownerOf, status, grants, key, login, sessions, sock>>

\* Deletion transfers the live servers and takes the account's grants with it,
\* those it holds and those it gave.  A deleted server's row still names its
\* owner, which makes the whole transaction fail.  Only the sockets of the
\* account itself are cut.
Lapsing(c, u) ==
  {s \in c.joined : \E g \in grants : g.by = u /\ g.user = c.user /\ g.server = s}
Forget(u) ==
  /\ grants' = {g \in grants : u \notin {g.user, g.by}}
  /\ role' = [role EXCEPT ![u] = "gone"]
  /\ key' = [k \in Keys |-> IF key[k].user = u THEN NoKey ELSE key[k]]
  /\ sock' = [c \in Sockets |->
               IF sock[c].user = u \/ sock[c] = NoSocket THEN NoSocket
               ELSE [sock[c] EXCEPT !.lapsed = @ \cup Lapsing(sock[c], u)]]
  /\ UNCHANGED <<suspended, version, secret, status, login, sessions>>
MayDelete(p, u) == Account(u) /\ u # p.user /\ role[u] # "owner" /\ MayChange(p, u)
Inherited(u, heir) == [s \in Servers |-> IF ownerOf[s] = u THEN heir ELSE ownerOf[s]]
DeleteUserUnheired(p, u, heir) ==
  /\ MayDelete(p, u)
  /\ heir \in Users => heir # u /\ Active(heir)
  /\ ownerOf' = Inherited(u, heir)
  /\ Forget(u)
DeleteUser(p, u, heir) ==
  /\ MayDelete(p, u)
  /\ heir \in Users => heir # u /\ Active(heir)
  /\ \A s \in Servers : ownerOf[s] = u => heir # Nobody /\ status[s] # "deleted"
  /\ ownerOf' = Inherited(u, heir)
  /\ Forget(u)

----------------------------------------------------------------------------
(* Credentials *)

\* A login reads and verifies the account, sleeps, and then signs what it read.
BeginLogin(u) ==
  /\ Active(u) /\ Cardinality(login) < MaxSessions
  /\ login' = login \cup {[user |-> u, version |-> version[u], secret |-> secret[u]]}
  /\ UNCHANGED <<accounts, ownerOf, status, grants, key, sessions, sock>>

EndLoginRereads(l) ==
  /\ Cardinality(sessions) < MaxSessions
  /\ login' = login \ {l}
  /\ sessions' = sessions \cup {[l EXCEPT !.version = version[l.user]]}
  /\ UNCHANGED <<accounts, ownerOf, status, grants, key, sock>>
EndLogin(l) ==
  /\ Cardinality(sessions) < MaxSessions
  /\ login' = login \ {l}
  /\ sessions' = sessions \cup {l}
  /\ UNCHANGED <<accounts, ownerOf, status, grants, key, sock>>

SessionExpires(t) ==
  /\ sessions' = sessions \ {t}
  /\ UNCHANGED <<accounts, ownerOf, status, grants, key, login, sock>>

\* Keys are minted and revoked by a session or a full key.
CreateKey(p, k, scopes) ==
  /\ p.scopes = All /\ key[k] = NoKey
  /\ key' = [key EXCEPT ![k] = [user |-> p.user, scopes |-> scopes, state |-> "live"]]
  /\ UNCHANGED <<accounts, ownerOf, status, grants, login, sessions, sock>>

RevokeKey(p, k) ==
  /\ p.scopes = All /\ key[k].user = p.user /\ key[k].state # "revoked"
  /\ key' = [key EXCEPT ![k].state = "revoked"]
  /\ sock' = DropKey(k)
  /\ UNCHANGED <<accounts, ownerOf, status, grants, login, sessions>>

KeyExpires(k) ==
  /\ key[k].state = "live"
  /\ key' = [key EXCEPT ![k].state = "expired"]
  /\ UNCHANGED <<accounts, ownerOf, status, grants, login, sessions, sock>>

----------------------------------------------------------------------------
(* Servers and grants *)

\* An administrator may create a server for another account.
CreateServer(p, s, u) ==
  /\ status[s] = "none" /\ p.scopes = All
  /\ u # p.user => Privileged(p.role)
  /\ Active(u)
  /\ status' = [status EXCEPT ![s] = "ready"]
  /\ ownerOf' = [ownerOf EXCEPT ![s] = u]
  /\ UNCHANGED <<accounts, grants, key, login, sessions, sock>>

\* Suspending and deleting cut every subscription in the step that writes the row.
SetStatus(p, s, from, to) ==
  /\ Administers(p) /\ status[s] \in from
  /\ status' = [status EXCEPT ![s] = to]
  /\ sock' = DropGrants({s}, Users)
  /\ UNCHANGED <<accounts, ownerOf, grants, key, login, sessions>>
SuspendServer(p, s) == SetStatus(p, s, {"ready", "suspended"}, "suspended")
DeleteServer(p, s) == SetStatus(p, s, {"ready", "suspended"}, "deleted")

UnsuspendServer(p, s) ==
  /\ Administers(p) /\ status[s] = "suspended"
  /\ status' = [status EXCEPT ![s] = "ready"]
  /\ UNCHANGED <<accounts, ownerOf, grants, key, login, sessions, sock>>

\* A grant names one account per server once, and stays inside the grantor's own.
AddGrant(p, s, u, perms) ==
  /\ status[s] = "ready" /\ May(p, s, Invite)
  /\ LET ceiling == Intersect(Effective(p.user, p.role, s), p.scopes) IN
       ceiling = All \/ (perms # All /\ perms \subseteq ceiling)
  /\ Account(u) /\ u # ownerOf[s]
  /\ \A g \in grants : <<g.server, g.user>> # <<s, u>>
  /\ grants' = grants \cup {[server |-> s, user |-> u, perms |-> perms, by |-> p.user]}
  /\ UNCHANGED <<accounts, ownerOf, status, key, login, sessions, sock>>

RemoveGrantKeepsStream(p, g) ==
  /\ status[g.server] = "ready" /\ May(p, g.server, Expel)
  /\ grants' = grants \ {g}
  /\ UNCHANGED <<accounts, ownerOf, status, key, login, sessions, sock>>
RemoveGrant(p, g) ==
  /\ status[g.server] = "ready" /\ May(p, g.server, Expel)
  /\ grants' = grants \ {g}
  /\ sock' = DropGrants({g.server}, {g.user})
  /\ UNCHANGED <<accounts, ownerOf, status, key, login, sessions>>

----------------------------------------------------------------------------
(* Console sockets *)

OpenSocket(c, p) ==
  /\ sock[c] = NoSocket
  /\ sock' = [sock EXCEPT ![c] = [user |-> p.user, role |-> p.role, key |-> p.key,
                                 joined |-> {}, lapsed |-> {}]]
  /\ UNCHANGED <<accounts, ownerOf, status, grants, key, login, sessions>>

\* console:join decides with the principal of the handshake and the grants of now.
ScopesOf(c) == IF c.key = Nobody THEN All ELSE key[c.key].scopes
Holds(c, r, s) == Intersect(Effective(c.user, r, s), ScopesOf(c))
Join(c, s) ==
  /\ sock[c] # NoSocket /\ status[s] = "ready"
  /\ HasPermission(Holds(sock[c], sock[c].role, s), Connect)
  /\ sock' = [sock EXCEPT ![c].joined = @ \cup {s}, ![c].lapsed = @ \ {s}]
  /\ UNCHANGED <<accounts, ownerOf, status, grants, key, login, sessions>>

CloseSocket(c) ==
  /\ sock[c] # NoSocket
  /\ sock' = [sock EXCEPT ![c] = NoSocket]
  /\ UNCHANGED <<accounts, ownerOf, status, grants, key, login, sessions>>

\* The panel ends: sockets and logins end with it, tokens are still signed.
PanelEnds ==
  /\ login' = {}
  /\ sock' = [c \in Sockets |-> NoSocket]
  /\ UNCHANGED <<accounts, ownerOf, status, grants, key, sessions>>

Next ==
  \/ \E u \in Users : Setup(u) \/ ResetPassword(u) \/ BeginLogin(u)
  \/ \E l \in login : EndLogin(l)
  \/ \E t \in sessions : SessionExpires(t)
  \/ \E k \in Keys : KeyExpires(k)
  \/ \E p \in Principals :
       \/ \E u \in Users :
            \/ \E r \in {"user", "admin"} : CreateUser(p, u, r) \/ ChangeRole(p, u, r)
            \/ ChangePassword(p, u) \/ EndsInPassword(p, u)
            \/ SuspendUser(p, u) \/ ResumeUser(p, u)
            \/ \E heir \in Users \cup {Nobody} : DeleteUser(p, u, heir)
       \/ \E k \in Keys :
            \/ \E scopes \in Offered : CreateKey(p, k, scopes)
            \/ RevokeKey(p, k)
       \/ \E s \in Servers :
            \/ SuspendServer(p, s) \/ DeleteServer(p, s) \/ UnsuspendServer(p, s)
            \/ \E u \in Users :
                 \/ CreateServer(p, s, u)
                 \/ \E perms \in Offered : AddGrant(p, s, u, perms)
       \/ \E g \in grants : RemoveGrant(p, g)
       \/ \E c \in Sockets : OpenSocket(c, p)
  \/ \E c \in Sockets : CloseSocket(c) \/ \E s \in Servers : Join(c, s)
  \/ PanelEnds

Spec == Init /\ [][Next]_vars

----------------------------------------------------------------------------
(* Properties *)

\* The principal a socket keeps from its handshake never grows stale: whatever
\* changed since, the account is active, its role is the one the socket decides
\* with, and its key is not revoked.
PrincipalCurrent ==
  \A c \in Sockets : sock[c] # NoSocket =>
    /\ Active(sock[c].user)
    /\ sock[c].role = role[sock[c].user]
    /\ sock[c].key # Nobody =>
         key[sock[c].key].state \in {"live", "expired"} /\ key[sock[c].key].user = sock[c].user

\* Nobody watches a console without the right to: a socket streams a server only
\* while the server is ready and the account, with the role and the grants it has
\* now, may connect to it.  Except for a grant that went with the account which
\* had given it.
StreamNeedsAccess ==
  \A c \in Sockets : \A s \in sock[c].joined \ sock[c].lapsed :
    status[s] = "ready" /\ HasPermission(Holds(sock[c], role[sock[c].user], s), Connect)

\* No session outlives a password: a token that is accepted was signed for the
\* password the account has now, also when the change came while the login slept.
\* Except for an account whose last change was cut between its two statements.
HalfChanged(u) == secret[u] > version[u]
SessionsFollowPassword ==
  \A t \in sessions : Accepts(t) /\ ~HalfChanged(t.user) => t.secret = secret[t.user]

\* From setup on there is exactly one panel owner, never suspended, and nothing
\* refers to an account that is gone: servers, grants and keys have theirs.
NothingOrphaned ==
  /\ (\E u \in Users : role[u] # "none") =>
       \E u \in Users : /\ role[u] = "owner" /\ ~suspended[u]
                       /\ \A v \in Users \ {u} : role[v] # "owner"
  /\ \A s \in Servers : status[s] # "none" => ownerOf[s] \in Users /\ Account(ownerOf[s])
  /\ \A g \in grants : Account(g.user) /\ Account(g.by) /\ status[g.server] # "none"
  /\ \A k \in Keys : key[k] # NoKey => Account(key[k].user)

\* The two together: what the rows of users, servers, subusers and keys always are.
WellFormed == TypeOK /\ NothingOrphaned
=============================================================================
