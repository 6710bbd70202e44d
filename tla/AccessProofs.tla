---------------------------- MODULE AccessProofs -----------------------------
(* Proofs about Access for any accounts, servers, keys, sockets, permissions *)
(* and scope sets.                                                           *)
EXTENDS Access, TLAPS

----------------------------------------------------------------------------
(* The inductive invariant *)

\* An account that does not exist yet is not suspended: the first one is an owner
\* who can sign in.
FreshInv == \A u \in Users : role[u] = "none" => ~suspended[u]

\* What was read of an account, in a login or a token, is not newer than the
\* account, and of the present version it has the present password, unless a change
\* of it was cut in two.
TokenInv ==
  \A t \in sessions \cup login :
    /\ t.version <= version[t.user]
    /\ t.version = version[t.user] /\ ~HalfChanged(t.user) => t.secret = secret[t.user]

\* PrincipalCurrent and StreamNeedsAccess, socket by socket.
Current(c) ==
  sock[c] # NoSocket =>
    /\ Active(sock[c].user)
    /\ sock[c].role = role[sock[c].user]
    /\ sock[c].key # Nobody =>
         key[sock[c].key].state \in {"live", "expired"} /\ key[sock[c].key].user = sock[c].user
Seen(c) == sock[c].joined \ sock[c].lapsed
Allowed(c, s) == HasPermission(Holds(sock[c], role[sock[c].user], s), Connect)
Watches(c) == \A s \in Seen(c) : status[s] = "ready" /\ Allowed(c, s)
SocketInv == \A c \in Sockets : Current(c) /\ Watches(c)

AccessIndInv == TypeOK /\ NothingOrphaned /\ FreshInv /\ TokenInv /\ SocketInv

LEMMA AccessInit == Init => AccessIndInv
<1> SUFFICES ASSUME Init PROVE AccessIndInv
  OBVIOUS
<1> USE AccessAssumption DEF Init
<1>1. TypeOK
  BY DEF TypeOK, Roles
<1>2. NothingOrphaned /\ FreshInv /\ TokenInv
  BY DEF NothingOrphaned, FreshInv, TokenInv
<1>3. SocketInv
  BY DEF SocketInv, Current, Watches, Seen, NoSocket
<1> QED
  BY <1>1, <1>2, <1>3 DEF AccessIndInv

\* The two properties, from the invariant.
LEMMA SocketProperties == TypeOK /\ SocketInv => PrincipalCurrent /\ StreamNeedsAccess
  BY DEF SocketInv, Current, Watches, Seen, Allowed, PrincipalCurrent, StreamNeedsAccess

----------------------------------------------------------------------------
(* Principals and permissions *)

\* Whoever a request comes from is an active account, with its present role and, by
\* a key, the key's scopes.
LEMMA PrincipalFacts ==
  ASSUME TypeOK, NEW p \in Principals
  PROVE  /\ p.user \in Users /\ Active(p.user) /\ p.role = role[p.user] /\ p.role \in Roles
         /\ p.key # Nobody => /\ p.key \in Keys /\ key[p.key].state = "live"
                              /\ key[p.key].user = p.user
         /\ p.key \in Keys \cup {Nobody}
<1>1. CASE \E t \in sessions : /\ Accepts(t)
                               /\ p = [user |-> t.user, role |-> role[t.user], key |-> Nobody,
                                       scopes |-> All]
  <2>1. PICK t \in sessions : /\ Accepts(t)
                              /\ p = [user |-> t.user, role |-> role[t.user], key |-> Nobody,
                                      scopes |-> All]
    BY <1>1
  <2>2. t.user \in Users
    BY DEF TypeOK, Session
  <2>3. p.user = t.user /\ p.role = role[t.user] /\ p.key = Nobody
    BY <2>1
  <2> QED
    BY <2>1, <2>2, <2>3 DEF Accepts, Active, Account
<1>2. CASE \E k \in Keys : /\ KeyAccepted(k)
                           /\ p = [user |-> key[k].user, role |-> role[key[k].user], key |-> k,
                                   scopes |-> key[k].scopes]
  <2>1. PICK k \in Keys : /\ KeyAccepted(k)
                          /\ p = [user |-> key[k].user, role |-> role[key[k].user], key |-> k,
                                  scopes |-> key[k].scopes]
    BY <1>2
  <2>2. key[k].user \in Users /\ key[k].state = "live"
    BY <2>1 DEF TypeOK, KeyAccepted, KeyRecord, NoKey
  <2>3. p.user = key[k].user /\ p.role = role[key[k].user] /\ p.key = k
    BY <2>1
  <2> QED
    BY <2>1, <2>2, <2>3 DEF KeyAccepted, Active, Account
<1> QED
  BY <1>1, <1>2 DEF Principals

\* What a key may narrow rights to.
LEMMA ScopesTyped ==
  ASSUME TypeOK, NEW c \in Sockets, sock[c] # NoSocket, Current(c)
  PROVE  /\ sock[c] \in Socket /\ sock[c].user \in Users /\ ScopesOf(sock[c]) \in Scopes
         /\ sock[c].key # Nobody => sock[c].key \in Keys
<1>1. sock[c] \in Socket
  BY DEF TypeOK
<1>2. sock[c].user \in Users /\ sock[c].key \in Keys \cup {Nobody}
  BY <1>1 DEF Socket
<1>3. CASE sock[c].key = Nobody
  BY <1>1, <1>2, <1>3 DEF ScopesOf, Scopes
<1>4. CASE sock[c].key # Nobody
  <2>1. key[sock[c].key] \in KeyRecord \cup {NoKey} /\ key[sock[c].key].user = sock[c].user
    BY <1>2, <1>4 DEF TypeOK, Current
  <2>2. key[sock[c].key] \in KeyRecord
    BY <1>2, <2>1, AccessAssumption DEF NoKey
  <2> QED
    BY <1>1, <1>2, <1>4, <2>2 DEF ScopesOf, KeyRecord
<1> QED
  BY <1>3, <1>4

\* Rights that grants gave include those of an owner of the same key.
LEMMA OwnersSeeMore ==
  ASSUME NEW held \in SUBSET (Perms \cup All), NEW scopes \in Scopes,
         HasPermission(Intersect(held, scopes), Connect)
  PROVE  HasPermission(Intersect(All, scopes), Connect)
  BY AccessAssumption DEF HasPermission, Intersect, Scopes, All

\* Without any, there is no access.
LEMMA NothingIsNoAccess ==
  ASSUME NEW scopes
  PROVE  ~HasPermission(Intersect({}, scopes), Connect)
  BY DEF HasPermission, Intersect, All

LEMMA GrantedTyped ==
  ASSUME TypeOK, NEW u, NEW s
  PROVE  GrantedTo(u, s) \in SUBSET (Perms \cup All)
  BY DEF GrantedTo, TypeOK, Grant, Scopes

----------------------------------------------------------------------------
(* What a step does to the sockets *)

\* A socket is as before, or has left some servers, or is gone.
Shrunk(c) ==
  \/ sock'[c] = NoSocket
  \/ /\ sock[c] # NoSocket /\ sock'[c] \in Socket
     /\ sock'[c].user = sock[c].user /\ sock'[c].role = sock[c].role
     /\ sock'[c].key = sock[c].key /\ Seen(c)' \subseteq Seen(c)

\* The account and the key that a socket goes by are as before.
SameHolder(c) ==
  /\ role'[sock[c].user] = role[sock[c].user] /\ suspended'[sock[c].user] = suspended[sock[c].user]
  /\ sock[c].key # Nobody =>
       /\ key'[sock[c].key].user = key[sock[c].key].user
       /\ key'[sock[c].key].scopes = key[sock[c].key].scopes
       /\ key'[sock[c].key].state \in {"live", "expired"}

\* What the rights of a socket on a server come from is as before.
SameRights(c, s) ==
  /\ status'[s] = status[s] /\ ownerOf'[s] = ownerOf[s]
  /\ \A u \in Users : u = sock[c].user => GrantedTo(u, s)' = GrantedTo(u, s)

\* A socket that goes, loses nothing; one that stays, keeps a principal that is
\* current.
LEMMA CurrentStep ==
  ASSUME TypeOK, NEW c \in Sockets, Current(c), Shrunk(c), sock'[c] # NoSocket => SameHolder(c)
  PROVE  Current(c)'
<1>1. CASE sock'[c] = NoSocket
  BY <1>1 DEF Current
<1>2. CASE sock'[c] # NoSocket
  BY <1>2 DEF Current, Shrunk, SameHolder, Active, Account
<1> QED
  BY <1>1, <1>2

\* A server it still shows, it showed before, by the same rights.
LEMMA WatchesStep ==
  ASSUME TypeOK, NEW c \in Sockets, Current(c), Watches(c), Shrunk(c),
         sock'[c] # NoSocket => SameHolder(c) /\ \A s \in Seen(c)' : SameRights(c, s)
  PROVE  Watches(c)'
<1>1. CASE sock'[c] = NoSocket
  BY <1>1 DEF Watches, Seen, NoSocket
<1>2. CASE sock'[c] # NoSocket
  <2>1. /\ sock'[c].user = sock[c].user /\ sock'[c].key = sock[c].key /\ Seen(c)' \subseteq Seen(c)
        /\ role'[sock[c].user] = role[sock[c].user]
        /\ sock[c].key # Nobody => key'[sock[c].key].scopes = key[sock[c].key].scopes
    BY <1>2 DEF Shrunk, SameHolder
  <2>2. ScopesOf(sock[c])' = ScopesOf(sock[c])
    BY <2>1 DEF ScopesOf
  <2>3. ASSUME NEW s \in Seen(c)' PROVE (status[s] = "ready" /\ Allowed(c, s))'
    <3>1. /\ status'[s] = "ready" /\ ownerOf'[s] = ownerOf[s] /\ Allowed(c, s)
      BY <1>2, <2>1, <2>3 DEF SameRights, Watches
    <3>2. PICK u \in Users : u = sock[c].user
      BY <1>2, ScopesTyped DEF Shrunk
    <3>3. GrantedTo(u, s)' = GrantedTo(u, s)
      BY <1>2, <2>3, <3>2 DEF SameRights
    <3> QED
      BY <2>1, <2>2, <3>1, <3>2, <3>3 DEF Allowed, Holds, Effective
  <2> QED
    BY <2>3 DEF Watches
<1> QED
  BY <1>1, <1>2

\* Nothing that concerns the sockets happens.
LEMMA SocketsStay ==
  ASSUME TypeOK, SocketInv, UNCHANGED <<role, suspended, ownerOf, status, grants, key, sock>>
  PROVE  SocketInv'
<1> SUFFICES ASSUME NEW c \in Sockets PROVE Current(c)' /\ Watches(c)'
  BY DEF SocketInv
<1>1. Current(c) /\ Watches(c)
  BY DEF SocketInv
<1>2. Current(c)'
  BY <1>1 DEF Current, Active, Account
<1>3. Watches(c)'
  BY <1>1 DEF Watches, Seen, Allowed, Holds, ScopesOf, Effective, GrantedTo
<1> QED
  BY <1>2, <1>3

\* The ways of the gateway to cut sockets.
LEMMA Cuts ==
  ASSUME TypeOK, NEW c \in Sockets,
         \/ \E S \in SUBSET Servers, U \in SUBSET Users : sock' = DropGrants(S, U)
         \/ \E u \in Users : sock' = DisconnectUser(u)
         \/ \E k \in Keys : sock' = DropKey(k)
         \/ UNCHANGED sock
  PROVE  /\ Shrunk(c)
         /\ sock'[c] \in Socket \cup {NoSocket}
<1>0. sock[c] \in Socket \cup {NoSocket}
  BY DEF TypeOK
<1>1. ASSUME NEW S \in SUBSET Servers, sock[c] # NoSocket
      PROVE  LET d == Leave(sock[c], S) IN
             /\ d \in Socket /\ d.user = sock[c].user /\ d.role = sock[c].role
             /\ d.key = sock[c].key /\ d.joined = sock[c].joined \ S
             /\ d.lapsed = sock[c].lapsed \ S
  <2>1. sock[c] \in Socket
    BY <1>0, <1>1
  <2> QED
    BY <1>1, <2>1 DEF Leave, Socket
<1>2. ASSUME NEW S \in SUBSET Servers, NEW U \in SUBSET Users, sock' = DropGrants(S, U)
      PROVE  Shrunk(c) /\ sock'[c] \in Socket \cup {NoSocket}
  <2>1. sock'[c] = IF sock[c].user \in U THEN Leave(sock[c], S) ELSE sock[c]
    BY <1>2 DEF DropGrants
  <2>2. CASE sock[c] = NoSocket
    BY <2>1, <2>2 DEF Leave, Shrunk
  <2>3. CASE sock[c] # NoSocket /\ sock[c].user \in U
    <3>1. sock'[c] = Leave(sock[c], S)
      BY <2>1, <2>3
    <3>2. /\ sock'[c] \in Socket /\ sock'[c].user = sock[c].user /\ sock'[c].role = sock[c].role
          /\ sock'[c].key = sock[c].key /\ sock'[c].joined = sock[c].joined \ S
          /\ sock'[c].lapsed = sock[c].lapsed \ S
      BY <1>1, <2>3, <3>1
    <3> QED
      BY <2>3, <3>2 DEF Shrunk, Seen
  <2>4. CASE sock[c] # NoSocket /\ sock[c].user \notin U
    BY <1>0, <2>1, <2>4 DEF Shrunk, Seen
  <2> QED
    BY <2>2, <2>3, <2>4
<1>3. ASSUME sock'[c] = sock[c] \/ sock'[c] = NoSocket
      PROVE  Shrunk(c) /\ sock'[c] \in Socket \cup {NoSocket}
  BY <1>0, <1>3 DEF Shrunk, Seen
<1> QED
  BY <1>2, <1>3 DEF DisconnectUser, DropKey

----------------------------------------------------------------------------
(* Accounts *)

\* The variables of accounts have their types.
AccountsOK ==
  /\ role \in [Users -> Roles \cup {"none", "gone"}]
  /\ suspended \in [Users -> BOOLEAN]
  /\ version \in [Users -> 0..MaxVersion]
  /\ secret \in [Users -> 0..MaxVersion]

\* One account changes; its sockets are cut, or do not notice.
LEMMA AccountStep ==
  ASSUME AccessIndInv, NEW u \in Users, AccountsOK',
         \A v \in Users \ {u} : /\ role'[v] = role[v] /\ suspended'[v] = suspended[v]
                                /\ version'[v] = version[v] /\ secret'[v] = secret[v],
         Account(u) => role'[u] \in Roles,
         role[u] = "owner" => role'[u] = "owner" /\ suspended'[u] = suspended[u],
         IF \A v \in Users : role[v] = "none" THEN role'[u] = "owner"
         ELSE role'[u] = "owner" => role[u] = "owner",
         role[u] = "none" => suspended'[u] = suspended[u],
         role'[u] = "none" => role[u] = "none",
         \/ version'[u] = version[u] /\ secret'[u] = secret[u]
         \/ version'[u] = version[u] + 1,
         UNCHANGED <<ownerOf, status, grants, key, login, sessions>>,
         \/ sock' = DisconnectUser(u)
         \/ /\ sock' = sock
            /\ Active(u) => role'[u] = role[u] /\ suspended'[u] = suspended[u]
  PROVE  AccessIndInv'
<1>0. /\ TypeOK /\ NothingOrphaned /\ FreshInv /\ TokenInv /\ SocketInv
      /\ login \subseteq Session /\ sessions \subseteq Session
      /\ version \in [Users -> 0..MaxVersion]
      /\ sock \in [Sockets -> Socket \cup {NoSocket}] /\ key \in [Keys -> KeyRecord \cup {NoKey}]
  BY DEF AccessIndInv, TypeOK
<1>1. TypeOK'
  <2>1. sock' \in [Sockets -> Socket \cup {NoSocket}]
    BY <1>0 DEF DisconnectUser
  <2> QED
    BY <1>0, <2>1 DEF TypeOK, AccountsOK
<1>2. NothingOrphaned'
  <2>1. \A v \in Users : Account(v) => Account(v)'
    BY DEF Account
  <2>2. (\E v \in Users : role'[v] # "none") =>
          \E v \in Users : /\ role'[v] = "owner" /\ ~suspended'[v]
                           /\ \A w \in Users \ {v} : role'[w] # "owner"
    <3>1. CASE \A v \in Users : role[v] = "none"
      BY <1>0, <3>1 DEF FreshInv
    <3>2. CASE \E v \in Users : role[v] # "none"
      <4>1. PICK v \in Users : /\ role[v] = "owner" /\ ~suspended[v]
                               /\ \A w \in Users \ {v} : role[w] # "owner"
        BY <1>0, <3>2 DEF NothingOrphaned
      <4>2. role'[v] = "owner" /\ ~suspended'[v]
        BY <4>1
      <4>3. \A w \in Users \ {v} : role'[w] # "owner"
        BY <3>2, <4>1
      <4> QED
        BY <4>2, <4>3
    <3> QED
      BY <3>1, <3>2
  <2>3. /\ \A s \in Servers : status[s] # "none" => ownerOf[s] \in Users /\ Account(ownerOf[s])
        /\ \A g \in grants : Account(g.user) /\ Account(g.by) /\ status[g.server] # "none"
        /\ \A g \in grants : g.user \in Users /\ g.by \in Users
        /\ \A k \in Keys : key[k] # NoKey => Account(key[k].user) /\ key[k].user \in Users
    BY <1>0 DEF NothingOrphaned, TypeOK, Grant, KeyRecord
  <2> QED
    BY <2>1, <2>2, <2>3 DEF NothingOrphaned
<1>3. FreshInv'
  BY <1>0 DEF FreshInv
<1>4. TokenInv'
  <2>1. ASSUME NEW t \in sessions \cup login
        PROVE  /\ t.version <= version'[t.user]
               /\ t.version = version'[t.user] /\ ~(secret'[t.user] > version'[t.user])
                    => t.secret = secret'[t.user]
    <3>1. t.user \in Users /\ t.version \in Nat /\ t.version <= version[t.user]
          /\ (t.version = version[t.user] /\ ~(secret[t.user] > version[t.user])
                => t.secret = secret[t.user])
          /\ version[t.user] \in Nat
      BY <1>0, AccessAssumption DEF TokenInv, HalfChanged, Session
    <3>2. CASE t.user = u
      BY <3>1, <3>2
    <3>3. CASE t.user # u
      BY <3>1, <3>3
    <3> QED
      BY <3>2, <3>3
  <2> QED
    BY <2>1 DEF TokenInv, HalfChanged
<1>5. SocketInv'
  <2> SUFFICES ASSUME NEW c \in Sockets PROVE Current(c)' /\ Watches(c)'
    BY DEF SocketInv
  <2>1. Current(c) /\ Watches(c) /\ Shrunk(c)
    BY <1>0, Cuts DEF SocketInv
  <2>2. ASSUME sock'[c] # NoSocket PROVE SameHolder(c)
    <3>1. sock[c] # NoSocket /\ sock[c].user \in Users /\ Active(sock[c].user)
      BY <1>0, <2>1, <2>2, ScopesTyped DEF Current, Shrunk
    <3>2. role'[sock[c].user] = role[sock[c].user] /\ suspended'[sock[c].user] = suspended[sock[c].user]
      BY <2>2, <3>1 DEF DisconnectUser
    <3> QED
      BY <2>1, <3>1, <3>2 DEF SameHolder, Current
  <2>3. ASSUME NEW s PROVE SameRights(c, s)
    <3>1. grants' = grants /\ status' = status /\ ownerOf' = ownerOf
      OBVIOUS
    <3>2. \A v \in Users : GrantedTo(v, s)' = GrantedTo(v, s)
      BY <3>1 DEF GrantedTo
    <3> QED
      BY <3>1, <3>2 DEF SameRights
  <2> QED
    BY <1>0, <2>1, <2>2, <2>3, CurrentStep, WatchesStep
<1> QED
  BY <1>1, <1>2, <1>3, <1>4, <1>5 DEF AccessIndInv

\* The account routes, one by one.
LEMMA AccountSteps ==
  ASSUME AccessIndInv, NEW u \in Users,
         \/ Setup(u) \/ ResetPassword(u)
         \/ \E p \in Principals :
              \/ \E r \in {"user", "admin"} : CreateUser(p, u, r) \/ ChangeRole(p, u, r)
              \/ ChangePassword(p, u) \/ SuspendUser(p, u) \/ ResumeUser(p, u)
  PROVE  AccessIndInv'
<1>0. TypeOK /\ AccountsOK /\ NothingOrphaned
  BY DEF AccessIndInv, TypeOK, AccountsOK
<1>1. CASE Setup(u)
  <2>1. /\ role[u] = "none" /\ role' = [role EXCEPT ![u] = "owner"]
        /\ UNCHANGED <<suspended, version, secret, ownerOf, status, grants, key, login,
                       sessions, sock>>
    BY <1>1 DEF Setup
  <2>2. \A v \in Users : role[v] = "none"
    BY <1>0, <1>1 DEF Setup, NothingOrphaned, Roles
  <2> QED
    BY <1>0, <2>1, <2>2, AccountStep DEF AccountsOK, Roles, Account, Active
<1>2. ASSUME NEW p \in Principals, NEW r \in {"user", "admin"}, CreateUser(p, u, r)
      PROVE  AccessIndInv'
  <2>1. /\ role[u] = "none" /\ role' = [role EXCEPT ![u] = r]
        /\ UNCHANGED <<suspended, version, secret, ownerOf, status, grants, key, login,
                       sessions, sock>>
    BY <1>2 DEF CreateUser
  <2>2. \E v \in Users : role[v] # "none"
    BY <1>0, PrincipalFacts DEF Roles
  <2> QED
    BY <1>0, <2>1, <2>2, AccountStep DEF AccountsOK, Roles, Account, Active
<1>3. ASSUME NEW p \in Principals, NEW r \in {"user", "admin"}, ChangeRole(p, u, r)
      PROVE  AccessIndInv'
  <2>1. /\ role[u] \in {"user", "admin"} /\ role' = [role EXCEPT ![u] = r]
        /\ version[u] < MaxVersion /\ version' = [version EXCEPT ![u] = @ + 1]
        /\ sock' = DisconnectUser(u)
        /\ UNCHANGED <<suspended, secret, ownerOf, status, grants, key, login, sessions>>
    BY <1>3 DEF ChangeRole, Bump, Account, Roles
  <2> QED
    BY <1>0, <2>1, AccountStep, AccessAssumption DEF AccountsOK, Roles, Account, Active
<1>4. ASSUME SetPassword(u), sock' = DisconnectUser(u) \/ UNCHANGED sock, Account(u),
             UNCHANGED <<role, suspended, ownerOf, status, grants, key, login, sessions>>
      PROVE  AccessIndInv'
  <2>1. /\ version[u] < MaxVersion /\ version' = [version EXCEPT ![u] = @ + 1]
        /\ secret' = [secret EXCEPT ![u] = version[u] + 1]
    BY <1>4 DEF SetPassword
  <2> QED
    BY <1>0, <1>4, <2>1, AccountStep, AccessAssumption DEF AccountsOK, Roles, Account, Active
<1>5. ASSUME NEW p \in Principals, SuspendUser(p, u) PROVE AccessIndInv'
  <2>1. /\ role[u] \in {"user", "admin"} /\ suspended' = [suspended EXCEPT ![u] = TRUE]
        /\ version[u] < MaxVersion /\ version' = [version EXCEPT ![u] = @ + 1]
        /\ sock' = DisconnectUser(u)
        /\ UNCHANGED <<role, secret, ownerOf, status, grants, key, login, sessions>>
    BY <1>5 DEF SuspendUser, Bump, Account, Roles
  <2>2. AccountsOK'
    BY <1>0, <2>1, AccessAssumption DEF AccountsOK
  <2>3. \A v \in Users \ {u} : suspended'[v] = suspended[v] /\ version'[v] = version[v]
    BY <1>0, <2>1 DEF AccountsOK
  <2>4. version'[u] = version[u] + 1
    BY <1>0, <2>1 DEF AccountsOK
  <2> QED
    BY <2>1, <2>2, <2>3, <2>4, AccountStep DEF Roles
<1>6. ASSUME NEW p \in Principals, ResumeUser(p, u) PROVE AccessIndInv'
  <2>1. /\ Account(u) /\ suspended[u] /\ suspended' = [suspended EXCEPT ![u] = FALSE]
        /\ UNCHANGED <<role, version, secret, ownerOf, status, grants, key, login, sessions, sock>>
    BY <1>6 DEF ResumeUser
  <2>2. role[u] # "owner"
    BY <1>0, <2>1 DEF NothingOrphaned
  <2> QED
    BY <1>0, <2>1, <2>2, AccountStep DEF AccountsOK, Roles, Account, Active
<1>7. ASSUME NEW p \in Principals, ChangePassword(p, u) PROVE Account(u)
  BY <1>0, <1>7, PrincipalFacts DEF ChangePassword, MaySetPassword, Active
<1> QED
  BY <1>1, <1>2, <1>3, <1>4, <1>5, <1>6, <1>7 DEF ChangePassword, ResetPassword

----------------------------------------------------------------------------
(* Credentials *)

\* A login reads the account in one step and signs in another: what it read may be
\* old then, but never passes for the present version.
LEMMA TokenStep ==
  ASSUME AccessIndInv,
         \/ \E u \in Users : BeginLogin(u)
         \/ \E l \in login : EndLogin(l)
         \/ \E t \in sessions : SessionExpires(t)
  PROVE  AccessIndInv'
<1>1. /\ UNCHANGED <<role, suspended, version, secret, ownerOf, status, grants, key, sock>>
      /\ \A t \in sessions' \cup login' :
           \/ t \in sessions \cup login
           \/ \E u \in Users : t = [user |-> u, version |-> version[u], secret |-> secret[u]]
  BY DEF BeginLogin, EndLogin, SessionExpires, accounts
<1>2. TypeOK /\ NothingOrphaned /\ FreshInv /\ TokenInv /\ SocketInv
  BY DEF AccessIndInv
<1>3. /\ \A t \in sessions \cup login : t \in Session
      /\ version \in [Users -> 0..MaxVersion] /\ secret \in [Users -> 0..MaxVersion]
  BY <1>2 DEF TypeOK
<1>4. ASSUME NEW t \in sessions' \cup login'
      PROVE  t \in Session /\ t.version <= version[t.user]
             /\ (t.version = version[t.user] /\ ~HalfChanged(t.user) => t.secret = secret[t.user])
  <2>1. CASE t \in sessions \cup login
    BY <1>2, <1>3, <2>1 DEF TokenInv
  <2>2. ASSUME NEW u \in Users, t = [user |-> u, version |-> version[u], secret |-> secret[u]]
        PROVE  t \in Session /\ t.version <= version[t.user]
               /\ (t.version = version[t.user] /\ ~HalfChanged(t.user)
                     => t.secret = secret[t.user])
    <3>1. version[u] \in 0..MaxVersion /\ secret[u] \in 0..MaxVersion
      BY <1>3
    <3>2. t \in Session /\ t.user = u /\ t.version = version[u] /\ t.secret = secret[u]
      BY <2>2, <3>1 DEF Session
    <3> QED
      BY <3>1, <3>2, AccessAssumption
  <2> QED
    BY <1>1, <2>1, <2>2
<1>5. TypeOK' /\ TokenInv'
  BY <1>1, <1>2, <1>4 DEF TypeOK, TokenInv, HalfChanged
<1>6. NothingOrphaned' /\ FreshInv'
  BY <1>1, <1>2 DEF NothingOrphaned, FreshInv, Account
<1>7. SocketInv'
  BY <1>1, <1>2, SocketsStay
<1> QED
  BY <1>5, <1>6, <1>7 DEF AccessIndInv

\* One key is made, revoked or expires.
LEMMA KeyStep ==
  ASSUME AccessIndInv, NEW k \in Keys,
         \/ KeyExpires(k)
         \/ \E p \in Principals : RevokeKey(p, k) \/ \E scopes \in Offered : CreateKey(p, k, scopes)
  PROVE  AccessIndInv'
<1>1. TypeOK /\ NothingOrphaned /\ FreshInv /\ TokenInv /\ SocketInv
  BY DEF AccessIndInv
<1>2. /\ UNCHANGED <<role, suspended, version, secret, ownerOf, status, grants, login, sessions>>
      /\ UNCHANGED sock \/ sock' = DropKey(k)
      /\ \A j \in Keys \ {k} : key'[j] = key[j]
  BY <1>1 DEF KeyExpires, RevokeKey, CreateKey, accounts, TypeOK
<1>3. /\ sock \in [Sockets -> Socket \cup {NoSocket}] /\ key \in [Keys -> KeyRecord \cup {NoKey}]
      /\ key[k] \in KeyRecord \cup {NoKey}
  BY <1>1 DEF TypeOK
<1>4. ASSUME key[k] = NoKey, UNCHANGED sock,
             \E p \in Principals, scopes \in Offered :
               key' = [key EXCEPT ![k] = [user |-> p.user, scopes |-> scopes, state |-> "live"]]
      PROVE  TypeOK' /\ NothingOrphaned'
             /\ \A c \in Sockets : sock'[c] # NoSocket => SameHolder(c)
  <2>1. PICK p \in Principals, scopes \in Offered :
          key' = [key EXCEPT ![k] = [user |-> p.user, scopes |-> scopes, state |-> "live"]]
    BY <1>4
  <2>2. p.user \in Users /\ Account(p.user) /\ scopes \in Scopes
    BY <1>1, PrincipalFacts, AccessAssumption DEF Active, Scopes, All
  <2>3. key'[k] \in KeyRecord /\ key'[k].user = p.user
    BY <1>3, <2>1, <2>2 DEF KeyRecord
  <2>4. TypeOK'
    BY <1>1, <1>2, <1>4, <2>1, <2>2 DEF TypeOK, KeyRecord
  <2>5. NothingOrphaned'
    BY <1>1, <1>2, <2>2, <2>3 DEF NothingOrphaned, Account
  <2>6. ASSUME NEW c \in Sockets, sock[c] # NoSocket PROVE sock[c].key # k
    <3>1. Current(c)
      BY <1>1 DEF SocketInv
    <3>2. sock[c].user \in Users
      BY <1>1, <2>6, <3>1, ScopesTyped
    <3> QED
      BY <1>4, <2>6, <3>1, <3>2, AccessAssumption DEF Current, NoKey
  <2>7. \A c \in Sockets : sock[c] # NoSocket => SameHolder(c)
    BY <1>1, <1>2, <2>6, ScopesTyped DEF SameHolder, SocketInv, Current
  <2> QED
    BY <2>4, <2>5, <2>7, <1>4
<1>5. ASSUME key[k] # NoKey,
             \E state \in {"expired", "revoked"} :
               /\ key' = [key EXCEPT ![k].state = state]
               /\ state = "revoked" => sock' = DropKey(k)
      PROVE  TypeOK' /\ NothingOrphaned'
             /\ \A c \in Sockets : sock'[c] # NoSocket => SameHolder(c)
  <2>1. PICK state \in {"expired", "revoked"} :
             /\ key' = [key EXCEPT ![k].state = state]
             /\ state = "revoked" => sock' = DropKey(k)
    BY <1>5
  <2>2. /\ key'[k] \in KeyRecord /\ key'[k].user = key[k].user
        /\ key'[k].scopes = key[k].scopes /\ key'[k].state = state
    BY <1>3, <1>5, <2>1 DEF KeyRecord
  <2>3. sock' \in [Sockets -> Socket \cup {NoSocket}]
    BY <1>2, <1>3 DEF DropKey
  <2>4. key' \in [Keys -> KeyRecord \cup {NoKey}]
    <3>1. key' = [j \in Keys |-> key'[j]]
      BY <1>3, <2>1
    <3> QED
      BY <1>2, <1>3, <2>2, <3>1
  <2>5. TypeOK'
    BY <1>1, <1>2, <2>3, <2>4 DEF TypeOK
  <2>6. NothingOrphaned'
    BY <1>1, <1>2, <1>5, <2>2 DEF NothingOrphaned, Account
  <2>7. ASSUME NEW c \in Sockets, sock'[c] # NoSocket PROVE SameHolder(c)
    <3>1. Current(c) /\ sock[c] # NoSocket
      BY <1>1, <1>2, <2>7 DEF SocketInv, DropKey
    <3>2. sock[c].key = k => state = "expired"
      BY <2>1, <2>7 DEF DropKey
    <3> QED
      BY <1>1, <1>2, <2>1, <2>2, <3>1, <3>2, ScopesTyped DEF SameHolder, Current
  <2> QED
    BY <2>5, <2>6, <2>7
<1>6. /\ TypeOK' /\ NothingOrphaned'
      /\ \A c \in Sockets : sock'[c] # NoSocket => SameHolder(c)
  <2>1. CASE KeyExpires(k)
    <3>1. key[k] # NoKey /\ key' = [key EXCEPT ![k].state = "expired"]
      BY <2>1 DEF KeyExpires, NoKey
    <3>2. \E state \in {"expired", "revoked"} :
            /\ key' = [key EXCEPT ![k].state = state]
            /\ state = "revoked" => sock' = DropKey(k)
      BY <3>1
    <3> QED
      BY <1>5, <3>1, <3>2
  <2>2. ASSUME NEW p \in Principals, RevokeKey(p, k)
        PROVE  key[k] # NoKey /\ key' = [key EXCEPT ![k].state = "revoked"] /\ sock' = DropKey(k)
    BY <2>2, <1>1, PrincipalFacts, AccessAssumption DEF RevokeKey, NoKey
  <2> QED
    BY <1>4, <1>5, <2>1, <2>2 DEF CreateKey
<1>7. ASSUME NEW c \in Sockets PROVE Current(c)' /\ Watches(c)'
  <2>1. Current(c) /\ Watches(c) /\ Shrunk(c)
    BY <1>1, <1>2, Cuts DEF SocketInv
  <2>2. \A s : SameRights(c, s)
    <3>1. grants' = grants /\ status' = status /\ ownerOf' = ownerOf
      BY <1>2
    <3>2. \A s : \A u \in Users : GrantedTo(u, s)' = GrantedTo(u, s)
      BY <3>1 DEF GrantedTo
    <3> QED
      BY <3>1, <3>2 DEF SameRights
  <2> QED
    BY <1>1, <1>6, <2>1, <2>2, CurrentStep, WatchesStep
<1>8. FreshInv' /\ TokenInv'
  BY <1>1, <1>2 DEF FreshInv, TokenInv, HalfChanged
<1> QED
  BY <1>6, <1>7, <1>8 DEF AccessIndInv, SocketInv

----------------------------------------------------------------------------
(* Servers and grants *)

\* A step that leaves accounts and keys alone leaves every principal alone.
LEMMA HolderStays ==
  ASSUME NEW c \in Sockets, Current(c), sock[c] # NoSocket, UNCHANGED <<role, suspended, key>>
  PROVE  SameHolder(c)
  BY DEF Current, SameHolder

\* A socket whose account is cut off from servers shows none of them.
LEMMA CutSeesNone ==
  ASSUME TypeOK, NEW c \in Sockets, NEW S \in SUBSET Servers, NEW U \in SUBSET Users,
         sock' = DropGrants(S, U), sock[c].user \in U, NEW s \in S
  PROVE  s \notin Seen(c)'
<1>1. sock'[c] = Leave(sock[c], S)
  BY DEF DropGrants
<1>2. CASE sock[c] = NoSocket
  BY <1>1, <1>2 DEF Leave, Seen, NoSocket
<1>3. CASE sock[c] # NoSocket
  <2>1. sock[c] \in Socket
    BY <1>3 DEF TypeOK
  <2>2. sock'[c].joined = sock[c].joined \ S
    BY <1>1, <1>3, <2>1 DEF Leave, Socket
  <2> QED
    BY <2>2 DEF Seen
<1> QED
  BY <1>2, <1>3

\* One server is created, suspended, resumed or deleted.
LEMMA ServerStep ==
  ASSUME AccessIndInv, NEW p \in Principals, NEW s \in Servers,
         \/ \E u \in Users : CreateServer(p, s, u)
         \/ SuspendServer(p, s) \/ DeleteServer(p, s) \/ UnsuspendServer(p, s)
  PROVE  AccessIndInv'
<1>1. TypeOK /\ NothingOrphaned /\ FreshInv /\ TokenInv /\ SocketInv
  BY DEF AccessIndInv
<1>2. /\ UNCHANGED <<role, suspended, version, secret, grants, key, login, sessions>>
      /\ sock' = sock \/ sock' = DropGrants({s}, Users)
      /\ \E to \in {"ready", "suspended", "deleted"} : status' = [status EXCEPT ![s] = to]
  BY DEF CreateServer, SuspendServer, DeleteServer, SetStatus, UnsuspendServer, accounts
<1>3. \/ status[s] = "none" /\ \E u \in Users : Account(u) /\ ownerOf' = [ownerOf EXCEPT ![s] = u]
      \/ status[s] # "none" /\ ownerOf' = ownerOf
  BY DEF CreateServer, Active, SuspendServer, DeleteServer, SetStatus, UnsuspendServer
<1>4. \/ sock' = sock /\ status[s] # "ready"
      \/ sock' = DropGrants({s}, Users)
  BY DEF CreateServer, SuspendServer, DeleteServer, SetStatus, UnsuspendServer
<1>5. Nobody \notin Users
  BY AccessAssumption
<1>6. /\ status \in [Servers -> {"none", "ready", "suspended", "deleted"}]
      /\ ownerOf \in [Servers -> Users \cup {Nobody}]
      /\ \A r \in Servers : ownerOf[r] = Nobody <=> status[r] = "none"
      /\ \A r \in Servers : status[r] # "none" => ownerOf[r] \in Users /\ Account(ownerOf[r])
      /\ \A g \in grants : Account(g.user) /\ Account(g.by) /\ status[g.server] # "none"
      /\ \A g \in grants : g.server \in Servers
  BY <1>1 DEF TypeOK, NothingOrphaned, Grant
<1>7. PICK to \in {"ready", "suspended", "deleted"} : status' = [status EXCEPT ![s] = to]
  BY <1>2
<1>8. /\ status'[s] = to /\ \A r \in Servers \ {s} : status'[r] = status[r] /\ ownerOf'[r] = ownerOf[r]
      /\ ownerOf'[s] \in Users /\ Account(ownerOf'[s]) /\ ownerOf'[s] # Nobody
  BY <1>3, <1>5, <1>6, <1>7
<1>9. TypeOK'
  <2>1. \A c \in Sockets : sock'[c] \in Socket \cup {NoSocket}
    BY <1>1, <1>2, Cuts
  <2>2. sock' \in [Sockets -> Socket \cup {NoSocket}]
    BY <1>1, <1>2, <2>1 DEF TypeOK, DropGrants
  <2>3. /\ status' \in [Servers -> {"none", "ready", "suspended", "deleted"}]
        /\ ownerOf' \in [Servers -> Users \cup {Nobody}]
    BY <1>3, <1>5, <1>6, <1>7
  <2>4. \A r \in Servers : ownerOf'[r] = Nobody <=> status'[r] = "none"
    BY <1>6, <1>8
  <2> QED
    BY <1>1, <1>2, <2>2, <2>3, <2>4 DEF TypeOK
<1>10. NothingOrphaned'
  <2>1. \A r \in Servers : status'[r] # "none" => ownerOf'[r] \in Users /\ Account(ownerOf'[r])
    BY <1>6, <1>8
  <2>2. \A g \in grants : Account(g.user) /\ Account(g.by) /\ status'[g.server] # "none"
    BY <1>6, <1>8
  <2>3. \A u : role'[u] = role[u] /\ suspended'[u] = suspended[u]
    BY <1>2
  <2>4. grants' = grants /\ key' = key
    BY <1>2
  <2> QED
    BY <1>1, <2>1, <2>2, <2>3, <2>4 DEF NothingOrphaned, Account
<1>11. FreshInv' /\ TokenInv'
  BY <1>1, <1>2 DEF FreshInv, TokenInv, HalfChanged
<1>12. ASSUME NEW c \in Sockets PROVE Current(c)' /\ Watches(c)'
  <2>1. Current(c) /\ Watches(c) /\ Shrunk(c)
    BY <1>1, <1>2, Cuts DEF SocketInv
  <2>2. sock'[c] # NoSocket => SameHolder(c)
    BY <1>2, <2>1, HolderStays DEF Shrunk
  <2>3. ASSUME sock'[c] # NoSocket, NEW r \in Seen(c)' PROVE SameRights(c, r)
    <3>1. sock[c] # NoSocket /\ r \in Seen(c) /\ sock'[c] \in Socket
      BY <2>1, <2>3 DEF Shrunk
    <3>2. r \in Servers
      BY <2>3, <3>1 DEF Seen, Socket
    <3>3. sock[c].user \in Users
      BY <1>1, <2>1, <3>1, ScopesTyped
    <3>4. r # s
      BY <1>1, <1>4, <2>1, <2>3, <3>1, <3>3, CutSeesNone DEF Watches
    <3>5. status'[r] = status[r] /\ ownerOf'[r] = ownerOf[r] /\ grants' = grants
      BY <1>2, <1>8, <3>2, <3>4
    <3>6. \A u \in Users : GrantedTo(u, r)' = GrantedTo(u, r)
      BY <3>5 DEF GrantedTo
    <3> QED
      BY <3>5, <3>6 DEF SameRights
  <2> QED
    BY <1>1, <2>1, <2>2, <2>3, CurrentStep, WatchesStep
<1> QED
  BY <1>9, <1>10, <1>11, <1>12 DEF AccessIndInv, SocketInv

\* A grant is given.  Whoever watched the server before had no grant on it, so what
\* gave the right was the role or the ownership, which stay.
LEMMA GrantStep ==
  ASSUME AccessIndInv, NEW p \in Principals, NEW s \in Servers, NEW u \in Users,
         NEW perms \in Offered, AddGrant(p, s, u, perms)
  PROVE  AccessIndInv'
<1>1. TypeOK /\ NothingOrphaned /\ FreshInv /\ TokenInv /\ SocketInv
  BY DEF AccessIndInv
<1>2. /\ UNCHANGED <<role, suspended, version, secret, ownerOf, status, key, login, sessions, sock>>
      /\ grants' = grants \cup {[server |-> s, user |-> u, perms |-> perms, by |-> p.user]}
      /\ status[s] = "ready" /\ Account(u)
      /\ \A g \in grants : <<g.server, g.user>> # <<s, u>>
  BY DEF AddGrant, accounts
<1>3. p.user \in Users /\ Account(p.user) /\ perms \in Scopes
  BY <1>1, PrincipalFacts, AccessAssumption DEF Active, Scopes, All
<1> DEFINE new == [server |-> s, user |-> u, perms |-> perms, by |-> p.user]
<1>4. new \in Grant /\ new.server = s /\ new.user = u /\ new.by = p.user
  BY <1>3 DEF Grant
<1>5. grants' = grants \cup {new}
  BY <1>2
<1> HIDE DEF new
<1>6. TypeOK'
  BY <1>1, <1>2, <1>4, <1>5 DEF TypeOK
<1>7. NothingOrphaned'
  BY <1>1, <1>2, <1>3, <1>4, <1>5 DEF NothingOrphaned, Account
<1>8. FreshInv' /\ TokenInv'
  BY <1>1, <1>2 DEF FreshInv, TokenInv, HalfChanged
<1>9. ASSUME NEW c \in Sockets PROVE Current(c)' /\ Watches(c)'
  <2>1. Current(c) /\ Watches(c)
    BY <1>1 DEF SocketInv
  <2>2. Current(c)'
    BY <1>2, <2>1 DEF Current, Active, Account
  <2>3. ASSUME NEW r \in Seen(c) PROVE (status[r] = "ready" /\ Allowed(c, r))'
    <3>1. status[r] = "ready" /\ Allowed(c, r)
      BY <2>1 DEF Watches
    <3>2. sock[c] # NoSocket
      BY DEF Seen, NoSocket
    <3>3. PICK v \in Users : v = sock[c].user
      BY <1>1, <2>1, <3>2, ScopesTyped
    <3>4. ScopesOf(sock[c])' = ScopesOf(sock[c])
      BY <1>2 DEF ScopesOf
    <3>5. CASE r = s /\ v = u
      <4>1. GrantedTo(v, r) = {}
        BY <1>2, <3>5 DEF GrantedTo
      <4>2. Effective(v, role[v], r) # {}
        BY <3>1, <3>3, NothingIsNoAccess DEF Allowed, Holds
      <4>3. Effective(v, role[v], r) = All /\ (Privileged(role[v]) \/ ownerOf[r] = v)
        BY <4>1, <4>2 DEF Effective
      <4>4. Effective(v, role[v], r)' = All
        BY <1>2, <4>3 DEF Effective, Privileged
      <4>5. HasPermission(Intersect(All, ScopesOf(sock[c])), Connect)
        BY <3>1, <3>3, <4>3 DEF Allowed, Holds
      <4> QED
        BY <1>2, <3>1, <3>3, <3>4, <4>4, <4>5 DEF Allowed, Holds
    <3>6. CASE ~(r = s /\ v = u)
      <4>1. GrantedTo(v, r)' = GrantedTo(v, r)
        BY <1>4, <1>5, <3>6 DEF GrantedTo
      <4>2. Effective(v, role[v], r)' = Effective(v, role[v], r)
        BY <1>2, <4>1 DEF Effective
      <4> QED
        BY <1>2, <3>1, <3>3, <3>4, <4>2 DEF Allowed, Holds
    <3> QED
      BY <3>5, <3>6
  <2>4. Seen(c)' = Seen(c)
    BY <1>2 DEF Seen
  <2> QED
    BY <2>2, <2>3, <2>4 DEF Watches
<1> QED
  BY <1>6, <1>7, <1>8, <1>9 DEF AccessIndInv, SocketInv

\* A grant is taken back, and with it the streams it allowed.
LEMMA RemoveGrantStep ==
  ASSUME AccessIndInv, NEW p \in Principals, NEW g \in grants, RemoveGrant(p, g)
  PROVE  AccessIndInv'
<1>1. TypeOK /\ NothingOrphaned /\ FreshInv /\ TokenInv /\ SocketInv
  BY DEF AccessIndInv
<1>2. /\ UNCHANGED <<role, suspended, version, secret, ownerOf, status, key, login, sessions>>
      /\ grants' = grants \ {g} /\ sock' = DropGrants({g.server}, {g.user})
  BY DEF RemoveGrant, accounts
<1>3. g.server \in Servers /\ g.user \in Users
  BY <1>1 DEF TypeOK, Grant
<1>4. TypeOK'
  <2>1. \A c \in Sockets : sock'[c] \in Socket \cup {NoSocket}
    BY <1>1, <1>2, <1>3, Cuts
  <2>2. sock' \in [Sockets -> Socket \cup {NoSocket}]
    BY <1>2, <2>1 DEF DropGrants
  <2> QED
    BY <1>1, <1>2, <2>2 DEF TypeOK
<1>5. NothingOrphaned' /\ FreshInv' /\ TokenInv'
  BY <1>1, <1>2 DEF NothingOrphaned, FreshInv, TokenInv, HalfChanged, Account
<1>6. ASSUME NEW c \in Sockets PROVE Current(c)' /\ Watches(c)'
  <2>1. Current(c) /\ Watches(c) /\ Shrunk(c)
    BY <1>1, <1>2, <1>3, Cuts DEF SocketInv
  <2>2. sock'[c] # NoSocket => SameHolder(c)
    BY <1>2, <2>1, HolderStays DEF Shrunk
  <2>3. ASSUME sock'[c] # NoSocket, NEW r \in Seen(c)' PROVE SameRights(c, r)
    <3>1. r # g.server \/ sock[c].user # g.user
      BY <1>1, <1>2, <1>3, <2>3, CutSeesNone
    <3>2. ASSUME NEW u \in Users, u = sock[c].user PROVE GrantedTo(u, r)' = GrantedTo(u, r)
      BY <1>2, <3>1, <3>2 DEF GrantedTo
    <3> QED
      BY <1>2, <3>2 DEF SameRights
  <2> QED
    BY <1>1, <2>1, <2>2, <2>3, CurrentStep, WatchesStep
<1> QED
  BY <1>4, <1>5, <1>6 DEF AccessIndInv, SocketInv

----------------------------------------------------------------------------
(* Sockets *)

\* Sockets open, join, close, and all end with the panel.
LEMMA SocketStep ==
  ASSUME AccessIndInv,
         \/ \E c \in Sockets : \/ \E p \in Principals : OpenSocket(c, p)
                               \/ CloseSocket(c)
                               \/ \E s \in Servers : Join(c, s)
         \/ PanelEnds
  PROVE  AccessIndInv'
<1>1. TypeOK /\ NothingOrphaned /\ FreshInv /\ TokenInv /\ SocketInv
  BY DEF AccessIndInv
<1>2. /\ UNCHANGED <<role, suspended, version, secret, ownerOf, status, grants, key, sessions>>
      /\ login' = login \/ login' = {}
  BY DEF OpenSocket, CloseSocket, Join, PanelEnds, accounts
<1>3. sock \in [Sockets -> Socket \cup {NoSocket}]
  BY <1>1 DEF TypeOK
<1>4. NothingOrphaned' /\ FreshInv' /\ TokenInv'
  BY <1>1, <1>2 DEF NothingOrphaned, FreshInv, TokenInv, HalfChanged, Account
<1>5. ASSUME NEW c \in Sockets, sock'[c] = sock[c] PROVE Current(c)' /\ Watches(c)'
  <2>1. Current(c) /\ Watches(c)
    BY <1>1 DEF SocketInv
  <2>2. Current(c)'
    BY <1>2, <1>5, <2>1 DEF Current, Active, Account
  <2>3. Watches(c)'
    BY <1>2, <1>5, <2>1 DEF Watches, Seen, Allowed, Holds, ScopesOf, Effective, GrantedTo
  <2> QED
    BY <2>2, <2>3
<1>6. ASSUME NEW c \in Sockets, sock'[c] = NoSocket PROVE Current(c)' /\ Watches(c)'
  BY <1>6 DEF Current, Watches, Seen, NoSocket
<1>7. ASSUME NEW d \in Sockets, sock' = [sock EXCEPT ![d] = sock'[d]],
             sock'[d] \in Socket \cup {NoSocket}, Current(d)' /\ Watches(d)', login' = login
      PROVE  AccessIndInv'
  <2>1. TypeOK'
    BY <1>1, <1>2, <1>3, <1>7 DEF TypeOK
  <2>2. ASSUME NEW c \in Sockets PROVE Current(c)' /\ Watches(c)'
    BY <1>3, <1>5, <1>7, <2>2
  <2> QED
    BY <1>4, <2>1, <2>2 DEF AccessIndInv, SocketInv
<1>8. ASSUME NEW d \in Sockets, NEW p \in Principals, OpenSocket(d, p) PROVE AccessIndInv'
  <2>1. /\ sock' = [sock EXCEPT ![d] = [user |-> p.user, role |-> p.role, key |-> p.key,
                                       joined |-> {}, lapsed |-> {}]]
        /\ login' = login
    BY <1>8 DEF OpenSocket
  <2>2. /\ sock'[d] \in Socket /\ sock'[d].user = p.user /\ sock'[d].role = p.role
        /\ sock'[d].key = p.key /\ sock'[d].joined = {}
    BY <1>1, <1>3, <2>1, PrincipalFacts DEF Socket
  <2>3. Current(d)'
    BY <1>1, <1>2, <2>2, PrincipalFacts DEF Current, Active, Account
  <2>4. Watches(d)'
    BY <2>2 DEF Watches, Seen
  <2> QED
    BY <1>3, <1>7, <2>1, <2>2, <2>3, <2>4
<1>9. ASSUME NEW d \in Sockets, CloseSocket(d) PROVE AccessIndInv'
  <2>1. sock' = [sock EXCEPT ![d] = NoSocket] /\ login' = login /\ sock'[d] = NoSocket
    BY <1>3, <1>9 DEF CloseSocket
  <2> QED
    BY <1>6, <1>7, <2>1
<1>10. ASSUME NEW d \in Sockets, NEW s \in Servers, Join(d, s) PROVE AccessIndInv'
  <2>1. /\ sock[d] # NoSocket /\ status[s] = "ready"
        /\ HasPermission(Holds(sock[d], sock[d].role, s), Connect)
        /\ sock' = [sock EXCEPT ![d].joined = @ \cup {s}, ![d].lapsed = @ \ {s}]
        /\ login' = login
    BY <1>10 DEF Join
  <2>2. sock[d] \in Socket /\ Current(d) /\ Watches(d)
    BY <1>1, <1>3, <2>1 DEF SocketInv
  <2>3. /\ sock'[d] \in Socket /\ sock'[d].user = sock[d].user /\ sock'[d].role = sock[d].role
        /\ sock'[d].key = sock[d].key /\ sock'[d].joined = sock[d].joined \cup {s}
        /\ sock'[d].lapsed = sock[d].lapsed \ {s}
    BY <1>3, <2>1, <2>2 DEF Socket
  <2>4. Current(d)'
    BY <1>2, <2>1, <2>2, <2>3 DEF Current, Active, Account
  <2>5. ASSUME NEW r \in Seen(d)' PROVE status[r] = "ready" /\ Allowed(d, r)
    <3>1. CASE r = s
      BY <2>1, <2>2, <3>1 DEF Allowed, Current
    <3>2. CASE r # s
      BY <2>2, <2>3, <2>5, <3>2 DEF Seen, Watches
    <3> QED
      BY <3>1, <3>2
  <2>6. PICK v \in Users : v = sock[d].user
    BY <1>1, <2>1, <2>2, ScopesTyped
  <2>7. \A r : Effective(v, role[v], r)' = Effective(v, role[v], r)
    BY <1>2 DEF Effective, GrantedTo
  <2>8. Watches(d)'
    BY <1>2, <2>3, <2>5, <2>6, <2>7 DEF Watches, Allowed, Holds, ScopesOf
  <2> QED
    BY <1>3, <1>7, <2>1, <2>3, <2>4, <2>8
<1>11. CASE PanelEnds
  <2>1. sock' = [c \in Sockets |-> NoSocket] /\ login' = {}
    BY <1>11 DEF PanelEnds
  <2>2. TypeOK'
    BY <1>1, <1>2, <2>1 DEF TypeOK
  <2> QED
    BY <1>4, <1>6, <2>1, <2>2 DEF AccessIndInv, SocketInv
<1> QED
  BY <1>8, <1>9, <1>10, <1>11

\* A password change cut in two: nobody is signed in less, and what the sessions of
\* the account say of its password is excused from then on.
LEMMA CutStep ==
  ASSUME AccessIndInv, NEW p \in Principals, NEW u \in Users, EndsInPassword(p, u)
  PROVE  AccessIndInv'
<1>1. TypeOK /\ NothingOrphaned /\ FreshInv /\ TokenInv
  BY DEF AccessIndInv
<1>2. /\ UNCHANGED <<role, suspended, version, ownerOf, status, grants, key, sessions>>
      /\ version[u] < MaxVersion /\ secret' = [secret EXCEPT ![u] = version[u] + 1]
      /\ login' = {} /\ sock' = [c \in Sockets |-> NoSocket]
  BY DEF EndsInPassword
<1>3. version \in [Users -> 0..MaxVersion] /\ secret \in [Users -> 0..MaxVersion]
  BY <1>1 DEF TypeOK
<1>4. /\ secret' \in [Users -> 0..MaxVersion] /\ secret'[u] > version[u]
      /\ \A v \in Users \ {u} : secret'[v] = secret[v]
  BY <1>2, <1>3, AccessAssumption
<1>5. TypeOK'
  BY <1>1, <1>2, <1>4 DEF TypeOK
<1>6. NothingOrphaned' /\ FreshInv'
  BY <1>1, <1>2 DEF NothingOrphaned, FreshInv, Account
<1>7. TokenInv'
  <2> SUFFICES ASSUME NEW t \in sessions
               PROVE  /\ t.version <= version[t.user]
                      /\ t.version = version[t.user] /\ ~(secret'[t.user] > version[t.user])
                           => t.secret = secret'[t.user]
    BY <1>2 DEF TokenInv, HalfChanged
  <2>1. t.user \in Users /\ t.version <= version[t.user]
        /\ (t.version = version[t.user] /\ ~(secret[t.user] > version[t.user])
              => t.secret = secret[t.user])
    BY <1>1 DEF TokenInv, HalfChanged, TypeOK, Session
  <2> QED
    BY <1>4, <2>1
<1>8. SocketInv'
  BY <1>2 DEF SocketInv, Current, Watches, Seen, NoSocket
<1> QED
  BY <1>5, <1>6, <1>7, <1>8 DEF AccessIndInv

----------------------------------------------------------------------------
(* Deleting an account *)

\* The account goes with its sockets, keys and grants; its servers pass on.  What a
\* remaining socket shows afterwards rests on none of the grants that went.
LEMMA DeleteUserStep ==
  ASSUME AccessIndInv, NEW p \in Principals, NEW u \in Users, NEW heir \in Users \cup {Nobody},
         DeleteUser(p, u, heir)
  PROVE  AccessIndInv'
<1>1. TypeOK /\ NothingOrphaned /\ FreshInv /\ TokenInv /\ SocketInv
  BY DEF AccessIndInv
<1>2. /\ Account(u) /\ role[u] # "owner"
      /\ heir \in Users => heir # u /\ Active(heir)
      /\ \A s \in Servers : ownerOf[s] = u => heir # Nobody
      /\ ownerOf' = Inherited(u, heir)
      /\ grants' = {g \in grants : u \notin {g.user, g.by}}
      /\ role' = [role EXCEPT ![u] = "gone"]
      /\ key' = [k \in Keys |-> IF key[k].user = u THEN NoKey ELSE key[k]]
      /\ UNCHANGED <<suspended, version, secret, status, login, sessions>>
  BY DEF DeleteUser, MayDelete, Forget
<1>3. \A c \in Sockets :
        sock'[c] = IF sock[c].user = u \/ sock[c] = NoSocket THEN NoSocket
                   ELSE [sock[c] EXCEPT !.lapsed = @ \cup Lapsing(sock[c], u)]
  BY DEF DeleteUser, Forget
<1>4. /\ role \in [Users -> Roles \cup {"none", "gone"}]
      /\ ownerOf \in [Servers -> Users \cup {Nobody}] /\ key \in [Keys -> KeyRecord \cup {NoKey}]
      /\ \A s \in Servers : ownerOf[s] = Nobody <=> status[s] = "none"
      /\ \A s \in Servers : status[s] # "none" => ownerOf[s] \in Users /\ Account(ownerOf[s])
      /\ \A g \in grants : Account(g.user) /\ Account(g.by) /\ status[g.server] # "none"
      /\ \A g \in grants : g.user \in Users /\ g.by \in Users
      /\ \A k \in Keys : key[k] # NoKey => Account(key[k].user) /\ key[k].user \in Users
  BY <1>1 DEF TypeOK, NothingOrphaned, Grant, KeyRecord
<1>5. role'[u] = "gone" /\ \A v \in Users \ {u} : role'[v] = role[v]
  BY <1>2, <1>4
<1>6. \A s \in Servers : ownerOf'[s] = IF ownerOf[s] = u THEN heir ELSE ownerOf[s]
  BY <1>2 DEF Inherited
<1>7. ASSUME NEW c \in Sockets, sock'[c] # NoSocket
      PROVE  /\ sock[c] \in Socket /\ sock[c].user \in Users \ {u} /\ sock'[c] \in Socket
             /\ sock'[c].user = sock[c].user /\ sock'[c].role = sock[c].role
             /\ sock'[c].key = sock[c].key /\ Seen(c)' = Seen(c) \ Lapsing(sock[c], u)
  <2>1. /\ sock[c].user # u /\ sock[c] # NoSocket
        /\ sock'[c] = [sock[c] EXCEPT !.lapsed = @ \cup Lapsing(sock[c], u)]
    BY <1>3, <1>7
  <2>2. sock[c] \in Socket
    BY <1>1, <2>1 DEF TypeOK
  <2>3. Lapsing(sock[c], u) \subseteq Servers
    BY <2>2 DEF Lapsing, Socket
  <2>4. /\ sock'[c] \in Socket /\ sock'[c].user = sock[c].user /\ sock'[c].role = sock[c].role
        /\ sock'[c].key = sock[c].key /\ sock'[c].joined = sock[c].joined
        /\ sock'[c].lapsed = sock[c].lapsed \cup Lapsing(sock[c], u)
    BY <2>1, <2>2, <2>3 DEF Socket
  <2>5. Seen(c)' = Seen(c) \ Lapsing(sock[c], u)
    BY <2>4 DEF Seen
  <2> QED
    BY <2>1, <2>2, <2>4, <2>5 DEF Socket
<1>8. TypeOK'
  <2>1. role' \in [Users -> Roles \cup {"none", "gone"}]
    BY <1>2, <1>4
  <2>2. ownerOf' \in [Servers -> Users \cup {Nobody}]
    BY <1>2, <1>4 DEF Inherited
  <2>3. \A s \in Servers : ownerOf'[s] = Nobody <=> status'[s] = "none"
    BY <1>2, <1>4, <1>6, AccessAssumption
  <2>4. grants' \subseteq Grant
    BY <1>1, <1>2 DEF TypeOK
  <2>5. key' \in [Keys -> KeyRecord \cup {NoKey}]
    BY <1>2, <1>4
  <2>6. sock' \in [Sockets -> Socket \cup {NoSocket}]
    <3>1. \A c \in Sockets : sock'[c] \in Socket \cup {NoSocket}
      BY <1>7
    <3>2. sock' = [c \in Sockets |-> sock'[c]]
      BY DEF DeleteUser, Forget
    <3> QED
      BY <3>1, <3>2
  <2> QED
    BY <1>1, <1>2, <2>1, <2>2, <2>3, <2>4, <2>5, <2>6 DEF TypeOK
<1>9. NothingOrphaned'
  <2>1. ASSUME NEW v \in Users, v # u, Account(v) PROVE role'[v] \in Roles
    BY <1>5, <2>1 DEF Account
  <2>2. \E v \in Users : /\ role'[v] = "owner" /\ ~suspended'[v]
                         /\ \A w \in Users \ {v} : role'[w] # "owner"
    <3>1. PICK v \in Users : /\ role[v] = "owner" /\ ~suspended[v]
                             /\ \A w \in Users \ {v} : role[w] # "owner"
      BY <1>1, <1>2 DEF NothingOrphaned, Account, Roles
    <3> QED
      BY <1>2, <1>5, <3>1
  <2>3. \A s \in Servers : status'[s] # "none" => ownerOf'[s] \in Users /\ role'[ownerOf'[s]] \in Roles
    BY <1>2, <1>4, <1>6, <2>1 DEF Active
  <2>4. \A g \in grants' : role'[g.user] \in Roles /\ role'[g.by] \in Roles /\ status'[g.server] # "none"
    BY <1>2, <1>4, <2>1
  <2>5. ASSUME NEW k \in Keys, key'[k] # NoKey PROVE role'[key'[k].user] \in Roles
    BY <1>2, <1>4, <2>1, <2>5
  <2> QED
    BY <2>2, <2>3, <2>4, <2>5 DEF NothingOrphaned, Account
<1>10. FreshInv' /\ TokenInv'
  BY <1>1, <1>2, <1>5 DEF FreshInv, TokenInv, HalfChanged
<1>11. ASSUME NEW c \in Sockets, sock'[c] # NoSocket PROVE SameHolder(c)
  <2>1. Current(c) /\ sock[c] # NoSocket
    BY <1>1, <1>3, <1>11 DEF SocketInv
  <2>2. sock[c].key # Nobody => key'[sock[c].key] = key[sock[c].key]
    BY <1>1, <1>2, <1>7, <1>11, <2>1, ScopesTyped DEF Current
  <2> QED
    BY <1>2, <1>5, <1>7, <1>11, <2>1, <2>2 DEF SameHolder, Current
<1>12. ASSUME NEW c \in Sockets, sock'[c] # NoSocket, NEW s \in Seen(c)'
       PROVE  (status[s] = "ready" /\ Allowed(c, s))'
  <2>1. /\ sock[c] \in Socket /\ sock'[c].user = sock[c].user /\ sock'[c].key = sock[c].key
        /\ s \in Seen(c) \ Lapsing(sock[c], u)
    BY <1>7, <1>12
  <2>2. PICK v \in Users \ {u} : v = sock[c].user
    BY <1>7, <1>12
  <2>3. s \in sock[c].joined /\ s \in Servers
    BY <2>1 DEF Seen, Socket
  <2>4. Current(c) /\ status[s] = "ready" /\ Allowed(c, s) /\ sock[c] # NoSocket
    BY <1>1, <1>3, <1>12, <2>1 DEF SocketInv, Watches
  <2>5. GrantedTo(v, s)' = GrantedTo(v, s)
    <3>1. \A g \in grants : g.user = v /\ g.server = s => g.by # u
      BY <2>1, <2>2, <2>3 DEF Lapsing
    <3>2. {h \in grants' : h.user = v /\ h.server = s} = {h \in grants : h.user = v /\ h.server = s}
      BY <1>2, <2>2, <3>1
    <3> QED
      BY <3>2 DEF GrantedTo
  <2>6. ScopesOf(sock[c])' = ScopesOf(sock[c]) /\ ScopesOf(sock[c]) \in Scopes
    BY <1>1, <1>11, <1>12, <2>1, <2>4, ScopesTyped DEF SameHolder, ScopesOf
  <2>7. Effective(v, role[v], s)' = Effective(v, role[v], s) \/ Effective(v, role[v], s)' = All
    BY <1>5, <1>6, <2>2, <2>3, <2>5 DEF Effective
  <2>8. Effective(v, role[v], s) \in SUBSET (Perms \cup All)
    BY <1>1, GrantedTyped DEF Effective
  <2>9. HasPermission(Intersect(Effective(v, role[v], s), ScopesOf(sock[c])), Connect)
    BY <2>2, <2>4 DEF Allowed, Holds
  <2>10. HasPermission(Intersect(Effective(v, role[v], s)', ScopesOf(sock[c])), Connect)
    BY <2>6, <2>7, <2>8, <2>9, OwnersSeeMore
  <2>11. status'[s] = "ready"
    BY <1>2, <2>4
  <2> QED
    BY <2>1, <2>2, <2>6, <2>10, <2>11 DEF Allowed, Holds
<1>13. ASSUME NEW c \in Sockets PROVE Current(c)' /\ Watches(c)'
  <2>1. CASE sock'[c] = NoSocket
    BY <2>1 DEF Current, Watches, Seen, NoSocket
  <2>2. CASE sock'[c] # NoSocket
    <3>1. Current(c) /\ Shrunk(c)
      BY <1>1, <1>3, <1>7, <2>2 DEF SocketInv, Shrunk
    <3>2. Current(c)'
      BY <1>1, <1>11, <2>2, <3>1, CurrentStep
    <3> QED
      BY <1>12, <2>2, <3>2 DEF Watches
  <2> QED
    BY <2>1, <2>2
<1> QED
  BY <1>8, <1>9, <1>10, <1>13 DEF AccessIndInv, SocketInv

----------------------------------------------------------------------------
(* The whole *)

LEMMA AccessStep == AccessIndInv /\ [Next]_vars => AccessIndInv'
<1> SUFFICES ASSUME AccessIndInv, [Next]_vars PROVE AccessIndInv'
  OBVIOUS
<1>1. CASE Next
  <2>1. ASSUME NEW u \in Users, Setup(u) \/ ResetPassword(u) \/ BeginLogin(u) PROVE AccessIndInv'
    BY <2>1, AccountSteps, TokenStep
  <2>2. ASSUME (\E l \in login : EndLogin(l)) \/ (\E t \in sessions : SessionExpires(t))
        PROVE  AccessIndInv'
    BY <2>2, TokenStep
  <2>3. ASSUME NEW k \in Keys, KeyExpires(k) PROVE AccessIndInv'
    BY <2>3, KeyStep
  <2>4. ASSUME NEW p \in Principals, NEW u \in Users,
               \/ \E r \in {"user", "admin"} : CreateUser(p, u, r) \/ ChangeRole(p, u, r)
               \/ ChangePassword(p, u) \/ EndsInPassword(p, u)
               \/ SuspendUser(p, u) \/ ResumeUser(p, u)
               \/ \E heir \in Users \cup {Nobody} : DeleteUser(p, u, heir)
        PROVE  AccessIndInv'
    BY <2>4, AccountSteps, CutStep, DeleteUserStep
  <2>5. ASSUME NEW p \in Principals, NEW k \in Keys,
               (\E scopes \in Offered : CreateKey(p, k, scopes)) \/ RevokeKey(p, k)
        PROVE  AccessIndInv'
    BY <2>5, KeyStep
  <2>6. ASSUME NEW p \in Principals, NEW s \in Servers,
               \/ SuspendServer(p, s) \/ DeleteServer(p, s) \/ UnsuspendServer(p, s)
               \/ \E u \in Users :
                    \/ CreateServer(p, s, u)
                    \/ \E perms \in Offered : AddGrant(p, s, u, perms)
        PROVE  AccessIndInv'
    BY <2>6, ServerStep, GrantStep
  <2>7. ASSUME NEW p \in Principals, NEW g \in grants, RemoveGrant(p, g) PROVE AccessIndInv'
    BY <2>7, RemoveGrantStep
  <2>8. ASSUME \/ \E c \in Sockets : \/ \E p \in Principals : OpenSocket(c, p)
                                     \/ CloseSocket(c)
                                     \/ \E s \in Servers : Join(c, s)
               \/ PanelEnds
        PROVE  AccessIndInv'
    BY <2>8, SocketStep
  <2> QED
    BY <1>1, <2>1, <2>2, <2>3, <2>4, <2>5, <2>6, <2>7, <2>8 DEF Next
<1>2. CASE UNCHANGED vars
  <2>1. /\ TypeOK /\ NothingOrphaned /\ FreshInv /\ TokenInv /\ SocketInv
        /\ UNCHANGED <<role, suspended, version, secret, ownerOf, status, grants, key, login,
                       sessions, sock>>
    BY <1>2 DEF AccessIndInv, vars
  <2>2. TypeOK' /\ FreshInv' /\ TokenInv'
    BY <2>1 DEF TypeOK, FreshInv, TokenInv, HalfChanged
  <2>3. NothingOrphaned'
    BY <2>1 DEF NothingOrphaned, Account
  <2>4. SocketInv'
    BY <2>1, SocketsStay
  <2> QED
    BY <2>2, <2>3, <2>4 DEF AccessIndInv
<1> QED
  BY <1>1, <1>2

\* The invariant holds for any numbers of accounts, servers, keys, sockets and logins.
THEOREM AccessInvariant == Spec => []AccessIndInv
  BY AccessInit, AccessStep, PTL DEF Spec

\* The rows have their types, there is one owner, and nothing refers to an account
\* that is gone.
THEOREM WellFormedHolds == Spec => []WellFormed
<1>1. AccessIndInv => WellFormed
  BY DEF AccessIndInv, WellFormed
<1> QED
  BY <1>1, AccessInvariant, PTL

\* The principal of a socket is current, however the accounts, roles and keys change
\* while it is open.
THEOREM PrincipalCurrentHolds == Spec => []PrincipalCurrent
<1>1. AccessIndInv => PrincipalCurrent
  BY SocketProperties DEF AccessIndInv
<1> QED
  BY <1>1, AccessInvariant, PTL

\* A socket streams no server that its account may not connect to now, grants that
\* lapsed with their grantor apart.
THEOREM StreamNeedsAccessHolds == Spec => []StreamNeedsAccess
<1>1. AccessIndInv => StreamNeedsAccess
  BY SocketProperties DEF AccessIndInv
<1> QED
  BY <1>1, AccessInvariant, PTL

\* No accepted session is older than the password, though a login sleeps between
\* reading the account and signing, but for a change that the end of the panel cut
\* between its two statements.
THEOREM SessionsFollowPasswordHolds == Spec => []SessionsFollowPassword
<1>1. AccessIndInv => SessionsFollowPassword
  BY DEF AccessIndInv, TokenInv, SessionsFollowPassword, Accepts
<1> QED
  BY <1>1, AccessInvariant, PTL
=============================================================================
