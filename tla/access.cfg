SPECIFICATION Spec
CONSTANTS
  Users = {u1, u2, u3}
  Servers = {s1}
  Keys = {k1}
  Sockets = {c1}
  Perms = {conn, manage}
  Connect = conn
  Invite = manage
  Expel = manage
  Offered = {{conn}, {manage}}
  Nobody = nobody
  MaxVersion = 1
  MaxSessions = 1
SYMMETRY AnyUser
INVARIANTS WellFormed PrincipalCurrent StreamNeedsAccess SessionsFollowPassword
CHECK_DEADLOCK FALSE
CONSTRAINT FewChanges
