------------------------------ MODULE MCAccess ------------------------------
(* The instance of Access that TLC checks. *)
EXTENDS Access, TLC

\* Either two accounts with everything, or three without keys whose passwords
\* and password versions stay what they were.  While a password is half changed there
\* are no keys.
Untouched(u) == version[u] = 0 /\ secret[u] = 0
NoKeys == \A k \in Keys : key[k] = NoKey
FewChanges ==
  /\ \/ Cardinality({u \in Users : role[u] # "none"}) <= 2
     \/ NoKeys /\ \A u \in Users : Untouched(u)
  /\ (\E u \in Users : HalfChanged(u)) => NoKeys

AnyUser == Permutations(Users)
=============================================================================
