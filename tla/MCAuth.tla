------------------------------- MODULE MCAuth -------------------------------
(***************************************************************************)
(* Model-checking instance of AuthProfile: a user and a service, two of    *)
(* each display name, key and password hash, one short password.          *)
(***************************************************************************)
EXTENDS AuthProfile, TLC

CONSTANTS u1, s1, nm1, nm2, k1, k2, h1, h2, pw1, pw2, pwShort, capA, roleA

MCClients == {u1, s1}
MCClientTypes == {"device", "user", "service"}
MCDefaultValidity == [t \in MCClientTypes |-> 90]
MCValidities == {0, 90}
MCPasswords == {pw2, pwShort}
MCPwHash == (pw1 :> h1) @@ (pw2 :> h2) @@ (pwShort :> h1)
MCRoleSets == {{roleA}}

E(c, t, n, k, h) ==
  [profile |-> [id |-> c, type |-> t, name |-> n, key |-> k, role |-> roleA,
                validity |-> 90],
   hash |-> h]

\* The file the hub starts with: both clients with their first name, key and
\* password hash.
Saved == [c \in MCClients |-> E(c, IF c = u1 THEN "user" ELSE "service", nm1, k1, h1)]
\* An administrator's edit: the user with a second key, the service deleted.
Edited == [Saved EXCEPT ![u1] = E(u1, "user", nm1, k2, h1), ![s1] = Absent]

\* The administrator re-adds the user with a second key and no token
\* validity (the default applies), or gives a client type Add rejects.
MCAdminProfiles ==
  {[id |-> u1, type |-> "user", name |-> nm2, key |-> k2, role |-> roleA, validity |-> 0],
   [id |-> s1, type |-> BadType, name |-> nm1, key |-> k1, role |-> roleA, validity |-> 90]}

MCInitFiles == {Saved, Missing, Corrupt}
MCEdits == {Edited, EmptyFile, Corrupt, Missing}
=============================================================================
