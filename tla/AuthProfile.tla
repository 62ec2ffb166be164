----------------------------- MODULE AuthProfile -----------------------------
(***************************************************************************)
(* The auth service (mod_auth/auth_srv): AuthService.Start opens the       *)
(* password store, and AuthManageProfile serves the requests by which a    *)
(* client changes its own profile.  Each request runs in its own RPC       *)
(* goroutine; each store call it makes is one step, so a request that      *)
(* reads the profile and then updates it takes two.                        *)
(*                                                                         *)
(* A credential change is pushed to the message server by onChange, which  *)
(* snapshots the store's client list and hands it to ApplyAuth in a new    *)
(* goroutine.  UpdatePassword calls onChange itself; UpdatePubKey starts   *)
(* onChange in a goroutine of its own.  applied is the client list the     *)
(* message server enforces.                                                *)
(***************************************************************************)
EXTENDS AuthnStore, FiniteSets

CONSTANTS
  Reqs,            \* RPC goroutines, each serving one request
  ReqKinds,        \* the profile methods clients call
  Passwords,       \* passwords clients send
  ShortPasswords,  \* those shorter than five characters
  PwHash,          \* password -> its bcrypt hash
  Caps,            \* capabilities a service sets permissions for
  RoleSets,        \* role lists a service allows on a capability
  InitFiles,       \* password files the hub may start with
  Edits,           \* contents an administrator may write to the file
  MaxEdits,        \* bound on edits of the file
  AdminProfiles,   \* profiles an administrator adds
  MaxAdminOps,     \* bound on an administrator's adds and removes
  None             \* no snapshot in hand

VARIABLES
  svc,       \* "new", "running", "stopped" or "failed" (Start panicked)
  req,       \* request -> its goroutine's state
  applied,   \* the client list the message server applies
  perms,     \* <<service, capability>> -> allowed roles, or None
  edits,     \* edits of the file so far
  adminOps   \* adds and removes so far

vars == <<storeVars, svc, req, applied, perms, edits, adminOps>>

\* GetAuthClientList: what the message server needs of each client.
AuthInfo(m) ==
  [c \in Clients |-> IF m[c] = Absent THEN Absent
                     ELSE [type |-> m[c].profile.type, key |-> m[c].profile.key,
                           role |-> m[c].profile.role, hash |-> m[c].hash]]

\* The arguments of each method.
Args == [name |-> DisplayNames, pubkey |-> PubKeys, password |-> Passwords,
         perm |-> Caps \X RoleSets]

Idle == [pc |-> "idle", kind |-> "none", sender |-> NoId, arg |-> None, prof |-> ZeroProfile,
         onchange |-> FALSE, snap |-> None]

Set(r, f) == req' = [req EXCEPT ![r] = f]

\* AuthService.Start: open the store; a failure panics (StartAuthService).
\* The client manager it starts next (not in the repository) hands the
\* store's list to the message server, so the server starts in step.
Start ==
  /\ svc = "new"
  /\ \E err \in {"ok", "saveFailed", "reloadFailed"} :
       /\ Open(err)
       /\ svc' = IF err = "ok" THEN "running" ELSE "failed"
  /\ applied' = AuthInfo(entries')
  /\ UNCHANGED <<req, perms, edits, adminOps>>

\* AuthService.Stop: the capabilities stop taking requests and the store's
\* watcher is closed.  Requests already running go on.
Stop ==
  /\ svc = "running"
  /\ svc' = "stopped"
  /\ Close
  /\ UNCHANGED <<req, applied, perms, edits, adminOps>>

\* A client calls one of the profile methods.
Call(r) ==
  /\ svc = "running" /\ req[r].pc = "idle"
  /\ \E c \in Clients, k \in ReqKinds : \E a \in Args[k] :
       Set(r, [req[r] EXCEPT !.pc = "read", !.kind = k, !.sender = c, !.arg = a])
  /\ UNCHANGED <<storeVars, svc, applied, perms, edits, adminOps>>

Done(r) == Set(r, [req[r] EXCEPT !.pc = "done"])

\* The first store call of each method: GetProfile of the sender.
\* UpdateName ignores its error; SetServicePermissions is complete after it.
ReadProfile(r) ==
  LET s == req[r].sender IN
  /\ req[r].pc = "read"
  /\ \/ /\ req[r].kind = "name"
        /\ Set(r, [req[r] EXCEPT !.pc = "write", !.prof = GetProfile(s)])
        /\ UNCHANGED perms
     \/ /\ req[r].kind \in {"pubkey", "password", "perm"}
        /\ entries[s] = Absent
        /\ Done(r) /\ UNCHANGED perms
     \/ /\ req[r].kind \in {"pubkey", "password"}
        /\ entries[s] # Absent
        /\ Set(r, [req[r] EXCEPT !.pc = "write", !.prof = GetProfile(s)])
        /\ UNCHANGED perms
     \/ /\ req[r].kind = "perm"
        /\ entries[s] # Absent
        /\ \/ GetProfile(s).type # "service" /\ UNCHANGED perms
           \/ GetProfile(s).type = "service"
              /\ perms' = [perms EXCEPT ![<<s, req[r].arg[1]>>] = req[r].arg[2]]
        /\ Done(r)
  /\ UNCHANGED <<storeVars, svc, applied, edits, adminOps>>

\* AuthnFileStore.SetPassword: a password shorter than five characters is
\* refused before hashing; any other is hashed and stored with
\* SetPasswordHash.
SetPassword(c, pw, err) ==
  IF pw \in ShortPasswords
  THEN err = "tooShort" /\ UNCHANGED storeVars
  ELSE err # "tooShort" /\ SetPasswordHash(c, PwHash[pw], err)

\* The second store call: Update with the profile read before, or
\* SetPassword.  UpdatePubKey starts onChange in a goroutine on success;
\* UpdatePassword goes on to call onChange.
WriteProfile(r) ==
  LET s == req[r].sender
      p == req[r].prof
  IN
  /\ req[r].pc = "write"
  /\ \/ /\ req[r].kind = "name"
        /\ \E err \in {"ok", "saveFailed", "notFound", "mismatch"} :
             Update(s, [p EXCEPT !.name = req[r].arg], err)
        /\ Done(r)
     \/ /\ req[r].kind = "pubkey"
        /\ \E err \in {"ok", "saveFailed", "notFound", "mismatch"} :
             /\ Update(s, [p EXCEPT !.key = req[r].arg], err)
             /\ Set(r, [req[r] EXCEPT !.pc = "done", !.onchange = (err = "ok")])
     \/ /\ req[r].kind = "password"
        /\ \E err \in {"ok", "tooShort", "saveFailed", "notFound"} :
             /\ SetPassword(s, req[r].arg, err)
             /\ Set(r, [req[r] EXCEPT !.pc = IF err = "ok" THEN "notify" ELSE "done"])
  /\ UNCHANGED <<svc, applied, perms, edits, adminOps>>

\* onChange called by UpdatePassword: snapshot the list, start ApplyAuth.
Notify(r) ==
  /\ req[r].pc = "notify"
  /\ Set(r, [req[r] EXCEPT !.pc = "done", !.snap = AuthInfo(entries)])
  /\ UNCHANGED <<storeVars, svc, applied, perms, edits, adminOps>>

\* The onChange goroutine UpdatePubKey started.
OnChange(r) ==
  /\ req[r].onchange
  /\ Set(r, [req[r] EXCEPT !.onchange = FALSE, !.snap = AuthInfo(entries)])
  /\ UNCHANGED <<storeVars, svc, applied, perms, edits, adminOps>>

\* The ApplyAuth goroutine hands its snapshot to the message server.
ApplyAuth(r) ==
  /\ req[r].snap # None
  /\ applied' = req[r].snap
  /\ Set(r, [req[r] EXCEPT !.snap = None])
  /\ UNCHANGED <<storeVars, svc, perms, edits, adminOps>>

\* An administrator rewrites, empties, corrupts or deletes the password file.
EditFile ==
  /\ svc = "running" /\ edits < MaxEdits
  /\ \E f \in Edits : file' = f
  /\ reloadDue' = watching
  /\ edits' = edits + 1
  /\ UNCHANGED <<entries, watching, svc, req, applied, perms, adminOps>>

\* The client manager's AddService, AddUser and RemoveClient (not in the
\* repository) call the store's Add and Remove.
AdminChange ==
  /\ svc = "running" /\ adminOps < MaxAdminOps
  /\ \E err \in {"ok", "saveFailed", "invalid"} :
       \/ \E c \in Clients, p \in AdminProfiles : Add(c, p, err)
       \/ \E c \in Clients : Remove(c, err)
  /\ adminOps' = adminOps + 1
  /\ UNCHANGED <<svc, req, applied, perms, edits>>

StoreReload ==
  /\ WatcherReload
  /\ UNCHANGED <<svc, req, applied, perms, edits, adminOps>>

Init ==
  /\ entries = [c \in Clients |-> Absent]
  /\ file \in InitFiles
  /\ watching = FALSE /\ reloadDue = FALSE
  /\ svc = "new"
  /\ req = [r \in Reqs |-> Idle]
  /\ applied = AuthInfo(entries)
  /\ perms = [p \in Clients \X Caps |-> None]
  /\ edits = 0
  /\ adminOps = 0

Next ==
  \/ Start \/ Stop \/ EditFile \/ AdminChange \/ StoreReload
  \/ \E r \in Reqs :
       Call(r) \/ ReadProfile(r) \/ WriteProfile(r) \/ Notify(r)
       \/ OnChange(r) \/ ApplyAuth(r)

Spec == Init /\ [][Next]_vars /\ WF_vars(StoreReload)
          /\ \A r \in Reqs : WF_vars(OnChange(r)) /\ WF_vars(ApplyAuth(r))

-----------------------------------------------------------------------------
Snapshot == [Clients -> [type: ClientTypes, key: PubKeys \cup {NoKey},
                         role: Roles \cup {NoRole}, hash: Hashes \cup {NoHash}]
                        \cup {Absent}]

\* A stored entry: a valid client type and a token validity that is set.
StoredEntries ==
  [Clients -> {e \in Entry : e.profile.type \in ClientTypes /\ e.profile.validity # 0}
              \cup {Absent}]

TypeOK ==
  /\ entries \in StoredEntries
  /\ file \in EntryMaps \cup {Missing, EmptyFile, Corrupt}
  /\ watching \in BOOLEAN /\ reloadDue \in BOOLEAN
  /\ svc \in {"new", "running", "stopped", "failed"}
  /\ \A r \in Reqs :
       /\ req[r].pc \in {"idle", "read", "write", "notify", "done"}
       /\ req[r].prof \in Profile
       /\ req[r].onchange \in BOOLEAN
       /\ req[r].snap \in Snapshot \cup {None}
  /\ applied \in Snapshot
  /\ edits \in 0..MaxEdits /\ adminOps \in 0..MaxAdminOps

\* Every method saves the map it changed while it holds the mutex, and the
\* watcher's reload reads back the file: once a running store has no reload
\* pending and the file holds a client map, memory and file agree.
StoreMatchesFile ==
  svc = "running" /\ ~reloadDue /\ file \in EntryMaps => entries = file

\* UpdateName changes only the display name: the step in which its Update
\* writes never changes any client's public key.
NameChangeKeepsKey ==
  [][\A r \in Reqs, c \in Clients :
       /\ req[r].kind = "name" /\ req[r].pc = "write" /\ req'[r].pc = "done"
       /\ entries[c] # Absent /\ entries'[c] # Absent
       => entries'[c].profile.key = entries[c].profile.key]_vars

\* Once no profile request is in flight and every onChange and ApplyAuth
\* goroutine has run, the message server enforces the store's credentials.
Quiet ==
  \A r \in Reqs : req[r].pc \in {"idle", "done"} /\ ~req[r].onchange /\ req[r].snap = None

ServerAuthCurrent == svc = "running" /\ Quiet => applied = AuthInfo(entries)
=============================================================================
