\* The password store under profile requests, watcher reloads and edits of
\* the file by an administrator; every save succeeds.
CONSTANTS
  u1 = u1  s1 = s1  nm1 = nm1  nm2 = nm2  k1 = k1  k2 = k2  h1 = h1  h2 = h2
  pw1 = pw1  pw2 = pw2  pwShort = pwShort  capA = capA  roleA = roleA
  NoId = NoId  NoType = NoType  NoName = NoName  NoKey = NoKey  NoHash = NoHash
  NoRole = NoRole  BadType = BadType  Absent = Absent  Missing = Missing
  EmptyFile = EmptyFile  Corrupt = Corrupt  None = None
  Clients <- MCClients
  ClientTypes <- MCClientTypes
  DisplayNames = {nm1, nm2}
  PubKeys = {k1, k2}
  Hashes = {h1, h2}
  Roles = {roleA}
  DefaultValidity <- MCDefaultValidity
  Validities <- MCValidities
  SaveCanFail = FALSE
  Reqs = {r1, r2}
  ReqKinds = {"name", "pubkey", "password", "perm"}
  Passwords <- MCPasswords
  ShortPasswords = {pwShort}
  PwHash <- MCPwHash
  Caps = {capA}
  RoleSets <- MCRoleSets
  InitFiles <- MCInitFiles
  Edits <- MCEdits
  MaxEdits = 1
  AdminProfiles <- MCAdminProfiles
  MaxAdminOps = 1
SPECIFICATION Spec
INVARIANTS TypeOK StoreMatchesFile
CHECK_DEADLOCK FALSE
