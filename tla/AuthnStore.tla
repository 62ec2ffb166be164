----------------------------- MODULE AuthnStore -----------------------------
(***************************************************************************)
(* AuthnFileStore (mod_auth/auth_str/AuthnFileStore.go): the password     *)
(* file of the hub's clients.  The store keeps every entry in memory,      *)
(* writes the whole map to a temporary file and renames it over the        *)
(* password file after each change (save), and reloads the file when a     *)
(* file watcher reports a change.  Every public method holds the store's   *)
(* mutex for its whole body, so each one is a single step here.            *)
(*                                                                         *)
(* A client entry is a ClientProfile with its password hash.  The          *)
(* UpdatedMSE timestamp is left out: nothing reads it.  Strings that the   *)
(* code tests against "" have the model value NoName, NoKey, NoHash or     *)
(* NoType for "".                                                          *)
(***************************************************************************)
EXTENDS Integers

CONSTANTS
  Clients,          \* client IDs
  ClientTypes,      \* authapi.ClientTypeDevice, -User and -Service
  BadType,          \* a client type outside those three
  DisplayNames, PubKeys, Hashes, Roles,
  NoId, NoType, NoName, NoKey, NoHash, NoRole,   \* the empty string
  DefaultValidity,  \* client type -> its default token validity (days)
  Validities,       \* token validities a caller may give (0: default)
  Absent,           \* no entry for a client ID
  Missing,          \* the password file does not exist
  EmptyFile,        \* the password file has no bytes
  Corrupt,          \* the password file cannot be read or parsed
  SaveCanFail       \* whether save() may fail (MkdirAll, CreateTemp, Write, Rename)

VARIABLES
  entries,    \* authnStore.entries: client ID -> entry or Absent
  file,       \* the password file: a map as entries has, or Missing/EmptyFile/Corrupt
  watching,   \* authnStore.watcher is set: the file watcher is running
  reloadDue   \* the watcher has seen a change it has not yet reloaded

storeVars == <<entries, file, watching, reloadDue>>

Profile == [id: Clients \cup {NoId}, type: ClientTypes \cup {BadType, NoType},
            name: DisplayNames \cup {NoName}, key: PubKeys \cup {NoKey},
            role: Roles \cup {NoRole}, validity: Validities]
Entry == [profile: Profile, hash: Hashes \cup {NoHash}]
EntryMaps == [Clients -> Entry \cup {Absent}]

\* The zero ClientProfile GetProfile returns with its error.
ZeroProfile == [id |-> NoId, type |-> NoType, name |-> NoName, key |-> NoKey,
                role |-> NoRole, validity |-> 0]

\* GetProfile: the client's profile, or the zero profile when it is unknown.
GetProfile(c) == IF entries[c] = Absent THEN ZeroProfile ELSE entries[c].profile

\* save(): the whole map goes to a temporary file that is renamed over the
\* password file.  Any of the four file operations may fail; the rename is
\* the last, so a failure leaves the old file in place.  A new file is a
\* change the watcher reports.
Save(m, err) ==
  \/ /\ err = "ok"
     /\ file' = m
     /\ reloadDue' = watching
  \/ /\ SaveCanFail
     /\ err = "saveFailed"
     /\ UNCHANGED <<file, reloadDue>>

\* Mutant: the default token validity is not applied.
WithDefaultsNone(p) == p

\* Add: a new or replaced profile; a zero token validity takes the default of
\* the client type; an existing entry keeps its password hash.
WithDefaults(p) ==
  IF p.validity = 0 THEN [p EXCEPT !.validity = DefaultValidity[p.type]] ELSE p

Add(c, p, err) ==
  /\ \/ /\ c # p.id \/ p.type \notin ClientTypes
        /\ err = "invalid"
        /\ UNCHANGED storeVars
     \/ /\ c = p.id /\ p.type \in ClientTypes
        /\ entries' = [entries EXCEPT ![c] =
                         IF @ = Absent THEN [profile |-> WithDefaults(p), hash |-> NoHash]
                         ELSE [@ EXCEPT !.profile = WithDefaults(p)]]
        /\ Save(entries', err)
        /\ UNCHANGED watching

\* Remove: the entry goes, and the map is saved whether or not it existed.
Remove(c, err) ==
  /\ entries' = [entries EXCEPT ![c] = Absent]
  /\ Save(entries', err)
  /\ UNCHANGED watching

\* Update: every non-empty field of p except the role overwrites the entry's.
MergeProfile(old, p) ==
  [old EXCEPT !.type     = IF p.type # NoType THEN p.type ELSE @,
              !.name     = IF p.name # NoName THEN p.name ELSE @,
              !.validity = IF p.validity # 0 THEN p.validity ELSE @,
              !.key      = IF p.key # NoKey THEN p.key ELSE @]

Update(c, p, err) ==
  \/ /\ entries[c] = Absent
     /\ err = "notFound"
     /\ UNCHANGED storeVars
  \/ /\ entries[c] # Absent /\ p.id # c
     /\ err = "mismatch"
     /\ UNCHANGED storeVars
  \/ /\ entries[c] # Absent /\ p.id = c
     /\ entries' = [entries EXCEPT ![c].profile = MergeProfile(@, p)]
     /\ Save(entries', err)
     /\ UNCHANGED watching

SetPasswordHash(c, h, err) ==
  \/ /\ entries[c] = Absent
     /\ err = "notFound"
     /\ UNCHANGED storeVars
  \/ /\ entries[c] # Absent
     /\ entries' = [entries EXCEPT ![c].hash = h]
     /\ Save(entries', err)
     /\ UNCHANGED watching

\* Mutant: a parsed file is not installed as the new map.
ReloadKeepEntries(err) ==
  \/ /\ file = Missing
     /\ Save(entries, err)
     /\ UNCHANGED entries
  \/ /\ file \in {EmptyFile, Corrupt} \cup EntryMaps
     /\ err = IF file = Corrupt THEN "reloadFailed" ELSE "ok"
     /\ reloadDue' = FALSE
     /\ UNCHANGED <<entries, file>>

\* Reload: a missing file is created from memory, an empty one changes
\* nothing, an unreadable or unparsable one is an error, and a readable one
\* replaces the whole map.  It runs at Open and from the watcher, never with
\* a second change pending, so a branch without a save clears reloadDue.
Reload(err) ==
  \/ /\ file = Missing
     /\ Save(entries, err)
     /\ UNCHANGED entries
  \/ /\ file = EmptyFile
     /\ err = "ok"
     /\ reloadDue' = FALSE
     /\ UNCHANGED <<entries, file>>
  \/ /\ file = Corrupt
     /\ err = "reloadFailed"
     /\ reloadDue' = FALSE
     /\ UNCHANGED <<entries, file>>
  \/ /\ file \in EntryMaps
     /\ err = "ok"
     /\ entries' = file
     /\ reloadDue' = FALSE
     /\ UNCHANGED file

\* Open: Reload, then start the watcher with Reload as its callback.  A
\* second Open while the watcher runs fails before reading anything.
Open(err) ==
  \/ /\ watching
     /\ err = "alreadyOpen"
     /\ UNCHANGED storeVars
  \/ /\ ~watching
     /\ Reload(err)
     /\ watching' = (err = "ok")

\* Close: stop the watcher.
Close ==
  /\ watching' = FALSE
  /\ reloadDue' = FALSE
  /\ UNCHANGED <<entries, file>>

\* The watcher's callback after a change to the file.
WatcherReload ==
  /\ watching /\ reloadDue
  /\ \E err \in {"ok", "saveFailed", "reloadFailed"} : Reload(err)
  /\ UNCHANGED watching
=============================================================================
