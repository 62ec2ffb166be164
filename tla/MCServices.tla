----------------------------- MODULE MCServices -----------------------------
(***************************************************************************)
(* Model-checking instance of the provisioning service, the directory and *)
(* the launcher's plugin inventory.  The three share no state, and every property checked here is   *)
(* about one of them, so the run checks each service's own state space:   *)
(* Init picks the service a behaviour runs, and the other one stays in its *)
(* initial state.  The product of the two spaces would hold the same      *)
(* pairs of reachable states.                                              *)
(*                                                                         *)
(* Provisioning: one device, two keys, two MACs; an administrator may     *)
(* pre-approve it with a MAC only, or with a key in a list that also holds *)
(* an approval without a client ID.  Directory: two Things and the two    *)
(* capability TDs, one client, one cursor key.  Launcher: two plugin      *)
(* files, each absent, not executable or of one of two versions, and two   *)
(* changes of the folder.                                                  *)
(***************************************************************************)
EXTENDS ProvService, DirService, Launcher, TLC

CONSTANTS d1, k1, k2, m1, m2, tDev, tSvc, thA, thB, capRead, capUpdate, c1, ck1, p1, p2

VARIABLE part   \* the service this behaviour runs: "prov", "dir" or "run"

Approval(id, t, k, m) == [id |-> id, ctype |-> t, key |-> k, mac |-> m]
MCApprovalLists ==
  {<<Approval(d1, tDev, NoKey, m1)>>,
   <<Approval(NoId, tSvc, k1, NoMAC), Approval(d1, tSvc, k1, NoMAC)>>}

\* Bucket keys are agentID/thingID: the directory's own capabilities sort
\* between the two devices' Things.
MCAddrOrder == <<thA, capRead, capUpdate, thB>>
MCOwnTDs == {capRead, capUpdate}

\* A regular file of each of two versions, and one without the execute bit.
MCFileStates ==
  {[dir |-> FALSE, exec |-> TRUE, size |-> 1, mtime |-> 1],
   [dir |-> FALSE, exec |-> TRUE, size |-> 2, mtime |-> 2],
   [dir |-> FALSE, exec |-> FALSE, size |-> 1, mtime |-> 3]}

allVars == <<part, provVars, dirVars, launcherVars>>

ServicesInit ==
  /\ part \in {"prov", "dir", "run"}
  /\ ProvInit
  /\ DirInit
  /\ LauncherInit
  \* a behaviour of another service keeps one launcher state
  /\ part # "run" => ~hasCore /\ ~coreFound /\ ~dirExists

ServicesNext ==
  /\ UNCHANGED part
  /\ \/ part = "prov" /\ ProvNext /\ UNCHANGED <<dirVars, launcherVars>>
     \/ part = "dir" /\ DirNext /\ UNCHANGED <<provVars, launcherVars>>
     \/ part = "run" /\ LauncherNext /\ UNCHANGED <<provVars, dirVars>>

\* The bus hands every delivered TD event to handleTDEvent.
DirStep(A) == part = "dir" /\ A /\ UNCHANGED <<part, provVars, launcherVars>>

\* main runs Start to its end and calls Stop when Start failed; the watcher
\* goroutine handles every queued event.  A signal is not forced.
RunStep(A) == part = "run" /\ A /\ UNCHANGED <<part, provVars, dirVars>>

ServicesFairness ==
  /\ \A a \in Addrs : WF_allVars(DirStep(HandleTDEvent(a)))
  /\ WF_allVars(RunStep(StartBegin \/ WatchPlugins \/ StartScan \/ StartRest))
  /\ WF_allVars(RunStep(lpc = "failed" /\ Stop))
  /\ WF_allVars(RunStep(WatchEvent \/ WatchScan))

ServicesSpec == ServicesInit /\ [][ServicesNext]_allVars /\ ServicesFairness
=============================================================================
