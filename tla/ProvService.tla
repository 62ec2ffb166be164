----------------------------- MODULE ProvService -----------------------------
(***************************************************************************)
(* The provisioning service (mod_prov/prov_srv/ManageIdProvService.go):    *)
(* devices submit provisioning requests over HTTPS (IdProvHttpServer),     *)
(* administrators approve, reject or pre-approve them over RPC, and a      *)
(* repeat request of an approved device registers it with the auth         *)
(* service and returns a token.  Every method holds svc.mux for its whole  *)
(* body, so each call is one step.                                         *)
(*                                                                         *)
(* A ProvisionStatus keeps its strings (public key, MAC, client type) as   *)
(* model values, with NoKey, NoMAC and NoType for "".  The timestamps are  *)
(* reduced to what the code tests of them: ApprovedMSE # 0 and             *)
(* RejectedMSE # 0 are the flags approved and rejected; ReceivedMSE is     *)
(* only reported and is left out.  RetrySec keeps its value.               *)
(***************************************************************************)
EXTENDS Integers, SequencesExt

CONSTANTS
  Devices,        \* client IDs of devices and services
  NoId,           \* the empty client ID a pre-approval may carry
  ProvTypes,      \* client types an administrator gives
  ServiceType,    \* authapi.ClientTypeService, registered with AddService
  NoType,         \* the empty client type of a new request
  PubKeys, NoKey, \* public keys, and the empty one
  MACs, NoMAC,    \* MAC addresses, and the empty one
  ApprovalLists,  \* the lists of approvals PreApproveClients is given
  AuthCanFail,    \* whether the auth service's AddDevice/AddService may fail
  Unknown         \* no request for a device

VARIABLES
  requests,    \* svc.requests: device -> ProvisionStatus or Unknown
  registered,  \* the auth service's clients: device -> its type and key, or Unknown
  issued       \* device -> the last token SubmitRequest returned it, with what
               \* it checked, or Unknown

provVars == <<requests, registered, issued>>

Status == [key: PubKeys \cup {NoKey}, mac: MACs \cup {NoMAC},
           ctype: ProvTypes \cup {NoType}, pending: BOOLEAN,
           approved: BOOLEAN, rejected: BOOLEAN, retry: Nat]

\* A token SubmitRequest returned: the key and MAC it presented,
\* the request status it was checked against, and the key it was registered
\* with.
Token == [presented: PubKeys \cup {NoKey}, mac: MACs \cup {NoMAC},
          status: Status, regKey: PubKeys \cup {NoKey}]

ProvInit ==
  /\ requests = [d \in Devices |-> Unknown]
  /\ registered = [d \in Devices |-> Unknown]
  /\ issued = [d \in Devices |-> Unknown]

\* Mutant: the approval does not clear the pending flag.
ApproveKeepPending(d, t) ==
  /\ requests[d] # Unknown
  /\ requests' = [requests EXCEPT ![d] = [@ EXCEPT !.ctype = t,
                                                    !.approved = TRUE, !.rejected = FALSE]]
  /\ UNCHANGED <<registered, issued>>

\* ApproveRequest: an existing request is approved with the given client type
\* and any earlier rejection is cleared.
ApproveRequest(d, t) ==
  /\ requests[d] # Unknown
  /\ requests' = [requests EXCEPT ![d] = [@ EXCEPT !.pending = FALSE, !.ctype = t,
                                                    !.approved = TRUE, !.rejected = FALSE]]
  /\ UNCHANGED <<registered, issued>>

\* RejectRequest: an existing request is rejected.  ApprovedMSE is left as
\* it was.
RejectRequest(d) ==
  /\ requests[d] # Unknown
  /\ requests' = [requests EXCEPT ![d] = [@ EXCEPT !.pending = FALSE, !.rejected = TRUE]]
  /\ UNCHANGED <<registered, issued>>

\* Mutant: an approval without a client ID is stored under the empty ID.
PreApproveNoSkip(reqs, a) ==
  (a.id :> [key |-> a.key, mac |-> a.mac, ctype |-> a.ctype, pending |-> FALSE,
            approved |-> TRUE, rejected |-> FALSE, retry |-> 0]) @@ reqs

\* One approval of PreApproveClients' loop: an approval without a client ID
\* is skipped, any other replaces the device's status by an approved one
\* whose RetrySec is zero.
PreApprove(reqs, a) ==
  IF a.id = NoId THEN reqs
  ELSE [reqs EXCEPT ![a.id] = [key |-> a.key, mac |-> a.mac, ctype |-> a.ctype,
                               pending |-> FALSE, approved |-> TRUE,
                               rejected |-> FALSE, retry |-> 0]]

PreApproveClients(list) ==
  /\ requests' = FoldLeft(PreApprove, requests, list)
  /\ UNCHANGED <<registered, issued>>

\* The approved branch's checks: a public key or MAC in the approval must be
\* the one presented, and a public key must be presented.
Mismatch(st, k, m) ==
  \/ st.key # NoKey /\ st.key # k
  \/ st.mac # NoMAC /\ st.mac # m
  \/ k = NoKey

\* Mutant: the bound is tested after the increment would pass it.
NextRetryPastCap(r) == IF r <= 600 THEN r + 30 ELSE r

\* The retry delay of a repeated request, at most ten minutes.
NextRetry(r) == IF r < 600 THEN r + 30 ELSE r

\* SubmitRequest, called by IdProvHttpServer.handleRequest with the key and
\* MAC of a well-formed request body (a malformed one is answered 400
\* without a call).  A new device gets a pending request; an approved one is
\* checked and registered (AddService or AddDevice with the approval's key)
\* and gets a token; a rejected one is told to retry in an hour; any other
\* repeat stays pending with a longer delay.  An error returns before the
\* status is stored.
SubmitRequest(d, k, m) ==
  LET st == requests[d] IN
  /\ \/ /\ st = Unknown
        /\ requests' = [requests EXCEPT ![d] =
                          [key |-> k, mac |-> m, ctype |-> NoType, pending |-> TRUE,
                           approved |-> FALSE, rejected |-> FALSE, retry |-> 60]]
        /\ UNCHANGED <<registered, issued>>
     \/ /\ st # Unknown /\ st.approved
        /\ Mismatch(st, k, m)
        /\ UNCHANGED <<requests, registered, issued>>
     \/ /\ st # Unknown /\ st.approved
        /\ ~Mismatch(st, k, m)
        /\ \/ /\ AuthCanFail
              /\ UNCHANGED <<requests, registered, issued>>
           \/ /\ registered' = [registered EXCEPT ![d] =
                                  [svc |-> st.ctype = ServiceType, key |-> st.key]]
              /\ requests' = [requests EXCEPT ![d].pending = FALSE]
              /\ issued' = [issued EXCEPT ![d] = [presented |-> k, mac |-> m,
                                                  status |-> st, regKey |-> st.key]]
     \/ /\ st # Unknown /\ ~st.approved /\ st.rejected
        /\ requests' = [requests EXCEPT ![d] = [@ EXCEPT !.retry = 3600, !.pending = FALSE]]
        /\ UNCHANGED <<registered, issued>>
     \/ /\ st # Unknown /\ ~st.approved /\ ~st.rejected
        /\ requests' = [requests EXCEPT ![d] = [@ EXCEPT !.pending = TRUE,
                                                          !.retry = NextRetry(@)]]
        /\ UNCHANGED <<registered, issued>>

ProvNext ==
  \/ \E d \in Devices, k \in PubKeys \cup {NoKey}, m \in MACs \cup {NoMAC} :
       SubmitRequest(d, k, m)
  \/ \E d \in Devices, t \in ProvTypes : ApproveRequest(d, t)
  \/ \E d \in Devices : RejectRequest(d)
  \/ \E l \in ApprovalLists : PreApproveClients(l)
ProvTypeOK ==
  /\ requests \in [Devices -> Status \cup {Unknown}]
  /\ registered \in [Devices -> [svc: BOOLEAN, key: PubKeys \cup {NoKey}] \cup {Unknown}]
  /\ issued \in [Devices -> Token \cup {Unknown}]

(* GetRequests with Pending lists only requests still waiting for an       *)
(* administrator: after any sequence of submits, approvals, rejections     *)
(* and pre-approvals a pending request is neither approved nor rejected.   *)
PendingMeansUndecided ==
  \A d \in Devices :
    requests[d] # Unknown /\ requests[d].pending =>
      ~requests[d].approved /\ ~requests[d].rejected

(* The comment of SubmitRequest's repeat branch: the delay a pending       *)
(* device is told to wait grows by 30 seconds per repeat up to at most     *)
(* ten minutes.  It takes nineteen repeats to reach the cap.               *)
RetryCapped ==
  \A d \in Devices : requests[d] # Unknown /\ requests[d].pending => requests[d].retry <= 600

(* RejectRequest and SubmitRequest's rejected branch ("rejected request,   *)
(* ignore request"): no token is returned for a request that an           *)
(* administrator has rejected and not approved since.                      *)
NoTokenAfterReject ==
  \A d \in Devices : LET t == issued[d] IN t # Unknown => ~t.status.rejected

(* SubmitRequest's doc comment: with a pre-approval without a public key   *)
(* only the MAC must match, and the device is then registered -- with the  *)
(* key it presented, so that it can authenticate with it.                  *)
RegisteredWithPresentedKey ==
  \A d \in Devices : LET t == issued[d] IN t # Unknown => t.regKey = t.presented
=============================================================================
