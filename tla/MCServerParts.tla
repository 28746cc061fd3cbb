---------------------------- MODULE MCServerParts ----------------------------
(***************************************************************************)
(* Six parts of the server that share no state: the accepted API keys, the *)
(* load of the schedule, the admin middleware, the URL check, the stream   *)
(* scanner and the usage tables.  As no step of one can disturb another,   *)
(* each is checked by itself: `part` says which one takes the steps of a   *)
(* behaviour.                                                              *)
(***************************************************************************)
EXTENDS ApiKeyCache, ModelScheduler, AdminAuth, UrlCheck, SseScanner, UsageArchive

CONSTANTS n1, n2   \* nonces

VARIABLE part

vars == <<part, keyVars, schedulerVars, adminVars, urlVars, scanVars, archiveVars>>

Requests == {[nonce |-> n1, timestamp |-> 1, genuine |-> TRUE],
             [nonce |-> NoNonce, timestamp |-> 2, genuine |-> TRUE]}

(* The first two requests share key and model and differ in credential;    *)
(* the mean of their durations is no integer.                              *)
SomeUsage ==
  [request \in Request |->
     [api_key |-> 1,
      model |-> IF request = 3 THEN 2 ELSE 1,
      credential |-> request,
      tokens |-> 2 * request,
      ms |-> IF request = 1 THEN 3 ELSE 4]]

(* No range, a range that ends on day 1, and one that is day 2.            *)
SomeAsks ==
  { [group_by |-> "model", start |-> NotGiven, end |-> NotGiven],
    [group_by |-> "day", start |-> 1, end |-> 1],
    [group_by |-> "credential", start |-> 2, end |-> 2] }

(* Only the part that moves starts in each of its initial states.          *)
Init ==
  /\ part \in {"keys", "schedule", "admin", "urls", "scanner", "archive"}
  /\ KeyInit /\ SchedulerInit /\ AdminInit /\ UrlInit /\ ScanInit /\ ArchiveInit
  /\ part = "keys" \/ ActiveKeys = ApiKeyValues
  /\ part = "admin" \/ admin_key = "absent"
  /\ part = "urls" \/ answer = [h \in HostNames |-> "public"]

Next ==
  \/ /\ part = "keys" /\ KeyNext
     /\ UNCHANGED <<part, schedulerVars, adminVars, urlVars, scanVars, archiveVars>>
  \/ /\ part = "schedule" /\ SchedulerNext
     /\ UNCHANGED <<part, keyVars, adminVars, urlVars, scanVars, archiveVars>>
  \/ /\ part = "admin" /\ AdminNext
     /\ UNCHANGED <<part, keyVars, schedulerVars, urlVars, scanVars, archiveVars>>
  \/ /\ part = "urls" /\ UrlNext
     /\ UNCHANGED <<part, keyVars, schedulerVars, adminVars, scanVars, archiveVars>>
  \/ /\ part = "scanner" /\ ScanNext
     /\ UNCHANGED <<part, keyVars, schedulerVars, adminVars, urlVars, archiveVars>>
  \/ /\ part = "archive" /\ ArchiveNext
     /\ UNCHANGED <<part, keyVars, schedulerVars, adminVars, urlVars, scanVars>>

Spec == Init /\ [][Next]_vars
=============================================================================
