---------------------------- MODULE ProxyRequest ----------------------------
(***************************************************************************)
(* Chat requests on their way through the proxy: service/proxy_service.rs  *)
(* under handler/chat_handler.rs, with the state the requests share: the   *)
(* circuit breaker, the credentials' quota flags in the database, the      *)
(* scheduler's snapshot of those flags and the affinity cache.             *)
(*                                                                         *)
(* A step is what a handler, a spawned task or an admin handler does       *)
(* between two awaits; what upstream answers is a choice.  A call on the   *)
(* breaker is one step here; CircuitBreaker takes the calls apart.         *)
(***************************************************************************)
EXTENDS BreakerEntry, ScheduleOrder, FiniteSets

CONSTANTS
  Requests,   \* handler slots; each serves one request after the other
  ApiKeys,    \* ids of API keys; None stands for an unknown bearer token
  Schedule,   \* the models a request may use, after the handler's filters
  Kinds,      \* values of `stream` in requests, a subset of BOOLEAN
  Answers,    \* the ForwardOutcomes upstream produces
  Bodies,     \* how a non-stream body arrives: "whole", "lost"
  ClientsLeave,   \* whether clients may go away before they are answered
  AdminCalls  \* the admin calls there are: "clear", "reset"

Candidate == ToSet(Candidates(Schedule))
ModelNames == {c.model : c \in Candidate}
Credentials == {c.credential : c \in Candidate}
Outcomes == {"Success", "Retry", "Fail", "CredentialFail"}

ASSUME ScheduleAssumption ==
  /\ Schedule \in Seq(ModelScheduleInfo) /\ Schedule # <<>>
  /\ \A model \in ToSet(Schedule) : OneMapForEachCredential(model)
ASSUME KeysAssumption == IsFiniteSet(ApiKeys)
ASSUME UpstreamAssumption ==
  /\ Kinds \subseteq BOOLEAN
  /\ Answers \subseteq Outcomes
  /\ Bodies \subseteq {"whole", "lost"}
  /\ ClientsLeave \in BOOLEAN
  /\ AdminCalls \subseteq {"clear", "reset"}

VARIABLES
  entries,    \* circuit breaker, by candidate
  exhausted,  \* credentials whose quota_exhausted is set in the database
  snapshot,   \* SchedulerCache: the exhausted credentials it holds, or None
  affinity,   \* CacheAffinity: affinity[key][model], a target or None
  marks,      \* spawned mark_quota_exhausted calls that have not run
  resetting,  \* credentials between the two halves of a status reset
  req,        \* the request in each slot
  failing     \* history: attempts on a candidate that failed since the last
              \* one that did not, saturated at Threshold

shared == <<exhausted, snapshot, marks, resetting>>
vars == <<entries, exhausted, snapshot, affinity, marks, resetting, req, failing>>

Target == [provider : {c.provider : c \in Candidate}, credential : Credentials]

PC == {"idle", "load", "store", "choose", "send", "backoff", "resend",
       "body", "mark", "stream", "markstream", "finish", "marklast"}

Log == [status : {"success", "failed"}, on : Candidate]

Reply == {"ok", "bad_request", "unavailable", "internal"}

ASSUME NoReplyAssumption == None \notin Reply

(* todo is what is left of the triple loop; its head is being tried.       *)
(* tried is last_log_info, refused is error_details, logs the usage logs   *)
(* the request has spawned.                                                *)
Idle ==
  [pc |-> "idle", key |-> None, name |-> None, stream |-> FALSE,
   flags |-> {}, todo |-> <<>>, tried |-> None, refused |-> {},
   usageDone |-> FALSE, errorDone |-> FALSE, logs |-> <<>>, reply |-> None]

Init ==
  /\ entries = [c \in Candidate |-> None]
  /\ exhausted = {}
  /\ snapshot = None
  /\ affinity = [k \in ApiKeys |-> [m \in ModelNames |-> None]]
  /\ marks = {}
  /\ resetting = {}
  /\ req = [r \in Requests |-> Idle]
  /\ failing = [c \in Candidate |-> 0]
-----------------------------------------------------------------------------
(* handle_chat_request: the models in the order in which they are tried.   *)
LoadOf(c) ==
  Cardinality({p \in ApiKeys \X ModelNames :
    /\ affinity[p[1]][p[2]] # None
    /\ affinity[p[1]][p[2]].credential = c})

Plan(key, name) ==
  LET models == MergePreferredFirst(Schedule, name)
      target == affinity[key][models[1].model]
      load == [c \in Credentials |-> LoadOf(c)]
  IN Candidates(
       IF key = None THEN models
       ELSE IF target # None THEN ReorderByTarget(models, target)
       ELSE ReorderByLoad(models, load))

At(r, pc) == req[r].pc = pc
Current(r) == Head(req[r].todo)

Logged(request, status) ==
  [request EXCEPT !.logs = Append(@, [status |-> status, on |-> request.tried])]

(* The handler, or the task that forwards a stream, has nothing left to do.*)
Answered(request, reply) ==
  [request EXCEPT !.pc = "idle", !.reply = reply, !.todo = <<>>, !.flags = {},
                  !.key = None, !.name = None]

Become(r, request) == req' = [req EXCEPT ![r] = request]

(* Bound: a slot takes its next request once the marks its last one        *)
(* spawned have run, so at most one mark for each slot and credential is   *)
(* outstanding.                                                            *)
Begin(r, key, name, stream) ==
  LET request == [Idle EXCEPT !.key = key, !.stream = stream] IN
  /\ At(r, "idle")
  /\ \A c \in Credentials : <<r, c>> \notin marks
  /\ \/ /\ snapshot # None
        /\ Become(r, [request EXCEPT !.pc = "choose", !.flags = snapshot,
                                     !.todo = Plan(key, name)])
     \/ /\ snapshot = None
        /\ Become(r, [request EXCEPT !.pc = "load", !.name = name])
  /\ UNCHANGED <<entries, shared, affinity, failing>>

(* schedule_all_available on a miss: the credentials are queried, and the  *)
(* result is put into the cache whatever happened to either since.         *)
LoadRead(r) ==
  /\ At(r, "load")
  /\ Become(r, [req[r] EXCEPT !.pc = "store", !.flags = exhausted])
  /\ UNCHANGED <<entries, shared, affinity, failing>>

LoadFail(r) ==
  /\ At(r, "load")
  /\ Become(r, Answered(req[r], "internal"))
  /\ UNCHANGED <<entries, shared, affinity, failing>>

LoadStore(r) ==
  /\ At(r, "store")
  /\ snapshot' = req[r].flags
  /\ Become(r, [req[r] EXCEPT !.pc = "choose", !.name = None,
                              !.todo = Plan(req[r].key, req[r].name)])
  /\ UNCHANGED <<entries, exhausted, marks, resetting, affinity, failing>>
-----------------------------------------------------------------------------
(* proxy_chat_completion_inner: the triple loop.                           *)
Refuse(request) ==
  [request EXCEPT !.pc = "choose", !.todo = Tail(@),
                  !.refused = @ \cup {Head(request.todo)}]

Flagged(r) == Current(r).credential \in req[r].flags

Skip(r) ==
  /\ At(r, "choose") /\ req[r].todo # <<>>
  /\ Flagged(r) \/ Denied(entries[Current(r)])
  /\ Become(r, Refuse(req[r]))
  /\ UNCHANGED <<entries, shared, affinity, failing>>

\* Mutant: last_log_info is not set.
TryUnnoted(r) ==
  /\ At(r, "choose") /\ req[r].todo # <<>>
  /\ ~Flagged(r)
  /\ ~Denied(entries[Current(r)])
  /\ entries' = [entries EXCEPT ![Current(r)] =
                   IF Probes(@) THEN AfterProbe(@) ELSE @]
  /\ Become(r, [req[r] EXCEPT !.pc = "send"])
  /\ UNCHANGED <<shared, affinity, failing>>

Try(r) ==
  /\ At(r, "choose") /\ req[r].todo # <<>>
  /\ ~Flagged(r)
  /\ ~Denied(entries[Current(r)])
  /\ entries' = [entries EXCEPT ![Current(r)] =
                   IF Probes(@) THEN AfterProbe(@) ELSE @]
  /\ Become(r, [req[r] EXCEPT !.pc = "send", !.tried = Current(r)])
  /\ UNCHANGED <<shared, affinity, failing>>

GiveUp(r) ==
  /\ At(r, "choose") /\ req[r].todo = <<>>
  /\ Become(r, Answered(IF req[r].tried = None THEN req[r]
                        ELSE Logged(req[r], "failed"), "unavailable"))
  /\ UNCHANGED <<entries, shared, affinity, failing>>

(* Every failure the code records goes through circuit_breaker             *)
(* .record_failure, every success through record_success_metrics.          *)
RecordFailure(c) == entries' = [entries EXCEPT ![c] = AfterFailure(@)]

RecordSuccess(r) ==
  /\ entries' = [entries EXCEPT ![Current(r)] = AfterSuccess(@)]
  /\ affinity' =
       IF req[r].key = None THEN affinity
       ELSE [affinity EXCEPT ![req[r].key][Current(r).model] =
               [provider |-> Current(r).provider,
                credential |-> Current(r).credential]]

CountFailing(c) ==
  failing' = [failing EXCEPT ![c] = IF @ < Threshold THEN @ + 1 ELSE @]

NotFailing(c) == failing' = [failing EXCEPT ![c] = 0]
-----------------------------------------------------------------------------
(* forward_to_provider has answered the first or the second attempt.       *)
Sent(r, outcome) == At(r, "send") /\ outcome \in Answers
Resent(r, outcome) == At(r, "resend") /\ outcome \in Answers

(* handle_stream_response counts a success as soon as the headers are in.  *)
Success(r) ==
  /\ Sent(r, "Success") \/ Resent(r, "Success")
  /\ \/ /\ req[r].stream
        /\ RecordSuccess(r)
        /\ Become(r, [req[r] EXCEPT !.pc = "stream"])
     \/ /\ ~req[r].stream
        /\ Become(r, [req[r] EXCEPT !.pc = "body"])
        /\ UNCHANGED <<entries, affinity>>
  /\ UNCHANGED <<shared, failing>>

\* Mutant: the second attempt is retried as well.
RetryAgain(r) ==
  /\ Sent(r, "Retry") \/ Resent(r, "Retry")
  /\ Become(r, [req[r] EXCEPT !.pc = "backoff"])
  /\ UNCHANGED <<entries, shared, affinity, failing>>

Retry(r) ==
  /\ Sent(r, "Retry")
  /\ Become(r, [req[r] EXCEPT !.pc = "backoff"])
  /\ UNCHANGED <<entries, shared, affinity, failing>>

WakeUp(r) ==
  /\ At(r, "backoff")
  /\ Become(r, [req[r] EXCEPT !.pc = "resend"])
  /\ UNCHANGED <<entries, shared, affinity, failing>>

\* Mutant: the breaker hears nothing of a second failure.
FailAgainUnrecorded(r) ==
  /\ Resent(r, "Retry") \/ Resent(r, "Fail")
  /\ CountFailing(Current(r))
  /\ Become(r, Refuse(req[r]))
  /\ UNCHANGED <<entries, shared, affinity>>

FailAgain(r) ==
  /\ Resent(r, "Retry") \/ Resent(r, "Fail")
  /\ RecordFailure(Current(r))
  /\ CountFailing(Current(r))
  /\ Become(r, Refuse(req[r]))
  /\ UNCHANGED <<shared, affinity>>

CredentialFail(r) ==
  /\ Sent(r, "CredentialFail") \/ Resent(r, "CredentialFail")
  /\ RecordFailure(Current(r))
  /\ CountFailing(Current(r))
  /\ marks' = marks \cup {<<r, Current(r).credential>>}
  /\ Become(r, Refuse(req[r]))
  /\ UNCHANGED <<exhausted, snapshot, resetting, affinity>>

(* A non-retryable answer to the first attempt ends the request.  It is    *)
(* logged; the breaker hears nothing of it.                                *)
Fail(r) ==
  /\ Sent(r, "Fail")
  /\ Become(r, Answered(Logged(req[r], "failed"), "bad_request"))
  /\ UNCHANGED <<entries, shared, affinity, failing>>
-----------------------------------------------------------------------------
(* handle_non_stream_response: the body is awaited, then looked into.      *)
BodyLost(r) ==
  /\ At(r, "body") /\ "lost" \in Bodies
  /\ Become(r, Answered(req[r], "internal"))
  /\ UNCHANGED <<entries, shared, affinity, failing>>

BodyWhole(r) ==
  /\ At(r, "body") /\ "whole" \in Bodies
  /\ RecordSuccess(r)
  /\ NotFailing(Current(r))
  /\ Become(r, Answered(Logged(req[r], "success"), "ok"))
  /\ UNCHANGED shared

BodyWithError(r, isQuota) ==
  /\ At(r, "body") /\ "whole" \in Bodies
  /\ RecordFailure(Current(r))
  /\ CountFailing(Current(r))
  /\ Become(r, IF isQuota THEN [req[r] EXCEPT !.pc = "mark"]
               ELSE Answered(Logged(req[r], "failed"), "ok"))
  /\ UNCHANGED <<shared, affinity>>

(* handle_embedded_error awaits mark_quota_exhausted, which may fail, and  *)
(* then spawns the log.                                                    *)
Marking(r, pc) ==
  /\ At(r, pc)
  /\ exhausted' \in {exhausted, exhausted \cup {Current(r).credential}}
  /\ UNCHANGED <<entries, snapshot, affinity, marks, resetting, failing>>

BodyMark(r) ==
  /\ Marking(r, "mark")
  /\ Become(r, Answered(Logged(req[r], "failed"), "ok"))
-----------------------------------------------------------------------------
(* The task that forwards a stream.  Each scanner reports its first find   *)
(* only: usage says the usage scanner finds one in this chunk, error what  *)
(* the error detector finds.                                               *)
Errors == {"none", "plain", "quota"}

Scanned(request, usage, error) ==
  LET seen == IF usage THEN [Logged(request, "success") EXCEPT !.usageDone = TRUE]
              ELSE request
      hit == [seen EXCEPT !.errorDone = TRUE] IN
  IF error = "plain" THEN Logged(hit, "failed")
  ELSE IF error = "quota" THEN hit
  ELSE seen

\* Mutant: error_detector.done is not looked at.
ScansTwice(r, usage, error) ==
  /\ usage => ~req[r].usageDone
  /\ IF error # "none" THEN RecordFailure(Current(r)) ELSE UNCHANGED entries
  /\ UNCHANGED <<shared, affinity>>

Scans(r, usage, error) ==
  /\ usage => ~req[r].usageDone
  /\ error # "none" => ~req[r].errorDone
  /\ IF error # "none" THEN RecordFailure(Current(r)) ELSE UNCHANGED entries
  /\ UNCHANGED <<shared, affinity>>

(* A chunk in which neither is found is passed on and changes nothing.     *)
StreamChunk(r, usage, error) ==
  /\ At(r, "stream")
  /\ usage \/ error # "none"
  /\ Scans(r, usage, error)
  /\ Become(r, [Scanned(req[r], usage, error) EXCEPT !.pc =
                  CASE error = "none" -> "stream"
                    [] error = "plain" -> "finish"
                    [] error = "quota" -> "markstream"])
  /\ UNCHANGED failing

StreamMark(r) ==
  /\ Marking(r, "markstream")
  /\ Become(r, [Logged(req[r], "failed") EXCEPT !.pc = "finish"])

(* The upstream ends or breaks, or the client is gone.                     *)
StreamStop(r) ==
  /\ At(r, "stream")
  /\ Become(r, [req[r] EXCEPT !.pc = "finish"])
  /\ UNCHANGED <<entries, shared, affinity, failing>>

(* Both scanners look at what is left in their buffers.                    *)
StreamFinish(r, usage, error) ==
  /\ At(r, "finish")
  /\ Scans(r, usage, error)
  /\ LET request == Scanned(req[r], usage, error) IN
       /\ Become(r, IF error = "quota" THEN [request EXCEPT !.pc = "marklast"]
                    ELSE Answered(request, "ok"))
       /\ IF request.errorDone THEN CountFailing(Current(r))
          ELSE NotFailing(Current(r))

FinishMark(r) ==
  /\ Marking(r, "marklast")
  /\ Become(r, Answered(Logged(req[r], "failed"), "ok"))

(* The client goes away and the HTTP server drops the handler's future at  *)
(* an await: nothing that would have followed happens.  A task that has    *)
(* been spawned is not dropped, and an UPDATE that was sent may be done.   *)
Awaits == {"load", "send", "backoff", "resend", "body", "mark"}

Drop(r) ==
  /\ ClientsLeave
  /\ req[r].pc \in Awaits
  /\ \/ exhausted' = exhausted
     \/ At(r, "mark") /\ exhausted' = exhausted \cup {Current(r).credential}
  /\ Become(r, Answered(req[r], None))
  /\ UNCHANGED <<entries, snapshot, affinity, marks, resetting, failing>>
-----------------------------------------------------------------------------
(* A spawned mark_quota_exhausted, and the two ways a flag is cleared: a   *)
(* new api_key or a successful test clears the flag alone, the status      *)
(* reset clears the flag and then the breaker.                             *)
RunMark(r, c) ==
  /\ <<r, c>> \in marks
  /\ marks' = marks \ {<<r, c>>}
  /\ exhausted' \in {exhausted, exhausted \cup {c}}
  /\ UNCHANGED <<entries, snapshot, affinity, resetting, req, failing>>

ClearQuota(c) ==
  /\ "clear" \in AdminCalls
  /\ exhausted' = exhausted \ {c}
  /\ UNCHANGED <<entries, snapshot, affinity, marks, resetting, req, failing>>

ResetStatus(c) ==
  /\ "reset" \in AdminCalls
  /\ exhausted' = exhausted \ {c}
  /\ resetting' = resetting \cup {c}
  /\ UNCHANGED <<entries, snapshot, affinity, marks, req, failing>>

ResetBreaker(c) ==
  /\ c \in resetting
  /\ resetting' = resetting \ {c}
  /\ entries' = [k \in Candidate |-> IF k.credential = c THEN None ELSE entries[k]]
  /\ failing' = [k \in Candidate |-> IF k.credential = c THEN 0 ELSE failing[k]]
  /\ UNCHANGED <<exhausted, snapshot, affinity, marks, req>>

\* Mutant: the snapshot has no time_to_live.
SnapshotKept == FALSE

(* The caches lose what they hold: time_to_live, or /admin/cache/refresh.  *)
SnapshotGone ==
  /\ snapshot # None
  /\ snapshot' = None
  /\ UNCHANGED <<entries, exhausted, affinity, marks, resetting, req, failing>>

AffinityGone(key, model) ==
  /\ affinity[key][model] # None
  /\ affinity' = [affinity EXCEPT ![key][model] = None]
  /\ UNCHANGED <<entries, shared, req, failing>>

Tick ==
  /\ entries' = [c \in Candidate |-> Elapse(entries[c])]
  /\ UNCHANGED <<shared, affinity, req, failing>>

Continue(r) ==
  \/ LoadRead(r) \/ LoadFail(r) \/ LoadStore(r)
  \/ Skip(r) \/ Try(r) \/ GiveUp(r)
  \/ Success(r) \/ Retry(r) \/ WakeUp(r)
  \/ FailAgain(r) \/ CredentialFail(r) \/ Fail(r)
  \/ BodyLost(r) \/ BodyWhole(r) \/ BodyMark(r)
  \/ \E isQuota \in BOOLEAN : BodyWithError(r, isQuota)
  \/ \E usage \in BOOLEAN, error \in Errors : StreamFinish(r, usage, error)
  \/ StreamMark(r) \/ FinishMark(r)

(* The loop that forwards a stream: it awaits upstream and, for each chunk *)
(* once it has been scanned, room in the channel to the client.            *)
Forward(r) ==
  \/ \E usage \in BOOLEAN, error \in Errors : StreamChunk(r, usage, error)
  \/ StreamStop(r)

Next ==
  \/ \E r \in Requests :
       \/ \E key \in ApiKeys \cup {None}, name \in ModelNames \cup {None},
             stream \in Kinds : Begin(r, key, name, stream)
       \/ Continue(r)
       \/ Forward(r)
       \/ Drop(r)
       \/ \E c \in Credentials : RunMark(r, c)
  \/ \E c \in Credentials : ClearQuota(c) \/ ResetStatus(c) \/ ResetBreaker(c)
  \/ \E key \in ApiKeys, model \in ModelNames : AffinityGone(key, model)
  \/ SnapshotGone
  \/ Tick

Spec == Init /\ [][Next]_vars

(* Every await outside the forwarding loop ends: the HTTP client has a     *)
(* timeout that spans the body, the wait before the second attempt is at   *)
(* most 15 seconds, and the runtime polls what is ready.  Nothing is asked *)
(* of Forward: tx.send waits for the client without a timeout, and the one *)
(* of the HTTP client is not polled meanwhile.  The snapshot has a         *)
(* time_to_live.                                                           *)
Fairness ==
  /\ \A r \in Requests : WF_vars(Continue(r))
  /\ \A r \in Requests, c \in Credentials : WF_vars(RunMark(r, c))
  /\ \A c \in Credentials : WF_vars(ResetBreaker(c))
  /\ WF_vars(SnapshotGone)
  /\ WF_vars(Tick)

FairSpec == Spec /\ Fairness
-----------------------------------------------------------------------------
TypeOK ==
  /\ entries \in [Candidate -> CircuitEntry \cup {None}]
  /\ exhausted \subseteq Credentials
  /\ snapshot = None \/ snapshot \in SUBSET Credentials
  /\ affinity \in [ApiKeys -> [ModelNames -> Target \cup {None}]]
  /\ marks \subseteq Requests \X Credentials
  /\ resetting \subseteq Credentials
  /\ failing \in [Candidate -> 0..Threshold]
  /\ \A r \in Requests :
       /\ req[r].pc \in PC
       /\ req[r].key \in ApiKeys \cup {None}
       /\ req[r].name \in ModelNames \cup {None}
       /\ req[r].stream \in BOOLEAN
       /\ req[r].flags \subseteq Credentials
       /\ ToSet(req[r].todo) \subseteq Candidate
       /\ req[r].tried \in Candidate \cup {None}
       /\ req[r].refused \subseteq Candidate
       /\ {req[r].usageDone, req[r].errorDone} \subseteq BOOLEAN
       /\ ToSet(req[r].logs) \subseteq Log
       /\ req[r].reply \in Reply \cup {None}

(* "All providers failed" is only said when every model, map and           *)
(* credential of the schedule was skipped or has failed: no reordering and *)
(* no `continue` loses a candidate.                                        *)
UnavailableMeansAllRefused ==
  \A r \in Requests :
    req[r].reply = "unavailable" => req[r].refused = Candidate

(* What usage_log gets of a request.  A request that is not a stream is    *)
(* recorded at most once, a stream at most once with each status; a record *)
(* names the candidate tried last; a request that was answered after an    *)
(* attempt goes unrecorded only if its body was lost or it is a stream; a  *)
(* request whose client left before the answer leaves no record, whatever  *)
(* had failed by then.                                                     *)
Statuses(r) == [i \in DOMAIN req[r].logs |-> req[r].logs[i].status]

RecordsMatchReplies ==
  \A r \in Requests :
    /\ Statuses(r) \in {<<>>, <<"success">>, <<"failed">>} \cup
         (IF req[r].stream
          THEN {<<"success", "failed">>, <<"failed", "success">>} ELSE {})
    /\ \A i \in DOMAIN req[r].logs : req[r].logs[i].on = req[r].tried
    /\ req[r].reply \in {"bad_request", "unavailable"} /\ req[r].tried # None
         => Statuses(r) = <<"failed">>
    /\ req[r].reply = "ok" /\ ~req[r].stream => req[r].logs # <<>>
    /\ At(r, "idle") /\ req[r].reply = None => req[r].logs = <<>>

(* A half-open circuit that has given its permit away waits for a request  *)
(* that is still under way on it; the others are turned down meanwhile.    *)
(* It is what keeps the circuit from being closed to everybody for good.   *)
Attempting(r) ==
  {c \in Candidate :
     /\ req[r].pc \in {"send", "backoff", "resend", "body"}
     /\ c = Current(r)}

WaitingOn(c) ==
  /\ entries[c] # None
  /\ entries[c].circuit_state = "HalfOpen"
  /\ ~entries[c].half_open_allowed

SomebodyProbes ==
  \A c \in Candidate :
    WaitingOn(c) => \E r \in Requests : c \in Attempting(r)

(* Whatever upstream answers, every request is answered (or left) in the   *)
(* end, or its answer has become a stream; and a stream ends, and its slot *)
(* is free again, if its client goes on reading or leaves, so that the     *)
(* forwarding loop is not kept waiting for ever.  A client that does       *)
(* neither keeps the task and its upstream connection for good.            *)
ClientReadsOrLeaves(r) == WF_vars(Forward(r))

EventuallyAnswered ==
  \A r \in Requests :
    /\ ~At(r, "idle") ~> (At(r, "idle") \/ At(r, "stream"))
    /\ ClientReadsOrLeaves(r) => (At(r, "stream") ~> At(r, "idle"))

(* A credential that stays flagged is left alone in the end, whatever      *)
(* snapshots of the flags are still around.                                *)
ExhaustedIsLeftAlone ==
  \A c \in Credentials :
    <>[](c \in exhausted) =>
      <>[](\A r \in Requests :
             req[r].pc \in {"send", "resend"} => Current(r).credential # c)

(* The documents: an open circuit is probed after its TTL, and the probe's *)
(* outcome closes or reopens it.  So no candidate is denied for ever.      *)
NeverDeniedForGood ==
  \A c \in Candidate : []<>~Denied(entries[c])

(* The documents: the circuit breaker trips on consecutive failures, those *)
(* inside a response included.                                             *)
FailingIsTripped ==
  \A c \in Candidate :
    failing[c] = Threshold =>
      entries[c] # None /\ entries[c].circuit_state # "Closed"
=============================================================================
