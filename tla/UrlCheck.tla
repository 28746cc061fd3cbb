------------------------------ MODULE UrlCheck ------------------------------
(***************************************************************************)
(* SsrfChecker (util/proxy_ssrf.rs): before a request is forwarded, the    *)
(* host of its target is resolved and must have public addresses only.     *)
(* The verdict is cached by host.  Any number of requests may miss at the  *)
(* same time: each resolves for itself, and the last insert stands.        *)
(***************************************************************************)
EXTENDS Naturals

CONSTANTS
  HostNames,      \* the hosts of base URLs
  UrlCalls,       \* bound: the requests that resolve at a time
  VerdictTtl,     \* time_to_live of the cache, in ticks
  ResolveTime     \* bound: how long a request takes from its miss to its insert

ASSUME UrlAssumption == VerdictTtl \in Nat /\ ResolveTime \in Nat

VARIABLES
  answer,    \* what lookup_host says of each host
  since,     \* ticks since it changed, up to LongSince
  verdict,   \* the cache: NoVerdict, or whether the host is safe and the age
  urlCall    \* validate_url_safe, after a miss

urlVars == <<answer, since, verdict, urlCall>>

NoVerdict == [at |-> "none"]
NoUrlCall == [at |-> "idle"]
LongSince == VerdictTtl + ResolveTime + 1

UrlInit ==
  /\ answer \in [HostNames -> {"public", "private", "fails"}]
  /\ since = [h \in HostNames |-> LongSince]
  /\ verdict = [h \in HostNames |-> NoVerdict]
  /\ urlCall = [c \in UrlCalls |-> NoUrlCall]

(* check_url_safe: a failure to resolve is as bad as a private address.    *)
Safe(h) == answer[h] = "public"

VerdictOf(safe) == [at |-> "cached", safe |-> safe, age |-> 0]

\* Mutant: the cache is a time_to_idle one.
HitRenews(h) ==
  /\ verdict[h] # NoVerdict
  /\ verdict' = [verdict EXCEPT ![h].age = 0]
  /\ UNCHANGED <<answer, since, urlCall>>

(* A hit answers from the cache and leaves the age of the verdict alone.   *)
Hit(h) ==
  /\ verdict[h] # NoVerdict
  /\ UNCHANGED urlVars

Miss(c, h) ==
  /\ urlCall[c] = NoUrlCall
  /\ verdict[h] = NoVerdict
  /\ urlCall' = [urlCall EXCEPT ![c] = [at |-> "resolve", host |-> h, waited |-> 0]]
  /\ UNCHANGED <<answer, since, verdict>>

Resolve(c) ==
  /\ urlCall[c].at = "resolve"
  /\ urlCall' = [urlCall EXCEPT ![c] =
       [at |-> "insert", host |-> @.host, waited |-> @.waited, safe |-> Safe(@.host)]]
  /\ UNCHANGED <<answer, since, verdict>>

(* Whatever has been resolved or inserted by others meanwhile.             *)
Insert(c) ==
  /\ urlCall[c].at = "insert"
  /\ verdict' = [verdict EXCEPT ![urlCall[c].host] = VerdictOf(urlCall[c].safe)]
  /\ urlCall' = [urlCall EXCEPT ![c] = NoUrlCall]
  /\ UNCHANGED <<answer, since>>

(* The request is given up while it waits for the resolver.                *)
GiveUp(c) ==
  /\ urlCall[c].at = "resolve"
  /\ urlCall' = [urlCall EXCEPT ![c] = NoUrlCall]
  /\ UNCHANGED <<answer, since, verdict>>

(* max_capacity, or a restart of the server                                *)
EvictVerdict(h) ==
  /\ verdict[h] # NoVerdict
  /\ verdict' = [verdict EXCEPT ![h] = NoVerdict]
  /\ UNCHANGED <<answer, since, urlCall>>

(* The host moves, or the resolver starts or stops to fail.                *)
ChangeAnswer(h, a) ==
  /\ answer[h] # a
  /\ answer' = [answer EXCEPT ![h] = a]
  /\ since' = [since EXCEPT ![h] = 0]
  /\ UNCHANGED <<verdict, urlCall>>

UrlTick ==
  /\ \A c \in UrlCalls : urlCall[c] # NoUrlCall => urlCall[c].waited < ResolveTime
  /\ urlCall' = [c \in UrlCalls |->
       IF urlCall[c] = NoUrlCall THEN NoUrlCall
       ELSE [urlCall[c] EXCEPT !.waited = @ + 1]]
  /\ since' = [h \in HostNames |->
       IF since[h] < LongSince THEN since[h] + 1 ELSE since[h]]
  /\ verdict' = [h \in HostNames |->
       IF verdict[h] = NoVerdict \/ verdict[h].age + 1 >= VerdictTtl THEN NoVerdict
       ELSE [verdict[h] EXCEPT !.age = @ + 1]]
  /\ UNCHANGED answer

UrlNext ==
  \/ \E h \in HostNames :
       \/ Hit(h) \/ EvictVerdict(h)
       \/ \E c \in UrlCalls : Miss(c, h)
       \/ \E a \in {"public", "private", "fails"} : ChangeAnswer(h, a)
  \/ \E c \in UrlCalls : Resolve(c) \/ Insert(c) \/ GiveUp(c)
  \/ UrlTick

UrlSpec == UrlInit /\ [][UrlNext]_urlVars
-----------------------------------------------------------------------------
(* A verdict is wrong for a bounded time: once the host has answered the   *)
(* same for longer than the time to live and one resolution together, no   *)
(* request is judged by an older answer.  A resolver that has failed once  *)
(* does not block a provider for longer, and a host that has moved to a    *)
(* private address is not let through for longer, however busy it is and   *)
(* however the resolutions of concurrent misses overlap.                   *)
VerdictIsRecent ==
  \A h \in HostNames :
    since[h] >= LongSince /\ verdict[h] # NoVerdict =>
      verdict[h].safe = Safe(h)
=============================================================================
