---------------------------- MODULE UplinkProxy -----------------------------
(***************************************************************************)
(* The circuit breaker of an uplink: getRemoteMetadata, fetchTarball,      *)
(* search and _ifRequestFailure of packages/proxy/src/proxy.ts.  All the   *)
(* requests to an uplink share failed_requests and last_request_time; each *)
(* makes up to retry.limit more attempts.                                  *)
(*                                                                         *)
(* got and the uplink are external: an attempt is answered, is refused for *)
(* good, or fails in a way that got tries again.  fetchTarball and search  *)
(* ask whatever the breaker says and count nothing.                        *)
(***************************************************************************)
EXTENDS Integers

CONSTANTS
    Asking,       \* requests to the uplink
    RetryLimit, MaxFails,
    FailTimeout,
    ProxyEnd      \* the clock stops there

ASSUME ProxyAssumption ==
    RetryLimit \in Nat /\ MaxFails \in Nat /\ FailTimeout \in Nat /\ ProxyEnd \in Nat

VARIABLES
    failedRequests,   \* failed_requests
    lastRequest,      \* last_request_time
    time,
    fetch,            \* "metadata", "tarball" or "search"
    fetching,         \* where each request is
    retries,          \* attempts that failed and were tried again
    fresh             \* the last time each tried again came after every answer

proxyVars == <<failedRequests, lastRequest, time, fetch, fetching, retries, fresh>>

ProxyInit ==
    /\ failedRequests = 0 /\ lastRequest = 0 /\ time = 0
    /\ fetch \in [Asking -> {"metadata", "tarball", "search"}]
    /\ fetching = [f \in Asking |-> "new"]
    /\ retries = [f \in Asking |-> 0]
    /\ fresh = [f \in Asking |-> FALSE]

Reaches(f, from, to) == fetching[f] = from /\ fetching' = [fetching EXCEPT ![f] = to]
CountsFailures(f) == fetch[f] = "metadata"

\* _ifRequestFailure
Offline == failedRequests >= MaxFails /\ time - lastRequest < FailTimeout

AskUplink(f) ==
    /\ Reaches(f, "new", IF CountsFailures(f) /\ Offline THEN "offline" ELSE "send")
    /\ UNCHANGED <<failedRequests, lastRequest, time, fetch, retries, fresh>>

\* the event 'request' of an attempt; a search does not listen to it
SendRequest(f) ==
    /\ Reaches(f, "send", "sent")
    /\ lastRequest' = IF fetch[f] = "search" THEN lastRequest ELSE time
    /\ UNCHANGED <<failedRequests, time, fetch, retries, fresh>>

FaultyUplinkAnswers(f) ==
    /\ Reaches(f, "sent", "answered")
    /\ fresh' = IF CountsFailures(f) THEN [q \in Asking |-> FALSE] ELSE fresh
    /\ failedRequests' = IF CountsFailures(f) /\ failedRequests > MaxFails
                         THEN 0 ELSE failedRequests
    /\ UNCHANGED <<lastRequest, time, fetch, retries>>

\* afterResponse with a status of 2xx: the uplink is online
UplinkAnswers(f) ==
    /\ Reaches(f, "sent", "answered")
    /\ fresh' = IF CountsFailures(f) THEN [q \in Asking |-> FALSE] ELSE fresh
    /\ failedRequests' = IF CountsFailures(f) /\ failedRequests >= MaxFails
                         THEN 0 ELSE failedRequests
    /\ UNCHANGED <<lastRequest, time, fetch, retries>>

\* 304, or a status got does not try again
UplinkRefuses(f) ==
    /\ Reaches(f, "sent", "failed")
    /\ UNCHANGED <<failedRequests, lastRequest, time, fetch, retries, fresh>>

\* a timeout, a broken connection or a 5xx; beforeRetry writes the number of
\* this request's own retry, and the failure of the last attempt is not counted
AttemptFails(f) ==
    /\ IF retries[f] < RetryLimit
       THEN /\ Reaches(f, "sent", "send")
            /\ retries' = [retries EXCEPT ![f] = @ + 1]
            /\ failedRequests' = IF CountsFailures(f) THEN retries'[f] ELSE failedRequests
            /\ fresh' = [fresh EXCEPT ![f] = CountsFailures(f)]
       ELSE /\ Reaches(f, "sent", "failed")
            /\ UNCHANGED <<failedRequests, retries, fresh>>
    /\ UNCHANGED <<lastRequest, time, fetch>>

TimePasses ==
    /\ time < ProxyEnd /\ time' = time + 1
    /\ UNCHANGED <<failedRequests, lastRequest, fetch, fetching, retries, fresh>>

ProxyNext ==
    \/ \E f \in Asking : AskUplink(f) \/ SendRequest(f) \/ UplinkAnswers(f)
                        \/ UplinkRefuses(f) \/ AttemptFails(f)
    \/ TimePasses

ProxySpec == ProxyInit /\ [][ProxyNext]_proxyVars

-----------------------------------------------------------------------------
\* The uplink is offline only through a request that itself failed max_fails
\* times and tried again after the last answer, however the requests overlap:
\* failures of several requests do not add up, and an answer closes the
\* breaker for those that failed before it.
OfflineIsEarned ==
    failedRequests >= MaxFails =>
        \E f \in Asking : fresh[f] /\ retries[f] >= MaxFails
=============================================================================
