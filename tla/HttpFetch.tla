----------------------------- MODULE HttpFetch ------------------------------
(***************************************************************************)
(* http-fetcher.ts with its error classifier and stream processor, and the   *)
(* other fetch loop, hardened-fetch.ts: a page is fetched hop by hop, each    *)
(* hop's address validated, each response's body read, drained or destroyed.  *)
(*                                                                         *)
(* The HTTP client and the servers are external: they may answer anything at  *)
(* any time, or never. Bodies are counted in chunks.                         *)
(***************************************************************************)
EXTENDS SsrfGuard

CONSTANTS
    Fetches,        \* the fetches under way
    MaxRedirects, MaxBodyBytes,
    NoIp            \* no validation took place: the host name is used as it is

ASSUME FetchConfig ==
    /\ MaxRedirects \in Nat /\ MaxBodyBytes \in Nat
    /\ NoIp \notin Addresses /\ OtherScheme \notin Addresses

ASSUME ResolverConfig ==
    \A host \in DOMAIN Answers4 :
        Answers4[host] \cup Answers6[host] \subseteq Seq(Addresses)

(***************************************************************************)
(* fetch[f] is a record of                                                  *)
(*   loop       which loop fetches: "httpFetch" or "hardenedFetch"            *)
(*   step       what it awaits                                              *)
(*   site       the host of currentUrl                                       *)
(*   redirects  redirectCount; the tracker's count                           *)
(*   pin        the address of the last hop, with the host it was validated for *)
(*   next       what follows a drain: a hop, a Location, or how the fetch ends *)
(*   body       the body of the last response                                *)
(*   bytes      byteCount of the body that is read                           *)
(*   aborted    the deadline has passed                                      *)
(*   outcome    how the fetch ended                                          *)
(***************************************************************************)
VARIABLE fetch

Codes == {"abort", "ECONNREFUSED", "ssl", "dns", "other"}
Locations == Sites \cup {"missing", "malformed"}
Kinds == {"success", "timeout", "connection_refused", "ssl_error", "dns_resolution_failed",
          "network", "http", "ssrf_blocked", "too_many_redirects", "body_too_large",
          "fetch_error", "thrown"}
Pins == [host : Sites, ip : Addresses \cup {NoIp}]
NoPin == [host |-> OtherScheme, ip |-> NoIp]

FetchTypeOK ==
    fetch \in [Fetches ->
        [loop : {"httpFetch", "hardenedFetch"},
         step : {"idle", "validating", "requesting", "draining", "cancelling",
                 "reading", "ended"},
         site : Sites, redirects : 0 .. MaxRedirects + 1, pin : Pins,
         next : Kinds \cup {"hop"} \cup Locations,
         body : {"none", "open", "closed", "handed over"},
         bytes : 0 .. MaxBodyBytes, aborted : BOOLEAN,
         outcome : Kinds \cup {"none"}]]

FetchInit ==
    fetch \in [Fetches ->
        [loop : {"httpFetch", "hardenedFetch"}, step : {"idle"}, site : DOMAIN Answers4,
         redirects : {0}, pin : {NoPin}, next : {"hop"}, body : {"none"}, bytes : {0},
         aborted : {FALSE}, outcome : {"none"}]]

Set(f, r) == fetch' = [fetch EXCEPT ![f] = r]
At(f, loop, step) == fetch[f].loop = loop /\ fetch[f].step = step

\* Both loops end with one result, the local variables are gone.
Ended(r, kind, body) ==
    [loop |-> r.loop, step |-> "ended", aborted |-> r.aborted, outcome |-> kind,
     body |-> body, bytes |-> IF kind = "success" THEN r.bytes ELSE 0,
     site |-> OtherScheme, redirects |-> 0, pin |-> NoPin, next |-> "hop"]

\* Mutant: a resolver that is temporarily unavailable counts as a timeout.
ClassifyDnsAsTimeout(code) ==
    CASE code \in {"abort", "dns"} -> "timeout"
      [] code = "ECONNREFUSED" -> "connection_refused"
      [] code = "ssl" -> "ssl_error"
      [] code = "other" -> "network"

ClassifyError(code) ==
    CASE code = "abort" -> "timeout"
      [] code = "ECONNREFUSED" -> "connection_refused"
      [] code = "ssl" -> "ssl_error"
      [] code = "dns" -> "dns_resolution_failed"
      [] code = "other" -> "network"

\* What a pending request or a body fails with: once the deadline has passed, the abort.
FailureCodes(f) == IF fetch[f].aborted THEN {"abort"} ELSE Codes \ {"abort"}

\* A call of either loop: the deadline is set, the first hop is validated.
Begin(f) ==
    /\ fetch[f].step = "idle"
    /\ Set(f, [fetch[f] EXCEPT !.step = "validating"])

\* Mutant: the deadline covers the request, not the body.
DeadlineOfRequest(f) ==
    /\ ~fetch[f].aborted /\ fetch[f].step \in {"validating", "requesting"}
    /\ Set(f, [fetch[f] EXCEPT !.aborted = TRUE])

\* Mutant: the timer is cleared when httpFetch returns.
DeadlineCleared(f) ==
    /\ ~fetch[f].aborted /\ fetch[f].step \notin {"idle", "ended"}
    /\ Set(f, [fetch[f] EXCEPT !.aborted = TRUE])

\* The timer of the abort signal. That of httpFetch outlives the call, for as long as
\* its body is open; hardenedFetch clears its own.
Deadline(f) ==
    /\ ~fetch[f].aborted /\ fetch[f].step # "idle"
    /\ \/ fetch[f].step # "ended" /\ Set(f, [fetch[f] EXCEPT !.aborted = TRUE])
       \/ /\ At(f, "httpFetch", "ended") /\ fetch[f].body = "open"
          /\ Set(f, [fetch[f] EXCEPT !.aborted = TRUE, !.body = "closed"])

--------------------------------------------------------------------------
(* httpFetch.                                                              *)

\* Mutant: the address of the first hop is kept.
RequestFirstPin(f, ip) ==
    Set(f, [fetch[f] EXCEPT !.step = "requesting",
                            !.pin = IF @ = NoPin THEN [host |-> fetch[f].site, ip |-> ip]
                                    ELSE @])

Request(f, ip) ==
    Set(f, [fetch[f] EXCEPT !.step = "requesting",
                            !.pin = [host |-> fetch[f].site, ip |-> ip]])

\* The validator of a fetch is not the guard itself: what it makes of an error is
\* its own, nothing (no validation) or an exception.
HttpValidate(f) ==
    /\ At(f, "httpFetch", "validating")
    /\ \E ssrf \in ValidateUrl[fetch[f].site] :
          \/ ssrf = Denied /\ Set(f, Ended(fetch[f], "ssrf_blocked", fetch[f].body))
          \/ ssrf = Failed /\ Set(f, Ended(fetch[f], "network", fetch[f].body))
          \/ ssrf = Failed /\ Request(f, NoIp)
          \/ ssrf \notin {Denied, Failed} /\ Request(f, ssrf.ip)

HttpReject(f) ==
    /\ At(f, "httpFetch", "requesting")
    /\ \E code \in FailureCodes(f) :
          Set(f, Ended(fetch[f], ClassifyError(code), fetch[f].body))

\* A redirect is counted before it is held against the limit.
Follow(r) == [r EXCEPT !.redirects = @ + 1]
TooMany(r) == r.redirects > MaxRedirects

\* A Content-Length; 0 also when there is none or it is not a number, which passes.
ContentLengths == 0 .. MaxBodyBytes + 1
Exceeded(contentLength) == contentLength > MaxBodyBytes

Drain(r, next) == [r EXCEPT !.step = "draining", !.body = "open", !.next = next]

\* A malformed Location throws before the drain: the body stays as it is.
HttpRedirect(f) ==
    LET r == Follow(fetch[f]) IN
    /\ At(f, "httpFetch", "requesting") /\ ~r.aborted
    /\ IF TooMany(r)
       THEN Set(f, Drain(r, "too_many_redirects"))
       ELSE \/ Set(f, Drain(r, "http"))
            \/ Set(f, Ended(r, "network", "open"))
            \/ \E location \in Sites : Set(f, Drain([r EXCEPT !.site = location], "hop"))

\* Mutant: the body of an error status is left alone.
HttpRespondUndrained(f) ==
    /\ At(f, "httpFetch", "requesting") /\ ~fetch[f].aborted
    /\ \/ Set(f, Ended(fetch[f], "http", "open"))
       \/ \E n \in ContentLengths :
             Set(f, IF Exceeded(n) THEN Ended(fetch[f], "body_too_large", "closed")
                    ELSE [fetch[f] EXCEPT !.step = "reading", !.body = "open"])

\* Any other status: an error status is drained; a body announced as too large is
\* destroyed; else it is read.
HttpRespond(f) ==
    /\ At(f, "httpFetch", "requesting") /\ ~fetch[f].aborted
    /\ \/ Set(f, Drain(fetch[f], "http"))
       \/ \E n \in ContentLengths :
             Set(f, IF Exceeded(n) THEN Ended(fetch[f], "body_too_large", "closed")
                    ELSE [fetch[f] EXCEPT !.step = "reading", !.body = "open"])

\* The body is at its end or fails, which does not matter.
Drained(f) ==
    /\ fetch[f].step = "draining"
    /\ Set(f, IF fetch[f].next = "hop"
              THEN [fetch[f] EXCEPT !.step = "validating", !.body = "closed"]
              ELSE Ended(fetch[f], fetch[f].next, "closed"))

\* Mutant: each chunk is held against the limit, not their sum.
ReadChunkAlone(f, n) ==
    /\ fetch[f].step = "reading" /\ ~fetch[f].aborted
    /\ Set(f, IF n > MaxBodyBytes
              THEN Ended(fetch[f], "body_too_large", "closed")
              ELSE [fetch[f] EXCEPT !.bytes = @ + n])

ReadChunk(f, n) ==
    /\ fetch[f].step = "reading" /\ ~fetch[f].aborted
    /\ Set(f, IF fetch[f].bytes + n > MaxBodyBytes
              THEN Ended(fetch[f], "body_too_large", "closed")
              ELSE [fetch[f] EXCEPT !.bytes = @ + n])

ReadEnd(f) ==
    /\ fetch[f].step = "reading" /\ ~fetch[f].aborted
    /\ Set(f, Ended(fetch[f], "success", "closed"))

ReadFail(f) ==
    /\ fetch[f].step = "reading"
    /\ \E code \in FailureCodes(f) : Set(f, Ended(fetch[f], ClassifyError(code), "closed"))

--------------------------------------------------------------------------
(* hardenedFetch.                                                          *)

HardenedValidate(f) ==
    /\ At(f, "hardenedFetch", "validating")
    /\ \E ssrf \in ValidateUrl[fetch[f].site] :
          \/ ssrf = Failed /\ Set(f, Ended(fetch[f], "fetch_error", fetch[f].body))
          \/ ssrf = Denied /\ Set(f, Ended(fetch[f], "ssrf_blocked", fetch[f].body))
          \/ /\ ssrf \notin {Failed, Denied}
             /\ IF fetch[f].aborted
                THEN Set(f, Ended(fetch[f], "timeout", fetch[f].body))
                ELSE Request(f, ssrf.ip)

HardenedReject(f) ==
    /\ At(f, "hardenedFetch", "requesting")
    /\ Set(f, Ended(fetch[f], IF fetch[f].aborted THEN "timeout" ELSE "fetch_error",
                    fetch[f].body))

\* The caller gets the response with its body; one announced as too large stays as it is.
HardenedRespond(f) ==
    /\ At(f, "hardenedFetch", "requesting") /\ ~fetch[f].aborted
    /\ \E n \in ContentLengths :
          Set(f, IF Exceeded(n) THEN Ended(fetch[f], "body_too_large", "open")
                 ELSE Ended(fetch[f], "success", "handed over"))

\* The redirect too many ends the fetch before its body is cancelled.
HardenedRedirect(f) ==
    LET r == Follow(fetch[f]) IN
    /\ At(f, "hardenedFetch", "requesting") /\ ~r.aborted
    /\ IF TooMany(r)
       THEN Set(f, Ended(r, "too_many_redirects", "open"))
       ELSE \E location \in Locations :
               Set(f, [r EXCEPT !.step = "cancelling", !.body = "open", !.next = location])

\* A malformed Location is not caught.
HardenedCancelled(f) ==
    /\ fetch[f].step = "cancelling"
    /\ \/ fetch[f].next = "missing" /\ Set(f, Ended(fetch[f], "fetch_error", "closed"))
       \/ fetch[f].next = "malformed" /\ Set(f, Ended(fetch[f], "thrown", "closed"))
       \/ /\ fetch[f].next \in Sites
          /\ Set(f, [fetch[f] EXCEPT !.step = "validating", !.body = "closed",
                                     !.site = fetch[f].next, !.next = "hop"])

--------------------------------------------------------------------------
Validate(f) == HttpValidate(f) \/ HardenedValidate(f)

\* A request or a body that the abort interrupts.
Interrupted(f) ==
    fetch[f].aborted /\ (HttpReject(f) \/ Drained(f) \/ ReadFail(f) \/ HardenedReject(f))

FetchStep(f) ==
    \/ Deadline(f)
    \/ HttpValidate(f) \/ HttpReject(f) \/ HttpRedirect(f) \/ HttpRespond(f)
    \/ Drained(f) \/ ReadEnd(f) \/ ReadFail(f)
    \/ \E n \in 1 .. MaxBodyBytes + 1 : ReadChunk(f, n)
    \/ HardenedValidate(f) \/ HardenedReject(f) \/ HardenedRespond(f)
    \/ HardenedRedirect(f) \/ HardenedCancelled(f)

\* The timers and the event loop are fair; the servers are not.
FetchFairness ==
    \A f \in Fetches :
        /\ WF_fetch(Deadline(f)) /\ WF_fetch(Validate(f))
        /\ WF_fetch(Interrupted(f)) /\ WF_fetch(HardenedCancelled(f))
===========================================================================
