----------------------------- MODULE PageFetch ------------------------------
(***************************************************************************)
(* Politeness and fetching together, in the order http-fetcher.ts asks of    *)
(* its callers: a call waits for its domain, fetches hop by hop, and releases *)
(* the domain. Fetches share nothing but the politeness controller, so those  *)
(* of the calls outside Fetches are taken as a whole.                        *)
(***************************************************************************)
EXTENDS Politeness, HttpFetch

CONSTANTS
    DomainOf,       \* [DNS host -> its registrable domain]
    Wanted          \* [call -> the domains it may want]

ASSUME DomainConfig ==
    /\ DomainOf \in [DOMAIN Answers4 -> Domains]
    /\ Fetches \subseteq Calls

vars == <<politenessVars, fetch>>

Init ==
    /\ PolitenessInit /\ FetchInit
    /\ \A c \in Calls : domainOf[c] \in Wanted[c]
    /\ \A f \in Fetches : domainOf[f] = DomainOf[fetch[f].site]

PolitenessStep ==
    /\ \/ \E c \in Calls : Acquire(c) \/ Grant(c)
       \/ \E c \in Calls \ Fetches : Release(c)
       \/ PruneStale \/ Dispose \/ Tick
    /\ UNCHANGED fetch

\* The caller has its result, which the model forgets unless a body stays open, and
\* releases the domain.
Return(f) ==
    /\ fetch[f].step = "ended"
    /\ Release(f)
    /\ Set(f, IF fetch[f].body = "open" THEN fetch[f]
              ELSE [fetch[f] EXCEPT !.outcome = "none", !.bytes = 0])

Start(f) == slot[f] = "granted" /\ Begin(f) /\ UNCHANGED politenessVars

Fetching == \E f \in Fetches : FetchStep(f) /\ UNCHANGED politenessVars

Next == PolitenessStep \/ Fetching \/ \E f \in Fetches : Start(f) \/ Return(f)

Fairness ==
    /\ PolitenessFairness /\ FetchFairness
    /\ \A f \in Fetches : WF_vars(Start(f))

Spec == Init /\ [][Next]_vars /\ Fairness

--------------------------------------------------------------------------
\* Every variable has its type.
TypeOK ==
    /\ FetchTypeOK
    /\ domains \in Seq(Domains) /\ Len(domains) <= MaxDomains
    /\ chain \in [Domains -> Calls \cup {NoCall}]
    /\ accessAge \in [Domains -> 0 .. StaleThreshold + 1]
    /\ slot \in [Calls -> {"free", "queued", "delaying", "granted", "released"}]
    /\ after \in [Calls -> Calls \cup {NoCall}]
    /\ left \in [Calls -> 0 .. Delay]
    /\ domainOf \in [Calls -> Domains]
    /\ pruning \in BOOLEAN
    /\ sinceGrant \in [Domains -> 0 .. Delay]
    /\ dropped \subseteq Domains

\* Two calls of a domain are let through at least a delay apart, whatever calls queue
\* up meanwhile, are released, or find the entry pruned as stale: only the loss of
\* the entry to another domain, or dispose, forgets the chain (acquire, LruMap.set),
\* as long as no queue takes longer than the threshold of staleness.
GrantsSpaced ==
    [][\A c \in Calls :
          /\ slot[c] \in {"free", "queued", "delaying"} /\ slot'[c] = "granted"
          /\ domainOf[c] \notin dropped
          => sinceGrant[domainOf[c]] = Delay]_vars

\* A call that waits for its domain is let through, also when the calls before it
\* fail or never release (REQ-FETCH-011), and when its entry is evicted meanwhile.
WaitersServed ==
    \A c \in Calls : slot[c] \in {"queued", "delaying"} ~> slot[c] = "granted"

\* A request goes to an address its own hop's host resolved to or is, and one the
\* guard lets pass: a redirect never reuses the pin of the hop before. A pin may be
\* missing only where the resolver has failed and the policy is open.
HopPinned ==
    \A f \in Fetches : fetch[f].step = "requesting" =>
        /\ fetch[f].pin.host = fetch[f].site
        /\ IF fetch[f].pin.ip = NoIp THEN Failed \in ValidateUrl[fetch[f].site]
           ELSE /\ Allowed(fetch[f].pin.ip) \in ValidateUrl[fetch[f].site]
                /\ ~Refused(fetch[f].pin.ip)

V6(a, b, z) ==
    [i \in 1 .. 16 |-> IF i = 1 THEN a ELSE IF i = 2 THEN b ELSE IF i = 16 THEN z ELSE 0]
Full(a, b) == [i \in 1 .. 16 |-> IF i = 1 THEN a ELSE IF i = 2 THEN b ELSE 255]

\* The blocks that ssrf-guard/design.md names in its section 2, by their first and last
\* addresses; RFC 6890 has more.
ReservedBlocks ==
    { [first |-> <<10, 0, 0, 0>>, last |-> <<10, 255, 255, 255>>],
      [first |-> <<172, 16, 0, 0>>, last |-> <<172, 31, 255, 255>>],
      [first |-> <<192, 168, 0, 0>>, last |-> <<192, 168, 255, 255>>],
      [first |-> <<127, 0, 0, 0>>, last |-> <<127, 255, 255, 255>>],
      [first |-> <<169, 254, 0, 0>>, last |-> <<169, 254, 255, 255>>],
      [first |-> <<0, 0, 0, 0>>, last |-> <<0, 255, 255, 255>>],
      [first |-> <<100, 64, 0, 0>>, last |-> <<100, 127, 255, 255>>],
      [first |-> <<224, 0, 0, 0>>, last |-> <<239, 255, 255, 255>>],
      [first |-> <<255, 255, 255, 255>>, last |-> <<255, 255, 255, 255>>],
      [first |-> V6(0, 0, 0), last |-> V6(0, 0, 1)],
      [first |-> V6(252, 0, 0), last |-> Full(253, 255)],
      [first |-> V6(254, 128, 0), last |-> Full(254, 191)] }

\* The order of addresses, as numbers.
Leq(a, b) ==
    a = b \/ \E i \in 1 .. Len(a) : a[i] < b[i] /\ \A j \in 1 .. i - 1 : a[j] = b[j]

\* The IPv4 address that an IPv4-mapped address is.
Unmapped(octets) == IF Ipv4Mapped(octets) THEN SubSeq(octets, 13, 16) ELSE octets

Reserved ==
    { a \in Addresses : \E block \in ReservedBlocks :
        LET octets == Unmapped(Octets[a]) IN
        /\ Len(octets) = Len(block.first)
        /\ Leq(block.first, octets) /\ Leq(octets, block.last) }

\* The IPv4-mapped addresses in the form a URL has for them.
Hexadecimal == {a \in Addresses \ Dotted : Ipv4Mapped(Octets[a])}

\* A hop that leads to one address, which its host resolves to or is, is refused exactly
\* if that address lies in a reserved block, first and last addresses included, where the
\* code computes masks and prefixes. An IPv4-mapped address is the IPv4 address it is,
\* but only if it is written with dots: design.md:55 has no such exception (a finding).
RangesExact ==
    \A f \in Fetches : fetch[f].step = "validating" =>
        /\ \A a \in Addresses :
              ValidateAnswer(<<a>>) = Denied <=> a \in Reserved \ Hexadecimal /\ ~AllowPrivateIps
        /\ \A a \in Literals :
              Denied \in ValidateUrl[a] <=> a \in Reserved \ Hexadecimal /\ ~AllowPrivateIps

\* A fetch reported as timed out has passed its deadline, and one that was waiting for
\* a server when the deadline passed is not reported as anything else but a timeout,
\* or as the answer whose body it was draining.
TimeoutIsDeadline ==
    \A f \in Fetches : fetch[f].step = "ended" =>
        /\ fetch[f].outcome = "timeout" => fetch[f].aborted
        /\ fetch[f].aborted =>
              fetch[f].outcome \notin {"success", "body_too_large", "connection_refused",
                                      "ssl_error", "dns_resolution_failed"}

\* A fetch that has ended leaves no body behind that nobody reads, so that its
\* connection is free again, with three exceptions: a malformed Location in httpFetch
\* (against REQ-FETCH-017, see RedirectBodiesDrained), a redirect too many and a
\* Content-Length too large in hardenedFetch.
BodiesSettled ==
    \A f \in Fetches : fetch[f].step = "ended" /\ fetch[f].body = "open" =>
        IF fetch[f].loop = "httpFetch" THEN fetch[f].outcome = "network"
        ELSE fetch[f].outcome \in {"too_many_redirects", "body_too_large"}

\* REQ-FETCH-017 of httpFetch (http-fetching/requirements.md:117): a redirect or an error
\* status has its body drained or discarded, so none is left open when the fetch has
\* ended. The code does not keep it: a malformed Location throws before the drain.
RedirectBodiesDrained ==
    \A f \in Fetches : At(f, "httpFetch", "ended") => fetch[f].body # "open"

\* The connection of a response to httpFetch is given back in the end, by a drain, a
\* destroy or the deadline, even if the server never ends its body.
ConnectionsFreed ==
    \A f \in Fetches :
        fetch[f].body = "open" /\ fetch[f].loop = "httpFetch" ~> fetch[f].body # "open"

\* A fetch that has begun ends, however slow the servers are and wherever they redirect.
FetchEnds == \A f \in Fetches : fetch[f].step # "idle" ~> fetch[f].step = "ended"

\* A page is accepted only if its body is within the limit, chunk by chunk, and no hop
\* is taken beyond the limit on redirects, in either loop.
WithinLimits ==
    \A f \in Fetches :
        /\ fetch[f].outcome = "success" => fetch[f].bytes <= MaxBodyBytes
        /\ fetch[f].redirects > MaxRedirects => At(f, "httpFetch", "draining")
===========================================================================
