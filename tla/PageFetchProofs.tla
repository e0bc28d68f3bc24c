-------------------------- MODULE PageFetchProofs --------------------------
(***************************************************************************)
(* Proofs about the fetches of PageFetch, for any hosts and resolvers, any    *)
(* addresses, any number of fetches and any limits; and that the guard's      *)
(* ranges are the reserved blocks.                                            *)
(***************************************************************************)
EXTENDS PageFetch, SequenceTheorems, WellFoundedInduction, TLAPS

Records ==
    [loop : {"httpFetch", "hardenedFetch"},
     step : {"idle", "validating", "requesting", "draining", "cancelling", "reading", "ended"},
     site : Sites, redirects : 0 .. MaxRedirects + 1, pin : Pins,
     next : Kinds \cup {"hop"} \cup Locations,
     body : {"none", "open", "closed", "handed over"},
     bytes : 0 .. MaxBodyBytes, aborted : BOOLEAN,
     outcome : Kinds \cup {"none"}]

\* The pin is that of this hop.
Pinned(r) ==
    /\ r.pin.host = r.site
    /\ IF r.pin.ip = NoIp THEN Failed \in ValidateUrl[r.site]
       ELSE Allowed(r.pin.ip) \in ValidateUrl[r.site] /\ ~Refused(r.pin.ip)

\* Between hops no body is open, a drain is followed by a hop or an end, and only a
\* redirect too many is counted beyond the limit.
UnderWay(r) ==
    /\ r.step \in {"idle", "validating", "requesting"} => r.body \in {"none", "closed"}
    /\ r.step = "requesting" => Pinned(r)
    /\ r.step = "draining" => r.next \in {"hop", "http", "too_many_redirects"}
    /\ r.redirects > MaxRedirects =>
          r.step = "draining" /\ r.loop = "httpFetch" /\ r.next = "too_many_redirects"

\* What the properties say of a fetch that has ended.
WellEnded(r) ==
    r.step = "ended" =>
        /\ r.outcome = "timeout" => r.aborted
        /\ r.aborted =>
              r.outcome \notin {"success", "body_too_large", "connection_refused",
                                "ssl_error", "dns_resolution_failed"}
        /\ r.body = "open" => IF r.loop = "httpFetch" THEN r.outcome = "network"
                              ELSE r.outcome \in {"too_many_redirects", "body_too_large"}

Good == {r \in Records : UnderWay(r) /\ WellEnded(r)}

IInv == fetch \in [Fetches -> Good]

--------------------------------------------------------------------------
\* What the guard lets pass is an address that is not refused.
LEMMA ValidateFacts ==
    ASSUME NEW site \in Sites, NEW ssrf \in ValidateUrl[site]
    PROVE  ssrf \in {Denied, Failed}
           \/ \E ip \in Addresses : ssrf = Allowed(ip) /\ ~Refused(ip)
<1> DEFINE Passed(s) == s \in {Denied, Failed}
                        \/ \E ip \in Addresses : s = Allowed(ip) /\ ~Refused(ip)
<1>1. Unresolved \in {Denied, Failed}
    BY DEF Unresolved
<1>2. ASSUME NEW ips \in Seq(Addresses) PROVE Passed(ValidateAnswer(ips))
    <2>1. CASE ips = <<>>
        BY <1>1, <2>1 DEF ValidateAnswer
    <2>2. CASE ips # <<>> /\ \E i \in DOMAIN ips : Refused(ips[i])
        BY <2>2 DEF ValidateAnswer
    <2>3. CASE ips # <<>> /\ ~\E i \in DOMAIN ips : Refused(ips[i])
        <3>1. 1 \in DOMAIN ips /\ ips[1] \in Addresses
            BY <2>3
        <3>2. ValidateAnswer(ips) = Allowed(ips[1])
            BY <2>3 DEF ValidateAnswer
        <3> QED
            BY <2>3, <3>1, <3>2
    <2> QED
        BY <2>1, <2>2, <2>3
<1>3. ASSUME site \in DOMAIN Answers4, ssrf \in ValidateViaDns(site) PROVE Passed(ssrf)
    <2>1. CASE ssrf = Unresolved
        BY <1>1, <2>1
    <2>2. CASE ssrf # Unresolved
        <3>1. PICK a4 \in Answers4[site] \cup {<<>>}, a6 \in Answers6[site] \cup {<<>>} :
                  ssrf = ValidateAnswer(a4 \o a6)
            BY <1>3, <2>2 DEF ValidateViaDns
        <3>2. a4 \in Seq(Addresses) /\ a6 \in Seq(Addresses)
            <4>1. Answers4[site] \cup Answers6[site] \subseteq Seq(Addresses)
                BY <1>3, ResolverConfig
            <4>2. <<>> \in Seq(Addresses)
                OBVIOUS
            <4> QED
                BY <4>1, <4>2
        <3>3. a4 \o a6 \in Seq(Addresses)
            BY <3>2
        <3> QED
            BY <1>2, <3>1, <3>3
    <2> QED
        BY <2>1, <2>2
<1>4. CASE site = OtherScheme
    BY <1>4 DEF ValidateUrl
<1>5. CASE site # OtherScheme /\ site \in Literals
    <2>1. ssrf \in {IF Refused(site) THEN Denied ELSE Allowed(site)}
        BY <1>5 DEF ValidateUrl
    <2>2. site \in Addresses
        BY <1>5, AddressConfig
    <2> QED
        BY <2>1, <2>2
<1>6. CASE site # OtherScheme /\ site \notin Literals
    <2>1. ssrf \in ValidateViaDns(site) /\ site \in DOMAIN Answers4
        BY <1>6 DEF ValidateUrl, Sites
    <2> QED
        BY <1>3, <2>1
<1> QED
    BY <1>4, <1>5, <1>6

LEMMA Limits ==
    /\ MaxRedirects \in Nat /\ MaxBodyBytes \in Nat /\ NoIp \notin Addresses
    /\ 0 \in 0 .. MaxRedirects + 1 /\ ~(0 > MaxRedirects)
    /\ 0 \in 0 .. MaxBodyBytes
BY FetchConfig

LEMMA EndedBytes ==
    ASSUME NEW r \in Records, NEW kind, NEW body
    PROVE  Ended(r, kind, body).bytes \in 0 .. MaxBodyBytes
BY Limits DEF Ended, Records

\* A result that keeps to WellEnded ends a fetch well.
LEMMA EndsGood ==
    ASSUME NEW r \in Good, NEW kind \in Kinds,
           NEW body \in {"none", "open", "closed", "handed over"},
           kind = "timeout" => r.aborted,
           r.aborted => kind \notin {"success", "body_too_large", "connection_refused",
                                     "ssl_error", "dns_resolution_failed"},
           body = "open" => IF r.loop = "httpFetch" THEN kind = "network"
                            ELSE kind \in {"too_many_redirects", "body_too_large"}
    PROVE  Ended(r, kind, body) \in Good
<1>1. r \in Records
    BY DEF Good
<1>2. NoPin \in Pins /\ OtherScheme \in Sites
    BY DEF NoPin, Pins, Sites
<1>3. Ended(r, kind, body).bytes \in 0 .. MaxBodyBytes
    BY <1>1, EndedBytes
<1>4. Ended(r, kind, body) \in Records
    BY <1>1, <1>2, <1>3, Limits DEF Ended, Records
<1>5. UnderWay(Ended(r, kind, body))
    BY Limits DEF Ended, UnderWay
<1>6. WellEnded(Ended(r, kind, body))
    BY DEF Ended, WellEnded
<1> QED
    BY <1>4, <1>5, <1>6 DEF Good

LEMMA Sets ==
    ASSUME IInv, NEW f \in Fetches, NEW r \in Good, Set(f, r)
    PROVE  IInv'
BY DEF IInv, Set

LEMMA InitHolds == Init => IInv
<1> SUFFICES ASSUME Init, NEW f \in Fetches PROVE fetch[f] \in Good
    BY DEF Init, FetchInit, IInv
<1>1. NoPin \in Pins /\ DOMAIN Answers4 \subseteq Sites
    BY DEF NoPin, Pins, Sites
<1>2. fetch[f] \in
          [loop : {"httpFetch", "hardenedFetch"}, step : {"idle"}, site : DOMAIN Answers4,
           redirects : {0}, pin : {NoPin}, next : {"hop"}, body : {"none"}, bytes : {0},
           aborted : {FALSE}, outcome : {"none"}]
    BY DEF Init, FetchInit
<1>3. fetch[f] \in Records
    BY <1>1, <1>2, Limits DEF Records
<1> QED
    BY <1>2, <1>3, Limits DEF Good, UnderWay, WellEnded

\* The steps both loops share.
LEMMA CommonSteps ==
    ASSUME IInv, NEW f \in Fetches, Begin(f) \/ Deadline(f) \/ Drained(f)
    PROVE  IInv'
<1> DEFINE r == fetch[f]
<1>1. r \in Good /\ r \in Records /\ UnderWay(r) /\ WellEnded(r)
    BY DEF IInv, Good
<1>2. CASE Begin(f)
    <2> DEFINE to == [r EXCEPT !.step = "validating"]
    <2>1. to \in Good
        BY <1>1, <1>2 DEF Begin, Good, Records, UnderWay, WellEnded
    <2> QED
        BY <1>2, <2>1, Sets DEF Begin
<1>3. CASE Deadline(f)
    <2>1. CASE r.step # "ended" /\ Set(f, [r EXCEPT !.aborted = TRUE])
        <3>1. [r EXCEPT !.aborted = TRUE] \in Good
            BY <1>1, <2>1 DEF Good, Records, UnderWay, WellEnded, Pinned
        <3> QED
            BY <2>1, <3>1, Sets
    <2>2. CASE /\ r.loop = "httpFetch" /\ r.step = "ended" /\ r.body = "open"
               /\ Set(f, [r EXCEPT !.aborted = TRUE, !.body = "closed"])
        <3>1. [r EXCEPT !.aborted = TRUE, !.body = "closed"] \in Good
            BY <1>1, <2>2 DEF Good, Records, UnderWay, WellEnded
        <3> QED
            BY <2>2, <3>1, Sets
    <2> QED
        BY <1>3, <2>1, <2>2 DEF Deadline, At
<1>4. CASE Drained(f)
    <2>1. CASE r.next = "hop"
        <3> DEFINE to == [r EXCEPT !.step = "validating", !.body = "closed"]
        <3>1. to \in Good
            BY <1>1, <1>4, <2>1 DEF Drained, Good, Records, UnderWay, WellEnded
        <3> QED
            BY <1>4, <2>1, <3>1, Sets DEF Drained
    <2>2. CASE r.next # "hop"
        <3>1. r.next \in {"http", "too_many_redirects"}
            BY <1>1, <1>4, <2>2 DEF Drained, UnderWay
        <3>2. Ended(r, r.next, "closed") \in Good
            BY <1>1, <3>1, EndsGood DEF Kinds
        <3> QED
            BY <1>4, <2>2, <3>2, Sets DEF Drained
    <2> QED
        BY <2>1, <2>2
<1> QED
    BY <1>2, <1>3, <1>4

\* An address that was validated for a hop is that hop's pin.
LEMMA RequestGood ==
    ASSUME IInv, NEW f \in Fetches, fetch[f].step = "validating",
           NEW ssrf \in ValidateUrl[fetch[f].site], NEW ip, Request(f, ip),
           \/ ssrf = Failed /\ ip = NoIp
           \/ ssrf \notin {Denied, Failed} /\ ip = ssrf.ip
    PROVE  IInv'
<1> DEFINE r == fetch[f]
           pin == [host |-> r.site, ip |-> ip]
           to == [r EXCEPT !.step = "requesting", !.pin = pin]
<1>1. r \in Records /\ UnderWay(r)
    BY DEF IInv, Good
<1>2. r.site \in Sites
    BY <1>1 DEF Records
<1>3. ip \in Addresses \cup {NoIp} /\ Pinned([r EXCEPT !.step = "requesting", !.pin = pin])
    <2>1. CASE ssrf = Failed /\ ip = NoIp
        BY <1>1, <2>1 DEF Pinned, Records
    <2>2. CASE ssrf \notin {Denied, Failed} /\ ip = ssrf.ip
        <3>1. PICK a \in Addresses : ssrf = Allowed(a) /\ ~Refused(a)
            BY <1>2, <2>2, ValidateFacts
        <3>2. ip = a /\ ip # NoIp
            BY <2>2, <3>1, Limits DEF Allowed
        <3> QED
            BY <1>1, <3>1, <3>2 DEF Pinned, Records
    <2> QED
        BY <2>1, <2>2
<1>4. pin \in Pins
    BY <1>2, <1>3 DEF Pins
<1>5. to \in Good
    <2> HIDE DEF pin
    <2>1. to \in Records
        BY <1>1, <1>4 DEF Records
    <2>2. UnderWay(to) /\ WellEnded(to)
        BY <1>1, <1>3 DEF Records, UnderWay, WellEnded
    <2> QED
        BY <2>1, <2>2 DEF Good
<1> QED
    BY <1>5, Sets DEF Request

LEMMA HttpSteps ==
    ASSUME IInv, NEW f \in Fetches,
           \/ HttpValidate(f) \/ HttpReject(f) \/ HttpRedirect(f) \/ HttpRespond(f)
           \/ ReadEnd(f) \/ ReadFail(f)
           \/ \E n \in 1 .. MaxBodyBytes + 1 : ReadChunk(f, n)
    PROVE  IInv'
<1> DEFINE r == fetch[f]
<1>1. r \in Good /\ r \in Records /\ UnderWay(r)
    BY DEF IInv, Good
<1>2. ASSUME NEW code \in FailureCodes(f)
      PROVE  /\ ClassifyError(code) \in Kinds \ {"success", "body_too_large"}
             /\ r.aborted => ClassifyError(code) = "timeout"
             /\ ~r.aborted => ClassifyError(code) # "timeout"
    BY <1>1 DEF FailureCodes, ClassifyError, Codes, Kinds, Records
<1>3. CASE HttpValidate(f)
    <2>1. PICK ssrf \in ValidateUrl[r.site] :
              \/ ssrf = Denied /\ Set(f, Ended(r, "ssrf_blocked", r.body))
              \/ ssrf = Failed /\ Set(f, Ended(r, "network", r.body))
              \/ ssrf = Failed /\ Request(f, NoIp)
              \/ ssrf \notin {Denied, Failed} /\ Request(f, ssrf.ip)
        BY <1>3 DEF HttpValidate
    <2>2. r.step = "validating" /\ r.body \in {"none", "closed"}
        BY <1>1, <1>3 DEF HttpValidate, At, UnderWay
    <2>3. Ended(r, "ssrf_blocked", r.body) \in Good /\ Ended(r, "network", r.body) \in Good
        BY <1>1, <2>2, EndsGood DEF Kinds
    <2> QED
        BY <2>1, <2>2, <2>3, Sets, RequestGood
<1>4. CASE HttpReject(f)
    <2>1. PICK code \in FailureCodes(f) : Set(f, Ended(r, ClassifyError(code), r.body))
        BY <1>4 DEF HttpReject
    <2>2. r.body \in {"none", "closed"}
        BY <1>1, <1>4 DEF HttpReject, At, UnderWay
    <2>3. Ended(r, ClassifyError(code), r.body) \in Good
        BY <1>1, <1>2, <2>2, EndsGood
    <2> QED
        BY <2>1, <2>3, Sets
<1>5. CASE ReadFail(f)
    <2>1. PICK code \in FailureCodes(f) : Set(f, Ended(r, ClassifyError(code), "closed"))
        BY <1>5 DEF ReadFail
    <2>2. Ended(r, ClassifyError(code), "closed") \in Good
        BY <1>1, <1>2, EndsGood
    <2> QED
        BY <2>1, <2>2, Sets
<1>6. CASE ReadEnd(f)
    <2>1. Ended(r, "success", "closed") \in Good
        BY <1>1, <1>6, EndsGood DEF ReadEnd, Kinds
    <2> QED
        BY <1>6, <2>1, Sets DEF ReadEnd
<1>7. CASE \E n \in 1 .. MaxBodyBytes + 1 : ReadChunk(f, n)
    <2>1. PICK n \in 1 .. MaxBodyBytes + 1 : ReadChunk(f, n)
        BY <1>7
    <2>2. CASE r.bytes + n > MaxBodyBytes
        <3>1. Ended(r, "body_too_large", "closed") \in Good
            BY <1>1, <2>1, EndsGood DEF ReadChunk, Kinds
        <3> QED
            BY <2>1, <2>2, <3>1, Sets DEF ReadChunk
    <2>3. CASE ~(r.bytes + n > MaxBodyBytes)
        <3> DEFINE to == [r EXCEPT !.bytes = r.bytes + n]
        <3>1. r.bytes + n \in 0 .. MaxBodyBytes
            <4>1. r.bytes \in 0 .. MaxBodyBytes
                BY <1>1 DEF Records
            <4> HIDE DEF r
            <4> QED
                BY <2>3, <4>1, Limits, n \in 1 .. MaxBodyBytes + 1
        <3>2. to \in Records
            BY <1>1, <3>1 DEF Records
        <3>3. UnderWay(to) /\ WellEnded(to)
            BY <1>1, <2>1 DEF ReadChunk, Records, UnderWay, WellEnded
        <3>4. Set(f, to)
            BY <2>1, <2>3 DEF ReadChunk
        <3> QED
            BY <3>2, <3>3, <3>4, Sets DEF Good
    <2> QED
        BY <2>2, <2>3
<1>8. CASE HttpRespond(f)
    <2>1. r.step = "requesting" /\ ~r.aborted
        BY <1>8 DEF HttpRespond, At
    <2>2. ~(r.redirects > MaxRedirects)
        BY <1>1, <2>1 DEF UnderWay
    <2>3. CASE Set(f, Drain(r, "http"))
        <3>1. Drain(r, "http") \in Records
            BY <1>1 DEF Drain, Records, Kinds
        <3>2. UnderWay(Drain(r, "http")) /\ WellEnded(Drain(r, "http"))
            BY <1>1, <2>2 DEF Drain, Records, UnderWay, WellEnded
        <3> QED
            BY <2>3, <3>1, <3>2, Sets DEF Good
    <2>4. CASE Set(f, Ended(r, "body_too_large", "closed"))
        <3>1. Ended(r, "body_too_large", "closed") \in Good
            BY <1>1, <2>1, EndsGood DEF Kinds
        <3> QED
            BY <2>4, <3>1, Sets
    <2>5. CASE Set(f, [r EXCEPT !.step = "reading", !.body = "open"])
        <3> DEFINE to == [r EXCEPT !.step = "reading", !.body = "open"]
        <3>1. to \in Records /\ UnderWay(to) /\ WellEnded(to)
            BY <1>1, <2>2 DEF Records, UnderWay, WellEnded
        <3> QED
            BY <2>5, <3>1, Sets DEF Good
    <2> QED
        BY <1>8, <2>3, <2>4, <2>5 DEF HttpRespond
<1>9. CASE HttpRedirect(f)
    <2> DEFINE n == Follow(r)
    <2>1. r.step = "requesting" /\ ~r.aborted /\ r.loop = "httpFetch"
        BY <1>1, <1>9 DEF HttpRedirect, At, Follow, Records
    <2>2. r.redirects \in 0 .. MaxRedirects
        <3>1. r.redirects \in 0 .. MaxRedirects + 1 /\ ~(r.redirects > MaxRedirects)
            BY <1>1, <2>1 DEF UnderWay, Records
        <3> HIDE DEF r
        <3> QED
            BY <3>1, Limits
    <2>3. n \in Records /\ n.redirects = r.redirects + 1 /\ n.step = "requesting"
          /\ n.loop = "httpFetch" /\ ~n.aborted
        <3>1. r.redirects + 1 \in 0 .. MaxRedirects + 1
            <4> HIDE DEF r
            <4> QED
                BY <2>2, Limits
        <3> QED
            BY <1>1, <2>1, <3>1 DEF Follow, Records
    <2> HIDE DEF n
    <2>4. CASE TooMany(n) /\ Set(f, Drain(n, "too_many_redirects"))
        <3> DEFINE to == Drain(n, "too_many_redirects")
        <3>1. to \in Records /\ UnderWay(to) /\ WellEnded(to)
            BY <2>3 DEF Drain, Records, Kinds, UnderWay, WellEnded
        <3> QED
            BY <2>4, <3>1, Sets DEF Good
    <2>5. CASE ~TooMany(n) /\ Set(f, Drain(n, "http"))
        <3> DEFINE to == Drain(n, "http")
        <3>1. to \in Records /\ UnderWay(to) /\ WellEnded(to)
            BY <2>3, <2>5 DEF TooMany, Drain, Records, Kinds, UnderWay, WellEnded
        <3> QED
            BY <2>5, <3>1, Sets DEF Good
    <2>6. CASE Set(f, Ended(n, "network", "open"))
        <3>1. Ended(n, "network", "open") = Ended(r, "network", "open")
            BY <1>1, <2>1, <2>3 DEF n, Ended, Follow, Records
        <3>2. Ended(r, "network", "open") \in Good
            BY <1>1, <2>1, EndsGood DEF Kinds
        <3> QED
            BY <2>6, <3>1, <3>2, Sets
    <2>7. CASE ~TooMany(n) /\ \E location \in Sites : Set(f, Drain([n EXCEPT !.site = location], "hop"))
        <3>1. PICK location \in Sites : Set(f, Drain([n EXCEPT !.site = location], "hop"))
            BY <2>7
        <3> DEFINE to == Drain([n EXCEPT !.site = location], "hop")
        <3>2. to \in Records /\ UnderWay(to) /\ WellEnded(to)
            BY <2>3, <2>7 DEF TooMany, Drain, Records, UnderWay, WellEnded
        <3> QED
            BY <3>1, <3>2, Sets DEF Good
    <2> QED
        BY <1>9, <2>4, <2>5, <2>6, <2>7 DEF HttpRedirect, n
<1> QED
    BY <1>3, <1>4, <1>5, <1>6, <1>7, <1>8, <1>9

LEMMA HardenedSteps ==
    ASSUME IInv, NEW f \in Fetches,
           \/ HardenedValidate(f) \/ HardenedReject(f) \/ HardenedRespond(f)
           \/ HardenedRedirect(f) \/ HardenedCancelled(f)
    PROVE  IInv'
<1> DEFINE r == fetch[f]
<1>1. r \in Good /\ r \in Records /\ UnderWay(r) /\ r.aborted \in BOOLEAN
    BY DEF IInv, Good, Records
<1>2. r.loop = "hardenedFetch" => ~(r.redirects > MaxRedirects)
    BY <1>1 DEF UnderWay
<1>3. CASE HardenedValidate(f)
    <2>1. r.step = "validating" /\ r.body \in {"none", "closed"}
        BY <1>1, <1>3 DEF HardenedValidate, At, UnderWay
    <2>2. PICK ssrf \in ValidateUrl[r.site] :
              \/ ssrf = Failed /\ Set(f, Ended(r, "fetch_error", r.body))
              \/ ssrf = Denied /\ Set(f, Ended(r, "ssrf_blocked", r.body))
              \/ /\ ssrf \notin {Failed, Denied}
                 /\ IF r.aborted THEN Set(f, Ended(r, "timeout", r.body))
                    ELSE Request(f, ssrf.ip)
        BY <1>3 DEF HardenedValidate
    <2>3. /\ Ended(r, "fetch_error", r.body) \in Good
          /\ Ended(r, "ssrf_blocked", r.body) \in Good
        BY <1>1, <2>1, EndsGood DEF Kinds
    <2>4. r.aborted => Ended(r, "timeout", r.body) \in Good
        BY <1>1, <2>1, EndsGood DEF Kinds
    <2> QED
        BY <2>1, <2>2, <2>3, <2>4, Sets, RequestGood
<1>4. CASE HardenedReject(f)
    <2> DEFINE kind == IF r.aborted THEN "timeout" ELSE "fetch_error"
    <2>1. r.body \in {"none", "closed"} /\ Set(f, Ended(r, kind, r.body))
        BY <1>1, <1>4 DEF HardenedReject, At, UnderWay
    <2>2. Ended(r, kind, r.body) \in Good
        BY <1>1, <2>1, EndsGood DEF Kinds
    <2> QED
        BY <2>1, <2>2, Sets
<1>5. CASE HardenedRespond(f)
    <2>1. ~r.aborted /\ r.loop = "hardenedFetch"
        BY <1>5 DEF HardenedRespond, At
    <2>2. /\ Ended(r, "body_too_large", "open") \in Good
          /\ Ended(r, "success", "handed over") \in Good
        BY <1>1, <2>1, EndsGood DEF Kinds
    <2> QED
        BY <1>5, <2>2, Sets DEF HardenedRespond
<1>6. CASE HardenedRedirect(f)
    <2> DEFINE n == Follow(r)
    <2>1. r.step = "requesting" /\ ~r.aborted /\ r.loop = "hardenedFetch"
        BY <1>1, <1>6 DEF HardenedRedirect, At, Follow, Records
    <2>2. r.redirects + 1 \in 0 .. MaxRedirects + 1
        <3>1. r.redirects \in 0 .. MaxRedirects + 1 /\ ~(r.redirects > MaxRedirects)
            BY <1>1, <1>2, <2>1 DEF Records
        <3> HIDE DEF r
        <3> QED
            BY <3>1, Limits
    <2>3. n \in Records /\ ~n.aborted
        BY <1>1, <2>1, <2>2 DEF Follow, Records
    <2>4. CASE Set(f, Ended(n, "too_many_redirects", "open"))
        <3>1. Ended(n, "too_many_redirects", "open") = Ended(r, "too_many_redirects", "open")
            BY <1>1 DEF Ended, Follow, Records
        <3>2. Ended(r, "too_many_redirects", "open") \in Good
            BY <1>1, <2>1, EndsGood DEF Kinds
        <3> QED
            BY <2>4, <3>1, <3>2, Sets
    <2>5. ASSUME NEW location \in Locations, ~TooMany(n),
                 Set(f, [n EXCEPT !.step = "cancelling", !.body = "open", !.next = location])
          PROVE  IInv'
        <3> DEFINE to == [n EXCEPT !.step = "cancelling", !.body = "open", !.next = location]
        <3> HIDE DEF n
        <3>1. to \in Records /\ UnderWay(to) /\ WellEnded(to)
            BY <2>3, <2>5 DEF TooMany, Records, UnderWay, WellEnded
        <3> QED
            BY <2>5, <3>1, Sets DEF Good
    <2> QED
        BY <1>6, <2>4, <2>5 DEF HardenedRedirect
<1>7. CASE HardenedCancelled(f)
    <2>1. r.step = "cancelling" /\ ~(r.redirects > MaxRedirects)
        BY <1>1, <1>7 DEF HardenedCancelled, UnderWay
    <2>2. /\ Ended(r, "fetch_error", "closed") \in Good
          /\ Ended(r, "thrown", "closed") \in Good
        BY <1>1, EndsGood DEF Kinds
    <2>3. CASE /\ r.next \in Sites
               /\ Set(f, [r EXCEPT !.step = "validating", !.body = "closed",
                                   !.site = r.next, !.next = "hop"])
        <3> DEFINE to == [r EXCEPT !.step = "validating", !.body = "closed",
                                   !.site = r.next, !.next = "hop"]
        <3>1. to \in Records /\ UnderWay(to) /\ WellEnded(to)
            BY <1>1, <2>1, <2>3 DEF Records, UnderWay, WellEnded
        <3> QED
            BY <2>3, <3>1, Sets DEF Good
    <2> QED
        BY <1>7, <2>2, <2>3, Sets DEF HardenedCancelled
<1> QED
    BY <1>3, <1>4, <1>5, <1>6, <1>7

\* The caller that returns takes the result along.
LEMMA Returns ==
    ASSUME IInv, NEW f \in Fetches, Return(f)
    PROVE  IInv'
<1> DEFINE r == fetch[f]
           to == [r EXCEPT !.outcome = "none", !.bytes = 0]
<1>1. r \in Good /\ r \in Records /\ UnderWay(r) /\ WellEnded(r) /\ r.step = "ended"
    BY DEF IInv, Good, Return
<1>2. CASE r.body = "open"
    BY <1>1, <1>2, Sets DEF Return
<1>3. CASE r.body # "open"
    <2>1. to \in Records /\ UnderWay(to) /\ WellEnded(to)
        BY <1>1, <1>3, Limits DEF Records, UnderWay, WellEnded
    <2> QED
        BY <1>3, <2>1, Sets DEF Return, Good
<1> QED
    BY <1>2, <1>3

LEMMA Invariance == IInv /\ [Next]_vars => IInv'
<1> SUFFICES ASSUME IInv, [Next]_vars PROVE IInv'
    OBVIOUS
<1>1. CASE UNCHANGED fetch
    BY <1>1 DEF IInv
<1>2. ASSUME NEW f \in Fetches, FetchStep(f) PROVE IInv'
    BY <1>2, CommonSteps, HttpSteps, HardenedSteps DEF FetchStep
<1>3. ASSUME NEW f \in Fetches, Start(f) PROVE IInv'
    BY <1>3, CommonSteps DEF Start
<1> QED
    BY <1>1, <1>2, <1>3, Returns DEF Next, PolitenessStep, Fetching, vars

\* Every fetch is in a good state: typed, pinned, and well ended.
THEOREM InductiveInvariant == Spec => []IInv
<1> QED
    BY InitHolds, Invariance, PTL DEF Spec

\* A request goes to an address of its own hop's host that the guard lets pass (httpFetch,
\* hardenedFetch, validateUrl), for any hosts, resolvers and blocked addresses.
THEOREM PinIsOfItsHop == Spec => []HopPinned
<1>1. IInv => HopPinned
    BY DEF IInv, Good, UnderWay, Pinned, HopPinned
<1> QED
    BY <1>1, InductiveInvariant, PTL

\* A timeout is reported for a passed deadline, and a passed deadline as nothing that
\* blames the server (classifyError, executeHardenedFetch).
THEOREM TimeoutMeansDeadline == Spec => []TimeoutIsDeadline
<1>1. IInv => TimeoutIsDeadline
    BY DEF IInv, Good, WellEnded, TimeoutIsDeadline
<1> QED
    BY <1>1, InductiveInvariant, PTL

\* The bodies of a fetch that has ended are settled, but for three ways out.
THEOREM BodiesAreSettled == Spec => []BodiesSettled
<1>1. IInv => BodiesSettled
    BY DEF IInv, Good, WellEnded, BodiesSettled
<1> QED
    BY <1>1, InductiveInvariant, PTL

\* Neither the limit on bytes nor that on redirects is exceeded by a page that is used.
THEOREM LimitsHold == Spec => []WithinLimits
<1>1. IInv => WithinLimits
    <2> SUFFICES ASSUME IInv, NEW f \in Fetches
                 PROVE  /\ fetch[f].outcome = "success" => fetch[f].bytes <= MaxBodyBytes
                        /\ fetch[f].redirects > MaxRedirects => At(f, "httpFetch", "draining")
        BY DEF WithinLimits
    <2>1. fetch[f].bytes \in 0 .. MaxBodyBytes /\ UnderWay(fetch[f])
        BY DEF IInv, Good, Records
    <2>2. fetch[f].bytes <= MaxBodyBytes
        BY <2>1, Limits
    <2> QED
        BY <2>1, <2>2 DEF UnderWay, At
<1> QED
    BY <1>1, InductiveInvariant, PTL

--------------------------------------------------------------------------
(* The reserved ranges.                                                     *)

\* Every set of numbers has a least one.
LEMMA Least ==
    ASSUME NEW B, B \subseteq Nat, B # {}
    PROVE  \E m \in B : \A n \in B : m <= n
<1> DEFINE Less == OpToRel(<, Nat)
<1>1. IsWellFoundedOn(Less, Nat)
    BY NatLessThanWellFounded
<1>2. \A m, n \in Nat : n < m => <<n, m>> \in Less
    BY DEF OpToRel
<1> HIDE DEF Less
<1>3. PICK m \in B : \A n \in B : ~(<<n, m>> \in Less)
    BY <1>1, WFMin
<1>4. \A n \in B : ~(n < m)
    BY <1>2, <1>3
<1> QED
    BY <1>3, <1>4

Address(n) == [1 .. n -> 0 .. 255]

\* Two addresses that agree on their first k octets, and then range over all there are
\* but for the next octet.
IsBlock(first, last, n, k) ==
    /\ first \in Address(n) /\ last \in Address(n)
    /\ \A i \in 1 .. k : first[i] = last[i]
    /\ \A i \in k + 2 .. n : first[i] = 0 /\ last[i] = 255
    /\ first[k + 1] <= last[k + 1]

Inside(first, last, o, k) ==
    /\ \A i \in 1 .. k : o[i] = first[i]
    /\ first[k + 1] <= o[k + 1] /\ o[k + 1] <= last[k + 1]

\* An address lies between two such exactly if it has the octets they agree on and its
\* next one lies between theirs.
LEMMA Between ==
    ASSUME NEW n \in Nat, NEW k \in 0 .. n - 1, NEW first, NEW last, NEW o \in Address(n),
           IsBlock(first, last, n, k)
    PROVE  Leq(first, o) /\ Leq(o, last) <=> Inside(first, last, o, k)
<1>0. first \in Address(n) /\ last \in Address(n)
    BY DEF IsBlock
<1>1. /\ k \in Nat /\ k + 1 \in 1 .. n /\ \A i \in 1 .. k : i \in 1 .. n /\ first[i] = last[i]
    BY DEF IsBlock
<1>i. \A x \in 0 .. 255 : x \in Int
    OBVIOUS
<1>f. \A i \in 1 .. n : first[i] \in 0 .. 255 /\ first[i] \in Int
    BY <1>0, <1>i, Zenon DEF Address
<1>o. \A i \in 1 .. n : o[i] \in 0 .. 255 /\ o[i] \in Int
    BY <1>i, Zenon DEF Address
<1>l. \A i \in 1 .. n : last[i] \in 0 .. 255 /\ last[i] \in Int
    BY <1>0, <1>i, Zenon DEF Address
<1>2. Len(first) = n /\ Len(o) = n
    BY <1>0 DEF Address
<1>3. ASSUME Leq(first, o), Leq(o, last),
             NEW m \in 1 .. k + 1, \A i \in 1 .. m - 1 : o[i] = first[i]
      PROVE  first[m] <= o[m] /\ o[m] <= last[m]
    <2>1. m \in 1 .. n
        BY <1>1
    <2>2. first[m] \in Int /\ o[m] \in Int /\ last[m] \in Int
        BY <1>f, <1>o, <1>l, <2>1, Zenon
    <2>3. first[m] <= o[m]
        <3>1. CASE first = o
            BY <2>2, <3>1
        <3>2. CASE first # o
            <4>1. PICK p \in 1 .. n : first[p] < o[p] /\ \A j \in 1 .. p - 1 : first[j] = o[j]
                BY <1>2, <1>3, <3>2 DEF Leq
            <4>2. ~(p < m)
                <5>1. ASSUME p < m PROVE o[p] = first[p]
                    <6>1. p \in 1 .. m - 1
                        BY <1>1, <4>1, <5>1
                    <6> QED
                        BY <1>3, <6>1
                <5>2. first[p] \in Int /\ first[p] < o[p]
                    BY <1>f, <4>1
                <5> QED
                    BY <5>1, <5>2
            <4>3. first[m] < o[m] \/ first[m] = o[m]
                BY <2>1, <4>1, <4>2
            <4> QED
                BY <2>1, <2>2, <4>3
        <3> QED
            BY <3>1, <3>2
    <2>4. o[m] <= last[m]
        <3>1. CASE o = last
            BY <2>2, <3>1
        <3>2. CASE o # last
            <4>1. PICK p \in 1 .. n : o[p] < last[p] /\ \A j \in 1 .. p - 1 : o[j] = last[j]
                BY <1>2, <1>3, <3>2 DEF Leq
            <4>2. ~(p < m)
                <5>1. ASSUME p < m PROVE o[p] = last[p]
                    <6>1. p \in 1 .. m - 1 /\ p \in 1 .. k
                        BY <1>1, <4>1, <5>1
                    <6> QED
                        BY <1>1, <1>3, <6>1
                <5>2. last[p] \in Int /\ o[p] < last[p]
                    BY <1>l, <4>1
                <5> QED
                    BY <5>1, <5>2
            <4>3. o[m] < last[m] \/ o[m] = last[m]
                BY <2>1, <4>1, <4>2
            <4> QED
                BY <2>1, <2>2, <4>3
        <3> QED
            BY <3>1, <3>2
    <2> QED
        BY <2>3, <2>4
<1>4. ASSUME Leq(first, o), Leq(o, last)
      PROVE  /\ \A i \in 1 .. k : o[i] = first[i]
             /\ first[k + 1] <= o[k + 1] /\ o[k + 1] <= last[k + 1]
    <2> DEFINE Bad == {i \in 1 .. k : o[i] # first[i]}
    <2>1. ASSUME Bad # {} PROVE FALSE
        <3>0. Bad \subseteq Nat
            OBVIOUS
        <3>1. PICK m \in Bad : \A i \in Bad : m <= i
            BY <2>1, <3>0, Least, Zenon
        <3>2. m \in 1 .. k /\ m \in 1 .. k + 1 /\ \A i \in 1 .. m - 1 : o[i] = first[i]
            BY <1>1, <3>1
        <3>3. first[m] <= o[m] /\ o[m] <= last[m]
            BY <1>3, <1>4, <3>2
        <3>4. first[m] = last[m] /\ first[m] \in Int /\ o[m] \in Int /\ o[m] # first[m]
            <4>1. m \in 1 .. n /\ first[m] = last[m] /\ o[m] # first[m]
                BY <1>1, <3>1, <3>2
            <4> QED
                BY <1>f, <1>o, <4>1, Zenon
        <3> QED
            BY <3>3, <3>4
    <2>2. \A i \in 1 .. k : o[i] = first[i]
        BY <2>1
    <2>3. k + 1 \in 1 .. k + 1 /\ (k + 1) - 1 = k
        BY <1>1
    <2> QED
        BY <1>3, <1>4, <2>2, <2>3
<1>5. ASSUME \A i \in 1 .. k : o[i] = first[i],
             first[k + 1] <= o[k + 1], o[k + 1] <= last[k + 1]
      PROVE  Leq(first, o) /\ Leq(o, last)
    <2>1. \A i \in 1 .. n : first[i] <= o[i] /\ o[i] <= last[i]
        <3> SUFFICES ASSUME NEW i \in 1 .. n PROVE first[i] <= o[i] /\ o[i] <= last[i]
            OBVIOUS
        <3>0. first[i] \in 0 .. 255 /\ o[i] \in 0 .. 255 /\ last[i] \in 0 .. 255
            BY <1>f, <1>o, <1>l
        <3>1. CASE i \in 1 .. k
            <4>1. o[i] = first[i] /\ first[i] = last[i]
                BY <1>1, <1>5, <3>1
            <4> QED
                BY <3>0, <4>1
        <3>2. CASE i = k + 1
            BY <1>5, <3>2
        <3>3. CASE i \in k + 2 .. n
            <4>1. first[i] = 0 /\ last[i] = 255
                BY <3>3 DEF IsBlock
            <4> QED
                BY <3>0, <4>1
        <3> QED
            BY <1>1, <3>1, <3>2, <3>3
    <2>2. ASSUME first # o PROVE Leq(first, o)
        <3> DEFINE D == {i \in 1 .. n : first[i] # o[i]}
        <3>1. D # {}
            BY <1>0, <2>2 DEF Address
        <3>0. D \subseteq Nat
            OBVIOUS
        <3>2. PICK m \in D : \A i \in D : m <= i
            BY <3>0, <3>1, Least, Zenon
        <3>3. m \in 1 .. n /\ first[m] < o[m]
            <4>1. m \in 1 .. n /\ first[m] # o[m]
                BY <3>2
            <4>2. first[m] \in Int /\ o[m] \in Int /\ first[m] <= o[m]
                BY <1>f, <1>o, <2>1, <4>1, Zenon
            <4> QED
                BY <4>1, <4>2
        <3>4. \A j \in 1 .. m - 1 : first[j] = o[j]
            <4> SUFFICES ASSUME NEW j \in 1 .. m - 1 PROVE first[j] = o[j]
                OBVIOUS
            <4>1. j \in 1 .. n /\ ~(m <= j)
                BY <3>3
            <4>2. j \notin D
                BY <3>2, <4>1
            <4> QED
                BY <4>1, <4>2
        <3> QED
            BY <1>2, <3>3, <3>4 DEF Leq
    <2>3. ASSUME o # last PROVE Leq(o, last)
        <3> DEFINE D == {i \in 1 .. n : o[i] # last[i]}
        <3>1. D # {}
            BY <1>0, <2>3 DEF Address
        <3>0. D \subseteq Nat
            OBVIOUS
        <3>2. PICK m \in D : \A i \in D : m <= i
            BY <3>0, <3>1, Least, Zenon
        <3>3. m \in 1 .. n /\ o[m] < last[m]
            <4>1. m \in 1 .. n /\ o[m] # last[m]
                BY <3>2
            <4>2. o[m] \in Int /\ last[m] \in Int /\ o[m] <= last[m]
                BY <1>o, <1>l, <2>1, <4>1, Zenon
            <4> QED
                BY <4>1, <4>2
        <3>4. \A j \in 1 .. m - 1 : o[j] = last[j]
            <4> SUFFICES ASSUME NEW j \in 1 .. m - 1 PROVE o[j] = last[j]
                OBVIOUS
            <4>1. j \in 1 .. n /\ ~(m <= j)
                BY <3>3
            <4>2. j \notin D
                BY <3>2, <4>1
            <4> QED
                BY <4>1, <4>2
        <3> QED
            BY <1>2, <3>3, <3>4 DEF Leq
    <2> QED
        BY <2>2, <2>3 DEF Leq
<1> QED
    BY <1>4, <1>5 DEF Inside

\* What a range asks of one octet x, its own being y, with so many bits remaining.
Agrees(x, y, remaining) ==
    LET unit == IF remaining >= 8 THEN 1 ELSE 2 ^ (8 - remaining)
    IN  remaining > 0 => x \div unit = y \div unit

LEMMA OctetByOctet ==
    ASSUME NEW n \in Nat, NEW o \in Address(n), NEW network, NEW len \in Int
    PROVE  MatchesPrefix(o, [network |-> network, prefixLen |-> len]) <=>
               \A i \in 1 .. n : Agrees(o[i], network[i], len - 8 * (i - 1))
<1>1. Len(o) = n
    BY DEF Address
<1> QED
    BY <1>1 DEF MatchesPrefix, Agrees

\* The first octet of an address lies between lo and hi, or the one after a does.
First(o, lo, hi) == lo <= o[1] /\ o[1] <= hi
Second(o, a, lo, hi) == o[1] = a /\ lo <= o[2] /\ o[2] <= hi
Broadcast(o) == o[1] = 255 /\ o[2] = 255 /\ o[3] = 255 /\ o[4] = 255

\* An IPv4 range and the block it stands for.
LEMMA RangeOfFour ==
    ASSUME NEW o \in Address(4), NEW a \in 0 .. 255, NEW b \in 0 .. 255, NEW len \in Int
    PROVE  MatchesPrefix(o, Range4(a, b, len)) <=>
               /\ Agrees(o[1], a, len) /\ Agrees(o[2], b, len - 8)
               /\ Agrees(o[3], 0, len - 16) /\ Agrees(o[4], 0, len - 24)
<1>1. MatchesPrefix(o, Range4(a, b, len)) <=>
          \A i \in 1 .. 4 : Agrees(o[i], <<a, b, 0, 0>>[i], len - 8 * (i - 1))
    BY OctetByOctet DEF Range4
<1>2. 1 .. 4 = {1, 2, 3, 4}
    OBVIOUS
<1>3. /\ len - 8 * (1 - 1) = len /\ len - 8 * (2 - 1) = len - 8
      /\ len - 8 * (3 - 1) = len - 16 /\ len - 8 * (4 - 1) = len - 24
    OBVIOUS
<1>4. /\ <<a, b, 0, 0>>[1] = a /\ <<a, b, 0, 0>>[2] = b
      /\ <<a, b, 0, 0>>[3] = 0 /\ <<a, b, 0, 0>>[4] = 0
    OBVIOUS
<1> QED
    BY <1>1, <1>2, <1>3, <1>4

LEMMA BlockOfFour ==
    ASSUME NEW o \in Address(4), NEW a \in 0 .. 255, NEW lo \in 0 .. 255, NEW hi \in 0 .. 255,
           lo <= hi
    PROVE  /\ Leq(<<lo, 0, 0, 0>>, o) /\ Leq(o, <<hi, 255, 255, 255>>) <=> First(o, lo, hi)
           /\ Leq(<<a, lo, 0, 0>>, o) /\ Leq(o, <<a, hi, 255, 255>>) <=> Second(o, a, lo, hi)
<1>1. IsBlock(<<lo, 0, 0, 0>>, <<hi, 255, 255, 255>>, 4, 0)
    BY DEF IsBlock, Address
<1>2. IsBlock(<<a, lo, 0, 0>>, <<a, hi, 255, 255>>, 4, 1)
    BY DEF IsBlock, Address
<1>3. 4 \in Nat /\ 0 \in 0 .. 4 - 1 /\ 1 \in 0 .. 4 - 1
    OBVIOUS
<1>4. Leq(<<lo, 0, 0, 0>>, o) /\ Leq(o, <<hi, 255, 255, 255>>) <=>
          Inside(<<lo, 0, 0, 0>>, <<hi, 255, 255, 255>>, o, 0)
    BY <1>1, <1>3, Between, Zenon
<1>5. Leq(<<a, lo, 0, 0>>, o) /\ Leq(o, <<a, hi, 255, 255>>) <=>
          Inside(<<a, lo, 0, 0>>, <<a, hi, 255, 255>>, o, 1)
    BY <1>2, <1>3, Between, Zenon
<1>6. Inside(<<lo, 0, 0, 0>>, <<hi, 255, 255, 255>>, o, 0) <=> First(o, lo, hi)
    BY DEF Inside, First
<1>7. Inside(<<a, lo, 0, 0>>, <<a, hi, 255, 255>>, o, 1) <=> Second(o, a, lo, hi)
    <2>1. 1 .. 1 = {1}
        OBVIOUS
    <2> QED
        BY <2>1 DEF Inside, Second
<1> QED
    BY <1>4, <1>5, <1>6, <1>7

\* What each IPv4 range of the guard asks of an address.
LEMMA RangesOfFour ==
    ASSUME NEW o \in Address(4)
    PROVE  /\ \A a \in 0 .. 255 : MatchesPrefix(o, Range4(a, 0, 8)) <=> First(o, a, a)
           /\ \A a, b \in 0 .. 255 :
                  MatchesPrefix(o, Range4(a, b, 16)) <=> Second(o, a, b, b)
           /\ MatchesPrefix(o, Range4(172, 16, 12)) <=> Second(o, 172, 16, 31)
           /\ MatchesPrefix(o, Range4(100, 64, 10)) <=> Second(o, 100, 64, 127)
           /\ MatchesPrefix(o, Range4(224, 0, 4)) <=> First(o, 224, 239)
           /\ MatchesPrefix(o, [network |-> <<255, 255, 255, 255>>, prefixLen |-> 32]) <=>
                  Broadcast(o)
<1>1. /\ o[1] \in 0 .. 255 /\ o[2] \in 0 .. 255
      /\ o[3] \in 0 .. 255 /\ o[4] \in 0 .. 255
    BY DEF Address
<1>2. 2 ^ (8 - 4) = 16 /\ 2 ^ (8 - 2) = 64
    OBVIOUS
<1>3. ASSUME NEW a \in 0 .. 255 PROVE MatchesPrefix(o, Range4(a, 0, 8)) <=> First(o, a, a)
    <2>1. a \in 0 .. 255 /\ 0 \in 0 .. 255 /\ 8 \in Int
        OBVIOUS
    <2>2. MatchesPrefix(o, Range4(a, 0, 8)) <=>
              /\ Agrees(o[1], a, 8) /\ Agrees(o[2], 0, 8 - 8)
              /\ Agrees(o[3], 0, 8 - 16) /\ Agrees(o[4], 0, 8 - 24)
        BY <2>1, RangeOfFour, Zenon
    <2>3. /\ Agrees(o[1], a, 8) <=> o[1] = a
          /\ Agrees(o[2], 0, 8 - 8)
          /\ Agrees(o[3], 0, 8 - 16) /\ Agrees(o[4], 0, 8 - 24)
        BY <1>1, <1>2 DEF Agrees
    <2> QED
        BY <1>1, <2>2, <2>3 DEF First, Second
<1>4. ASSUME NEW a \in 0 .. 255, NEW b \in 0 .. 255
      PROVE  MatchesPrefix(o, Range4(a, b, 16)) <=> Second(o, a, b, b)
    <2>1. a \in 0 .. 255 /\ b \in 0 .. 255 /\ 16 \in Int
        OBVIOUS
    <2>2. MatchesPrefix(o, Range4(a, b, 16)) <=>
              /\ Agrees(o[1], a, 16) /\ Agrees(o[2], b, 16 - 8)
              /\ Agrees(o[3], 0, 16 - 16) /\ Agrees(o[4], 0, 16 - 24)
        BY <2>1, RangeOfFour, Zenon
    <2>3. /\ Agrees(o[1], a, 16) <=> o[1] = a
          /\ Agrees(o[2], b, 16 - 8) <=> o[2] = b
          /\ Agrees(o[3], 0, 16 - 16) /\ Agrees(o[4], 0, 16 - 24)
        BY <1>1, <1>2 DEF Agrees
    <2> QED
        BY <1>1, <2>2, <2>3 DEF First, Second
<1>5. MatchesPrefix(o, Range4(172, 16, 12)) <=> Second(o, 172, 16, 31)
    <2>1. 172 \in 0 .. 255 /\ 16 \in 0 .. 255 /\ 12 \in Int
        OBVIOUS
    <2>2. MatchesPrefix(o, Range4(172, 16, 12)) <=>
              /\ Agrees(o[1], 172, 12) /\ Agrees(o[2], 16, 12 - 8)
              /\ Agrees(o[3], 0, 12 - 16) /\ Agrees(o[4], 0, 12 - 24)
        BY <2>1, RangeOfFour, Zenon
    <2>3. /\ Agrees(o[1], 172, 12) <=> o[1] = 172
          /\ Agrees(o[2], 16, 12 - 8) <=> 16 <= o[2] /\ o[2] <= 31
          /\ Agrees(o[3], 0, 12 - 16) /\ Agrees(o[4], 0, 12 - 24)
        BY <1>1, <1>2 DEF Agrees
    <2> QED
        BY <1>1, <2>2, <2>3 DEF First, Second
<1>6. MatchesPrefix(o, Range4(100, 64, 10)) <=> Second(o, 100, 64, 127)
    <2>1. 100 \in 0 .. 255 /\ 64 \in 0 .. 255 /\ 10 \in Int
        OBVIOUS
    <2>2. MatchesPrefix(o, Range4(100, 64, 10)) <=>
              /\ Agrees(o[1], 100, 10) /\ Agrees(o[2], 64, 10 - 8)
              /\ Agrees(o[3], 0, 10 - 16) /\ Agrees(o[4], 0, 10 - 24)
        BY <2>1, RangeOfFour, Zenon
    <2>3. /\ Agrees(o[1], 100, 10) <=> o[1] = 100
          /\ Agrees(o[2], 64, 10 - 8) <=> 64 <= o[2] /\ o[2] <= 127
          /\ Agrees(o[3], 0, 10 - 16) /\ Agrees(o[4], 0, 10 - 24)
        BY <1>1, <1>2 DEF Agrees
    <2> QED
        BY <1>1, <2>2, <2>3 DEF First, Second
<1>7. MatchesPrefix(o, Range4(224, 0, 4)) <=> First(o, 224, 239)
    <2>1. 224 \in 0 .. 255 /\ 0 \in 0 .. 255 /\ 4 \in Int
        OBVIOUS
    <2>2. MatchesPrefix(o, Range4(224, 0, 4)) <=>
              /\ Agrees(o[1], 224, 4) /\ Agrees(o[2], 0, 4 - 8)
              /\ Agrees(o[3], 0, 4 - 16) /\ Agrees(o[4], 0, 4 - 24)
        BY <2>1, RangeOfFour, Zenon
    <2>3. /\ Agrees(o[1], 224, 4) <=> 224 <= o[1] /\ o[1] <= 239
          /\ Agrees(o[2], 0, 4 - 8)
          /\ Agrees(o[3], 0, 4 - 16) /\ Agrees(o[4], 0, 4 - 24)
        BY <1>1, <1>2 DEF Agrees
    <2> QED
        BY <1>1, <2>2, <2>3 DEF First, Second
<1>8. MatchesPrefix(o, [network |-> <<255, 255, 255, 255>>, prefixLen |-> 32]) <=>
          Broadcast(o)
    <2>1. MatchesPrefix(o, [network |-> <<255, 255, 255, 255>>, prefixLen |-> 32]) <=>
              \A i \in 1 .. 4 : Agrees(o[i], <<255, 255, 255, 255>>[i], 32 - 8 * (i - 1))
        BY OctetByOctet
    <2>2. ASSUME NEW i \in 1 .. 4
          PROVE  Agrees(o[i], <<255, 255, 255, 255>>[i], 32 - 8 * (i - 1)) <=> o[i] = 255
        <3>1. <<255, 255, 255, 255>>[i] = 255 /\ 255 \in 0 .. 255
            OBVIOUS
        <3>2. 32 - 8 * (i - 1) \in Int /\ 32 - 8 * (i - 1) >= 8
            OBVIOUS
        <3>3. o[i] \in 0 .. 255
            BY DEF Address
        <3> QED
            BY <3>1, <3>2, <3>3 DEF Agrees
    <2>3. 1 .. 4 = {1, 2, 3, 4}
        OBVIOUS
    <2> QED
        BY <2>1, <2>2, <2>3 DEF Broadcast
<1> QED
    BY <1>3, <1>4, <1>5, <1>6, <1>7, <1>8

\* What each IPv6 range of the guard asks of an address.
LEMMA RangesOfSixteen ==
    ASSUME NEW o \in Address(16)
    PROVE  /\ MatchesPrefix(o, [network |-> Sixteen(252, 0, 0), prefixLen |-> 7]) <=> First(o, 252, 253)
           /\ MatchesPrefix(o, [network |-> Sixteen(254, 128, 0), prefixLen |-> 10]) <=>
                  Second(o, 254, 128, 191)
           /\ \A z \in 0 .. 1 :
                  MatchesPrefix(o, [network |-> Sixteen(0, 0, z), prefixLen |-> 128]) <=>
                      (\A i \in 1 .. 15 : o[i] = 0) /\ o[16] = z
<1>1. \A i \in 1 .. 16 : o[i] \in 0 .. 255
    BY DEF Address
<1>x. 2 ^ (8 - 7) = 2 /\ 2 ^ (8 - 2) = 64
    OBVIOUS
<1>2. o[1] \in 0 .. 255 /\ o[2] \in 0 .. 255
    BY <1>1
<1>3. \A network : \A len \in Int :
          MatchesPrefix(o, [network |-> network, prefixLen |-> len]) <=>
              \A i \in 1 .. 16 : Agrees(o[i], network[i], len - 8 * (i - 1))
    BY OctetByOctet
<1>4. MatchesPrefix(o, [network |-> Sixteen(252, 0, 0), prefixLen |-> 7]) <=>
          First(o, 252, 253)
    <2>1. ASSUME NEW i \in 2 .. 16
          PROVE  Agrees(o[i], Sixteen(252, 0, 0)[i], 7 - 8 * (i - 1))
        <3>1. 7 - 8 * (i - 1) \in Int /\ 7 - 8 * (i - 1) <= 0
            OBVIOUS
        <3> QED
            BY <3>1 DEF Agrees
    <2>2. Sixteen(252, 0, 0)[1] = 252 /\ 7 - 8 * (1 - 1) = 7
        BY DEF Sixteen
    <2>3. \A i \in 1 .. 16 : i = 1 \/ i \in 2 .. 16
        OBVIOUS
    <2>4. MatchesPrefix(o, [network |-> Sixteen(252, 0, 0), prefixLen |-> 7]) <=>
              Agrees(o[1], 252, 7)
        BY <1>3, <2>1, <2>2, <2>3
    <2> QED
        BY <1>2, <1>x, <2>4 DEF Agrees, First
<1>5. MatchesPrefix(o, [network |-> Sixteen(254, 128, 0), prefixLen |-> 10]) <=>
          Second(o, 254, 128, 191)
    <2>1. ASSUME NEW i \in 3 .. 16
          PROVE  Agrees(o[i], Sixteen(254, 128, 0)[i], 10 - 8 * (i - 1))
        <3>1. 10 - 8 * (i - 1) \in Int /\ 10 - 8 * (i - 1) <= 0
            OBVIOUS
        <3> QED
            BY <3>1 DEF Agrees
    <2>2. /\ Sixteen(254, 128, 0)[1] = 254 /\ 10 - 8 * (1 - 1) = 10
          /\ Sixteen(254, 128, 0)[2] = 128 /\ 10 - 8 * (2 - 1) = 2
        BY DEF Sixteen
    <2>3. \A i \in 1 .. 16 : i = 1 \/ i = 2 \/ i \in 3 .. 16
        OBVIOUS
    <2>4. MatchesPrefix(o, [network |-> Sixteen(254, 128, 0), prefixLen |-> 10]) <=>
              Agrees(o[1], 254, 10) /\ Agrees(o[2], 128, 2)
        BY <1>3, <2>1, <2>2, <2>3
    <2>5. Agrees(o[1], 254, 10) <=> o[1] = 254
        BY <1>2 DEF Agrees
    <2> QED
        BY <1>2, <1>x, <2>4, <2>5 DEF Agrees, Second
<1>6. ASSUME NEW z \in 0 .. 1
      PROVE  MatchesPrefix(o, [network |-> Sixteen(0, 0, z), prefixLen |-> 128]) <=>
                 (\A i \in 1 .. 15 : o[i] = 0) /\ o[16] = z
    <2>1. ASSUME NEW i \in 1 .. 16
          PROVE  Agrees(o[i], Sixteen(0, 0, z)[i], 128 - 8 * (i - 1)) <=>
                     o[i] = Sixteen(0, 0, z)[i]
        <3>1. 128 - 8 * (i - 1) \in Int /\ 128 - 8 * (i - 1) >= 8
            OBVIOUS
        <3>2. PICK y \in 0 .. 255 : y = Sixteen(0, 0, z)[i]
            BY DEF Sixteen
        <3>3. PICK n \in Int : n = 128 - 8 * (i - 1) /\ n >= 8
            BY <3>1
        <3>4. o[i] \in 0 .. 255
            BY <1>1
        <3>5. Agrees(o[i], y, n) <=> o[i] = y
            BY <3>3, <3>4 DEF Agrees
        <3> QED
            BY <3>2, <3>3, <3>5
    <2>2. (\A i \in 1 .. 15 : Sixteen(0, 0, z)[i] = 0) /\ Sixteen(0, 0, z)[16] = z
        BY DEF Sixteen
    <2>3. \A i \in 1 .. 16 : i \in 1 .. 15 \/ i = 16
        OBVIOUS
    <2>4. \A i \in 1 .. 15 : i \in 1 .. 16
        OBVIOUS
    <2> QED
        BY <1>3, <2>1, <2>2, <2>3, <2>4
<1> QED
    BY <1>4, <1>5, <1>6

LEMMA BlocksOfSixteen ==
    ASSUME NEW o \in Address(16)
    PROVE  /\ Leq(V6(252, 0, 0), o) /\ Leq(o, Full(253, 255)) <=> First(o, 252, 253)
           /\ Leq(V6(254, 128, 0), o) /\ Leq(o, Full(254, 191)) <=> Second(o, 254, 128, 191)
           /\ Leq(V6(0, 0, 0), o) /\ Leq(o, V6(0, 0, 1)) <=>
                  (\A i \in 1 .. 15 : o[i] = 0) /\ (o[16] = 0 \/ o[16] = 1)
<1>1. IsBlock(V6(252, 0, 0), Full(253, 255), 16, 0)
    BY DEF IsBlock, Address, V6, Full
<1>2. IsBlock(V6(254, 128, 0), Full(254, 191), 16, 1)
    BY DEF IsBlock, Address, V6, Full
<1>3. IsBlock(V6(0, 0, 0), V6(0, 0, 1), 16, 15)
    BY DEF IsBlock, Address, V6
<1>4. 16 \in Nat /\ 0 \in 0 .. 16 - 1 /\ 1 \in 0 .. 16 - 1 /\ 15 \in 0 .. 16 - 1
    OBVIOUS
<1>5. Leq(V6(252, 0, 0), o) /\ Leq(o, Full(253, 255)) <=>
          Inside(V6(252, 0, 0), Full(253, 255), o, 0)
    BY <1>1, <1>4, Between, Zenon
<1>6. Leq(V6(254, 128, 0), o) /\ Leq(o, Full(254, 191)) <=>
          Inside(V6(254, 128, 0), Full(254, 191), o, 1)
    BY <1>2, <1>4, Between, Zenon
<1>7. Leq(V6(0, 0, 0), o) /\ Leq(o, V6(0, 0, 1)) <=> Inside(V6(0, 0, 0), V6(0, 0, 1), o, 15)
    BY <1>3, <1>4, Between, Zenon
<1>8. Inside(V6(252, 0, 0), Full(253, 255), o, 0) <=> First(o, 252, 253)
    BY DEF Inside, V6, Full, First
<1>9. Inside(V6(254, 128, 0), Full(254, 191), o, 1) <=> Second(o, 254, 128, 191)
    <2>1. /\ V6(254, 128, 0)[1] = 254 /\ V6(254, 128, 0)[1 + 1] = 128
          /\ Full(254, 191)[1 + 1] = 191 /\ 1 + 1 = 2
        BY DEF V6, Full
    <2>2. 1 .. 1 = {1}
        OBVIOUS
    <2> QED
        BY <2>1, <2>2 DEF Inside, Second
<1>10. Inside(V6(0, 0, 0), V6(0, 0, 1), o, 15) <=>
           (\A i \in 1 .. 15 : o[i] = 0) /\ (o[16] = 0 \/ o[16] = 1)
    <2>1. /\ \A i \in 1 .. 15 : V6(0, 0, 0)[i] = 0
          /\ V6(0, 0, 0)[15 + 1] = 0 /\ V6(0, 0, 1)[15 + 1] = 1 /\ 15 + 1 = 16
        BY DEF V6
    <2>2. o[16] \in 0 .. 255
        BY DEF Address
    <2>3. 0 <= o[16] /\ o[16] <= 1 <=> o[16] = 0 \/ o[16] = 1
        BY <2>2
    <2> QED
        BY <2>1, <2>3 DEF Inside
<1> QED
    BY <1>5, <1>6, <1>7, <1>8, <1>9, <1>10

\* The reserved blocks by the octets that tell them.
Wide(lo, hi) == [first |-> <<lo, 0, 0, 0>>, last |-> <<hi, 255, 255, 255>>]
Narrow(a, lo, hi) == [first |-> <<a, lo, 0, 0>>, last |-> <<a, hi, 255, 255>>]
OneAddress == [first |-> <<255, 255, 255, 255>>, last |-> <<255, 255, 255, 255>>]
NobodyAndSelf == [first |-> V6(0, 0, 0), last |-> V6(0, 0, 1)]
UniqueLocal == [first |-> V6(252, 0, 0), last |-> Full(253, 255)]
LinkLocal == [first |-> V6(254, 128, 0), last |-> Full(254, 191)]

LEMMA AllBlocks ==
    ReservedBlocks =
        { Wide(10, 10), Narrow(172, 16, 31), Narrow(192, 168, 168), Wide(127, 127),
          Narrow(169, 254, 254), Wide(0, 0), Narrow(100, 64, 127), Wide(224, 239),
          OneAddress, NobodyAndSelf, UniqueLocal, LinkLocal }
BY DEF ReservedBlocks, Wide, Narrow, OneAddress, NobodyAndSelf, UniqueLocal, LinkLocal

Lies(o, block) ==
    Len(o) = Len(block.first) /\ Leq(block.first, o) /\ Leq(o, block.last)

\* The ranges of the guard for IPv4 and the blocks of IPv4 hold the same addresses.
LEMMA FourExact ==
    ASSUME NEW o \in Address(4)
    PROVE  (\E range \in BLOCKED_IPV4_RANGES : MatchesPrefix(o, range)) <=>
               \E block \in ReservedBlocks : Lies(o, block)
<1>1. Len(o) = 4
    BY DEF Address
<1>2. /\ o[1] \in 0 .. 255 /\ o[2] \in 0 .. 255
      /\ o[3] \in 0 .. 255 /\ o[4] \in 0 .. 255
    BY DEF Address
<1>3. ASSUME NEW a \in 0 .. 255
      PROVE  MatchesPrefix(o, Range4(a, 0, 8)) <=> Lies(o, Wide(a, a))
    <2>1. a \in 0 .. 255 /\ a <= a
        OBVIOUS
    <2>2. MatchesPrefix(o, Range4(a, 0, 8)) <=> First(o, a, a)
        BY <2>1, RangesOfFour, Zenon
    <2>3. Leq(<<a, 0, 0, 0>>, o) /\ Leq(o, <<a, 255, 255, 255>>) <=> First(o, a, a)
        BY <2>1, BlockOfFour, Zenon
    <2> QED
        BY <1>1, <1>2, <2>2, <2>3 DEF Lies, Wide, Narrow
<1>4. ASSUME NEW a \in 0 .. 255, NEW b \in 0 .. 255
      PROVE  MatchesPrefix(o, Range4(a, b, 16)) <=> Lies(o, Narrow(a, b, b))
    <2>1. a \in 0 .. 255 /\ b \in 0 .. 255 /\ b <= b
        OBVIOUS
    <2>2. MatchesPrefix(o, Range4(a, b, 16)) <=> Second(o, a, b, b)
        BY <2>1, RangesOfFour, Zenon
    <2>3. Leq(<<a, b, 0, 0>>, o) /\ Leq(o, <<a, b, 255, 255>>) <=> Second(o, a, b, b)
        BY <2>1, BlockOfFour, Zenon
    <2> QED
        BY <1>1, <1>2, <2>2, <2>3 DEF Lies, Wide, Narrow
<1>5. MatchesPrefix(o, Range4(172, 16, 12)) <=> Lies(o, Narrow(172, 16, 31))
    <2>1. 172 \in 0 .. 255 /\ 16 \in 0 .. 255 /\ 31 \in 0 .. 255 /\ 16 <= 31
        OBVIOUS
    <2>2. MatchesPrefix(o, Range4(172, 16, 12)) <=> Second(o, 172, 16, 31)
        BY RangesOfFour, Zenon
    <2>3. Leq(<<172, 16, 0, 0>>, o) /\ Leq(o, <<172, 31, 255, 255>>) <=> Second(o, 172, 16, 31)
        BY <2>1, BlockOfFour, Zenon
    <2> QED
        BY <1>1, <2>2, <2>3 DEF Lies, Wide, Narrow
<1>6. MatchesPrefix(o, Range4(100, 64, 10)) <=> Lies(o, Narrow(100, 64, 127))
    <2>1. 100 \in 0 .. 255 /\ 64 \in 0 .. 255 /\ 127 \in 0 .. 255 /\ 64 <= 127
        OBVIOUS
    <2>2. MatchesPrefix(o, Range4(100, 64, 10)) <=> Second(o, 100, 64, 127)
        BY RangesOfFour, Zenon
    <2>3. Leq(<<100, 64, 0, 0>>, o) /\ Leq(o, <<100, 127, 255, 255>>) <=> Second(o, 100, 64, 127)
        BY <2>1, BlockOfFour, Zenon
    <2> QED
        BY <1>1, <2>2, <2>3 DEF Lies, Wide, Narrow
<1>7. MatchesPrefix(o, Range4(224, 0, 4)) <=> Lies(o, Wide(224, 239))
    <2>1. 224 \in 0 .. 255 /\ 239 \in 0 .. 255 /\ 224 <= 239
        OBVIOUS
    <2>2. MatchesPrefix(o, Range4(224, 0, 4)) <=> First(o, 224, 239)
        BY RangesOfFour, Zenon
    <2>3. Leq(<<224, 0, 0, 0>>, o) /\ Leq(o, <<239, 255, 255, 255>>) <=> First(o, 224, 239)
        BY <2>1, BlockOfFour, Zenon
    <2> QED
        BY <1>1, <2>2, <2>3 DEF Lies, Wide, Narrow
<1>8. MatchesPrefix(o, [network |-> <<255, 255, 255, 255>>, prefixLen |-> 32]) <=>
          Lies(o, OneAddress)
    <2>1. IsBlock(<<255, 255, 255, 255>>, <<255, 255, 255, 255>>, 4, 3)
        BY DEF IsBlock, Address
    <2>2. 4 \in Nat /\ 3 \in 0 .. 4 - 1
        OBVIOUS
    <2>3. Leq(<<255, 255, 255, 255>>, o) /\ Leq(o, <<255, 255, 255, 255>>) <=>
              Inside(<<255, 255, 255, 255>>, <<255, 255, 255, 255>>, o, 3)
        BY <2>1, <2>2, Between, Zenon
    <2>4. Inside(<<255, 255, 255, 255>>, <<255, 255, 255, 255>>, o, 3) <=> Broadcast(o)
        <3>1. 1 .. 3 = {1, 2, 3}
            OBVIOUS
        <3> QED
            BY <1>2, <3>1 DEF Inside, Broadcast
    <2>5. MatchesPrefix(o, [network |-> <<255, 255, 255, 255>>, prefixLen |-> 32]) <=>
              Broadcast(o)
        BY RangesOfFour, Zenon
    <2> QED
        BY <1>1, <2>3, <2>4, <2>5 DEF Lies, OneAddress
<1>9. ~Lies(o, NobodyAndSelf)
    BY <1>1 DEF Lies, V6, NobodyAndSelf
<1>10. ~Lies(o, UniqueLocal)
    BY <1>1 DEF Lies, V6, UniqueLocal
<1>11. ~Lies(o, LinkLocal)
    BY <1>1 DEF Lies, V6, LinkLocal
<1>12. /\ 10 \in 0 .. 255 /\ 192 \in 0 .. 255 /\ 168 \in 0 .. 255 /\ 127 \in 0 .. 255
       /\ 169 \in 0 .. 255 /\ 254 \in 0 .. 255 /\ 0 \in 0 .. 255
    OBVIOUS
<1>13. MatchesPrefix(o, Range4(10, 0, 8)) <=> Lies(o, Wide(10, 10))
    BY <1>3, <1>12, Zenon
<1>14. MatchesPrefix(o, Range4(127, 0, 8)) <=> Lies(o, Wide(127, 127))
    BY <1>3, <1>12, Zenon
<1>15. MatchesPrefix(o, Range4(0, 0, 8)) <=> Lies(o, Wide(0, 0))
    BY <1>3, <1>12, Zenon
<1>16. MatchesPrefix(o, Range4(192, 168, 16)) <=> Lies(o, Narrow(192, 168, 168))
    BY <1>4, <1>12, Zenon
<1>17. MatchesPrefix(o, Range4(169, 254, 16)) <=> Lies(o, Narrow(169, 254, 254))
    BY <1>4, <1>12, Zenon
<1>18. ASSUME NEW range \in BLOCKED_IPV4_RANGES, MatchesPrefix(o, range)
       PROVE  \E block \in ReservedBlocks : Lies(o, block)
    <2>1. \/ range = Range4(10, 0, 8) \/ range = Range4(172, 16, 12) \/ range = Range4(192, 168, 16)
          \/ range = Range4(127, 0, 8) \/ range = Range4(169, 254, 16) \/ range = Range4(0, 0, 8)
          \/ range = Range4(100, 64, 10) \/ range = Range4(224, 0, 4)
          \/ range = [network |-> <<255, 255, 255, 255>>, prefixLen |-> 32]
        BY DEF BLOCKED_IPV4_RANGES
    <2>2. { Wide(10, 10), Narrow(172, 16, 31), Narrow(192, 168, 168), Wide(127, 127),
            Narrow(169, 254, 254), Wide(0, 0), Narrow(100, 64, 127), Wide(224, 239),
            OneAddress } \subseteq ReservedBlocks
        BY AllBlocks
    <2> QED
        BY <1>5, <1>6, <1>7, <1>8, <1>13, <1>14, <1>15, <1>16, <1>17, <1>18, <2>1, <2>2
<1>19. ASSUME NEW block \in ReservedBlocks, Lies(o, block)
       PROVE  \E range \in BLOCKED_IPV4_RANGES : MatchesPrefix(o, range)
    <2>1. \/ block = Wide(10, 10) \/ block = Narrow(172, 16, 31) \/ block = Narrow(192, 168, 168)
          \/ block = Wide(127, 127) \/ block = Narrow(169, 254, 254) \/ block = Wide(0, 0)
          \/ block = Narrow(100, 64, 127) \/ block = Wide(224, 239) \/ block = OneAddress
          \/ block = NobodyAndSelf \/ block = UniqueLocal \/ block = LinkLocal
        BY AllBlocks
    <2>2. { Range4(10, 0, 8), Range4(172, 16, 12), Range4(192, 168, 16), Range4(127, 0, 8),
            Range4(169, 254, 16), Range4(0, 0, 8), Range4(100, 64, 10), Range4(224, 0, 4),
            [network |-> <<255, 255, 255, 255>>, prefixLen |-> 32] } \subseteq
          BLOCKED_IPV4_RANGES
        BY DEF BLOCKED_IPV4_RANGES
    <2> QED
        BY <1>5, <1>6, <1>7, <1>8, <1>13, <1>14, <1>15, <1>16, <1>17,
           <1>9, <1>10, <1>11, <1>19, <2>1, <2>2
<1> QED
    BY <1>18, <1>19, Zenon

\* The same for IPv6, where two of the ranges make one block.
LEMMA SixteenExact ==
    ASSUME NEW o \in Address(16)
    PROVE  (\E range \in BLOCKED_IPV6_RANGES : MatchesPrefix(o, range)) <=>
               \E block \in ReservedBlocks : Lies(o, block)
<1>1. Len(o) = 16 /\ o[16] \in 0 .. 255
    BY DEF Address
<1>2. \A a, b, z : Len(V6(a, b, z)) = 16
    BY DEF V6
<1>3. MatchesPrefix(o, [network |-> Sixteen(252, 0, 0), prefixLen |-> 7]) <=>
          Lies(o, UniqueLocal)
    BY <1>1, <1>2, RangesOfSixteen, BlocksOfSixteen
    DEF Lies, NobodyAndSelf, UniqueLocal, LinkLocal
<1>4. MatchesPrefix(o, [network |-> Sixteen(254, 128, 0), prefixLen |-> 10]) <=>
          Lies(o, LinkLocal)
    BY <1>1, <1>2, RangesOfSixteen, BlocksOfSixteen
    DEF Lies, NobodyAndSelf, UniqueLocal, LinkLocal
<1>5. (\/ MatchesPrefix(o, [network |-> Sixteen(0, 0, 1), prefixLen |-> 128])
       \/ MatchesPrefix(o, [network |-> Sixteen(0, 0, 0), prefixLen |-> 128])) <=>
          Lies(o, NobodyAndSelf)
    BY <1>1, <1>2, RangesOfSixteen, BlocksOfSixteen
    DEF Lies, NobodyAndSelf, UniqueLocal, LinkLocal
<1>6. /\ \A lo, hi : ~Lies(o, Wide(lo, hi))
      /\ \A a, lo, hi : ~Lies(o, Narrow(a, lo, hi))
      /\ ~Lies(o, OneAddress)
    BY <1>1 DEF Lies, Wide, Narrow, OneAddress
<1> QED
    <2>1. (\E range \in BLOCKED_IPV6_RANGES : MatchesPrefix(o, range)) <=>
              \/ MatchesPrefix(o, [network |-> Sixteen(0, 0, 1), prefixLen |-> 128])
              \/ MatchesPrefix(o, [network |-> Sixteen(0, 0, 0), prefixLen |-> 128])
              \/ MatchesPrefix(o, [network |-> Sixteen(252, 0, 0), prefixLen |-> 7])
              \/ MatchesPrefix(o, [network |-> Sixteen(254, 128, 0), prefixLen |-> 10])
        BY Zenon DEF BLOCKED_IPV6_RANGES
    <2>2. ASSUME NEW block \in ReservedBlocks, Lies(o, block)
          PROVE  block = NobodyAndSelf \/ block = UniqueLocal \/ block = LinkLocal
        <3>1. \/ block = Wide(10, 10) \/ block = Narrow(172, 16, 31) \/ block = Narrow(192, 168, 168)
              \/ block = Wide(127, 127) \/ block = Narrow(169, 254, 254) \/ block = Wide(0, 0)
              \/ block = Narrow(100, 64, 127) \/ block = Wide(224, 239) \/ block = OneAddress
              \/ block = NobodyAndSelf \/ block = UniqueLocal \/ block = LinkLocal
            BY AllBlocks
        <3> QED
            BY <1>6, <2>2, <3>1, Zenon
    <2>3. /\ NobodyAndSelf \in ReservedBlocks
          /\ UniqueLocal \in ReservedBlocks
          /\ LinkLocal \in ReservedBlocks
        BY AllBlocks
    <2> QED
        BY <1>3, <1>4, <1>5, <2>1, <2>2, <2>3, Zenon

LEMMA StaysAddress ==
    ASSUME NEW o \in Address(4) \cup Address(16)
    PROVE  Unmapped(o) \in Address(4) \cup Address(16)
<1>1. CASE ~Ipv4Mapped(o)
    BY <1>1 DEF Unmapped
<1>2. CASE Ipv4Mapped(o)
    <2>1. Unmapped(o) = SubSeq(o, 13, 16) /\ Len(o) = 16
        BY <1>2 DEF Unmapped, Ipv4Mapped
    <2>2. o \in Address(16)
        BY <2>1 DEF Address
    <2>3. SubSeq(o, 13, 16) = [i \in 1 .. 4 |-> o[i + 12]]
        BY <2>2 DEF Address
    <2>4. \A i \in 1 .. 4 : o[i + 12] \in 0 .. 255
        BY <2>2 DEF Address
    <2>5. [i \in 1 .. 4 |-> o[i + 12]] \in Address(4)
        BY <2>4 DEF Address
    <2> QED
        BY <2>1, <2>3, <2>5
<1> QED
    BY <1>1, <1>2

\* No range of IPv6 holds an IPv4-mapped address.
LEMMA MappedPasses ==
    ASSUME NEW o \in Address(16), Ipv4Mapped(o)
    PROVE  ~\E range \in BLOCKED_IPV6_RANGES : MatchesPrefix(o, range)
<1>1. o[1] = 0 /\ o[11] = 255
    BY DEF Ipv4Mapped
<1>2. ~First(o, 252, 253) /\ ~Second(o, 254, 128, 191)
    BY <1>1 DEF First, Second
<1>3. ~\A i \in 1 .. 15 : o[i] = 0
    BY <1>1
<1>4. /\ ~MatchesPrefix(o, [network |-> Sixteen(252, 0, 0), prefixLen |-> 7])
      /\ ~MatchesPrefix(o, [network |-> Sixteen(254, 128, 0), prefixLen |-> 10])
      /\ ~MatchesPrefix(o, [network |-> Sixteen(0, 0, 1), prefixLen |-> 128])
      /\ ~MatchesPrefix(o, [network |-> Sixteen(0, 0, 0), prefixLen |-> 128])
    BY <1>2, <1>3, RangesOfSixteen
<1> QED
    BY <1>4, Zenon DEF BLOCKED_IPV6_RANGES

\* The guard blocks exactly the addresses of the reserved blocks, but for those that are
\* IPv4-mapped and not written with dots, which it lets pass.
LEMMA BlockedIsReserved ==
    \A a \in Addresses : CheckIp(a) <=> a \in Reserved \ Hexadecimal
<1> SUFFICES ASSUME NEW a \in Addresses PROVE CheckIp(a) <=> a \in Reserved \ Hexadecimal
    OBVIOUS
<1>1. Octets[a] \in Address(4) \cup Address(16)
    BY AddressConfig DEF Address
<1>2. CASE a \in Hexadecimal
    <2>1. Ipv4Mapped(Octets[a]) /\ NormalizeIpv4Mapped(a) = Octets[a]
        BY <1>2 DEF Hexadecimal, NormalizeIpv4Mapped
    <2>2. Octets[a] \in Address(16) /\ Len(Octets[a]) # 4
        BY <1>1, <2>1 DEF Ipv4Mapped, Address
    <2>3. ~CheckIp(a)
        BY <2>1, <2>2, MappedPasses DEF CheckIp
    <2> QED
        BY <1>2, <2>3
<1>3. CASE a \notin Hexadecimal
    <2>1. PICK o : o = Unmapped(Octets[a])
        OBVIOUS
    <2>2. NormalizeIpv4Mapped(a) = o
        BY <1>3, <2>1, AddressConfig DEF NormalizeIpv4Mapped, Hexadecimal, Unmapped
    <2>3. o \in Address(4) \cup Address(16)
        BY <1>1, <2>1, StaysAddress
    <2>4. a \in Reserved <=> \E block \in ReservedBlocks : Lies(o, block)
        BY <2>1 DEF Reserved, Lies
    <2>5. CheckIp(a) <=>
              \E range \in IF Len(o) = 4 THEN BLOCKED_IPV4_RANGES ELSE BLOCKED_IPV6_RANGES :
                  MatchesPrefix(o, range)
        BY <2>2 DEF CheckIp
    <2>6. CASE o \in Address(4)
        <3>1. Len(o) = 4
            BY <2>6 DEF Address
        <3> QED
            BY <1>3, <2>4, <2>5, <2>6, <3>1, FourExact
    <2>7. CASE o \in Address(16)
        <3>1. Len(o) # 4
            BY <2>7 DEF Address
        <3> QED
            BY <1>3, <2>4, <2>5, <2>7, <3>1, SixteenExact
    <2> QED
        BY <2>3, <2>6, <2>7
<1> QED
    BY <1>2, <1>3

\* Whatever the addresses and their texts, an answer of one address, and a URL's own
\* address, is refused exactly if it lies in a reserved block and is not an IPv4-mapped
\* address in hexadecimal: the masks and prefixes of the guard lose and add no other.
THEOREM GuardIsExact == Spec => []RangesExact
<1>1. ASSUME NEW a \in Addresses
      PROVE  Refused(a) <=> a \in Reserved \ Hexadecimal /\ ~AllowPrivateIps
    BY BlockedIsReserved DEF Refused, Blocked
<1>2. ASSUME NEW a \in Addresses PROVE Allowed(a) # Denied
    BY DEF Allowed, Denied
<1>3. ASSUME NEW a \in Addresses
      PROVE  ValidateAnswer(<<a>>) = Denied <=> Refused(a)
    <2>1. <<a>> # <<>> /\ DOMAIN <<a>> = {1} /\ <<a>>[1] = a
        OBVIOUS
    <2>2. ValidateAnswer(<<a>>) = IF Refused(a) THEN Denied ELSE Allowed(a)
        BY <2>1 DEF ValidateAnswer
    <2> QED
        BY <1>2, <2>2
<1>4. ASSUME NEW a \in Literals
      PROVE  a \in Addresses /\ (Denied \in ValidateUrl[a] <=> Refused(a))
    <2>1. a \in Addresses /\ a # OtherScheme /\ a \in Sites
        BY AddressConfig, FetchConfig DEF Sites
    <2>2. ValidateUrl[a] = {IF Refused(a) THEN Denied ELSE Allowed(a)}
        BY <2>1 DEF ValidateUrl
    <2> QED
        BY <1>2, <2>1, <2>2
<1>5. RangesExact
    BY <1>1, <1>3, <1>4 DEF RangesExact
<1> QED
    BY <1>5, PTL
===========================================================================
