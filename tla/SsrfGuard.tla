----------------------------- MODULE SsrfGuard ------------------------------
(***************************************************************************)
(* packages/ssrf-guard: which addresses a URL's host may lead to.            *)
(*                                                                         *)
(* An address has a name; Octets gives its 4 or 16 octets. A host is a DNS    *)
(* name, whose resolver answers are Answers4 and Answers6, or the name of a   *)
(* literal address. OtherScheme stands for any URL that is not http(s).       *)
(*                                                                         *)
(* An address is a text to the code. Two texts of one address differ in one   *)
(* respect that it can tell: a resolver writes an IPv4-mapped address with    *)
(* dots (::ffff:1.2.3.4), a URL in hexadecimal (::ffff:102:304). Dotted holds  *)
(* the addresses of the first form. That a resolver may write other addresses *)
(* with dots, those compatible with IPv4 (::1.2.3.4), is left out.            *)
(***************************************************************************)
EXTENDS Integers, Sequences, SequencesExt

CONSTANTS
    Octets,          \* [address name -> sequence of 4 or 16 octets]
    Dotted,          \* the addresses written ::ffff:a.b.c.d
    Answers4,        \* [DNS host -> what resolve4 may answer: a set of sequences]
    Answers6,        \* the same for resolve6
    Literals,        \* addresses that URLs name themselves
    OtherScheme,
    AllowPrivateIps,
    DnsFailPolicy    \* "open" or "closed"

Addresses == DOMAIN Octets

\* ::ffff:0:0/96, whatever the text.
Ipv4Mapped(octets) ==
    /\ Len(octets) = 16 /\ octets[11] = 255 /\ octets[12] = 255
    /\ \A i \in 1 .. 10 : octets[i] = 0

ASSUME AddressConfig ==
    /\ \A a \in Addresses : Octets[a] \in [1 .. 4 -> 0 .. 255] \cup [1 .. 16 -> 0 .. 255]
    /\ \A a \in Dotted : a \in Addresses /\ Ipv4Mapped(Octets[a])
    /\ Literals \subseteq Addresses \ Dotted

Sites == DOMAIN Answers4 \cup Literals \cup {OtherScheme}

Range4(a, b, len) == [network |-> <<a, b, 0, 0>>, prefixLen |-> len]
BLOCKED_IPV4_RANGES ==
    { Range4(10, 0, 8), Range4(172, 16, 12), Range4(192, 168, 16),
      Range4(127, 0, 8), Range4(169, 254, 16), Range4(0, 0, 8),
      Range4(100, 64, 10), Range4(224, 0, 4),
      [network |-> <<255, 255, 255, 255>>, prefixLen |-> 32] }

Sixteen(first, second, last) ==
    [i \in 1 .. 16 |-> IF i = 1 THEN first ELSE IF i = 2 THEN second
                       ELSE IF i = 16 THEN last ELSE 0]
BLOCKED_IPV6_RANGES ==
    { [network |-> Sixteen(0, 0, 1), prefixLen |-> 128],
      [network |-> Sixteen(0, 0, 0), prefixLen |-> 128],
      [network |-> Sixteen(252, 0, 0), prefixLen |-> 7],
      [network |-> Sixteen(254, 128, 0), prefixLen |-> 10] }

\* Mutant: only whole octets are compared.
MatchesOctets(address, range) ==
    \A i \in 1 .. Len(address) :
        range.prefixLen - 8 * (i - 1) >= 8 => address[i] = range.network[i]

\* The first prefixLen bits agree, octet by octet.
MatchesPrefix(address, range) ==
    \A i \in 1 .. Len(address) :
        LET remaining == range.prefixLen - 8 * (i - 1)
            unit == IF remaining >= 8 THEN 1 ELSE 2 ^ (8 - remaining)
        IN  remaining > 0 =>
                address[i] \div unit = range.network[i] \div unit

\* IPV4_MAPPED_RE knows the dotted text of an IPv4-mapped address only.
NormalizeIpv4Mapped(a) == IF a \in Dotted THEN SubSeq(Octets[a], 13, 16) ELSE Octets[a]

CheckIp(a) ==
    LET octets == NormalizeIpv4Mapped(a)
        ranges == IF Len(octets) = 4 THEN BLOCKED_IPV4_RANGES ELSE BLOCKED_IPV6_RANGES
    IN  \E range \in ranges : MatchesPrefix(octets, range)

Blocked == {a \in Addresses : CheckIp(a)}
Refused(a) == a \in Blocked /\ ~AllowPrivateIps

Allowed(a) == [tag |-> "allowed", ip |-> a]
Denied == [tag |-> "blocked"]
Failed == [tag |-> "error"]   \* validateUrl answers with an error result

\* No address: the fail policy decides.
Unresolved == IF DnsFailPolicy = "open" THEN Failed ELSE Denied

\* Every address of the answer must pass; the first one is pinned.
ValidateAnswer(ips) ==
    IF ips = <<>> THEN Unresolved
    ELSE IF \E i \in DOMAIN ips : Refused(ips[i]) THEN Denied
    ELSE Allowed(ips[1])

\* Both lookups run and a lookup that fails answers nothing; the timer may be first.
ValidateViaDns(host) ==
    {Unresolved} \cup
    {ValidateAnswer(a4 \o a6) : a4 \in Answers4[host] \cup {<<>>},
                                a6 \in Answers6[host] \cup {<<>>}}

\* The results validateUrl may have for a URL.
ValidateUrl ==
    [site \in Sites |->
        IF site = OtherScheme THEN {Denied}
        ELSE IF site \in Literals THEN {IF Refused(site) THEN Denied ELSE Allowed(site)}
        ELSE ValidateViaDns(site)]
===========================================================================
