-------------------------- MODULE PolitenessProofs --------------------------
(***************************************************************************)
(* Proofs about the politeness controller in PageFetch, for any number of    *)
(* calls and domains, any delay and any size of its table: its variables are  *)
(* well typed, and two calls of a domain are let through a delay apart.       *)
(***************************************************************************)
EXTENDS PageFetchProofs, FiniteSetTheorems, SequenceTheorems

--------------------------------------------------------------------------
(* The table of domains.                                                    *)

\* A set of numbers that has 0, and with a number the next, has them all.
LEMMA Upwards ==
    ASSUME NEW G, 0 \in G, \A n \in Nat : n \in G => n + 1 \in G
    PROVE  Nat \subseteq G
<1> DEFINE Bad == {n \in Nat : n \notin G}
<1> SUFFICES ASSUME Bad # {} PROVE FALSE
    OBVIOUS
<1>1. PICK m \in Bad : \A n \in Bad : m <= n
    BY Least
<1>2. m \in Nat \ {0} /\ m - 1 \in Nat /\ m - 1 \notin Bad
    BY <1>1
<1>3. (m - 1) + 1 = m
    BY <1>2
<1> QED
    BY <1>1, <1>2, <1>3

LEMMA Members ==
    ASSUME NEW S, NEW s \in Seq(S)
    PROVE  \A x : x \in ToSet(s) <=> \E i \in 1 .. Len(s) : s[i] = x
BY DEF ToSet

LEMMA MembersOfAppend ==
    ASSUME NEW S, NEW s \in Seq(S), NEW e \in S
    PROVE  \A x : x \in ToSet(Append(s, e)) <=> x \in ToSet(s) \/ x = e
<1>0. PICK t : t = Append(s, e)
    OBVIOUS
<1>1. /\ t \in Seq(S) /\ Len(t) = Len(s) + 1 /\ t[Len(s) + 1] = e
      /\ \A i \in 1 .. Len(s) : t[i] = s[i]
      /\ Len(s) \in Nat
    BY <1>0, AppendProperties
<1>2. \A x : x \in ToSet(t) <=> \E i \in 1 .. Len(s) + 1 : t[i] = x
  <2>1. \A x : x \in ToSet(t) <=> \E i \in 1 .. Len(t) : t[i] = x
      BY <1>1, Members, Zenon
  <2> QED
      BY <1>1, <2>1, Zenon
<1>3. \A x : x \in ToSet(s) <=> \E i \in 1 .. Len(s) : s[i] = x
    BY Members
<1>4. ASSUME NEW i \in 1 .. Len(s) + 1 PROVE i \in 1 .. Len(s) \/ i = Len(s) + 1
    BY <1>1
<1>5. \A i \in 1 .. Len(s) : i \in 1 .. Len(s) + 1
    BY <1>1
<1>6. Len(s) + 1 \in 1 .. Len(s) + 1
    BY <1>1
<1> QED
    BY <1>0, <1>1, <1>2, <1>3, <1>4, <1>5, <1>6

\* Taking out an entry leaves the others, and perhaps another like it.
LEMMA TakenOut ==
    ASSUME NEW S, NEW s \in Seq(S), NEW i \in 1 .. Len(s)
    PROVE  /\ RemoveAt(s, i) \in Seq(S) /\ Len(RemoveAt(s, i)) = Len(s) - 1
           /\ ToSet(RemoveAt(s, i)) \subseteq ToSet(s)
           /\ ToSet(s) \subseteq ToSet(RemoveAt(s, i)) \cup {s[i]}
<1>b. PICK b : b = SubSeq(s, 1, i - 1)
    OBVIOUS
<1>r. PICK r : r = SubSeq(s, i + 1, Len(s))
    OBVIOUS
<1>1. Len(s) \in Nat /\ i \in Nat /\ \A j \in 1 .. Len(s) : s[j] \in S
    OBVIOUS
<1>2. /\ b \in Seq(S) /\ Len(b) = i - 1 /\ \A j \in 1 .. i - 1 : b[j] = s[j]
    <2>1. \A j \in 1 .. i - 1 : s[j] \in S
        BY <1>1
    <2>2. /\ b \in Seq(S) /\ Len(b) = (IF 1 <= i - 1 THEN (i - 1) - 1 + 1 ELSE 0)
          /\ \A j \in 1 .. (i - 1) - 1 + 1 : b[j] = s[1 + j - 1]
        BY <1>b, <1>1, <2>1, SubSeqProperties
    <2> QED
        BY <1>1, <2>2
<1>3. /\ r \in Seq(S) /\ Len(r) = Len(s) - i /\ \A j \in 1 .. Len(s) - i : r[j] = s[i + j]
    <2>1. \A j \in i + 1 .. Len(s) : s[j] \in S
        BY <1>1
    <2>2. /\ r \in Seq(S) /\ Len(r) = (IF i + 1 <= Len(s) THEN Len(s) - (i + 1) + 1 ELSE 0)
          /\ \A j \in 1 .. Len(s) - (i + 1) + 1 : r[j] = s[(i + 1) + j - 1]
        BY <1>r, <1>1, <2>1, SubSeqProperties
    <2>3. Len(r) = Len(s) - i
        BY <1>1, <2>2
    <2>4. ASSUME NEW j \in 1 .. Len(s) - i PROVE r[j] = s[i + j]
        <3>1. j \in 1 .. Len(s) - (i + 1) + 1 /\ (i + 1) + j - 1 = i + j
            BY <1>1
        <3> QED
            BY <2>2, <3>1
    <2> QED
        BY <2>2, <2>3, <2>4
<1>u. PICK u : u = b \o r
    OBVIOUS
<1>4. u = RemoveAt(s, i)
    BY <1>u, <1>b, <1>r, Zenon DEF RemoveAt
<1>5. /\ u \in Seq(S) /\ Len(u) = Len(s) - 1
      /\ \A j \in 1 .. Len(s) - 1 : u[j] = IF j <= i - 1 THEN s[j] ELSE s[j + 1]
    <2>0. /\ u \in Seq(S) /\ Len(u) = Len(b) + Len(r)
          /\ \A j \in 1 .. Len(b) + Len(r) :
                u[j] = IF j <= Len(b) THEN b[j] ELSE r[j - Len(b)]
        BY <1>u, <1>2, <1>3, ConcatProperties
    <2>1. /\ u \in Seq(S) /\ Len(u) = (i - 1) + (Len(s) - i)
          /\ \A j \in 1 .. (i - 1) + (Len(s) - i) :
                u[j] = IF j <= i - 1 THEN b[j] ELSE r[j - (i - 1)]
        BY <1>2, <1>3, <2>0
    <2>2. (i - 1) + (Len(s) - i) = Len(s) - 1
        BY <1>1
    <2>3. ASSUME NEW j \in 1 .. Len(s) - 1, j <= i - 1 PROVE b[j] = s[j]
        BY <1>1, <1>2, <2>3
    <2>4. ASSUME NEW j \in 1 .. Len(s) - 1, ~(j <= i - 1) PROVE r[j - (i - 1)] = s[j + 1]
        <3>1. j - (i - 1) \in 1 .. Len(s) - i /\ i + (j - (i - 1)) = j + 1
            BY <1>1, <2>4
        <3> QED
            BY <1>3, <3>1
    <2> QED
        BY <2>1, <2>2, <2>3, <2>4
<1>6. /\ \A x : x \in ToSet(u) <=> \E j \in 1 .. Len(s) - 1 : u[j] = x
      /\ \A x : x \in ToSet(s) <=> \E j \in 1 .. Len(s) : s[j] = x
    <2>1. \A x : x \in ToSet(u) <=> \E j \in 1 .. Len(u) : u[j] = x
        BY <1>5, Members, Zenon
    <2> QED
        BY <1>5, <2>1, Members, Zenon
<1>7. ASSUME NEW x \in ToSet(u) PROVE x \in ToSet(s)
    <2>1. PICK j \in 1 .. Len(s) - 1 : u[j] = x
        BY <1>6
    <2>2. j \in 1 .. Len(s) /\ j + 1 \in 1 .. Len(s)
        BY <1>1
    <2> QED
        BY <1>5, <1>6, <2>1, <2>2
<1>8. ASSUME NEW x \in ToSet(s), x # s[i] PROVE x \in ToSet(u)
    <2>1. PICK j \in 1 .. Len(s) : s[j] = x
        BY <1>6
    <2>2. CASE j < i
        <3>1. j \in 1 .. Len(s) - 1 /\ j <= i - 1
            BY <1>1, <2>2
        <3> QED
            BY <1>5, <1>6, <2>1, <3>1
    <2>3. CASE j > i
        <3>1. j - 1 \in 1 .. Len(s) - 1 /\ ~(j - 1 <= i - 1) /\ (j - 1) + 1 = j
            BY <1>1, <2>3
        <3>2. u[j - 1] = s[j]
            BY <1>5, <3>1
        <3> QED
            BY <1>6, <2>1, <3>1, <3>2
    <2>4. j # i /\ j \in Nat
        BY <1>8, <2>1
    <2> QED
        BY <1>1, <2>2, <2>3, <2>4
<1> QED
    BY <1>4, <1>5, <1>7, <1>8

\* An entry that moves to the end stays, and so do the others.
LEMMA TouchKeeps ==
    ASSUME domains \in Seq(Domains), NEW d \in ToSet(domains)
    PROVE  /\ Touch(d) \in Seq(Domains) /\ Len(Touch(d)) = Len(domains)
           /\ ToSet(Touch(d)) = ToSet(domains)
<1>p. PICK place : place = CHOOSE i \in 1 .. Len(domains) : domains[i] = d
    OBVIOUS
<1>1. place \in 1 .. Len(domains) /\ domains[place] = d
    BY <1>p, Members
<1>2. Len(domains) \in Nat /\ d \in Domains
    BY <1>1
<1>u. PICK u : u = RemoveAt(domains, place)
    OBVIOUS
<1>3. Touch(d) = Append(u, d)
    BY <1>p, <1>u, Zenon DEF Touch
<1>4. /\ u \in Seq(Domains) /\ Len(u) = Len(domains) - 1
      /\ ToSet(u) \subseteq ToSet(domains) /\ ToSet(domains) \subseteq ToSet(u) \cup {d}
    BY <1>1, <1>u, TakenOut
<1>5. Append(u, d) \in Seq(Domains) /\ Len(Append(u, d)) = Len(domains)
    <2>1. Append(u, d) \in Seq(Domains) /\ Len(Append(u, d)) = Len(u) + 1
        BY <1>2, <1>4, AppendProperties, Zenon
    <2> QED
        BY <1>2, <1>4, <2>1
<1>6. \A x : x \in ToSet(Append(u, d)) <=> x \in ToSet(u) \/ x = d
    BY <1>2, <1>4, MembersOfAppend, Zenon
<1>7. \A x : x \in ToSet(Append(u, d)) <=> x \in ToSet(domains)
    BY <1>4, <1>6
<1>8. ToSet(Append(u, d)) = ToSet(domains)
    BY <1>7, Zenon
<1> QED
    BY <1>3, <1>5, <1>8, Zenon

\* A new entry is in the table, and no entry that was not there before.
LEMMA InsertFits ==
    ASSUME domains \in Seq(Domains), Len(domains) <= MaxDomains, NEW d \in Domains
    PROVE  /\ Insert(d) \in Seq(Domains) /\ Len(Insert(d)) <= MaxDomains
           /\ d \in ToSet(Insert(d)) /\ ToSet(Insert(d)) \subseteq ToSet(domains) \cup {d}
<1>m. PICK room : room = Len(domains) - MaxDomains + 1
    OBVIOUS
<1>r. PICK rest : rest = SubSeq(domains, room + 1, Len(domains))
    OBVIOUS
<1>u. PICK u : u = IF room > 0 THEN rest ELSE domains
    OBVIOUS
<1>1. /\ Len(domains) \in Nat /\ MaxDomains \in Nat \ {0} /\ room \in Int /\ room <= 1
      /\ \A j \in 1 .. Len(domains) : domains[j] \in Domains
    BY <1>m, PolitenessConfig
<1>2. u \in Seq(Domains) /\ Len(u) < MaxDomains /\ ToSet(u) \subseteq ToSet(domains)
    <2>1. CASE room > 0
        <3>1. room = 1 /\ u = rest /\ rest = SubSeq(domains, 2, Len(domains))
            BY <1>1, <1>r, <1>u, <2>1
        <3>2. \A j \in 2 .. Len(domains) : domains[j] \in Domains
            BY <1>1
        <3>3. /\ rest \in Seq(Domains)
              /\ Len(rest) = (IF 2 <= Len(domains) THEN Len(domains) - 2 + 1 ELSE 0)
              /\ \A j \in 1 .. Len(domains) - 2 + 1 : rest[j] = domains[2 + j - 1]
            BY <1>1, <3>1, <3>2, SubSeqProperties
        <3>4. Len(rest) = Len(domains) - 1 /\ Len(domains) >= 1
            <4>1. Len(domains) >= 1
                BY <1>1, <1>m, <3>1
            <4>2. (IF 2 <= Len(domains) THEN Len(domains) - 2 + 1 ELSE 0) = Len(domains) - 1
                BY <1>1, <4>1
            <4>3. Len(rest) = (IF 2 <= Len(domains) THEN Len(domains) - 2 + 1 ELSE 0)
                BY <3>3, Zenon
            <4> QED
                BY <4>1, <4>2, <4>3
        <3>5. ASSUME NEW x \in ToSet(rest) PROVE x \in ToSet(domains)
            <4>0. \E j \in 1 .. Len(rest) : rest[j] = x
                BY <3>3, <3>5, Members, Zenon
            <4>1. PICK j \in 1 .. Len(domains) - 1 : rest[j] = x
                BY <3>4, <4>0, Zenon
            <4>2. j \in 1 .. Len(domains) - 2 + 1 /\ 2 + j - 1 \in 1 .. Len(domains)
                BY <1>1
            <4>3. domains[2 + j - 1] = x
                BY <3>3, <4>1, <4>2
            <4> QED
                BY <4>2, <4>3, Members
        <3> QED
            BY <1>1, <3>1, <3>3, <3>4, <3>5
    <2>2. CASE ~(room > 0)
        BY <1>1, <1>m, <1>u, <2>2
    <2> QED
        BY <2>1, <2>2
<1>3. Insert(d) = Append(u, d)
    BY <1>m, <1>r, <1>u, Zenon DEF Insert
<1>4. Append(u, d) \in Seq(Domains) /\ Len(Append(u, d)) = Len(u) + 1 /\ Len(u) \in Nat
    BY <1>2, AppendProperties, LenProperties, Zenon
<1>5. \A x : x \in ToSet(Append(u, d)) <=> x \in ToSet(u) \/ x = d
    BY <1>2, MembersOfAppend, Zenon
<1> QED
    BY <1>1, <1>2, <1>3, <1>4, <1>5

\* What is kept of the table is exactly what is not stale.
LEMMA KeptFacts ==
    ASSUME domains \in Seq(Domains)
    PROVE  /\ Kept \in Seq(Domains) /\ Len(Kept) <= Len(domains)
           /\ ToSet(Kept) = {d \in ToSet(domains) : ~Stale(d)}
<1> DEFINE Next1(f, n) == IF n = 0 THEN <<>>
                          ELSE IF Stale(domains[n]) THEN f[n - 1]
                          ELSE Append(f[n - 1], domains[n])
           Rec(f, m) == f = [n \in 0 .. m |-> Next1(f, n)]
           Sifted == CHOOSE f : Rec(f, Len(domains))
<1>1. Len(domains) \in Nat /\ DOMAIN domains = 1 .. Len(domains)
    OBVIOUS
<1>2. \A m \in Nat : \E f : Rec(f, m)
    <2> DEFINE G == {m \in Nat : \E f : Rec(f, m)}
    <2>1. \E f : Rec(f, 0)
        <3> DEFINE f == [n \in 0 .. 0 |-> <<>>]
        <3>1. Rec(f, 0)
            OBVIOUS
        <3> QED
            BY <3>1
    <2>2. ASSUME NEW m \in Nat, NEW g, Rec(g, m) PROVE \E f : Rec(f, m + 1)
        <3> DEFINE f == [n \in 0 .. m + 1 |-> IF n = m + 1 THEN Next1(g, n) ELSE g[n]]
        <3>1. \A n \in 0 .. m : g[n] = Next1(g, n)
            BY <2>2
        <3>2. \A n \in 0 .. m : n \in 0 .. m + 1 /\ n # m + 1 /\ f[n] = g[n]
            OBVIOUS
        <3>3. \A n \in 0 .. m + 1 : n # 0 => n - 1 \in 0 .. m /\ f[n - 1] = g[n - 1]
            BY <3>2
        <3>4. \A n \in 0 .. m + 1 : Next1(f, n) = Next1(g, n)
            BY <3>3
        <3>5. \A n \in 0 .. m + 1 : f[n] = Next1(g, n)
            BY <3>1
        <3>6. Rec(f, m + 1)
            BY <3>4, <3>5
        <3> QED
            BY <3>6
    <2> HIDE DEF Rec
    <2>3. 0 \in G
        BY <2>1
    <2>4. \A m \in Nat : m \in G => m + 1 \in G
        BY <2>2
    <2> HIDE DEF G
    <2>5. Nat \subseteq G
        BY <2>3, <2>4, Upwards
    <2> QED
        BY <2>5 DEF G
<1>3. Rec(Sifted, Len(domains))
    BY <1>1, <1>2
<1>4. Kept = Sifted[Len(domains)]
    BY Zenon DEF Kept
<1> HIDE DEF Sifted
<1>5. \A n \in 0 .. Len(domains) : Sifted[n] = Next1(Sifted, n)
    BY <1>3
<1> DEFINE Good1(m) == /\ Sifted[m] \in Seq(Domains) /\ Len(Sifted[m]) <= m
                       /\ \A d : d \in ToSet(Sifted[m]) <=>
                                   ~Stale(d) /\ \E i \in 1 .. m : d = domains[i]
           G == {m \in Nat : m <= Len(domains) => Good1(m)}
<1>6. 0 \in G
    <2>1. Sifted[0] = <<>>
        BY <1>1, <1>5
    <2>2. ToSet(<<>>) = {}
        BY DEF ToSet
    <2>3. \A d : ~\E i \in 1 .. 0 : d = domains[i]
        OBVIOUS
    <2>4. Sifted[0] \in Seq(Domains) /\ Len(Sifted[0]) <= 0
        BY <2>1
    <2>5. ToSet(Sifted[0]) = {}
        BY <2>1, <2>2, Zenon
    <2>6. Good1(0)
        BY <2>3, <2>4, <2>5
    <2> QED
        BY <2>6
<1>7. ASSUME NEW m \in Nat, m \in G PROVE m + 1 \in G
    <2> SUFFICES ASSUME m + 1 <= Len(domains) PROVE Good1(m + 1)
        OBVIOUS
    <2>1. /\ Good1(m) /\ domains[m + 1] \in Domains
          /\ Sifted[m + 1] = IF Stale(domains[m + 1]) THEN Sifted[m]
                            ELSE Append(Sifted[m], domains[m + 1])
        <3>1. m + 1 \in 0 .. Len(domains) /\ m + 1 # 0 /\ (m + 1) - 1 = m
              /\ m + 1 \in 1 .. Len(domains) /\ m <= Len(domains)
            BY <1>1
        <3> QED
            BY <1>1, <1>5, <1>7, <3>1
    <2>2. CASE Stale(domains[m + 1])
        <3>1. Sifted[m + 1] = Sifted[m]
            BY <2>1, <2>2
        <3>2. \A d : (~Stale(d) /\ \E i \in 1 .. m : d = domains[i])
                       <=> (~Stale(d) /\ \E i \in 1 .. m + 1 : d = domains[i])
            BY <2>2
        <3> QED
            BY <2>1, <3>1, <3>2
    <2>3. CASE ~Stale(domains[m + 1])
        <3> DEFINE u == Sifted[m]
                   e == domains[m + 1]
        <3>1. Sifted[m + 1] = Append(u, e) /\ u \in Seq(Domains) /\ Len(u) <= m /\ Len(u) \in Nat
            BY <2>1, <2>3
        <3> HIDE DEF u
        <3>2. /\ Append(u, e) \in Seq(Domains) /\ Len(Append(u, e)) = Len(u) + 1
              /\ DOMAIN Append(u, e) = 1 .. Len(u) + 1 /\ DOMAIN u = 1 .. Len(u)
              /\ Append(u, e)[Len(u) + 1] = e
              /\ \A i \in 1 .. Len(u) : Append(u, e)[i] = u[i]
            BY <2>1, <3>1
        <3>3. ToSet(Append(u, e)) = ToSet(u) \cup {e}
            BY <3>1, <3>2 DEF ToSet
        <3>4. \A d : d \in ToSet(u) <=> ~Stale(d) /\ \E i \in 1 .. m : d = domains[i]
            BY <2>1 DEF u
        <3>5. \A d : (\E i \in 1 .. m + 1 : d = domains[i])
                       <=> (d = e \/ \E i \in 1 .. m : d = domains[i])
            OBVIOUS
        <3> QED
            BY <2>3, <3>1, <3>2, <3>3, <3>4, <3>5
    <2> QED
        BY <2>2, <2>3
<1> HIDE DEF G
<1>8. Nat \subseteq G
    BY <1>6, <1>7, Upwards
<1>9. Len(domains) \in G
    BY <1>1, <1>8, Zenon
<1>10. Good1(Len(domains))
    BY <1>1, <1>9 DEF G
<1>11. \A d : d \in ToSet(domains) <=> \E i \in 1 .. Len(domains) : d = domains[i]
    BY Members
<1> QED
    BY <1>4, <1>10, <1>11

--------------------------------------------------------------------------
(* Types.                                                                   *)

\* The variables of the controller are well typed.
PolitenessTyped ==
    /\ domains \in Seq(Domains) /\ Len(domains) <= MaxDomains
    /\ chain \in [Domains -> Calls \cup {NoCall}]
    /\ accessAge \in [Domains -> 0 .. StaleThreshold + 1]
    /\ slot \in [Calls -> {"free", "queued", "delaying", "granted", "released"}]
    /\ after \in [Calls -> Calls \cup {NoCall}]
    /\ left \in [Calls -> 0 .. Delay]
    /\ domainOf \in [Calls -> Domains]
    /\ pruning \in BOOLEAN
    /\ sinceGrant \in [Domains -> 0 .. Delay]
    /\ dropped \subseteq Domains

\* What any step does to the controller.
Moves ==
    \/ \E c \in Calls : Acquire(c) \/ Grant(c) \/ Release(c)
    \/ PruneStale \/ Dispose \/ Tick \/ UNCHANGED politenessVars

LEMMA NextMoves == [Next]_vars => Moves
BY DomainConfig DEF Next, PolitenessStep, Fetching, Start, Return, vars, Moves

LEMMA Numbers ==
    /\ Delay \in Nat \ {0} /\ MaxDomains \in Nat \ {0} /\ StaleThreshold \in Nat
    /\ 0 \in 0 .. StaleThreshold + 1 /\ 0 \in 0 .. Delay /\ Delay \in 0 .. Delay
BY PolitenessConfig

LEMMA PolitenessStarts == Init => PolitenessTyped
<1> SUFFICES ASSUME Init PROVE PolitenessTyped
    OBVIOUS
<1>1. /\ domains = <<>> /\ chain = [d \in Domains |-> NoCall]
      /\ accessAge = [d \in Domains |-> 0] /\ slot = [c \in Calls |-> "free"]
      /\ after = [c \in Calls |-> NoCall] /\ left = [c \in Calls |-> 0]
      /\ domainOf \in [Calls -> Domains] /\ pruning = TRUE
      /\ sinceGrant = [d \in Domains |-> Delay] /\ dropped = {}
    BY DEF Init, PolitenessInit
<1>2. domains \in Seq(Domains) /\ Len(domains) <= MaxDomains
    BY <1>1, Numbers
<1> QED
    BY <1>1, <1>2, Numbers DEF PolitenessTyped

LEMMA AcquireTyped ==
    ASSUME PolitenessTyped, NEW c \in Calls, Acquire(c)
    PROVE  PolitenessTyped'
<1> DEFINE d == domainOf[c]
<1>1. d \in Domains
    BY DEF PolitenessTyped
<1>2. /\ accessAge' = [accessAge EXCEPT ![d] = 0]
      /\ UNCHANGED <<domainOf, pruning>>
    BY DEF Acquire
<1>3. CASE AcquireFirst(c)
    <2>1. Insert(d) \in Seq(Domains) /\ Len(Insert(d)) <= MaxDomains
        BY <1>1, InsertFits DEF PolitenessTyped
    <2>2. /\ domains' = Insert(d)
          /\ dropped' = dropped \cup (ToSet(domains) \ ToSet(Insert(d)))
          /\ chain' = [chain EXCEPT ![d] = NoCall]
          /\ slot' = [slot EXCEPT ![c] = "granted"]
          /\ sinceGrant' = [sinceGrant EXCEPT ![d] = 0]
          /\ UNCHANGED <<after, left>>
        BY <1>3 DEF AcquireFirst
    <2>3. ToSet(domains) \subseteq Domains
        BY DEF PolitenessTyped, ToSet
    <2> HIDE DEF d
    <2> QED
        BY <1>1, <1>2, <2>1, <2>2, <2>3, Numbers DEF PolitenessTyped
<1>4. CASE AcquireNext(c)
    <2>1. Touch(d) \in Seq(Domains) /\ Len(Touch(d)) = Len(domains)
        BY <1>4, TouchKeeps DEF PolitenessTyped, AcquireNext
    <2>2. /\ domains' = Touch(d)
          /\ chain' = [chain EXCEPT ![d] = c]
          /\ after' = [after EXCEPT ![c] = chain[d]]
          /\ \E step \in {"delaying", "queued"} : slot' = [slot EXCEPT ![c] = step]
          /\ left' = [left EXCEPT ![c] = Delay]
          /\ UNCHANGED <<sinceGrant, dropped>>
        BY <1>4 DEF AcquireNext
    <2> HIDE DEF d
    <2> QED
        BY <1>1, <1>2, <2>1, <2>2, Numbers DEF PolitenessTyped
<1> QED
    BY <1>3, <1>4 DEF Acquire

LEMMA GrantTyped ==
    ASSUME PolitenessTyped, NEW c \in Calls, Grant(c)
    PROVE  PolitenessTyped'
<1> DEFINE d == domainOf[c]
<1>1. d \in Domains
    BY DEF PolitenessTyped
<1>2. /\ sinceGrant' = [sinceGrant EXCEPT ![d] = 0]
      /\ after' = [after EXCEPT ![c] = NoCall]
      /\ UNCHANGED <<domains, chain, accessAge, left, domainOf, pruning, dropped>>
    BY DEF Grant
<1>3. slot' \in [Calls -> {"free", "queued", "delaying", "granted", "released"}]
    BY DEF Grant, PolitenessTyped
<1> HIDE DEF d
<1> QED
    BY <1>1, <1>2, <1>3, Numbers DEF PolitenessTyped

LEMMA ReleaseTyped ==
    ASSUME PolitenessTyped, NEW c \in Calls, Release(c)
    PROVE  PolitenessTyped'
<1> DEFINE d == domainOf[c]
<1>1. d \in Domains
    BY DEF PolitenessTyped
<1>2. /\ slot' = [slot EXCEPT ![c] = "released"]
      /\ UNCHANGED <<chain, after, left, domainOf, pruning, sinceGrant, dropped>>
    BY DEF Release
<1>3. /\ domains' \in Seq(Domains) /\ Len(domains') <= MaxDomains
      /\ accessAge' \in [Domains -> 0 .. StaleThreshold + 1]
    <2>1. CASE d \in ToSet(domains)
        <3>1. Touch(d) \in Seq(Domains) /\ Len(Touch(d)) = Len(domains)
            BY <2>1, TouchKeeps DEF PolitenessTyped
        <3>2. domains' = Touch(d) /\ accessAge' = [accessAge EXCEPT ![d] = 0]
            BY <2>1 DEF Release
        <3> HIDE DEF d
        <3> QED
            BY <1>1, <3>1, <3>2, Numbers DEF PolitenessTyped
    <2>2. CASE d \notin ToSet(domains)
        BY <2>2 DEF Release, PolitenessTyped
    <2> QED
        BY <2>1, <2>2
<1> QED
    BY <1>2, <1>3 DEF PolitenessTyped

LEMMA TickTyped ==
    ASSUME PolitenessTyped, Tick
    PROVE  PolitenessTyped'
<1>1. left' \in [Calls -> 0 .. Delay]
    <2>1. ASSUME NEW c \in Calls
          PROVE  (IF slot[c] = "delaying" THEN left[c] - 1 ELSE left[c]) \in 0 .. Delay
        <3>1. left[c] \in 0 .. Delay /\ (slot[c] = "delaying" => left[c] > 0)
            BY DEF PolitenessTyped, Tick
        <3> QED
            BY <3>1, Numbers
    <2> QED
        BY <2>1 DEF Tick
<1>2. sinceGrant' \in [Domains -> 0 .. Delay]
    <2>1. ASSUME NEW d \in Domains
          PROVE  (IF sinceGrant[d] < Delay THEN sinceGrant[d] + 1 ELSE Delay) \in 0 .. Delay
        <3>1. sinceGrant[d] \in 0 .. Delay
            BY DEF PolitenessTyped
        <3> QED
            BY <3>1, Numbers
    <2> QED
        BY <2>1 DEF Tick
<1>3. accessAge' \in [Domains -> 0 .. StaleThreshold + 1]
    <2>1. ASSUME NEW d \in Domains
          PROVE  (IF d \notin ToSet(domains) THEN 0
                  ELSE IF Stale(d) THEN accessAge[d] ELSE accessAge[d] + 1)
                      \in 0 .. StaleThreshold + 1
        <3>1. accessAge[d] \in 0 .. StaleThreshold + 1
            BY DEF PolitenessTyped
        <3> QED
            BY <3>1, Numbers DEF Stale
    <2> QED
        BY <2>1 DEF Tick
<1>4. UNCHANGED <<domains, chain, slot, after, domainOf, pruning, dropped>>
    BY DEF Tick
<1> QED
    BY <1>1, <1>2, <1>3, <1>4 DEF PolitenessTyped

LEMMA PolitenessTypes == PolitenessTyped /\ [Next]_vars => PolitenessTyped'
<1> SUFFICES ASSUME PolitenessTyped, Moves PROVE PolitenessTyped'
    BY NextMoves
<1>1. CASE PruneStale
    <2>1. domains' \in Seq(Domains) /\ Len(domains') <= Len(domains)
        BY <1>1, KeptFacts DEF PruneStale, PolitenessTyped
    <2>2. Len(domains') <= MaxDomains
        <3>1. Len(domains) \in Nat /\ Len(domains') \in Nat /\ Len(domains) <= MaxDomains
            BY <2>1 DEF PolitenessTyped
        <3> QED
            BY <2>1, <3>1, Numbers
    <2> QED
        BY <1>1, <2>1, <2>2 DEF PruneStale, PolitenessTyped
<1>2. CASE Dispose
    <2>1. <<>> \in Seq(Domains) /\ Len(<<>>) <= MaxDomains
        BY Numbers
    <2> QED
        BY <1>2, <2>1 DEF Dispose, PolitenessTyped
<1>3. CASE UNCHANGED politenessVars
    BY <1>3 DEF politenessVars, PolitenessTyped
<1> QED
    BY <1>1, <1>2, <1>3, AcquireTyped, GrantTyped, ReleaseTyped, TickTyped DEF Moves

\* Every variable of the fetches and of the politeness controller has its type: its
\* table of domains never has more entries than maxDomains (LruMap.set), and no delay
\* is longer than delayMs.
THEOREM TypeCorrect == Spec => []TypeOK
<1>1. PolitenessTyped /\ IInv => TypeOK
    BY DEF PolitenessTyped, IInv, Good, Records, TypeOK, FetchTypeOK
<1> QED
    BY <1>1, PolitenessStarts, PolitenessTypes, InductiveInvariant, PTL DEF Spec

--------------------------------------------------------------------------
(* Calls of a domain are let through a delay apart.                         *)

\* The calls that wait for a domain, those that delay included, and how long that takes.
Waiting(d) == {c \in Calls : slot[c] \in {"queued", "delaying"} /\ domainOf[c] = d}
Load(d) == Cardinality(Waiting(d)) * Delay

\* No queue takes longer than the threshold of staleness less a delay.
QueuesShort ==
    \A d \in Domains : IsFiniteSet(Waiting(d)) /\ Load(d) + Delay <= StaleThreshold + 1

\* The calls that wait for a domain form one chain: one delays, every other waits for
\* another of its own, none for the last one, and they do not wait in a circle.
Chained(d) ==
    /\ \A c \in Waiting(d) : slot[c] = "queued" =>
          after[c] \in Waiting(d) /\ left[c] = Delay /\ after[c] # chain[d]
    /\ \A c \in Waiting(d), x \in Waiting(d) : x # c =>
          /\ slot[c] = "delaying" => slot[x] = "queued"
          /\ slot[c] = "queued" /\ slot[x] = "queued" => after[c] # after[x]
    /\ \A S \in SUBSET Waiting(d) : S # {} =>
          \E c \in S : slot[c] = "delaying" \/ after[c] \notin S
    /\ d \in ToSet(domains) =>
          /\ Waiting(d) # {} => chain[d] \in Waiting(d)
          /\ Waiting(d) = {} => Resolved(chain[d])

\* A domain with no entry has nothing to wait for, the call that delays will be a delay
\* after the last one let through, and an entry does not go stale before all that is over.
InTime(d) ==
    /\ d \notin ToSet(domains) => Waiting(d) = {} /\ sinceGrant[d] = Delay
    /\ \A c \in Waiting(d) : slot[c] = "delaying" =>
          /\ sinceGrant[d] + left[c] >= Delay
          /\ accessAge[d] + left[c] + Load(d) <= StaleThreshold + 1
    /\ d \in ToSet(domains) /\ Waiting(d) = {} =>
          \/ sinceGrant[d] = Delay
          \/ accessAge[d] + Delay <= StaleThreshold + 1 + sinceGrant[d]

SpacedInv == \A d \in Domains \ dropped : Chained(d) /\ InTime(d)

LEMMA LoadFacts ==
    ASSUME NEW d \in Domains, IsFiniteSet(Waiting(d))
    PROVE  Load(d) \in Nat /\ (Waiting(d) = {} => Load(d) = 0)
           /\ (Waiting(d) # {} => Load(d) >= Delay)
<1>1. PICK k : k = Cardinality(Waiting(d))
    OBVIOUS
<1>2. k \in Nat /\ (k = 0 <=> Waiting(d) = {})
    BY <1>1, FS_CardinalityType, FS_EmptySet
<1>3. k * Delay \in Nat /\ (k = 0 => k * Delay = 0) /\ (k # 0 => k * Delay >= Delay)
    BY <1>2, Numbers
<1> QED
    BY <1>1, <1>2, <1>3 DEF Load

\* What other domains do leaves a domain's chain as it is.
LEMMA Unmoved ==
    ASSUME NEW d \in Domains, Chained(d), InTime(d), PolitenessTyped,
           IsFiniteSet(Waiting(d)), Waiting(d)' = Waiting(d),
           \A c \in Waiting(d) : slot'[c] = slot[c] /\ after'[c] = after[c] /\ left'[c] = left[c],
           chain'[d] = chain[d], Resolved(chain[d]) => Resolved(chain[d])',
           d \in ToSet(domains)' <=> d \in ToSet(domains),
           sinceGrant'[d] = sinceGrant[d], accessAge'[d] \in Nat, accessAge'[d] <= accessAge[d]
    PROVE  Chained(d)' /\ InTime(d)'
<1>1. Load(d)' = Load(d)
    BY DEF Load
<1>2. Chained(d)'
    BY DEF Chained, Resolved
<1>3. /\ accessAge[d] \in Nat /\ sinceGrant[d] \in Nat /\ \A c \in Waiting(d) : left[c] \in Nat
    BY DEF PolitenessTyped, Waiting
<1>4. Load(d) \in Nat
    BY LoadFacts
<1>5. InTime(d)'
    BY <1>1, <1>3, <1>4, Numbers DEF InTime
<1> QED
    BY <1>2, <1>5

LEMMA ResolvedStays ==
    ASSUME PolitenessTyped, Moves, NEW c \in Calls \cup {NoCall}, Resolved(c)
    PROVE  Resolved(c)'
<1> SUFFICES ASSUME c \in Calls, slot[c] \in {"granted", "released"}
             PROVE  slot'[c] \in {"granted", "released"}
    BY DEF Resolved
<1>1. ASSUME NEW x \in Calls, Acquire(x) PROVE slot'[c] = slot[c]
    <2>1. slot[x] = "free" /\ x # c
        BY <1>1 DEF Acquire
    <2>2. AcquireFirst(x) => slot' = [slot EXCEPT ![x] = "granted"]
        BY DEF AcquireFirst
    <2>3. AcquireNext(x) => \E step : slot' = [slot EXCEPT ![x] = step]
        BY DEF AcquireNext
    <2> QED
        BY <1>1, <2>1, <2>2, <2>3 DEF Acquire, PolitenessTyped
<1>2. ASSUME NEW x \in Calls, Grant(x) PROVE slot'[c] = slot[c]
    BY <1>2 DEF Grant, PolitenessTyped
<1>3. ASSUME NEW x \in Calls, Release(x) PROVE slot'[c] \in {"granted", "released"}
    BY <1>3 DEF Release, PolitenessTyped
<1>4. CASE PruneStale \/ Dispose \/ Tick \/ UNCHANGED politenessVars
    BY <1>4 DEF PruneStale, Dispose, Tick, politenessVars
<1> QED
    BY <1>1, <1>2, <1>3, <1>4 DEF Moves

\* A call that acquires another domain.
LEMMA AcquireElsewhere ==
    ASSUME PolitenessTyped, NEW c \in Calls, Acquire(c),
           NEW d \in Domains \ dropped', d # domainOf[c], IsFiniteSet(Waiting(d)),
           Chained(d), InTime(d)
    PROVE  Chained(d)' /\ InTime(d)'
<1> DEFINE e == domainOf[c]
<1>1. e \in Domains /\ d # e
    BY DEF PolitenessTyped
<1>2. accessAge' = [accessAge EXCEPT ![e] = 0] /\ UNCHANGED domainOf
    BY DEF Acquire
<1>3. accessAge'[d] = accessAge[d] /\ accessAge[d] \in Nat
    BY <1>1, <1>2 DEF PolitenessTyped
<1>4. /\ \E step : slot' = [slot EXCEPT ![c] = step]
      /\ \A x \in Calls : x # c => after'[x] = after[x] /\ left'[x] = left[x]
      /\ chain'[d] = chain[d] /\ sinceGrant'[d] = sinceGrant[d]
      /\ d \in ToSet(domains)' <=> d \in ToSet(domains)
    <2>1. CASE AcquireFirst(c)
        <3>1. ToSet(Insert(e)) \subseteq ToSet(domains) \cup {e}
            BY <1>1, InsertFits DEF PolitenessTyped
        <3>2. /\ domains' = Insert(e)
              /\ dropped' = dropped \cup (ToSet(domains) \ ToSet(Insert(e)))
              /\ chain' = [chain EXCEPT ![e] = NoCall]
              /\ slot' = [slot EXCEPT ![c] = "granted"]
              /\ sinceGrant' = [sinceGrant EXCEPT ![e] = 0]
              /\ UNCHANGED <<after, left>>
            BY <2>1 DEF AcquireFirst
        <3>3. ToSet(domains)' = ToSet(Insert(e))
            BY <3>2
        <3> HIDE DEF e
        <3>4. d \in ToSet(domains)' <=> d \in ToSet(domains)
            BY <1>1, <3>1, <3>2, <3>3
        <3> QED
            BY <1>1, <3>2, <3>4 DEF PolitenessTyped
    <2>2. CASE AcquireNext(c)
        <3>1. ToSet(Touch(e)) = ToSet(domains)
            BY <2>2, TouchKeeps DEF PolitenessTyped, AcquireNext
        <3>2. /\ domains' = Touch(e)
              /\ chain' = [chain EXCEPT ![e] = c]
              /\ after' = [after EXCEPT ![c] = chain[e]]
              /\ \E step : slot' = [slot EXCEPT ![c] = step]
              /\ left' = [left EXCEPT ![c] = Delay]
              /\ UNCHANGED <<sinceGrant, dropped>>
            BY <2>2 DEF AcquireNext
        <3>3. ToSet(domains)' = ToSet(domains)
            BY <3>1, <3>2
        <3> HIDE DEF e
        <3> QED
            BY <1>1, <3>2, <3>3 DEF PolitenessTyped
    <2> QED
        BY <2>1, <2>2 DEF Acquire
<1>5. \A x \in Calls : x # c => slot'[x] = slot[x]
    BY <1>4 DEF PolitenessTyped
<1>6. Waiting(d)' = Waiting(d) /\ c \notin Waiting(d)
    BY <1>1, <1>2, <1>5 DEF Waiting
<1>7. \A x \in Waiting(d) : slot'[x] = slot[x] /\ after'[x] = after[x] /\ left'[x] = left[x]
    BY <1>4, <1>5, <1>6 DEF Waiting
<1>8. Resolved(chain[d]) => Resolved(chain[d])'
    <2>1. chain[d] \in Calls \cup {NoCall} /\ Moves
        BY DEF PolitenessTyped, Moves
    <2>2. Resolved(chain[d]) => chain[d] = NoCall \/ slot'[chain[d]] \in {"granted", "released"}
        BY <2>1, ResolvedStays DEF Resolved
    <2> QED
        BY <1>4, <2>2 DEF Resolved
<1>9. accessAge'[d] \in Nat /\ accessAge'[d] <= accessAge[d]
    BY <1>3
<1> QED
    BY <1>4, <1>6, <1>7, <1>8, <1>9, Unmoved

\* The first call of a domain goes through; nobody waits yet.
LEMMA AcquireFirstHere ==
    ASSUME PolitenessTyped, NEW c \in Calls, Acquire(c), AcquireFirst(c),
           QueuesShort', InTime(domainOf[c])
    PROVE  Chained(domainOf[c])' /\ InTime(domainOf[c])'
<1> PICK d \in Domains : d = domainOf[c]
    BY DEF PolitenessTyped
<1>1. /\ slot[c] = "free" /\ d \notin ToSet(domains) /\ domains' = Insert(d)
      /\ chain' = [chain EXCEPT ![d] = NoCall] /\ slot' = [slot EXCEPT ![c] = "granted"]
      /\ sinceGrant' = [sinceGrant EXCEPT ![d] = 0]
      /\ accessAge' = [accessAge EXCEPT ![d] = 0] /\ UNCHANGED domainOf
    BY DEF Acquire, AcquireFirst
<1>2. d \in ToSet(domains)'
    BY <1>1, InsertFits DEF PolitenessTyped
<1>3. Waiting(d) = {}
    BY <1>1 DEF InTime
<1>4. Waiting(d)' = {}
    BY <1>1, <1>3 DEF Waiting, PolitenessTyped
<1>5. chain'[d] = NoCall /\ sinceGrant'[d] = 0 /\ accessAge'[d] = 0
    BY <1>1 DEF PolitenessTyped
<1>6. Delay <= StaleThreshold + 1
    <2>1. Load(d)' + Delay <= StaleThreshold + 1 /\ IsFiniteSet(Waiting(d)')
        BY DEF QueuesShort
    <2>2. Load(d)' = 0
        <3>1. Cardinality(Waiting(d)') = 0
            BY <1>4, FS_EmptySet
        <3> QED
            BY <3>1, Numbers DEF Load
    <2> QED
        BY <2>1, <2>2, Numbers
<1>7. Chained(d)'
    BY <1>4, <1>5 DEF Chained, Resolved
<1>8. InTime(d)'
    BY <1>2, <1>4, <1>5, <1>6, Numbers DEF InTime
<1>9. domainOf'[c] = d
    BY <1>1
<1> QED
    BY <1>7, <1>8, <1>9

\* A later call becomes the last of its domain's chain.
LEMMA AcquireNextHere ==
    ASSUME PolitenessTyped, NEW c \in Calls, Acquire(c), AcquireNext(c),
           NEW d \in Domains, d = domainOf[c], QueuesShort', Chained(d), InTime(d)
    PROVE  Chained(d)' /\ InTime(d)'
<1> DEFINE W == Waiting(d)
<1>1. /\ slot[c] = "free" /\ d \in ToSet(domains) /\ domains' = Touch(d)
      /\ chain' = [chain EXCEPT ![d] = c] /\ after' = [after EXCEPT ![c] = chain[d]]
      /\ slot' = [slot EXCEPT ![c] = IF Resolved(chain[d]) THEN "delaying" ELSE "queued"]
      /\ left' = [left EXCEPT ![c] = Delay]
      /\ accessAge' = [accessAge EXCEPT ![d] = 0]
      /\ UNCHANGED <<sinceGrant, dropped, domainOf>>
    BY DEF Acquire, AcquireNext
<1>2. d \in ToSet(domains)'
    <2>1. ToSet(Touch(d)) = ToSet(domains)
        BY <1>1, TouchKeeps DEF PolitenessTyped
    <2> QED
        BY <1>1, <2>1
<1>3. /\ c \notin W /\ chain'[d] = c /\ after'[c] = chain[d] /\ left'[c] = Delay
      /\ accessAge'[d] = 0 /\ sinceGrant'[d] = sinceGrant[d]
      /\ slot'[c] = IF Resolved(chain[d]) THEN "delaying" ELSE "queued"
      /\ \A x \in W : slot'[x] = slot[x] /\ after'[x] = after[x] /\ left'[x] = left[x]
    BY <1>1 DEF PolitenessTyped, Waiting
<1>4. Waiting(d)' = W \cup {c}
    <2>1. \A x \in Calls : x # c => slot'[x] = slot[x]
        BY <1>1 DEF PolitenessTyped
    <2>2. slot'[c] \in {"queued", "delaying"} /\ domainOf'[c] = d /\ domainOf' = domainOf
        BY <1>1, <1>3
    <2> QED
        BY <2>1, <2>2 DEF Waiting
<1>5. /\ W = {} => slot'[c] = "delaying"
      /\ W # {} => slot'[c] = "queued" /\ chain[d] \in W
    <2>1. CASE W = {}
        BY <1>1, <1>3, <2>1 DEF Chained
    <2>2. CASE W # {}
        <3>1. chain[d] \in W
            BY <1>1, <2>2 DEF Chained
        <3>2. ~Resolved(chain[d])
            BY <3>1, PolitenessConfig DEF Waiting, Resolved
        <3> QED
            BY <1>3, <2>2, <3>1, <3>2
    <2> QED
        BY <2>1, <2>2
<1>6. \A x \in W : /\ slot[x] \in {"queued", "delaying"}
                   /\ slot[x] = "queued" => after[x] \in W /\ left[x] = Delay /\ after[x] # chain[d]
    BY DEF Chained, Waiting
<1>7. \A x, y \in W : y # x =>
          /\ slot[x] = "delaying" => slot[y] = "queued"
          /\ slot[x] = "queued" /\ slot[y] = "queued" => after[x] # after[y]
    BY DEF Chained
<1>8. Chained(d)'
    <2>1. ASSUME NEW x \in W \cup {c}, slot'[x] = "queued"
          PROVE  after'[x] \in W \cup {c} /\ left'[x] = Delay /\ after'[x] # chain'[d]
        <3>1. CASE x = c
            BY <1>3, <1>5, <2>1, <3>1
        <3>2. CASE x \in W
            BY <1>3, <1>6, <2>1, <3>2
        <3> QED
            BY <3>1, <3>2
    <2>2. ASSUME NEW x \in W \cup {c}, NEW y \in W \cup {c}, y # x
          PROVE  /\ slot'[x] = "delaying" => slot'[y] = "queued"
                 /\ slot'[x] = "queued" /\ slot'[y] = "queued" => after'[x] # after'[y]
        <3>1. CASE x \in W /\ y \in W
            BY <1>3, <1>7, <2>2, <3>1
        <3>2. CASE x = c /\ y \in W
            BY <1>3, <1>5, <1>6, <3>2
        <3>3. CASE x \in W /\ y = c
            BY <1>3, <1>5, <1>6, <3>3
        <3> QED
            BY <2>2, <3>1, <3>2, <3>3
    <2>3. ASSUME NEW S \in SUBSET (W \cup {c}), S # {}
          PROVE  \E x \in S : slot'[x] = "delaying" \/ after'[x] \notin S
        <3>1. CASE S = {c}
            BY <1>3, <1>5, <3>1
        <3>2. CASE S # {c}
            <4>1. S \ {c} \in SUBSET W /\ S \ {c} # {}
                BY <2>3, <3>2
            <4>2. PICK x \in S \ {c} : slot[x] = "delaying" \/ after[x] \notin S \ {c}
                BY <4>1 DEF Chained
            <4>3. x \in W /\ (slot[x] = "delaying" \/ after[x] # c)
                BY <1>3, <1>6, <4>1, <4>2
            <4> QED
                BY <1>3, <4>2, <4>3
        <3> QED
            BY <3>1, <3>2
    <2>4. Waiting(d)' # {} /\ chain'[d] \in Waiting(d)'
        BY <1>3, <1>4
    <2> HIDE DEF W
    <2>5. /\ \A x \in Waiting(d)' : slot'[x] = "queued" =>
                after'[x] \in Waiting(d)' /\ left'[x] = Delay /\ after'[x] # chain'[d]
          /\ \A x \in Waiting(d)', y \in Waiting(d)' : y # x =>
                /\ slot'[x] = "delaying" => slot'[y] = "queued"
                /\ slot'[x] = "queued" /\ slot'[y] = "queued" => after'[x] # after'[y]
          /\ \A S \in SUBSET Waiting(d)' : S # {} =>
                \E x \in S : slot'[x] = "delaying" \/ after'[x] \notin S
        BY <1>4, <2>1, <2>2, <2>3
    <2> QED
        BY <2>4, <2>5 DEF Chained
<1>9. InTime(d)'
    <2>1. Load(d)' + Delay <= StaleThreshold + 1 /\ Load(d)' \in Nat
        <3>1. IsFiniteSet(Waiting(d)') /\ Load(d)' + Delay <= StaleThreshold + 1
            BY DEF QueuesShort
        <3>2. Cardinality(Waiting(d)') \in Nat
            BY <3>1, FS_CardinalityType
        <3> QED
            BY <3>1, <3>2, Numbers DEF Load
    <2>2. ASSUME NEW x \in W \cup {c}, slot'[x] = "delaying"
          PROVE  sinceGrant'[d] + left'[x] >= Delay /\ left'[x] \in 0 .. Delay
        <3>1. sinceGrant[d] \in 0 .. Delay
            BY DEF PolitenessTyped
        <3>2. CASE x = c
            BY <1>3, <3>1, <3>2, Numbers
        <3>3. CASE x \in W
            <4>1. sinceGrant[d] + left[x] >= Delay /\ left[x] \in 0 .. Delay
                BY <1>3, <2>2, <3>3 DEF InTime, PolitenessTyped, Waiting
            <4> QED
                BY <1>3, <3>3, <4>1
        <3> QED
            BY <3>2, <3>3
    <2>3. ASSUME NEW x \in W \cup {c}, slot'[x] = "delaying"
          PROVE  accessAge'[d] + left'[x] + Load(d)' <= StaleThreshold + 1
        <3>1. left'[x] \in 0 .. Delay
            BY <2>2, <2>3
        <3> QED
            BY <1>3, <2>1, <3>1, Numbers
    <2>4. Waiting(d)' # {}
        BY <1>4
    <2> HIDE DEF W
    <2> QED
        BY <1>2, <1>4, <2>2, <2>3, <2>4 DEF InTime
<1> QED
    BY <1>8, <1>9

\* The call that delays goes through, and the one chained to it begins to delay.
LEMMA GrantHere ==
    ASSUME PolitenessTyped, NEW c \in Calls, Grant(c),
           NEW d \in Domains, d = domainOf[c], IsFiniteSet(Waiting(d)), Chained(d), InTime(d)
    PROVE  Chained(d)' /\ InTime(d)'
<1> DEFINE W == Waiting(d)
           Rest == W \ {c}
<1>1. /\ slot[c] = "delaying" /\ left[c] = 0
      /\ slot' = [x \in Calls |-> IF x = c THEN "granted"
                                  ELSE IF slot[x] = "queued" /\ after[x] = c THEN "delaying"
                                  ELSE slot[x]]
      /\ sinceGrant' = [sinceGrant EXCEPT ![d] = 0]
      /\ after' = [after EXCEPT ![c] = NoCall]
      /\ UNCHANGED <<domains, chain, accessAge, left, domainOf, dropped>>
    BY DEF Grant
<1>2. c \in W
    BY <1>1 DEF Waiting
<1>3. Waiting(d)' = Rest
    BY <1>1 DEF Waiting
<1>4. \A x \in W : slot[x] = "queued" => after[x] \in W /\ left[x] = Delay /\ after[x] # chain[d]
    BY DEF Chained
<1>5. \A x \in Rest : x \in W /\ slot[x] = "queued" /\ after'[x] = after[x]
    BY <1>1, <1>2 DEF Chained, PolitenessTyped, Waiting
<1>6. \A x, y \in W : y # x /\ slot[x] = "queued" /\ slot[y] = "queued" => after[x] # after[y]
    BY DEF Chained
<1>7. \A x \in Rest : slot'[x] = (IF after[x] = c THEN "delaying" ELSE "queued")
    BY <1>1, <1>5 DEF Waiting
<1>8. \A S \in SUBSET Rest : S # {} => \E x \in S : after[x] \notin S
    <2>1. \A S \in SUBSET W : S # {} => \E x \in S : slot[x] = "delaying" \/ after[x] \notin S
        BY DEF Chained
    <2> QED
        BY <1>5, <2>1
<1>9. d \in ToSet(domains) /\ chain[d] \in W
    <2>1. d \in ToSet(domains)
        BY <1>2 DEF InTime
    <2> QED
        BY <1>2, <2>1 DEF Chained
<1>10. Rest # {} => chain[d] \in Rest
    <2>1. ASSUME Rest # {}, chain[d] = c PROVE FALSE
        <3>1. PICK x \in Rest : after[x] \notin Rest
            BY <1>8, <2>1
        <3>2. after[x] = c
            BY <1>4, <1>5, <3>1
        <3> QED
            BY <1>4, <1>5, <2>1, <3>2
    <2> QED
        BY <1>9, <2>1
<1>11. Chained(d)'
    <2>1. \A x \in Rest : slot'[x] = "queued" =>
              after'[x] \in Rest /\ left'[x] = Delay /\ after'[x] # chain'[d]
        BY <1>1, <1>4, <1>5, <1>7
    <2>2. \A x, y \in Rest : y # x =>
              /\ slot'[x] = "delaying" => slot'[y] = "queued"
              /\ slot'[x] = "queued" /\ slot'[y] = "queued" => after'[x] # after'[y]
        BY <1>5, <1>6, <1>7
    <2>3. \A S \in SUBSET Rest : S # {} =>
              \E x \in S : slot'[x] = "delaying" \/ after'[x] \notin S
        BY <1>5, <1>8
    <2>4. Rest # {} => chain'[d] \in Rest
        BY <1>1, <1>10
    <2>5. Rest = {} => Resolved(chain[d])'
        <3>1. Rest = {} => chain[d] = c
            BY <1>9
        <3>2. slot'[c] = "granted" /\ chain' = chain
            BY <1>1
        <3> QED
            BY <3>1, <3>2 DEF Resolved
    <2> HIDE DEF W, Rest
    <2> QED
        BY <1>3, <2>1, <2>2, <2>3, <2>4, <2>5 DEF Chained
<1>12. Load(d)' \in Nat /\ Load(d) = Load(d)' + Delay
    <2>1. PICK k : k = Cardinality(W)
        OBVIOUS
    <2>2. k \in Nat \ {0} /\ Cardinality(Rest) = k - 1
        BY <1>2, <2>1, FS_RemoveElement, FS_CardinalityType, FS_EmptySet
    <2>3. k * Delay = (k - 1) * Delay + Delay /\ (k - 1) * Delay \in Nat
        BY <2>2, Numbers
    <2> QED
        BY <1>3, <2>1, <2>2, <2>3 DEF Load
<1>13. accessAge[d] \in Nat /\ accessAge[d] + Load(d) <= StaleThreshold + 1
    <2>1. accessAge[d] \in Nat /\ accessAge[d] + left[c] + Load(d) <= StaleThreshold + 1
        BY <1>1, <1>2 DEF InTime, PolitenessTyped
    <2> QED
        BY <1>1, <1>12, <2>1, Numbers
<1>14. InTime(d)'
    <2>1. sinceGrant'[d] = 0 /\ accessAge'[d] = accessAge[d] /\ domains' = domains
        BY <1>1 DEF PolitenessTyped
    <2>2. ASSUME NEW x \in Rest, slot'[x] = "delaying" PROVE left'[x] = Delay
        BY <1>1, <1>4, <1>5
    <2>3. accessAge[d] + Delay + Load(d)' <= StaleThreshold + 1
        BY <1>12, <1>13, Numbers
    <2>4. accessAge[d] + Delay <= StaleThreshold + 1
        BY <1>12, <1>13, <2>3, Numbers
    <2> HIDE DEF W, Rest
    <2> QED
        BY <1>3, <1>9, <2>1, <2>2, <2>3, <2>4, Numbers DEF InTime
<1> QED
    BY <1>11, <1>14

\* A call of another domain goes through; none of this one waits for it.
LEMMA GrantElsewhere ==
    ASSUME PolitenessTyped, NEW c \in Calls, Grant(c),
           NEW d \in Domains, d # domainOf[c], IsFiniteSet(Waiting(d)), Chained(d), InTime(d)
    PROVE  Chained(d)' /\ InTime(d)'
<1>1. /\ slot[c] = "delaying"
      /\ slot' = [x \in Calls |-> IF x = c THEN "granted"
                                  ELSE IF slot[x] = "queued" /\ after[x] = c THEN "delaying"
                                  ELSE slot[x]]
      /\ sinceGrant' = [sinceGrant EXCEPT ![domainOf[c]] = 0]
      /\ after' = [after EXCEPT ![c] = NoCall]
      /\ UNCHANGED <<domains, chain, accessAge, left, domainOf, dropped>>
    BY DEF Grant
<1>2. sinceGrant'[d] = sinceGrant[d] /\ accessAge[d] \in Nat
    BY <1>1 DEF PolitenessTyped
<1>3. c \notin Waiting(d)
    BY DEF Waiting
<1>4. \A x \in Waiting(d) : slot[x] = "queued" => after[x] # c
    BY <1>3 DEF Chained
<1>5. \A x \in Waiting(d) : slot'[x] = slot[x] /\ after'[x] = after[x] /\ left'[x] = left[x]
    BY <1>1, <1>3, <1>4 DEF PolitenessTyped, Waiting
<1>6. Waiting(d)' = Waiting(d)
    BY <1>1 DEF Waiting
<1>7. Resolved(chain[d]) => Resolved(chain[d])'
    <2>1. chain[d] \in Calls \cup {NoCall} /\ Moves
        BY DEF PolitenessTyped, Moves
    <2>2. Resolved(chain[d]) => chain[d] = NoCall \/ slot'[chain[d]] \in {"granted", "released"}
        BY <2>1, ResolvedStays DEF Resolved
    <2> QED
        BY <1>1, <2>2 DEF Resolved
<1>8. accessAge'[d] \in Nat /\ accessAge'[d] <= accessAge[d] /\ chain'[d] = chain[d]
      /\ (d \in ToSet(domains)' <=> d \in ToSet(domains))
    BY <1>1, <1>2
<1> QED
    BY <1>2, <1>5, <1>6, <1>7, <1>8, Unmoved

LEMMA ReleaseKeeps ==
    ASSUME PolitenessTyped, NEW c \in Calls, Release(c),
           NEW d \in Domains, IsFiniteSet(Waiting(d)), Chained(d), InTime(d)
    PROVE  Chained(d)' /\ InTime(d)'
<1> PICK e \in Domains : e = domainOf[c]
    BY DEF PolitenessTyped
<1>1. /\ slot[c] = "granted" /\ slot' = [slot EXCEPT ![c] = "released"]
      /\ IF e \in ToSet(domains)
         THEN domains' = Touch(e) /\ accessAge' = [accessAge EXCEPT ![e] = 0]
         ELSE UNCHANGED <<domains, accessAge>>
      /\ UNCHANGED <<chain, after, left, domainOf, pruning, sinceGrant, dropped>>
    BY DEF Release
<1>2. /\ d \in ToSet(domains)' <=> d \in ToSet(domains)
      /\ accessAge'[d] \in Nat /\ accessAge'[d] <= accessAge[d]
    <2>1. CASE e \in ToSet(domains)
        <3>1. ToSet(Touch(e)) = ToSet(domains)
            BY <2>1, TouchKeeps DEF PolitenessTyped
        <3>2. ToSet(domains)' = ToSet(domains)
            BY <1>1, <2>1, <3>1
        <3>3. accessAge[d] \in Nat /\ accessAge'[d] = IF d = e THEN 0 ELSE accessAge[d]
            BY <1>1, <2>1 DEF PolitenessTyped
        <3> QED
            BY <3>2, <3>3
    <2>2. CASE e \notin ToSet(domains)
        BY <1>1, <2>2 DEF PolitenessTyped
    <2> QED
        BY <2>1, <2>2
<1>3. \A x \in Waiting(d) : slot'[x] = slot[x] /\ after'[x] = after[x] /\ left'[x] = left[x]
    BY <1>1 DEF PolitenessTyped, Waiting
<1>4. Waiting(d)' = Waiting(d)
    BY <1>1 DEF PolitenessTyped, Waiting
<1>5. Resolved(chain[d]) => Resolved(chain[d])'
    <2>1. chain[d] \in Calls \cup {NoCall} /\ Moves
        BY DEF PolitenessTyped, Moves
    <2>2. Resolved(chain[d]) => chain[d] = NoCall \/ slot'[chain[d]] \in {"granted", "released"}
        BY <2>1, ResolvedStays DEF Resolved
    <2> QED
        BY <1>1, <2>2 DEF Resolved
<1> QED
    BY <1>1, <1>2, <1>3, <1>4, <1>5, Unmoved

\* An entry that is stale has served all its calls, a delay ago.
LEMMA StaleIsOver ==
    ASSUME PolitenessTyped, NEW d \in Domains, IsFiniteSet(Waiting(d)), Chained(d), InTime(d),
           d \in ToSet(domains), Stale(d)
    PROVE  Waiting(d) = {} /\ sinceGrant[d] = Delay
<1>1. /\ accessAge[d] \in Nat /\ accessAge[d] > StaleThreshold /\ sinceGrant[d] \in 0 .. Delay
      /\ Load(d) \in Nat /\ (Waiting(d) # {} => Load(d) >= Delay)
    BY LoadFacts DEF PolitenessTyped, Stale
<1>2. ASSUME Waiting(d) # {} PROVE FALSE
    <2>1. PICK c \in Waiting(d) : slot[c] = "delaying" \/ after[c] \notin Waiting(d)
        BY <1>2 DEF Chained
    <2>2. slot[c] = "delaying"
        BY <2>1 DEF Chained, Waiting
    <2>3. accessAge[d] + left[c] + Load(d) <= StaleThreshold + 1 /\ left[c] \in Nat
        BY <2>1, <2>2 DEF InTime, Waiting, PolitenessTyped
    <2> QED
        BY <1>1, <1>2, <2>3, Numbers
<1>3. sinceGrant[d] = Delay \/ accessAge[d] + Delay <= StaleThreshold + 1 + sinceGrant[d]
    BY <1>2 DEF InTime
<1> QED
    BY <1>1, <1>2, <1>3, Numbers

LEMMA PruneKeeps ==
    ASSUME PolitenessTyped, PruneStale,
           NEW d \in Domains, IsFiniteSet(Waiting(d)), Chained(d), InTime(d)
    PROVE  Chained(d)' /\ InTime(d)'
<1>1. /\ domains' = Kept
      /\ UNCHANGED <<chain, accessAge, slot, after, left, domainOf, pruning, sinceGrant, dropped>>
    BY DEF PruneStale
<1>2. ToSet(domains)' = {x \in ToSet(domains) : ~Stale(x)}
    BY <1>1, KeptFacts DEF PolitenessTyped
<1>3. Waiting(d)' = Waiting(d) /\ accessAge[d] \in Nat
    BY <1>1 DEF Waiting, PolitenessTyped
<1>4. CASE d \in ToSet(domains) /\ Stale(d)
    <2>1. Waiting(d)' = {} /\ sinceGrant'[d] = Delay /\ d \notin ToSet(domains)'
        BY <1>1, <1>2, <1>3, <1>4, StaleIsOver
    <2> QED
        BY <2>1 DEF Chained, InTime
<1>5. CASE ~(d \in ToSet(domains) /\ Stale(d))
    <2>1. d \in ToSet(domains)' <=> d \in ToSet(domains)
        BY <1>2, <1>5
    <2>2. /\ \A x \in Waiting(d) : slot'[x] = slot[x] /\ after'[x] = after[x] /\ left'[x] = left[x]
          /\ chain'[d] = chain[d] /\ (Resolved(chain[d]) => Resolved(chain[d])')
          /\ sinceGrant'[d] = sinceGrant[d]
          /\ accessAge'[d] \in Nat /\ accessAge'[d] <= accessAge[d]
        BY <1>1, <1>3 DEF Resolved
    <2> QED
        BY <1>3, <2>1, <2>2, Unmoved
<1> QED
    BY <1>4, <1>5

LEMMA TickKeeps ==
    ASSUME PolitenessTyped, Tick,
           NEW d \in Domains, IsFiniteSet(Waiting(d)), Chained(d), InTime(d)
    PROVE  Chained(d)' /\ InTime(d)'
<1>1. UNCHANGED <<domains, chain, slot, after, domainOf, pruning, dropped>>
    BY DEF Tick
<1>2. Waiting(d)' = Waiting(d) /\ Load(d)' = Load(d) /\ Load(d) \in Nat
    BY <1>1, LoadFacts DEF Waiting, Load
<1>3. \A c \in Waiting(d) :
          /\ left[c] \in Nat
          /\ slot[c] = "queued" => left'[c] = left[c]
          /\ slot[c] = "delaying" => left[c] > 0 /\ left'[c] = left[c] - 1
    BY DEF Tick, Waiting, PolitenessTyped
<1>4. /\ sinceGrant[d] \in 0 .. Delay
      /\ sinceGrant'[d] = IF sinceGrant[d] < Delay THEN sinceGrant[d] + 1 ELSE Delay
    BY DEF Tick, PolitenessTyped
<1>5. /\ accessAge[d] \in Nat /\ accessAge'[d] \in Nat
      /\ d \in ToSet(domains) => accessAge'[d] <= accessAge[d] + 1
    <2>1. accessAge[d] \in Nat
        BY DEF PolitenessTyped
    <2>2. accessAge'[d] = IF d \notin ToSet(domains) THEN 0
                          ELSE IF Stale(d) THEN accessAge[d] ELSE accessAge[d] + 1
        BY DEF Tick
    <2> QED
        BY <2>1, <2>2
<1>6. Chained(d)'
    <2>1. Resolved(chain[d]) => Resolved(chain[d])'
        BY <1>1 DEF Resolved
    <2> QED
        BY <1>1, <1>2, <1>3, <2>1 DEF Chained
<1>7. InTime(d)'
    <2>1. ASSUME NEW c \in Waiting(d), slot[c] = "delaying"
          PROVE  /\ sinceGrant'[d] + left'[c] >= Delay
                 /\ accessAge'[d] + left'[c] + Load(d) <= StaleThreshold + 1
        <3>1. /\ d \in ToSet(domains) /\ sinceGrant[d] + left[c] >= Delay
              /\ accessAge[d] + left[c] + Load(d) <= StaleThreshold + 1
            BY <2>1 DEF InTime
        <3> QED
            BY <1>2, <1>3, <1>4, <1>5, <2>1, <3>1, Numbers
    <2>2. ASSUME d \in ToSet(domains), Waiting(d) = {}
          PROVE  \/ sinceGrant'[d] = Delay
                 \/ accessAge'[d] + Delay <= StaleThreshold + 1 + sinceGrant'[d]
        <3>1. sinceGrant[d] = Delay \/ accessAge[d] + Delay <= StaleThreshold + 1 + sinceGrant[d]
            BY <2>2 DEF InTime
        <3> QED
            BY <1>4, <1>5, <2>2, <3>1, Numbers
    <2>3. d \notin ToSet(domains) => Waiting(d) = {} /\ sinceGrant'[d] = Delay
        BY <1>4, Numbers DEF InTime
    <2> QED
        BY <1>1, <1>2, <2>1, <2>2, <2>3 DEF InTime
<1> QED
    BY <1>6, <1>7

LEMMA SpacedStep ==
    PolitenessTyped /\ SpacedInv /\ QueuesShort /\ QueuesShort' /\ [Next]_vars => SpacedInv'
<1> SUFFICES ASSUME PolitenessTyped, SpacedInv, QueuesShort, QueuesShort', Moves,
                    NEW d \in Domains \ dropped'
             PROVE  Chained(d)' /\ InTime(d)'
    BY NextMoves DEF SpacedInv
<1>1. dropped \subseteq dropped'
    BY DEF Moves, Acquire, AcquireFirst, AcquireNext, Grant, Release, PruneStale, Dispose,
           Tick, politenessVars, PolitenessTyped
<1>2. IsFiniteSet(Waiting(d)) /\ Chained(d) /\ InTime(d)
    BY <1>1 DEF SpacedInv, QueuesShort
<1>3. ASSUME NEW c \in Calls, Acquire(c) PROVE Chained(d)' /\ InTime(d)'
    <2>1. CASE d # domainOf[c]
        BY <1>2, <1>3, <2>1, AcquireElsewhere
    <2>2. CASE d = domainOf[c] /\ AcquireFirst(c)
        <3>1. Chained(domainOf[c])' /\ InTime(domainOf[c])' /\ domainOf' = domainOf
            BY <1>2, <1>3, <2>2, AcquireFirstHere DEF Acquire
        <3> QED
            BY <2>2, <3>1
    <2>3. CASE d = domainOf[c] /\ AcquireNext(c)
        BY <1>2, <1>3, <2>3, AcquireNextHere
    <2> QED
        BY <1>3, <2>1, <2>2, <2>3 DEF Acquire
<1>4. ASSUME NEW c \in Calls, Grant(c) PROVE Chained(d)' /\ InTime(d)'
    BY <1>2, <1>4, GrantHere, GrantElsewhere
<1>5. ASSUME NEW c \in Calls, Release(c) PROVE Chained(d)' /\ InTime(d)'
    BY <1>2, <1>5, ReleaseKeeps
<1>6. CASE PruneStale
    BY <1>2, <1>6, PruneKeeps
<1>7. CASE Dispose
    BY <1>7 DEF Dispose
<1>8. CASE Tick
    BY <1>2, <1>8, TickKeeps
<1>9. CASE UNCHANGED politenessVars
    <2>1. /\ Waiting(d)' = Waiting(d) /\ accessAge[d] \in Nat
          /\ Resolved(chain[d]) => Resolved(chain[d])'
        BY <1>9 DEF politenessVars, Waiting, Resolved, PolitenessTyped
    <2> QED
        BY <1>2, <1>9, <2>1, Unmoved DEF politenessVars
<1> QED
    BY <1>3, <1>4, <1>5, <1>6, <1>7, <1>8, <1>9 DEF Moves

LEMMA SpacedStarts == Init /\ QueuesShort => SpacedInv
<1> SUFFICES ASSUME Init, NEW d \in Domains PROVE Chained(d) /\ InTime(d)
    BY DEF SpacedInv
<1>1. /\ domains = <<>> /\ slot = [c \in Calls |-> "free"]
      /\ sinceGrant = [x \in Domains |-> Delay]
    BY DEF Init, PolitenessInit
<1>2. Waiting(d) = {} /\ d \notin ToSet(domains) /\ sinceGrant[d] = Delay
    BY <1>1 DEF Waiting, ToSet
<1> QED
    BY <1>2 DEF Chained, InTime

\* A call is let through only when its domain has let none through for a delay.
LEMMA GrantsApart ==
    ASSUME PolitenessTyped, SpacedInv, [Next]_vars, NEW c \in Calls,
           slot[c] \in {"free", "queued", "delaying"}, slot'[c] = "granted",
           domainOf[c] \notin dropped
    PROVE  sinceGrant[domainOf[c]] = Delay
<1> PICK d \in Domains \ dropped : d = domainOf[c]
    BY DEF PolitenessTyped
<1>1. InTime(d) /\ sinceGrant[d] \in 0 .. Delay
    BY DEF SpacedInv, PolitenessTyped
<1>2. (\E x \in Calls : Acquire(x) \/ Grant(x)) \/ slot'[c] # "granted"
    BY NextMoves DEF Moves, Release, PruneStale, Dispose, Tick, politenessVars, PolitenessTyped
<1>3. ASSUME NEW x \in Calls, Acquire(x) PROVE d \notin ToSet(domains)
    <2>1. AcquireNext(x) => slot'[x] # "granted" /\ \A y \in Calls : y # x => slot'[y] = slot[y]
        BY DEF AcquireNext, PolitenessTyped
    <2>2. AcquireFirst(x) =>
              domainOf[x] \notin ToSet(domains) /\ \A y \in Calls : y # x => slot'[y] = slot[y]
        BY DEF AcquireFirst, PolitenessTyped
    <2>3. x = c /\ AcquireFirst(x)
        BY <1>3, <2>1, <2>2 DEF Acquire
    <2> QED
        BY <2>2, <2>3
<1>4. ASSUME NEW x \in Calls, Grant(x) PROVE slot[c] = "delaying" /\ left[c] = 0
    BY <1>4 DEF Grant
<1>5. CASE d \notin ToSet(domains)
    BY <1>1, <1>5 DEF InTime
<1>6. CASE slot[c] = "delaying" /\ left[c] = 0
    <2>1. sinceGrant[d] + left[c] >= Delay
        BY <1>1, <1>6 DEF InTime, Waiting
    <2> QED
        BY <1>1, <1>6, <2>1, Numbers
<1> QED
    BY <1>2, <1>3, <1>4, <1>5, <1>6

\* Two calls of a domain are let through a delay apart (acquire), for any number of calls
\* and domains, whatever is released, pruned as stale or evicted for another domain, if
\* the queue of no domain takes longer than staleThresholdMs.
THEOREM Polite == Spec /\ []QueuesShort => GrantsSpaced
<1>1. PolitenessTyped /\ SpacedInv /\ [Next]_vars =>
          [\A c \in Calls :
              /\ slot[c] \in {"free", "queued", "delaying"} /\ slot'[c] = "granted"
              /\ domainOf[c] \notin dropped
              => sinceGrant[domainOf[c]] = Delay]_vars
    BY GrantsApart
<1> QED
    BY <1>1, PolitenessStarts, PolitenessTypes, SpacedStarts, SpacedStep, PTL
       DEF Spec, GrantsSpaced

\* With so few calls in all that even all of them in one queue take no longer, the
\* delay is kept without a condition on the queues.
THEOREM PoliteToFew ==
    ASSUME IsFiniteSet(Calls), (Cardinality(Calls) + 1) * Delay <= StaleThreshold + 1
    PROVE  Spec => GrantsSpaced
<1>1. QueuesShort
    <2> SUFFICES ASSUME NEW d \in Domains
                 PROVE  IsFiniteSet(Waiting(d)) /\ Load(d) + Delay <= StaleThreshold + 1
        BY DEF QueuesShort
    <2>1. PICK n : n = Cardinality(Calls)
        OBVIOUS
    <2>2. PICK k : k = Cardinality(Waiting(d))
        OBVIOUS
    <2>3. Waiting(d) \subseteq Calls
        BY DEF Waiting
    <2>4. IsFiniteSet(Waiting(d)) /\ k \in Nat /\ n \in Nat /\ k <= n
        BY <2>1, <2>2, <2>3, FS_Subset, FS_CardinalityType
    <2>5. k * Delay + Delay = (k + 1) * Delay /\ (k + 1) * Delay <= (n + 1) * Delay
        BY <2>4, Numbers
    <2>6. (n + 1) * Delay <= StaleThreshold + 1
        BY <2>1
    <2>7. k * Delay + Delay <= StaleThreshold + 1
        <3>1. k * Delay \in Nat /\ (k + 1) * Delay \in Nat /\ (n + 1) * Delay \in Nat
            BY <2>4, Numbers
        <3> QED
            BY <2>5, <2>6, <3>1, Numbers
    <2> QED
        BY <2>2, <2>4, <2>7 DEF Load
<1> QED
    BY <1>1, Polite, PTL
===========================================================================
