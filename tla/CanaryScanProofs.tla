---------------------------- MODULE CanaryScanProofs ----------------------------
(***************************************************************************)
(* Theorems about the two programs that look for tokens: CanaryScan, for   *)
(* every catalog, every chunk size and every way a client splits its body  *)
(* into reads, and DnsSinkhole, for every catalog and all datagrams.       *)
(***************************************************************************)
EXTENDS CanaryScan, DnsSinkhole, SequenceTheorems, FiniteSetTheorems, WellFoundedInduction, TLAPS

-----------------------------------------------------------------------------
(* Every non-empty set of naturals has a least element.                    *)
LEMMA LeastNatural ==
    ASSUME NEW T, T \subseteq Nat, T # {}
    PROVE  \E x \in T : \A y \in T : x <= y
<1>1. PICK x \in T : \A y \in T : <<y, x>> \notin OpToRel(<, Nat)
  BY NatLessThanWellFounded, WFMin
<1>2. ASSUME NEW y \in T PROVE x <= y
  <2>1. x \in Nat /\ y \in Nat
    OBVIOUS
  <2>2. ~(y < x)
    BY <1>1, <2>1 DEF OpToRel
  <2> QED BY <2>1, <2>2
<1> QED BY <1>2

(* There is a longest token, so maxMatchTokenLen is its length.            *)
LEMMA LongestToken ==
    ASSUME Secrets # {}
    PROVE  /\ maxMatchTokenLen \in Nat \ {0}
           /\ \A s \in Secrets : Len(MatchToken[s]) <= maxMatchTokenLen
<1> DEFINE N == Len(Catalog)
           L(k) == Len(MatchToken[Catalog[k]])
           Longest(k, m) == m \in 1..k /\ \A j \in 1..k : L(j) <= L(m)
           Bad == {k \in 1..N : \A m \in 1..k : ~Longest(k, m)}
<1>1. /\ N \in Nat
      /\ \A k \in 1..N : Catalog[k] \in Secrets /\ L(k) \in Nat
      /\ \A s \in Secrets : Len(MatchToken[s]) \in Nat /\ Len(MatchToken[s]) > 0
  <2>1. N \in Nat /\ \A k \in 1..N : Catalog[k] \in Secrets
    BY CatalogListsSecrets
  <2>2. \A s \in Secrets : MatchToken[s] \in Seq(Bytes)
    BY TokensAreWords
  <2>3. \A s \in Secrets : Len(MatchToken[s]) \in Nat /\ Len(MatchToken[s]) > 0
    BY <2>2, TokensAreWords
  <2> QED BY <2>1, <2>3
<1>2. Bad = {}
  <2> SUFFICES ASSUME Bad # {} PROVE FALSE
    OBVIOUS
  <2>1. PICK k \in Bad : \A j \in Bad : k <= j
    <3>1. Bad \subseteq Nat
      BY <1>1
    <3> QED BY <3>1, LeastNatural
  <2>2. k \in 1..N /\ \A m \in 1..k : ~Longest(k, m)
    BY <2>1
  <2>3. CASE k = 1
    <3>1. L(1) <= L(1)
      BY <1>1, <2>2, <2>3
    <3>2. Longest(1, 1)
      BY <3>1
    <3> QED BY <2>2, <2>3, <3>2
  <2>4. CASE k # 1
    <3>1. k - 1 \in 1..N /\ k - 1 \notin Bad
      <4>1. k \in Nat /\ k - 1 \in 1..N /\ ~(k <= k - 1)
        BY <1>1, <2>2, <2>4
      <4> QED BY <2>1, <4>1
    <3>2. PICK m \in 1..(k - 1) : Longest(k - 1, m)
      BY <3>1
    <3>3. m \in 1..k /\ k \in 1..k /\ L(k) \in Nat /\ L(m) \in Nat
      BY <1>1, <2>2, <2>4, <3>2
    <3>4. \A j \in 1..k : (j \in 1..(k - 1) \/ j = k) /\ L(j) \in Nat
      <4>1. \A j \in 1..k : (j \in 1..(k - 1) \/ j = k) /\ j \in 1..N
        <5>1. N \in Nat /\ k \in 1..N
          BY <1>1, <2>2
        <5> HIDE DEF N, Bad
        <5> QED BY <5>1
      <4> QED BY <1>1, <4>1
    <3>5. CASE L(k) <= L(m)
      <4>1. \A j \in 1..(k - 1) : L(j) <= L(m)
        BY <3>2
      <4>2. ASSUME NEW j \in 1..k PROVE L(j) <= L(m)
        <5>1. CASE j = k
          BY <3>3, <3>5, <5>1
        <5>2. CASE j \in 1..(k - 1)
          <6>1. L(j) <= L(m) /\ L(j) \in Nat /\ L(m) \in Nat /\ L(k) \in Nat
            BY <3>3, <3>4, <4>1, <5>2
          <6> HIDE DEF L
          <6> QED BY <3>5, <6>1
        <5> QED BY <3>4, <5>1, <5>2
      <4>3. Longest(k, m)
        BY <3>3, <4>2
      <4> QED BY <2>2, <3>3, <4>3
    <3>6. CASE L(m) <= L(k)
      <4>1. \A j \in 1..(k - 1) : L(j) <= L(m)
        BY <3>2
      <4>2. ASSUME NEW j \in 1..k PROVE L(j) <= L(k)
        <5>1. CASE j = k
          BY <3>3, <3>6, <5>1
        <5>2. CASE j \in 1..(k - 1)
          <6>1. L(j) <= L(m) /\ L(j) \in Nat /\ L(m) \in Nat /\ L(k) \in Nat
            BY <3>3, <3>4, <4>1, <5>2
          <6> HIDE DEF L
          <6> QED BY <3>6, <6>1
        <5> QED BY <3>4, <5>1, <5>2
      <4>3. Longest(k, k)
        BY <3>3, <4>2
      <4> QED BY <2>2, <3>3, <4>3
    <3>7. L(k) <= L(m) \/ L(m) <= L(k)
      <4> HIDE DEF L
      <4> QED BY <3>3
    <3> QED BY <3>5, <3>6, <3>7
  <2> QED BY <2>3, <2>4
<1>3. N \in 1..N
  <2>1. PICK s \in Secrets : TRUE
    OBVIOUS
  <2>2. PICK i \in 1..N : Catalog[i] = s
    BY CatalogListsSecrets
  <2> QED BY <1>1, <2>2
<1>4. PICK m \in 1..N : Longest(N, m)
  BY <1>2, <1>3
<1>5. /\ Catalog[m] \in Secrets
      /\ \A s \in Secrets : Len(MatchToken[s]) <= L(m)
  <2>1. \A s \in Secrets : \E i \in 1..N : Catalog[i] = s
    BY CatalogListsSecrets
  <2> QED BY <1>1, <1>4, <2>1
<1>6. \E n \in {Len(MatchToken[s]) : s \in Secrets} :
         \A s \in Secrets : Len(MatchToken[s]) <= n
  BY <1>5
<1>7. /\ maxMatchTokenLen \in {Len(MatchToken[s]) : s \in Secrets}
      /\ \A s \in Secrets : Len(MatchToken[s]) <= maxMatchTokenLen
  BY <1>6 DEF maxMatchTokenLen
<1> QED BY <1>1, <1>7

-----------------------------------------------------------------------------
(* boundedSuffix returns the end of its argument, no longer than asked,    *)
(* and all of it when it fits.                                             *)
LEMMA SuffixIsTheEnd ==
    ASSUME NEW v \in Seq(Bytes), NEW m \in Nat
    PROVE  /\ boundedSuffix(v, m) \in Seq(Bytes)
           /\ Len(boundedSuffix(v, m)) <= m
           /\ IsEndOf(boundedSuffix(v, m), v)
           /\ Len(boundedSuffix(v, m)) < m => boundedSuffix(v, m) = v
<1>1. CASE Len(v) <= m
  BY <1>1 DEF boundedSuffix, IsEndOf
<1>2. CASE ~(Len(v) <= m)
  <2> DEFINE t == SubSeq(v, Len(v) - m + 1, Len(v))
  <2>1. Len(v) \in Nat /\ m < Len(v) /\ boundedSuffix(v, m) = t
    BY <1>2 DEF boundedSuffix
  <2>2. t \in Seq(Bytes) /\ Len(t) = m
    BY <2>1
  <2>3. \A i \in 1..m : t[i] = v[Len(v) - m + i]
    BY <2>1
  <2> HIDE DEF t
  <2> QED BY <2>1, <2>2, <2>3 DEF IsEndOf
<1> QED BY <1>1, <1>2

(* The bytes of t \o c are the last ones of h \o c when t is the end of h. *)
Align(h, t, c) ==
    \A k \in 1..(Len(t) + Len(c)) : (h \o c)[Len(h) - Len(t) + k] = (t \o c)[k]

LEMMA SameBytes ==
    ASSUME NEW h \in Seq(Bytes), NEW t \in Seq(Bytes), NEW c \in Seq(Bytes),
           IsEndOf(t, h)
    PROVE  Align(h, t, c)
<1>1. ASSUME NEW k \in 1..(Len(t) + Len(c))
      PROVE  (h \o c)[Len(h) - Len(t) + k] = (t \o c)[k]
  <2>1. Len(h) \in Nat /\ Len(t) \in Nat /\ Len(c) \in Nat /\ Len(t) <= Len(h)
    BY DEF IsEndOf
  <2>2. CASE k <= Len(t)
    <3>1. Len(h) - Len(t) + k \in 1..Len(h) /\ k \in 1..Len(t)
      BY <2>1, <2>2
    <3>2. (h \o c)[Len(h) - Len(t) + k] = h[Len(h) - Len(t) + k]
      BY <3>1
    <3>3. (t \o c)[k] = t[k]
      BY <3>1
    <3>4. t[k] = h[Len(h) - Len(t) + k]
      BY <3>1 DEF IsEndOf
    <3> QED BY <3>2, <3>3, <3>4
  <2>3. CASE ~(k <= Len(t))
    <3>1. k - Len(t) \in 1..Len(c)
      BY <2>1, <2>3
    <3>2. (t \o c)[k] = c[k - Len(t)]
      BY <2>1, <2>3
    <3>3. (h \o c)[Len(h) - Len(t) + k] = c[k - Len(t)]
      BY <2>1, <2>3, <3>1
    <3> QED BY <3>2, <3>3
  <2> QED BY <2>2, <2>3
<1> QED BY <1>1 DEF Align

(* An occurrence in h \o c lies in h or in what the tail keeps of h and c.  *)
LEMMA OccursAcrossReads ==
    ASSUME NEW h \in Seq(Bytes), NEW t \in Seq(Bytes), NEW c \in Seq(Bytes),
           NEW tok \in Seq(Bytes), Len(tok) > 0,
           IsEndOf(t, h), t = h \/ Len(tok) <= Len(t) + 1
    PROVE  Occurs(h \o c, tok) <=> Occurs(h, tok) \/ Occurs(t \o c, tok)
<1> DEFINE d == Len(h) - Len(t)
           hc == h \o c
           tc == t \o c
<1>1. /\ hc \in Seq(Bytes) /\ tc \in Seq(Bytes)
      /\ Len(hc) = Len(h) + Len(c) /\ Len(tc) = Len(t) + Len(c)
      /\ \A k \in 1..Len(h) : hc[k] = h[k]
      /\ \A k \in 1..(Len(t) + Len(c)) : hc[d + k] = tc[k]
  <2>1. /\ h \o c \in Seq(Bytes) /\ t \o c \in Seq(Bytes)
        /\ Len(h \o c) = Len(h) + Len(c) /\ Len(t \o c) = Len(t) + Len(c)
        /\ \A k \in 1..Len(h) : (h \o c)[k] = h[k]
        /\ \A k \in 1..(Len(t) + Len(c)) :
              (h \o c)[Len(h) - Len(t) + k] = (t \o c)[k]
    <3> HIDE DEF d, hc, tc
    <3>1. /\ h \o c \in Seq(Bytes) /\ t \o c \in Seq(Bytes)
          /\ Len(h \o c) = Len(h) + Len(c) /\ Len(t \o c) = Len(t) + Len(c)
          /\ \A k \in 1..Len(h) : (h \o c)[k] = h[k]
      OBVIOUS
    <3>2. Align(h, t, c)
      BY SameBytes
    <3> QED BY <3>1, <3>2, Zenon DEF Align
  <2> QED BY <2>1, Zenon
<1>2. /\ Len(h) \in Nat /\ Len(t) \in Nat /\ Len(c) \in Nat /\ Len(tok) \in Nat
      /\ d \in Nat /\ Len(h) = d + Len(t)
  <2>1. Len(h) \in Nat /\ Len(t) \in Nat /\ Len(c) \in Nat /\ Len(tok) \in Nat
    OBVIOUS
  <2>2. Len(t) <= Len(h)
    BY DEF IsEndOf
  <2> QED BY <2>1, <2>2
<1>3. t = h => d = 0
  BY <1>2
<1> HIDE DEF d, hc, tc
<1>4. ASSUME Occurs(h, tok) PROVE Occurs(hc, tok)
  <2>1. PICK i \in 0..Len(h) : i + Len(tok) <= Len(h) /\ OccursAt(h, tok, i)
    BY <1>4 DEF Occurs
  <2>2. \A j \in 1..Len(tok) : i + j \in 1..Len(h)
    BY <1>2, <2>1
  <2>3. OccursAt(hc, tok, i)
    BY <1>1, <2>1, <2>2 DEF OccursAt
  <2>4. i \in 0..Len(hc) /\ i + Len(tok) <= Len(hc)
    BY <1>1, <1>2, <2>1
  <2> QED BY <2>3, <2>4 DEF Occurs
<1>5. ASSUME Occurs(tc, tok) PROVE Occurs(hc, tok)
  <2>1. PICK i \in 0..Len(tc) : i + Len(tok) <= Len(tc) /\ OccursAt(tc, tok, i)
    BY <1>5 DEF Occurs
  <2>2. \A j \in 1..Len(tok) : i + j \in 1..(Len(t) + Len(c)) /\ (d + i) + j = d + (i + j)
    BY <1>1, <1>2, <2>1
  <2>3. \A j \in 1..Len(tok) : hc[(d + i) + j] = tok[j]
    BY <1>1, <2>1, <2>2 DEF OccursAt
  <2>4. d + i \in 0..Len(hc) /\ (d + i) + Len(tok) <= Len(hc)
    BY <1>1, <1>2, <2>1
  <2> QED BY <2>3, <2>4 DEF Occurs, OccursAt
<1>6. ASSUME Occurs(hc, tok) PROVE Occurs(h, tok) \/ Occurs(tc, tok)
  <2>1. PICK i \in 0..Len(hc) : i + Len(tok) <= Len(hc) /\ OccursAt(hc, tok, i)
    BY <1>6 DEF Occurs
  <2>2. CASE i + Len(tok) <= Len(h)
    <3>1. \A j \in 1..Len(tok) : i + j \in 1..Len(h)
      BY <1>2, <2>1, <2>2
    <3>2. OccursAt(h, tok, i)
      BY <1>1, <2>1, <3>1 DEF OccursAt
    <3>3. i \in 0..Len(h)
      BY <1>2, <2>1, <2>2
    <3> QED BY <2>2, <3>2, <3>3 DEF Occurs
  <2>3. CASE ~(i + Len(tok) <= Len(h))
    <3>1. d <= i
      BY <1>2, <1>3, <2>1, <2>3
    <3> DEFINE k == i - d
    <3>2. k \in 0..Len(tc) /\ k + Len(tok) <= Len(tc) /\ i = d + k
      BY <1>1, <1>2, <2>1, <3>1
    <3> HIDE DEF k
    <3>3. \A j \in 1..Len(tok) :
             k + j \in 1..(Len(t) + Len(c)) /\ i + j = d + (k + j)
      BY <1>1, <1>2, <3>2
    <3>4. \A j \in 1..Len(tok) : tc[k + j] = tok[j]
      BY <1>1, <2>1, <3>3 DEF OccursAt
    <3> QED BY <3>2, <3>4 DEF Occurs, OccursAt
  <2> QED BY <2>2, <2>3
<1> QED BY <1>4, <1>5, <1>6 DEF hc, tc

(* What the tail must be for the next search to be exact.                  *)
IInv == TypeOK /\ ScanIsExact /\ TailIsTheEnd

LEMMA InitInv == Init => IInv
<1> SUFFICES ASSUME Init PROVE IInv
  OBVIOUS
<1>1. TypeOK
  <2>1. <<>> \in Seq(Bytes)
    OBVIOUS
  <2>2. hashed = <<>> /\ tail = <<>> /\ matches = {} /\ phase = "reading"
    BY DEF Init
  <2>3. readAny \in BOOLEAN
    BY Zenon DEF Init
  <2> QED BY <2>1, <2>2, <2>3 DEF TypeOK
<1>2. ScanIsExact
  <2>1. ASSUME NEW s \in Secrets PROVE ~Occurs(<<>>, MatchToken[s])
    <3>1. MatchToken[s] \in Seq(Bytes) /\ Len(MatchToken[s]) > 0
      BY TokensAreWords
    <3> QED BY <3>1 DEF Occurs
  <2> QED BY <2>1 DEF Init, ScanIsExact, tokensIn
<1>3. TailIsTheEnd
  <2>1. maxTail \in Nat
    BY LongestToken DEF maxTail
  <2> QED BY <2>1 DEF Init, TailIsTheEnd, IsEndOf
<1> QED BY <1>1, <1>2, <1>3 DEF IInv

LEMMA ReadKeepsInv ==
    ASSUME IInv, NEW chunk \in Chunks, NEW err \in {"nil", "eof", "error"},
           Read(chunk, err)
    PROVE  IInv'
<1>1. chunk \in Seq(Bytes)
  BY DEF Chunks
<1>2. phase' \in {"reading", "done", "failed"}
  BY DEF Read
<1>3. CASE Len(chunk) = 0
  <2>1. UNCHANGED <<hashed, readAny, tail, matches>>
    BY <1>3 DEF Read
  <2> QED BY <1>2, <2>1 DEF IInv, TypeOK, ScanIsExact, TailIsTheEnd
<1>4. CASE Len(chunk) > 0
  <2> DEFINE candidate == tail \o chunk
  <2>1. /\ hashed \in Seq(Bytes) /\ tail \in Seq(Bytes)
        /\ matches = tokensIn(hashed)
        /\ Len(tail) <= maxTail /\ IsEndOf(tail, hashed)
        /\ (Secrets # {} /\ Len(tail) < maxTail => tail = hashed)
    BY DEF IInv, TypeOK, ScanIsExact, TailIsTheEnd
  <2>2. readAny' = TRUE /\ hashed' = hashed \o chunk
    BY <1>4 DEF Read, Take
  <2>3. hashed' \in Seq(Bytes) /\ candidate \in Seq(Bytes)
        /\ Len(hashed') = Len(hashed) + Len(chunk)
        /\ Len(candidate) = Len(tail) + Len(chunk)
        /\ \A k \in 1..Len(candidate) :
              hashed'[Len(hashed) - Len(tail) + k] = candidate[k]
    <3>1. /\ hashed \o chunk \in Seq(Bytes) /\ candidate \in Seq(Bytes)
          /\ Len(hashed \o chunk) = Len(hashed) + Len(chunk)
          /\ Len(candidate) = Len(tail) + Len(chunk)
      BY <1>1, <2>1
    <3>2. Align(hashed, tail, chunk)
      BY <1>1, <2>1, SameBytes
    <3>3. \A k \in 1..(Len(tail) + Len(chunk)) :
             (hashed \o chunk)[Len(hashed) - Len(tail) + k] = candidate[k]
      BY <3>2, Zenon DEF Align
    <3> HIDE DEF candidate
    <3> QED BY <2>2, <3>1, <3>3
  <2>4. CASE Secrets = {}
    <3>1. UNCHANGED <<tail, matches>>
      BY <1>4, <2>4 DEF Read, Take
    <3>2. tokensIn(hashed') = {} /\ tokensIn(hashed) = {}
      BY <2>4 DEF tokensIn
    <3>3. maxTail = 0 /\ Len(tail) = 0 /\ Len(tail) \in Nat
      BY <2>1, <2>4 DEF maxTail
    <3>4. IsEndOf(tail', hashed')
      BY <1>1, <2>1, <2>3, <3>1, <3>3 DEF IsEndOf
    <3> QED BY <1>2, <2>1, <2>2, <2>3, <2>4, <3>1, <3>2, <3>3, <3>4
            DEF IInv, TypeOK, ScanIsExact, TailIsTheEnd
  <2>5. CASE Secrets # {}
    <3>1. matches' = matches \cup tokensIn(candidate)
          /\ tail' = boundedSuffix(candidate, maxTail)
      BY <1>4, <2>5 DEF Read, Take
    <3>2. maxTail \in Nat /\ maxTail = maxMatchTokenLen - 1
          /\ \A s \in Secrets : Len(MatchToken[s]) <= maxTail + 1
      BY <2>5, LongestToken DEF maxTail
    <3>3. ASSUME NEW s \in Secrets
          PROVE  Occurs(hashed', MatchToken[s]) <=>
                    Occurs(hashed, MatchToken[s]) \/ Occurs(candidate, MatchToken[s])
      <4>1. MatchToken[s] \in Seq(Bytes) /\ Len(MatchToken[s]) > 0
        BY TokensAreWords
      <4>2. tail = hashed \/ Len(MatchToken[s]) <= Len(tail) + 1
        BY <2>1, <2>5, <3>2
      <4> QED BY <1>1, <2>1, <2>2, <4>1, <4>2, OccursAcrossReads
    <3>4. matches' = tokensIn(hashed')
      BY <2>1, <3>1, <3>3 DEF tokensIn
    <3>5. /\ tail' \in Seq(Bytes) /\ Len(tail') <= maxTail
          /\ IsEndOf(tail', candidate)
          /\ (Len(tail') < maxTail => tail' = candidate)
      BY <2>3, <3>1, <3>2, SuffixIsTheEnd
    <3>6. IsEndOf(tail', hashed')
      <4>1. /\ Len(tail') \in Nat /\ Len(candidate) \in Nat /\ Len(tail) \in Nat
            /\ Len(hashed) \in Nat /\ Len(chunk) \in Nat
            /\ Len(tail') <= Len(candidate) /\ Len(tail) <= Len(hashed)
        BY <1>1, <2>1, <2>3, <3>5 DEF IsEndOf
      <4>2. ASSUME NEW i \in 1..Len(tail')
            PROVE  tail'[i] = hashed'[Len(hashed') - Len(tail') + i]
        <5> DEFINE k == Len(candidate) - Len(tail') + i
        <5>1. tail'[i] = candidate[k]
          BY <3>5 DEF IsEndOf
        <5>2. k \in 1..Len(candidate)
              /\ Len(hashed) - Len(tail) + k = Len(hashed') - Len(tail') + i
          BY <2>3, <4>1
        <5> HIDE DEF k, candidate
        <5> QED BY <2>3, <5>1, <5>2
      <4> QED BY <2>3, <4>1, <4>2 DEF IsEndOf
    <3>7. Len(tail') < maxTail => tail' = hashed'
      <4> SUFFICES ASSUME Len(tail') < maxTail PROVE tail' = hashed'
        OBVIOUS
      <4>1. tail' = candidate
        BY <3>5
      <4>2. Len(tail) < maxTail
        BY <1>1, <2>1, <2>3, <3>2, <4>1
      <4> QED BY <2>1, <2>2, <2>5, <4>1, <4>2
    <3>8. matches' \subseteq Secrets
      BY <3>4 DEF tokensIn
    <3> QED BY <1>2, <2>2, <2>3, <3>4, <3>5, <3>6, <3>7, <3>8
            DEF IInv, TypeOK, ScanIsExact, TailIsTheEnd, maxTail
  <2> QED BY <2>4, <2>5
<1>5. Len(chunk) = 0 \/ Len(chunk) > 0
  BY <1>1
<1> QED BY <1>3, <1>4, <1>5

LEMMA Invariance == Spec => []IInv
<1>1. IInv /\ [Next]_vars => IInv'
  <2> SUFFICES ASSUME IInv, [Next]_vars PROVE IInv'
    OBVIOUS
  <2>1. CASE UNCHANGED vars
    BY <2>1 DEF vars, IInv, TypeOK, ScanIsExact, TailIsTheEnd
  <2> QED BY <2>1, ReadKeepsInv DEF Next
<1> QED BY InitInv, <1>1, PTL DEF Spec

(* The variables keep their types: the tail is bytes, the matches secrets. *)
THEOREM TypeCorrect == Spec => []TypeOK
<1>1. IInv => TypeOK
  BY DEF IInv
<1> QED BY Invariance, <1>1, PTL

(* scanRequestBody finds exactly the tokens of the body, for any catalog   *)
(* and any way the body is split into reads.                               *)
THEOREM ScanExact == Spec => []ScanIsExact
<1>1. IInv => ScanIsExact
  BY DEF IInv
<1> QED BY Invariance, <1>1, PTL

(* The scan holds less than one token of a body of any size, its last      *)
(* bytes (boundedSuffix).                                                  *)
THEOREM TailBounded == Spec => []TailIsTheEnd
<1>1. IInv => TailIsTheEnd
  BY DEF IInv
<1> QED BY Invariance, <1>1, PTL

-----------------------------------------------------------------------------
(* The sinkhole: rows and answers.                                         *)
IsSeq(s) == s \in Seq({s[k] : k \in DOMAIN s})

(* What Append does to a sequence of anything.                             *)
LEMMA AppendElements ==
  ASSUME NEW s, IsSeq(s), NEW x
  PROVE  /\ IsSeq(Append(s, x)) /\ Len(s) \in Nat /\ DOMAIN s = 1..Len(s)
         /\ Len(Append(s, x)) = Len(s) + 1
         /\ \A k \in 1..Len(s) : Append(s, x)[k] = s[k]
         /\ Append(s, x)[Len(s) + 1] = x
<1>1. PICK S : S = {s[k] : k \in DOMAIN s} \cup {x}
  OBVIOUS
<1>2. s \in Seq(S) /\ x \in S
  BY <1>1 DEF IsSeq
<1>3. PICK a : a = Append(s, x)
  OBVIOUS
<1>4. /\ a \in Seq(S) /\ Len(s) \in Nat /\ DOMAIN s = 1..Len(s) /\ Len(a) = Len(s) + 1
      /\ DOMAIN a = 1..Len(a)
      /\ \A k \in 1..Len(s) : a[k] = s[k]
      /\ a[Len(s) + 1] = x
  BY <1>2, <1>3
<1>5. PICK T : T = {a[k] : k \in DOMAIN a}
  OBVIOUS
<1>6. a \in Seq(T)
  <2>1. a \in [1..Len(a) -> T]
    BY <1>4, <1>5
  <2>2. Seq(T) = UNION {[1..n -> T] : n \in Nat}
    BY SeqDef
  <2>3. Len(a) \in Nat
    BY <1>4
  <2> QED BY <2>1, <2>2, <2>3, Zenon
<1> QED BY <1>3, <1>4, <1>5, <1>6 DEF IsSeq

(* A count over a sequence goes up by one when the element appended counts.*)
LEMMA CountOneMore ==
  ASSUME NEW n \in Nat, NEW A \in SUBSET (1..n), NEW B \in SUBSET (1..(n + 1)),
         \A k \in 1..n : k \in B <=> k \in A
  PROVE  /\ Cardinality(A) \in Nat
         /\ Cardinality(B) = Cardinality(A) + (IF n + 1 \in B THEN 1 ELSE 0)
<1>1. IsFiniteSet(1..n)
  BY FS_Interval
<1>2. IsFiniteSet(A) /\ Cardinality(A) \in Nat /\ n + 1 \notin A
  <2>1. IsFiniteSet(A)
    BY <1>1, FS_Subset
  <2>2. n + 1 \notin 1..n
    OBVIOUS
  <2> QED BY <2>1, <2>2, FS_CardinalityType
<1>0. \A k \in 1..(n + 1) : k \in 1..n \/ k = n + 1
  OBVIOUS
<1>3. CASE n + 1 \in B
  <2>1. B = A \cup {n + 1}
    BY <1>0, <1>3, Zenon
  <2> QED BY <1>2, <1>3, <2>1, FS_AddElement
<1>4. CASE n + 1 \notin B
  <2>1. B = A
    BY <1>0, <1>4, Zenon
  <2> QED BY <1>2, <1>4, <2>1
<1> QED BY <1>3, <1>4

(* The sinkhole counts with the cardinality of every other module.         *)
LEMMA SameCardinality == \A S : Cardinality(S) = Cardinality(S)
BY DEF Cardinality, Cardinality, IsFiniteSet, IsFiniteSet

Unclean == {k \in 1..Len(log) : ~log[k].clean}

(* What a line adds to the counts of rows.                                 *)
LEMMA LineAdded ==
  ASSUME IsSeq(log), NEW l, log' = Append(log, l)
  PROVE  /\ IsSeq(log') /\ Len(log) \in Nat /\ Len(log') = Len(log) + 1
         /\ \A id : RowsOf(id) \in Nat /\ Given(id) \in Nat
         /\ \A id : RowsOf(id)' = RowsOf(id) + (IF l.row.id = id THEN 1 ELSE 0)
         /\ \A id : Given(id)'
                      = Given(id) + (IF l.row.id = id /\ l.row.resolved THEN 1 ELSE 0)
         /\ Cardinality(Unclean) \in Nat
         /\ Cardinality(Unclean') = Cardinality(Unclean) + (IF l.clean THEN 0 ELSE 1)
<1>1. /\ IsSeq(log') /\ Len(log) \in Nat /\ Len(log') = Len(log) + 1
      /\ \A k \in 1..Len(log) : log'[k] = log[k]
      /\ log'[Len(log) + 1] = l
  BY AppendElements
<1>2. PICK n \in Nat : n = Len(log)
  BY <1>1
<1>3. ASSUME NEW id
      PROVE  /\ RowsOf(id) \in Nat
             /\ RowsOf(id)' = RowsOf(id) + (IF l.row.id = id THEN 1 ELSE 0)
  <2>1. PICK A, B : /\ A = {k \in 1..n : log[k].row.id = id}
                    /\ B = {k \in 1..(n + 1) : log'[k].row.id = id}
    OBVIOUS
  <2>2. /\ A \in SUBSET (1..n) /\ B \in SUBSET (1..(n + 1)) /\ \A k \in 1..n : k \in B <=> k \in A
        /\ n + 1 \in B <=> l.row.id = id
    BY <1>1, <1>2, <2>1
  <2>3. RowsOf(id) = Cardinality(A) /\ RowsOf(id)' = Cardinality(B)
    BY <1>1, <1>2, <2>1, SameCardinality DEF RowsOf
  <2> QED BY <2>2, <2>3, CountOneMore
<1>4. ASSUME NEW id
      PROVE  /\ Given(id) \in Nat
             /\ Given(id)'
                  = Given(id) + (IF l.row.id = id /\ l.row.resolved THEN 1 ELSE 0)
  <2>1. PICK A, B : /\ A = {k \in 1..n : log[k].row.id = id /\ log[k].row.resolved}
                    /\ B = {k \in 1..(n + 1) : log'[k].row.id = id /\ log'[k].row.resolved}
    OBVIOUS
  <2>2. /\ A \in SUBSET (1..n) /\ B \in SUBSET (1..(n + 1)) /\ \A k \in 1..n : k \in B <=> k \in A
        /\ n + 1 \in B <=> l.row.id = id /\ l.row.resolved
    BY <1>1, <1>2, <2>1
  <2>3. Given(id) = Cardinality(A) /\ Given(id)' = Cardinality(B)
    BY <1>1, <1>2, <2>1, SameCardinality DEF Given
  <2> QED BY <2>2, <2>3, CountOneMore
<1>5. /\ Cardinality(Unclean) \in Nat
      /\ Cardinality(Unclean') = Cardinality(Unclean) + (IF l.clean THEN 0 ELSE 1)
  <2>1. PICK A, B : /\ A = {k \in 1..n : ~log[k].clean} /\ B = {k \in 1..(n + 1) : ~log'[k].clean}
    OBVIOUS
  <2>2. /\ A \in SUBSET (1..n) /\ B \in SUBSET (1..(n + 1)) /\ \A k \in 1..n : k \in B <=> k \in A
        /\ n + 1 \in B <=> ~l.clean
    BY <1>1, <1>2, <2>1
  <2>3. Unclean = A /\ Unclean' = B
    BY <1>1, <1>2, <2>1 DEF Unclean
  <2> QED BY <2>2, <2>3, CountOneMore
<1> QED BY <1>1, <1>3, <1>4, <1>5

(* What a response adds to the counts of answers.                          *)
LEMMA ResponseAdded ==
  ASSUME IsSeq(answers), NEW a, answers' = Append(answers, a)
  PROVE  /\ IsSeq(answers') /\ Len(answers) \in Nat /\ Len(answers') = Len(answers) + 1
         /\ \A id : AnswersTo(id) \in Nat /\ Giving(id) \in Nat
         /\ \A id : AnswersTo(id)' = AnswersTo(id) + (IF a.id = id THEN 1 ELSE 0)
         /\ \A id : Giving(id)'
                      = Giving(id) + (IF a.id = id /\ a.address THEN 1 ELSE 0)
<1>1. /\ IsSeq(answers') /\ Len(answers) \in Nat /\ Len(answers') = Len(answers) + 1
      /\ \A k \in 1..Len(answers) : answers'[k] = answers[k]
      /\ answers'[Len(answers) + 1] = a
  BY AppendElements
<1>2. PICK n \in Nat : n = Len(answers)
  BY <1>1
<1>3. ASSUME NEW id
      PROVE  /\ AnswersTo(id) \in Nat
             /\ AnswersTo(id)' = AnswersTo(id) + (IF a.id = id THEN 1 ELSE 0)
  <2>1. PICK A, B : /\ A = {k \in 1..n : answers[k].id = id}
                    /\ B = {k \in 1..(n + 1) : answers'[k].id = id}
    OBVIOUS
  <2>2. /\ A \in SUBSET (1..n) /\ B \in SUBSET (1..(n + 1)) /\ \A k \in 1..n : k \in B <=> k \in A
        /\ n + 1 \in B <=> a.id = id
    BY <1>1, <1>2, <2>1
  <2>3. AnswersTo(id) = Cardinality(A) /\ AnswersTo(id)' = Cardinality(B)
    BY <1>1, <1>2, <2>1, SameCardinality DEF AnswersTo
  <2> QED BY <2>2, <2>3, CountOneMore
<1>4. ASSUME NEW id
      PROVE  /\ Giving(id) \in Nat
             /\ Giving(id)'
                  = Giving(id) + (IF a.id = id /\ a.address THEN 1 ELSE 0)
  <2>1. PICK A, B : /\ A = {k \in 1..n : answers[k].id = id /\ answers[k].address}
                    /\ B = {k \in 1..(n + 1) : answers'[k].id = id /\ answers'[k].address}
    OBVIOUS
  <2>2. /\ A \in SUBSET (1..n) /\ B \in SUBSET (1..(n + 1)) /\ \A k \in 1..n : k \in B <=> k \in A
        /\ n + 1 \in B <=> a.id = id /\ a.address
    BY <1>1, <1>2, <2>1
  <2>3. Giving(id) = Cardinality(A) /\ Giving(id)' = Cardinality(B)
    BY <1>1, <1>2, <2>1, SameCardinality DEF Giving
  <2> QED BY <2>2, <2>3, CountOneMore
<1> QED BY <1>1, <1>3, <1>4

\* The row and the answer of the query in hand: 1 once its row is in the log.
Owed(id) == IF loop = "answer" /\ query.id = id THEN 1 ELSE 0
OwedAddress(id) ==
    IF /\ loop = "answer" /\ query.id = id
       /\ buildResponse(query, parseQuestion(query)).address THEN 1 ELSE 0

(* Answers and rows agree but for the row in hand, and a fragment that no  *)
(* row is glued to yet has a fault of its own.                             *)
AgreeInv ==
    /\ IsSeq(log) /\ IsSeq(answers) /\ torn \in BOOLEAN /\ faults \in Nat
    /\ \A id : /\ AnswersTo(id) + Owed(id) <= RowsOf(id)
               /\ Giving(id) + OwedAddress(id) <= Given(id)
    /\ Len(log) <= Len(answers) + faults + (IF loop = "answer" THEN 1 ELSE 0)
    /\ Cardinality(Unclean) + (IF torn THEN 1 ELSE 0) <= faults

(* The counts are numbers.                                                 *)
LEMMA CountsAreNumbers ==
  ASSUME IsSeq(log), IsSeq(answers)
  PROVE  /\ Len(log) \in Nat /\ Len(answers) \in Nat /\ Cardinality(Unclean) \in Nat
         /\ \A id : /\ RowsOf(id) \in Nat /\ Given(id) \in Nat
                    /\ AnswersTo(id) \in Nat /\ Giving(id) \in Nat
                    /\ Owed(id) \in Nat /\ OwedAddress(id) \in Nat
<1>1. Len(log) \in Nat /\ Len(answers) \in Nat
  BY AppendElements
<1>2. ASSUME NEW n \in Nat, NEW A \in SUBSET (1..n) PROVE Cardinality(A) \in Nat
  <2>1. IsFiniteSet(1..n)
    BY FS_Interval
  <2>2. IsFiniteSet(A)
    BY <2>1, FS_Subset
  <2> QED BY <2>2, FS_CardinalityType
<1>3. Cardinality(Unclean) \in Nat
  BY <1>1, <1>2 DEF Unclean
<1>4. ASSUME NEW id
      PROVE  /\ RowsOf(id) \in Nat /\ Given(id) \in Nat
             /\ AnswersTo(id) \in Nat /\ Giving(id) \in Nat
             /\ Owed(id) \in Nat /\ OwedAddress(id) \in Nat
  <2>1. RowsOf(id) \in Nat /\ Given(id) \in Nat
    BY <1>1, <1>2, SameCardinality DEF RowsOf, Given
  <2>2. AnswersTo(id) \in Nat /\ Giving(id) \in Nat
    BY <1>1, <1>2, SameCardinality DEF AnswersTo, Giving
  <2>3. Owed(id) \in Nat /\ OwedAddress(id) \in Nat
    BY DEF Owed, OwedAddress
  <2> QED BY <2>1, <2>2, <2>3
<1> QED BY <1>1, <1>3, <1>4

(* A step that touches neither log nor answers leaves the counts alone.    *)
LEMMA CountsStay ==
  ASSUME AgreeInv, UNCHANGED <<log, torn, answers, faults>>,
         loop' # "answer", loop # "answer"
  PROVE  AgreeInv'
<1>1. \A id : Owed(id) = 0 /\ Owed(id)' = 0 /\ OwedAddress(id) = 0 /\ OwedAddress(id)' = 0
  BY DEF Owed, OwedAddress
<1>2. \A id : /\ RowsOf(id)' = RowsOf(id) /\ Given(id)' = Given(id)
              /\ AnswersTo(id)' = AnswersTo(id)
              /\ Giving(id)' = Giving(id)
  BY DEF RowsOf, Given, AnswersTo, Giving
<1>3. Unclean' = Unclean
  BY DEF Unclean
<1> QED BY <1>1, <1>2, <1>3 DEF AgreeInv

(* The line of the query in hand pays for its answer.                      *)
LEMMA LineStep ==
  ASSUME AgreeInv, loop = "write", log' = Append(log, Line), torn' = FALSE,
         UNCHANGED <<query, answers>>,
         \/ loop' = "answer" /\ faults' = faults
         \/ loop' = "dead" /\ faults' = faults + 1
  PROVE  AgreeInv'
<1>1. PICK l : l = Line
  OBVIOUS
<1>2. /\ l.row.id = query.id /\ l.clean = ~torn
      /\ buildResponse(query, parseQuestion(query)).address => l.row.resolved
  BY <1>1 DEF Line, row, Event, buildResponse
<1>3. /\ IsSeq(log') /\ Len(log) \in Nat /\ Len(log') = Len(log) + 1
      /\ \A id : RowsOf(id)' = RowsOf(id) + (IF l.row.id = id THEN 1 ELSE 0)
      /\ \A id : Given(id)'
                   = Given(id) + (IF l.row.id = id /\ l.row.resolved THEN 1 ELSE 0)
      /\ Cardinality(Unclean') = Cardinality(Unclean) + (IF l.clean THEN 0 ELSE 1)
  BY <1>1, LineAdded DEF AgreeInv
<1>4. \A id : /\ AnswersTo(id)' = AnswersTo(id)
              /\ Giving(id)' = Giving(id)
  BY DEF AnswersTo, Giving
<1>5. /\ Len(log) \in Nat /\ Len(answers) \in Nat /\ Cardinality(Unclean) \in Nat
      /\ \A id : /\ RowsOf(id) \in Nat /\ Given(id) \in Nat
                 /\ AnswersTo(id) \in Nat /\ Giving(id) \in Nat
  BY CountsAreNumbers DEF AgreeInv
<1>6. ASSUME NEW id
      PROVE  /\ (AnswersTo(id) + Owed(id))' <= RowsOf(id)'
             /\ (Giving(id) + OwedAddress(id))' <= Given(id)'
  <2>1. Owed(id) = 0 /\ OwedAddress(id) = 0
    BY DEF Owed, OwedAddress
  <2>2. Owed(id)' \in {0, 1} /\ (Owed(id)' = 1 => l.row.id = id)
    BY <1>2 DEF Owed
  <2>3. OwedAddress(id)' \in {0, 1} /\ (OwedAddress(id)' = 1 => l.row.id = id /\ l.row.resolved)
    <3>1. buildResponse(query, parseQuestion(query))'
            = buildResponse(query, parseQuestion(query))
      OBVIOUS
    <3> QED BY <1>2, <3>1 DEF OwedAddress
  <2>4. AnswersTo(id) <= RowsOf(id) /\ Giving(id) <= Given(id)
    BY <1>5, <2>1 DEF AgreeInv
  <2>5. AnswersTo(id) + Owed(id)' <= RowsOf(id)'
    BY <1>3, <1>5, <2>2, <2>4
  <2>6. Giving(id) + OwedAddress(id)' <= Given(id)'
    BY <1>3, <1>5, <2>3, <2>4
  <2> QED BY <1>4, <2>5, <2>6
<1>7. Len(log') <= Len(answers') + faults' + (IF loop' = "answer" THEN 1 ELSE 0)
  BY <1>3, <1>5 DEF AgreeInv
<1>8. Cardinality(Unclean') + (IF torn' THEN 1 ELSE 0) <= faults' /\ faults' \in Nat
  <2>1. PICK u \in Nat : u = Cardinality(Unclean)
    BY <1>5
  <2>2. Cardinality(Unclean') = u + (IF torn THEN 1 ELSE 0)
    BY <1>2, <1>3, <2>1 DEF AgreeInv
  <2>3. faults \in Nat /\ u + (IF torn THEN 1 ELSE 0) <= faults /\ faults' \in {faults, faults + 1}
    BY <2>1 DEF AgreeInv
  <2> QED BY <2>1, <2>2, <2>3
<1> QED BY <1>3, <1>6, <1>7, <1>8 DEF AgreeInv

(* An answer uses up what the row of its query has paid.                   *)
LEMMA AnswerStep ==
  ASSUME AgreeInv, Answer
  PROVE  AgreeInv'
<1>1. PICK a : a = buildResponse(query, parseQuestion(query))
  OBVIOUS
<1>2. /\ loop = "answer" /\ loop' = "receive" /\ answers' = Append(answers, a)
      /\ UNCHANGED <<query, log, torn, faults>> /\ a.id = query.id
  BY <1>1 DEF Answer, buildResponse
<1>3. /\ IsSeq(answers') /\ Len(answers') = Len(answers) + 1
      /\ \A id : AnswersTo(id)' = AnswersTo(id) + (IF a.id = id THEN 1 ELSE 0)
      /\ \A id : Giving(id)'
                   = Giving(id) + (IF a.id = id /\ a.address THEN 1 ELSE 0)
  BY <1>2, ResponseAdded DEF AgreeInv
<1>4. \A id : RowsOf(id)' = RowsOf(id) /\ Given(id)' = Given(id)
  BY <1>2 DEF RowsOf, Given
<1>5. /\ Len(log) \in Nat /\ Len(answers) \in Nat
      /\ \A id : /\ RowsOf(id) \in Nat /\ Given(id) \in Nat
                 /\ AnswersTo(id) \in Nat /\ Giving(id) \in Nat
  BY CountsAreNumbers DEF AgreeInv
<1>6. ASSUME NEW id
      PROVE  /\ (AnswersTo(id) + Owed(id))' <= RowsOf(id)'
             /\ (Giving(id) + OwedAddress(id))' <= Given(id)'
  <2>1. Owed(id) = (IF a.id = id THEN 1 ELSE 0) /\ Owed(id)' = 0
    BY <1>2 DEF Owed
  <2>2. OwedAddress(id) = (IF a.id = id /\ a.address THEN 1 ELSE 0) /\ OwedAddress(id)' = 0
    BY <1>1, <1>2 DEF OwedAddress
  <2>3. /\ AnswersTo(id) + Owed(id) <= RowsOf(id)
        /\ Giving(id) + OwedAddress(id) <= Given(id)
    BY DEF AgreeInv
  <2> QED BY <1>3, <1>4, <1>5, <2>1, <2>2, <2>3
<1>7. Len(log') <= Len(answers') + faults' + (IF loop' = "answer" THEN 1 ELSE 0)
  BY <1>2, <1>3, <1>5 DEF AgreeInv
<1>8. Unclean' = Unclean
  BY <1>2 DEF Unclean
<1> QED BY <1>2, <1>3, <1>6, <1>7, <1>8 DEF AgreeInv

(* A failure that writes no whole line leaves at most a fragment.          *)
LEMMA FaultStep ==
  ASSUME AgreeInv, UNCHANGED <<query, log, answers>>, torn' \in {torn, TRUE},
         faults' = faults + 1, loop' = "dead"
  PROVE  AgreeInv'
<1>1. \A id : Owed(id)' = 0 /\ OwedAddress(id)' = 0
  BY DEF Owed, OwedAddress
<1>2. \A id : /\ RowsOf(id)' = RowsOf(id) /\ Given(id)' = Given(id)
              /\ AnswersTo(id)' = AnswersTo(id)
              /\ Giving(id)' = Giving(id)
  BY DEF RowsOf, Given, AnswersTo, Giving
<1>3. Unclean' = Unclean
  BY DEF Unclean
<1>4. /\ Len(log) \in Nat /\ Len(answers) \in Nat /\ Cardinality(Unclean) \in Nat
      /\ \A id : /\ RowsOf(id) \in Nat /\ Given(id) \in Nat
                 /\ AnswersTo(id) \in Nat /\ Giving(id) \in Nat
                 /\ Owed(id) \in Nat /\ OwedAddress(id) \in Nat
  BY CountsAreNumbers DEF AgreeInv
<1>5. ASSUME NEW id
      PROVE  /\ AnswersTo(id) + 0 <= RowsOf(id)
             /\ Giving(id) + 0 <= Given(id)
  BY <1>4 DEF AgreeInv
<1>6. Len(log) <= Len(answers) + (faults + 1) + 0
  BY <1>4 DEF AgreeInv
<1>7. Cardinality(Unclean) + 1 <= faults + 1 /\ Cardinality(Unclean) + 0 <= faults + 1
  BY <1>4 DEF AgreeInv
<1>8. \A id : /\ (AnswersTo(id) + Owed(id))' <= RowsOf(id)'
              /\ (Giving(id) + OwedAddress(id))' <= Given(id)'
  BY <1>1, <1>2, <1>5
<1>9. Len(log') <= Len(answers') + faults' + (IF loop' = "answer" THEN 1 ELSE 0)
  BY <1>6
<1>10. Cardinality(Unclean') + (IF torn' THEN 1 ELSE 0) <= faults'
  BY <1>3, <1>7
<1>11. IsSeq(log') /\ IsSeq(answers') /\ torn' \in BOOLEAN /\ faults' \in Nat
  <2>1. IsSeq(log) /\ IsSeq(answers) /\ torn \in BOOLEAN /\ faults \in Nat
    BY DEF AgreeInv
  <2>2. log' = log /\ answers' = answers
    OBVIOUS
  <2>3. IsSeq(log') /\ IsSeq(answers')
    BY <2>1, <2>2, Zenon
  <2>4. torn' \in BOOLEAN
    <3>1. torn' = torn \/ torn' = TRUE
      OBVIOUS
    <3>2. CASE torn' = torn
      BY <2>1, <3>2, Zenon
    <3>3. CASE torn' = TRUE
      <4> DEFINE t == torn'
      <4>1. t = TRUE
        BY <3>3
      <4> HIDE DEF t
      <4>2. t \in BOOLEAN
        BY <4>1
      <4> QED BY <4>2 DEF t
    <3> QED BY <3>1, <3>2, <3>3
  <2>5. faults' \in Nat
    BY <2>1
  <2> QED BY <2>3, <2>4, <2>5, Zenon
<1> QED BY <1>8, <1>9, <1>10, <1>11 DEF AgreeInv

(* Nothing the agreement speaks of moves.                                  *)
LEMMA NothingMoves ==
  ASSUME AgreeInv, UNCHANGED <<loop, query, log, torn, answers, faults>>
  PROVE  AgreeInv'
<1>1. \A id : Owed(id)' = Owed(id) /\ OwedAddress(id)' = OwedAddress(id)
  BY DEF Owed, OwedAddress
<1>2. \A id : /\ RowsOf(id)' = RowsOf(id) /\ Given(id)' = Given(id)
              /\ AnswersTo(id)' = AnswersTo(id)
              /\ Giving(id)' = Giving(id)
  BY DEF RowsOf, Given, AnswersTo, Giving
<1>3. Unclean' = Unclean
  BY DEF Unclean
<1> QED BY <1>1, <1>2, <1>3 DEF AgreeInv

(* Every step of the sinkhole keeps rows and answers in agreement.         *)
LEMMA AgreeStep ==
  ASSUME AgreeInv, [SinkholeNext]_sinkholeVars
  PROVE  AgreeInv'
<1>1. ASSUME NEW d, Send(d) \/ Lose(d) PROVE AgreeInv'
  <2>1. UNCHANGED <<loop, query, log, torn, answers, faults>>
    BY <1>1 DEF Send, Lose
  <2> QED BY <2>1, NothingMoves
<1>2. ASSUME NEW d, NEW r, Receive(d, r) PROVE AgreeInv'
  <2>1. loop = "receive" /\ loop' \in {"write", "receive"} /\ UNCHANGED <<log, torn, answers, faults>>
    BY <1>2 DEF Receive
  <2> QED BY <2>1, CountsStay
<1>3. CASE WriteEvent
  BY <1>3, LineStep DEF WriteEvent
<1>4. CASE WriteEventFails
  <2>1. /\ loop = "write" /\ loop' = "dead" /\ faults' = faults + 1 /\ UNCHANGED <<query, answers>>
        /\ \/ log' = Append(log, Line) /\ torn' = FALSE
           \/ torn' \in {torn, TRUE} /\ UNCHANGED log
    BY <1>4 DEF WriteEventFails, Fault
  <2>2. CASE log' = Append(log, Line) /\ torn' = FALSE
    BY <2>1, <2>2, LineStep
  <2>3. CASE torn' \in {torn, TRUE} /\ UNCHANGED log
    BY <2>1, <2>3, FaultStep
  <2> QED BY <2>1, <2>2, <2>3
<1>5. CASE Answer
  BY <1>5, AnswerStep
<1>6. CASE AnswerFails
  BY <1>6, FaultStep DEF AnswerFails, Fault
<1>7. CASE Restart
  BY <1>7, CountsStay DEF Restart
<1>8. CASE UNCHANGED sinkholeVars
  BY <1>8, NothingMoves DEF sinkholeVars
<1> QED BY <1>1, <1>2, <1>3, <1>4, <1>5, <1>6, <1>7, <1>8 DEF SinkholeNext

(* However often a query is repeated and wherever the log or the socket    *)
(* fails, no answer goes out before its row is in dns.jsonl and none gives *)
(* an address away that a row does not tell of; rows without an answer are *)
(* paid for by faults, and so are the rows a fragment spoils.              *)
THEOREM NoAnswerBeforeItsRow == SinkholeSpec => []RowsAndAnswersAgree
<1>1. SinkholeInit => AgreeInv
  <2> SUFFICES ASSUME SinkholeInit PROVE AgreeInv
    OBVIOUS
  <2>1. log = <<>> /\ answers = <<>> /\ loop = "receive" /\ torn = FALSE /\ faults = 0
    BY DEF SinkholeInit
  <2>2. IsSeq(log) /\ IsSeq(answers) /\ Len(log) = 0 /\ Len(answers) = 0
    BY <2>1 DEF IsSeq
  <2>3. \A A \in SUBSET (1..0) : Cardinality(A) = 0
    <3>1. 1..0 = {}
      OBVIOUS
    <3> QED BY <3>1, FS_EmptySet
  <2>4. Cardinality(Unclean) = 0
    BY <2>2, <2>3 DEF Unclean
  <2>5. \A id : /\ AnswersTo(id) = 0 /\ RowsOf(id) = 0
                /\ Giving(id) = 0 /\ Given(id) = 0
    BY <2>2, <2>3, SameCardinality
       DEF AnswersTo, RowsOf, Giving, Given
  <2>6. \A id : Owed(id) = 0 /\ OwedAddress(id) = 0
    BY <2>1 DEF Owed, OwedAddress
  <2>7. \A id : /\ AnswersTo(id) + Owed(id) <= RowsOf(id)
                /\ Giving(id) + OwedAddress(id) <= Given(id)
    BY <2>5, <2>6
  <2>8. /\ Len(log) <= Len(answers) + faults + (IF loop = "answer" THEN 1 ELSE 0)
        /\ Cardinality(Unclean) + (IF torn THEN 1 ELSE 0) <= faults
    BY <2>1, <2>2, <2>4
  <2> QED BY <2>1, <2>2, <2>7, <2>8 DEF AgreeInv
<1>2. AgreeInv /\ [SinkholeNext]_sinkholeVars => AgreeInv'
  BY AgreeStep
<1>3. AgreeInv => RowsAndAnswersAgree
  <2> SUFFICES ASSUME AgreeInv PROVE RowsAndAnswersAgree
    OBVIOUS
  <2>1. /\ Len(log) \in Nat /\ Cardinality(Unclean) \in Nat
        /\ \A id : /\ RowsOf(id) \in Nat /\ Given(id) \in Nat
                   /\ AnswersTo(id) \in Nat /\ Giving(id) \in Nat
                   /\ Owed(id) \in Nat /\ OwedAddress(id) \in Nat
    BY CountsAreNumbers DEF AgreeInv
  <2>2. \A id : AnswersTo(id) <= RowsOf(id) /\ Giving(id) <= Given(id)
    BY <2>1 DEF AgreeInv
  <2>3. Cardinality({k \in 1..Len(log) : ~log[k].clean}) <= faults
    BY <2>1, SameCardinality DEF AgreeInv, Unclean
  <2> QED BY <2>2, <2>3 DEF AgreeInv, RowsAndAnswersAgree
<1> QED BY <1>1, <1>2, <1>3, PTL DEF SinkholeSpec

-----------------------------------------------------------------------------
(* The sinkhole: what parseQuestion accepts.                               *)

\* What the labels from byte o on lead to, if those behind it lead where g says.
LabelAt(body, g, o) ==
    IF o > Len(body) THEN NoQuestion
    ELSE LET length == body[o]
             rest == g[o + length + 1]
             label == SubSeq(body, o + 1, o + length)
         IN  IF length = 0 THEN [ok |-> TRUE, name |-> <<>>, end |-> o + 1]
             ELSE IF length > 63 \/ o + length > Len(body) \/ ~rest.ok
             THEN NoQuestion
             ELSE [rest EXCEPT !.name = IF @ = <<>> THEN label
                                        ELSE label \o <<46>> \o @]

(* A label looks ahead in the datagram only, and not beyond its end.       *)
LEMMA LabelLooksAhead ==
  ASSUME NEW body \in Seq(0..255), NEW o \in 1..(Len(body) + 1), NEW g, NEW h,
         \A p \in (o + 1)..(Len(body) + 1) : g[p] = h[p]
  PROVE  LabelAt(body, g, o) = LabelAt(body, h, o)
<1>1. CASE o > Len(body)
  BY <1>1 DEF LabelAt
<1>2. CASE o <= Len(body)
  <2>1. PICK length \in Nat : length = body[o]
    BY <1>2
  <2>2. CASE length = 0 \/ o + length > Len(body)
    BY <1>2, <2>1, <2>2 DEF LabelAt
  <2>3. CASE ~(length = 0 \/ o + length > Len(body))
    <3>1. o + length + 1 \in (o + 1)..(Len(body) + 1)
      BY <1>2, <2>1, <2>3
    <3>2. PICK rest : rest = g[o + length + 1] /\ rest = h[o + length + 1]
      BY <3>1
    <3> QED BY <1>2, <2>1, <2>3, <3>2 DEF LabelAt
  <2> QED BY <2>2, <2>3
<1> QED BY <1>1, <1>2

(* So parseQuestion's reading of the labels is well defined: a function    *)
(* that says where each byte leads is built from the end of the datagram.  *)
LEMMA LabelsAreDefined ==
  ASSUME NEW body \in Seq(0..255)
  PROVE  \E g : g = [o \in 1..Len(body) + 1 |-> LabelAt(body, g, o)]
<1>1. PICK n \in Nat : n = Len(body)
  OBVIOUS
<1> DEFINE
      From(m) == (n + 1 - m)..(n + 1)
      Reads(g, m) == g = [o \in From(m) |-> LabelAt(body, g, o)]
      Readable(m) == \E g : Reads(g, m)
      Bad == {m \in 0..n : ~Readable(m)}
<1>2. \E g : Reads(g, 0)
  <2>1. PICK g : g = [o \in From(0) |-> NoQuestion]
    OBVIOUS
  <2>2. ASSUME NEW o \in From(0) PROVE LabelAt(body, g, o) = NoQuestion
    BY <1>1 DEF LabelAt
  <2> QED BY <2>1, <2>2
<1>3. ASSUME NEW m \in 1..n, NEW g, Reads(g, m - 1) PROVE \E h : Reads(h, m)
  <2>1. PICK k \in 1..n : k = n + 1 - m
    OBVIOUS
  <2>2. PICK h : h = [o \in From(m) |-> IF o = k THEN LabelAt(body, g, k) ELSE g[o]]
    OBVIOUS
  <2>3. From(m) = From(m - 1) \cup {k} /\ k \notin From(m - 1) /\ From(m - 1) = (k + 1)..(n + 1)
    BY <2>1
  <2>4. \A p \in (k + 1)..(n + 1) : h[p] = g[p]
    BY <2>2, <2>3
  <2>5. ASSUME NEW o \in From(m) PROVE h[o] = LabelAt(body, h, o)
    <3>1. o \in k..(n + 1) /\ o \in 1..(Len(body) + 1)
      BY <1>1, <2>1
    <3>2. \A p \in (o + 1)..(Len(body) + 1) : g[p] = h[p]
      BY <1>1, <2>4, <3>1
    <3>3. LabelAt(body, g, o) = LabelAt(body, h, o)
      BY <3>1, <3>2, LabelLooksAhead
    <3>4. CASE o = k
      BY <2>2, <3>3, <3>4
    <3>5. CASE o # k
      <4>1. o \in From(m - 1)
        BY <2>3, <3>5
      <4>2. g[o] = LabelAt(body, g, o)
        BY <1>3, <4>1
      <4> QED BY <2>2, <3>3, <3>5, <4>2
    <3> QED BY <3>4, <3>5
  <2> QED BY <2>2, <2>5
<1>4. Bad = {}
  <2>1. Readable(0) /\ \A m \in 1..n : Readable(m - 1) => Readable(m)
    BY <1>2, <1>3
  <2> HIDE DEF Readable
  <2> SUFFICES ASSUME Bad # {} PROVE FALSE
    OBVIOUS
  <2>2. PICK m \in Bad : \A y \in Bad : m <= y
    <3>1. Bad \subseteq Nat
      OBVIOUS
    <3> HIDE DEF Bad
    <3> QED BY <3>1, LeastNatural
  <2>3. m \in 1..n /\ ~Readable(m)
    BY <2>1, <2>2
  <2>4. m - 1 \in 0..n /\ m - 1 \notin Bad
    BY <2>2, <2>3
  <2> QED BY <2>1, <2>3, <2>4
<1>5. \E g : Reads(g, n)
  <2>1. n \in 0..n
    OBVIOUS
  <2>2. n \notin Bad
    <3> HIDE DEF Bad
    <3> QED BY <1>4
  <2>3. Readable(n)
    <3> HIDE DEF Readable
    <3> QED BY <2>1, <2>2, Zenon
  <2> HIDE DEF Reads
  <2> QED BY <2>3, Zenon DEF Readable
<1>6. From(n) = 1..Len(body) + 1
  BY <1>1
<1> HIDE DEF From
<1> QED BY <1>5, <1>6

(* What labels() computes.                                                 *)
LEMMA LabelsAreRead ==
  ASSUME NEW body \in Seq(0..255)
  PROVE  \E g : /\ \A o \in 1..(Len(body) + 1) : g[o] = LabelAt(body, g, o)
                /\ labels(body) = g[1]
<1> DEFINE Reads(g) == g = [o \in 1..Len(body) + 1 |-> LabelAt(body, g, o)]
<1>1. PICK h : h = CHOOSE g : Reads(g)
  OBVIOUS
<1>2. Reads(h)
  BY <1>1, LabelsAreDefined
<1>3. labels(body) = (CHOOSE g : Reads(g))[1]
  BY DEF labels, LabelAt
<1>4. \A o \in 1..(Len(body) + 1) : h[o] = LabelAt(body, h, o)
  <2>1. PICK D : D = 1..Len(body) + 1
    OBVIOUS
  <2> QED BY <1>2
<1> QED BY <1>1, <1>3, <1>4

\* A chain of labels from byte o on, as WellFormed has it.
Chain(body, starts) ==
    \A s \in starts : IF body[s] = 0 THEN s + 4 <= Len(body)
                      ELSE body[s] <= 63 /\ s + body[s] + 1 \in starts
Chained(body, o) == \E starts \in SUBSET (1..Len(body)) : o \in starts /\ Chain(body, starts)

(* A chain begins with the root label and what has to follow it, or with a *)
(* label and a chain behind it.                                            *)
LEMMA ChainsGoOn ==
  ASSUME NEW body \in Seq(0..255), NEW o \in 1..Len(body)
  PROVE  Chained(body, o) <=> IF body[o] = 0 THEN o + 4 <= Len(body)
                              ELSE body[o] <= 63 /\ Chained(body, o + body[o] + 1)
<1>1. CASE body[o] = 0
  <2>1. o + 4 <= Len(body) => {o} \in SUBSET (1..Len(body)) /\ Chain(body, {o})
    BY <1>1 DEF Chain
  <2>2. Chained(body, o) => o + 4 <= Len(body)
    BY <1>1 DEF Chained, Chain
  <2>3. o + 4 <= Len(body) => Chained(body, o)
    BY <2>1 DEF Chained
  <2> QED BY <1>1, <2>2, <2>3
<1>2. CASE body[o] # 0
  <2>1. PICK p : p = o + body[o] + 1
    OBVIOUS
  <2>2. Chained(body, o) => body[o] <= 63 /\ Chained(body, p)
    BY <1>2, <2>1 DEF Chained, Chain
  <2>3. ASSUME body[o] <= 63, Chained(body, p) PROVE Chained(body, o)
    <3>1. PICK starts \in SUBSET (1..Len(body)) : p \in starts /\ Chain(body, starts)
      BY <2>3 DEF Chained
    <3>2. PICK all : all = starts \cup {o}
      OBVIOUS
    <3>3. all \in SUBSET (1..Len(body)) /\ o \in all
      BY <3>2
    <3>4. Chain(body, all)
      BY <1>2, <2>1, <2>3, <3>1, <3>2 DEF Chain
    <3> QED BY <3>3, <3>4 DEF Chained
  <2> QED BY <1>2, <2>1, <2>2, <2>3
<1> QED BY <1>1, <1>2

(* labels() finds a question exactly when its labels are a chain with the  *)
(* type and class behind it.                                               *)
LEMMA LabelsAreChains ==
  ASSUME NEW body \in Seq(0..255)
  PROVE  labels(body).ok /\ labels(body).end + 3 <= Len(body)
           <=> Chained(body, 1)
<1>1. PICK g : /\ \A o \in 1..(Len(body) + 1) : g[o] = LabelAt(body, g, o)
               /\ labels(body) = g[1]
  BY LabelsAreRead
<1>2. PICK n \in Nat : n = Len(body)
  OBVIOUS
<1> DEFINE
      Question(q) == \E b \in BOOLEAN, end \in Nat : \E name : q = [ok |-> b, name |-> name, end |-> end]
      Leads(o) == Question(g[o]) /\ (g[o].ok /\ g[o].end + 3 <= n <=> Chained(body, o))
      Bad == {m \in 0..n : ~Leads(n + 1 - m)}
<1>3. Question(NoQuestion) /\ ~NoQuestion.ok
  BY Zenon DEF NoQuestion
<1>4. ASSUME NEW q, NEW b \in BOOLEAN, NEW end \in Nat, NEW x, q = [ok |-> b, name |-> x, end |-> end]
      PROVE  Question(q) /\ q.ok = b /\ q.end = end
  <2>1. q.ok = b /\ q.end = end
    BY <1>4
  <2>2. \E name : q = [ok |-> b, name |-> name, end |-> end]
    BY <1>4, Zenon
  <2> QED BY <2>1, <2>2
<1>5. Leads(n + 1)
  <2>1. g[n + 1] = NoQuestion
    <3>1. g[n + 1] = LabelAt(body, g, n + 1) /\ n + 1 > Len(body)
      BY <1>1, <1>2
    <3> QED BY <3>1, Zenon DEF LabelAt
  <2>2. ~Chained(body, n + 1)
    BY <1>2 DEF Chained
  <2> HIDE DEF Question
  <2> QED BY <1>3, <2>1, <2>2
<1>6. ASSUME NEW o \in 1..n, \A p \in (o + 1)..(n + 1) : Leads(p) PROVE Leads(o)
  <2>1. PICK length \in Nat : length = body[o]
    BY <1>2
  <2>2. g[o] = LabelAt(body, g, o)
    BY <1>1, <1>2
  <2>3. Chained(body, o) <=> IF length = 0 THEN o + 4 <= n
                             ELSE length <= 63 /\ Chained(body, o + length + 1)
    BY <1>2, <2>1, ChainsGoOn
  <2>4. CASE length = 0
    <3>1. g[o] = [ok |-> TRUE, name |-> <<>>, end |-> o + 1]
      BY <1>2, <2>1, <2>2, <2>4 DEF LabelAt
    <3> HIDE DEF Question
    <3>2. Question(g[o]) /\ g[o].ok /\ g[o].end = o + 1
      <4>1. PICK end \in Nat : end = o + 1
        OBVIOUS
      <4>2. PICK b \in BOOLEAN : b = TRUE
        OBVIOUS
      <4>3. PICK name : g[o] = [ok |-> b, name |-> name, end |-> end]
        BY <3>1, <4>1, <4>2
      <4>4. Question(g[o]) /\ g[o].ok = b /\ g[o].end = end
        BY <1>4, <4>3
      <4> QED BY <4>1, <4>2, <4>4
    <3> QED BY <2>3, <2>4, <3>2
  <2>5. CASE length # 0 /\ (length > 63 \/ o + length > n)
    <3>1. g[o] = NoQuestion
      BY <1>2, <2>1, <2>2, <2>5 DEF LabelAt
    <3>2. o + length > n => ~Chained(body, o + length + 1)
      BY <1>2, <2>1 DEF Chained
    <3> HIDE DEF Question
    <3> QED BY <1>3, <2>3, <2>5, <3>1, <3>2
  <2>6. CASE length # 0 /\ length <= 63 /\ o + length <= n
    <3>1. PICK p \in (o + 1)..(n + 1) : p = o + length + 1
      BY <2>6
    <3>2. Leads(p)
      BY <1>6, <3>1
    <3>3. PICK b \in BOOLEAN, end \in Nat : \E x : g[p] = [ok |-> b, name |-> x, end |-> end]
      BY <3>2, Zenon
    <3>4. PICK label : label = SubSeq(body, o + 1, o + length)
      OBVIOUS
    <3>5. g[o] = IF ~g[p].ok THEN NoQuestion
                 ELSE [g[p] EXCEPT !.name = IF @ = <<>> THEN label ELSE label \o <<46>> \o @]
      <4>1. ~(o > Len(body)) /\ ~(o + body[o] > Len(body)) /\ ~(body[o] > 63) /\ body[o] # 0
        BY <1>2, <2>1, <2>6
      <4>2. o + body[o] + 1 = p /\ SubSeq(body, o + 1, o + body[o]) = label
        BY <2>1, <3>1, <3>4
      <4> QED BY <2>2, <4>1, <4>2, Zenon DEF LabelAt
    <3>6. CASE ~b
      <4>1. g[o] = NoQuestion
        BY <3>3, <3>5, <3>6
      <4> HIDE DEF Question
      <4> QED BY <1>3, <2>3, <2>6, <3>1, <3>2, <3>3, <3>6, <4>1
    <3>7. CASE b
      <4>1. PICK x : g[p] = [ok |-> b, name |-> x, end |-> end]
        BY <3>3
      <4>2. PICK y : y = IF x = <<>> THEN label ELSE label \o <<46>> \o x
        OBVIOUS
      <4>3. g[o] = [ok |-> b, name |-> y, end |-> end]
        <5>1. g[p].ok = b /\ g[p].name = x
          BY <4>1
        <5>2. g[o] = [g[p] EXCEPT !.name = y]
          BY <3>5, <3>7, <4>2, <5>1, Zenon
        <5> QED BY <4>1, <5>2
      <4> HIDE DEF Question
      <4>4. Question(g[o]) /\ g[o].ok = g[p].ok /\ g[o].end = g[p].end
        <5>1. Question(g[o]) /\ g[o].ok = b /\ g[o].end = end
          BY <1>4, <4>3
        <5>2. g[p].ok = b /\ g[p].end = end
          BY <4>1
        <5> QED BY <5>1, <5>2
      <4> QED BY <2>3, <2>6, <3>1, <3>2, <4>4
    <3> QED BY <3>6, <3>7
  <2>7. length = 0 \/ (length # 0 /\ (length > 63 \/ o + length > n))
        \/ (length # 0 /\ length <= 63 /\ o + length <= n)
    BY <1>2
  <2> HIDE DEF Leads
  <2> QED BY <2>4, <2>5, <2>6, <2>7
<1>7. Bad = {}
  <2> HIDE DEF Leads
  <2> SUFFICES ASSUME Bad # {} PROVE FALSE
    OBVIOUS
  <2>1. PICK m \in Bad : \A y \in Bad : m <= y
    <3>1. Bad \subseteq Nat
      OBVIOUS
    <3> HIDE DEF Bad
    <3> QED BY <3>1, LeastNatural
  <2>2. m \in 1..n /\ ~Leads(n + 1 - m)
    BY <1>5, <2>1
  <2>3. ASSUME NEW p \in (n + 1 - m + 1)..(n + 1) PROVE Leads(p)
    <3>1. PICK q \in 0..n : q = n + 1 - p /\ n + 1 - q = p /\ ~(m <= q)
      BY <2>2
    <3>2. q \notin Bad
      BY <2>1, <3>1
    <3> QED BY <3>1, <3>2
  <2>4. n + 1 - m \in 1..n
    BY <2>2
  <2> QED BY <1>6, <2>2, <2>3, <2>4
<1>8. Leads(1)
  <2> HIDE DEF Leads
  <2>1. n \in 0..n /\ n + 1 - n = 1
    OBVIOUS
  <2> QED BY <1>7, <2>1
<1> HIDE DEF Question
<1> QED BY <1>1, <1>2, <1>8

(* parseQuestion accepts the well formed datagrams and no others.          *)
LEMMA ParsesTheWellFormed ==
  ASSUME NEW d, IsDatagram(d)
  PROVE  parseQuestion(d).ok <=> WellFormed(d)
<1>1. d.body \in Seq(0..255)
  BY DEF IsDatagram
<1>2. WellFormed(d) <=> d.whole /\ d.qdcount # 0 /\ Chained(d.body, 1)
  BY DEF WellFormed, Chained, Chain
<1>3. CASE d.whole /\ d.qdcount # 0
  <2>1. PICK q : q = labels(d.body)
    OBVIOUS
  <2>2. q.ok /\ q.end + 3 <= Len(d.body) <=> Chained(d.body, 1)
    BY <1>1, <2>1, LabelsAreChains
  <2>3. parseQuestion(d).ok <=> q.ok /\ q.end + 3 <= Len(d.body)
    BY <1>3, <2>1 DEF parseQuestion
  <2> QED BY <1>2, <1>3, <2>2, <2>3
<1>4. CASE ~(d.whole /\ d.qdcount # 0)
  <2>1. ~parseQuestion(d).ok
    BY <1>4 DEF parseQuestion, NoQuestion
  <2> QED BY <1>2, <1>4, <2>1
<1> QED BY <1>3, <1>4

\* What is on the wire was sent; what is worked on was on the wire and parsed.
ParsedInv ==
    /\ wire \subseteq Datagrams
    /\ Handling => query \in Datagrams /\ parseQuestion(query).ok

(* No step works on anything else.                                         *)
LEMMA ParsedStep ==
  ASSUME ParsedInv, [SinkholeNext]_sinkholeVars
  PROVE  ParsedInv'
<1>1. ASSUME NEW d \in Datagrams, Send(d) \/ Lose(d) PROVE ParsedInv'
  <2>1. wire' \subseteq Datagrams /\ UNCHANGED <<loop, query>>
    BY <1>1 DEF Send, Lose, ParsedInv
  <2> QED BY <2>1 DEF ParsedInv, Handling
<1>2. ASSUME NEW d \in Datagrams, NEW r \in BOOLEAN, Receive(d, r) PROVE ParsedInv'
  <2>1. wire' \subseteq Datagrams /\ ~Handling
    BY <1>2 DEF Receive, ParsedInv, Handling
  <2>2. CASE parseQuestion(d).ok
    <3>1. query' = d
      BY <1>2, <2>2 DEF Receive
    <3>2. parseQuestion(query').ok
      BY <2>2, <3>1
    <3> QED BY <2>1, <3>1, <3>2 DEF ParsedInv
  <2>3. CASE ~parseQuestion(d).ok
    <3>1. UNCHANGED <<loop, query>>
      BY <1>2, <2>3 DEF Receive
    <3> QED BY <2>1, <3>1 DEF ParsedInv, Handling
  <2> QED BY <2>2, <2>3
<1>3. ASSUME UNCHANGED <<wire, query>>, Handling' => Handling PROVE ParsedInv'
  BY <1>3 DEF ParsedInv
<1>4. CASE WriteEvent \/ WriteEventFails
  BY <1>3, <1>4 DEF WriteEvent, WriteEventFails, Fault, Handling
<1>5. CASE Answer \/ AnswerFails
  BY <1>3, <1>5 DEF Answer, AnswerFails, Fault, Handling
<1>6. CASE Restart
  BY <1>6 DEF Restart, ParsedInv, Handling
<1>7. CASE UNCHANGED sinkholeVars
  BY <1>3, <1>7 DEF sinkholeVars, Handling
<1> QED BY <1>1, <1>2, <1>4, <1>5, <1>6, <1>7 DEF SinkholeNext

(* parseQuestion drops what is malformed and nothing else, for datagrams   *)
(* of any length and content; whatever is logged or answered was parsed.   *)
THEOREM OnlyMalformedIsDropped ==
  ASSUME \A d \in Datagrams : IsDatagram(d)
  PROVE  SinkholeSpec => []DropsOnlyMalformed
<1>1. SinkholeInit => ParsedInv
  BY DEF SinkholeInit, ParsedInv, Handling
<1>2. ParsedInv /\ [SinkholeNext]_sinkholeVars => ParsedInv'
  BY ParsedStep
<1>3. ParsedInv => DropsOnlyMalformed
  BY ParsesTheWellFormed DEF ParsedInv, DropsOnlyMalformed
<1> QED BY <1>1, <1>2, <1>3, PTL DEF SinkholeSpec

-----------------------------------------------------------------------------
(* The sinkhole: what redact leaves of a name.                             *)

\* What a name is made of before and after, and a place a token is replaced at.
Text == Seq(Bytes \cup 0..255 \cup Secrets)
Token(secret) == MatchToken[secret]
Matches(text, token, i) == i + Len(token) <= Len(text) + 1 /\ OccursAt(text, token, i - 1)

\* The rest of text from i on, if the rests behind it are what g says.
RestAt(text, secret, g, i) ==
    IF i > Len(text) THEN <<>>
    ELSE IF Matches(text, Token(secret), i) THEN <<secret>> \o g[i + Len(Token(secret))]
         ELSE <<text[i]>> \o g[i + 1]

(* A token is a word of bytes and not empty.                               *)
LEMMA TokenIsAWord ==
  ASSUME NEW secret \in Secrets
  PROVE  Token(secret) \in Seq(Bytes) /\ Len(Token(secret)) \in Nat \ {0}
BY TokensAreWords DEF Token

(* The rest from i on looks ahead in the text only.                        *)
LEMMA RestLooksAhead ==
  ASSUME NEW text \in Text, NEW secret \in Secrets,
         NEW i \in 1..(Len(text) + Len(Token(secret))), NEW g, NEW h,
         \A p \in (i + 1)..(Len(text) + Len(Token(secret))) : g[p] = h[p]
  PROVE  RestAt(text, secret, g, i) = RestAt(text, secret, h, i)
<1> PICK N \in Nat, T \in Nat \ {0} : N = Len(text) /\ T = Len(Token(secret))
  BY TokenIsAWord DEF Text
<1>1. CASE i > N
  BY <1>1 DEF RestAt
<1>2. CASE i <= N
  <2>1. i + T \in (i + 1)..(N + T) /\ i + 1 \in (i + 1)..(N + T)
    BY <1>2
  <2>2. g[i + T] = h[i + T] /\ g[i + 1] = h[i + 1]
    BY <2>1
  <2> QED BY <1>2, <2>2 DEF RestAt
<1> QED BY <1>1, <1>2

(* So ReplaceToken is well defined: the rests are built from the end.      *)
LEMMA RestsAreDefined ==
  ASSUME NEW text \in Text, NEW secret \in Secrets
  PROVE  \E g : g = [i \in 1..Len(text) + Len(Token(secret)) |-> RestAt(text, secret, g, i)]
<1>1. PICK N \in Nat, T \in Nat \ {0} : N = Len(text) /\ T = Len(Token(secret))
  BY TokenIsAWord DEF Text
<1>2. PICK n \in Nat : n = N + T
  OBVIOUS
<1> DEFINE
      From(m) == (n + 1 - m)..n
      Reads(g, m) == g = [i \in From(m) |-> RestAt(text, secret, g, i)]
      Readable(m) == \E g : Reads(g, m)
      Bad == {m \in 0..n : ~Readable(m)}
<1>3. \E g : Reads(g, 0)
  <2>1. PICK g : g = [i \in {} |-> 0]
    OBVIOUS
  <2>2. From(0) = {}
    OBVIOUS
  <2> QED BY <2>1, <2>2
<1>4. ASSUME NEW m \in 1..n, NEW g, Reads(g, m - 1) PROVE \E h : Reads(h, m)
  <2>1. PICK k \in 1..n : k = n + 1 - m
    OBVIOUS
  <2>2. PICK h : h = [i \in From(m) |-> IF i = k THEN RestAt(text, secret, g, k) ELSE g[i]]
    OBVIOUS
  <2>3. From(m) = From(m - 1) \cup {k} /\ k \notin From(m - 1) /\ From(m - 1) = (k + 1)..n
    BY <2>1
  <2>4. \A p \in (k + 1)..n : h[p] = g[p]
    BY <2>2, <2>3
  <2>5. ASSUME NEW i \in From(m) PROVE h[i] = RestAt(text, secret, h, i)
    <3>1. i \in k..n /\ i \in 1..(Len(text) + Len(Token(secret)))
      BY <1>1, <1>2, <2>1
    <3>2. \A p \in (i + 1)..(Len(text) + Len(Token(secret))) : g[p] = h[p]
      BY <1>1, <1>2, <2>4, <3>1
    <3>3. RestAt(text, secret, g, i) = RestAt(text, secret, h, i)
      BY <3>1, <3>2, RestLooksAhead
    <3>4. CASE i = k
      BY <2>2, <3>3, <3>4
    <3>5. CASE i # k
      <4>1. i \in From(m - 1)
        BY <2>3, <3>5
      <4>2. g[i] = RestAt(text, secret, g, i)
        BY <1>4, <4>1
      <4> QED BY <2>2, <3>3, <3>5, <4>2
    <3> QED BY <3>4, <3>5
  <2> QED BY <2>2, <2>5
<1>5. Bad = {}
  <2>1. Readable(0) /\ \A m \in 1..n : Readable(m - 1) => Readable(m)
    BY <1>3, <1>4
  <2> HIDE DEF Readable
  <2> SUFFICES ASSUME Bad # {} PROVE FALSE
    OBVIOUS
  <2>2. PICK m \in Bad : \A y \in Bad : m <= y
    <3>1. Bad \subseteq Nat
      OBVIOUS
    <3> HIDE DEF Bad
    <3> QED BY <1>2, <3>1, LeastNatural
  <2>3. m \in 1..n /\ ~Readable(m)
    BY <2>1, <2>2
  <2>4. m - 1 \in 0..n /\ m - 1 \notin Bad
    BY <2>2, <2>3
  <2> QED BY <2>1, <2>3, <2>4
<1>6. \E g : Reads(g, n)
  <2>1. n \in 0..n
    OBVIOUS
  <2>2. n \notin Bad
    <3> HIDE DEF Bad
    <3> QED BY <1>5
  <2>3. Readable(n)
    <3> HIDE DEF Readable
    <3> QED BY <2>1, <2>2, Zenon
  <2> HIDE DEF Reads
  <2> QED BY <2>3, Zenon DEF Readable
<1>7. From(n) = 1..Len(text) + Len(Token(secret))
  BY <1>1, <1>2
<1> HIDE DEF From
<1> QED BY <1>6, <1>7

(* What ReplaceToken computes.                                             *)
LEMMA RestsAreRead ==
  ASSUME NEW text \in Text, NEW secret \in Secrets
  PROVE  \E g : /\ \A i \in 1..(Len(text) + Len(Token(secret))) : g[i] = RestAt(text, secret, g, i)
                /\ ReplaceToken(text, secret) = g[1]
<1> DEFINE Reads(g) == g = [i \in 1..Len(text) + Len(Token(secret)) |-> RestAt(text, secret, g, i)]
<1>1. PICK h : h = CHOOSE g : Reads(g)
  OBVIOUS
<1>2. Reads(h)
  BY <1>1, RestsAreDefined
<1>3. ReplaceToken(text, secret) = (CHOOSE g : Reads(g))[1]
  BY DEF ReplaceToken, RestAt, Matches, Token
<1>4. \A i \in 1..(Len(text) + Len(Token(secret))) : h[i] = RestAt(text, secret, h, i)
  <2>1. PICK D : D = 1..Len(text) + Len(Token(secret))
    OBVIOUS
  <2> QED BY <1>2
<1> QED BY <1>1, <1>3, <1>4

(* A list with one more element in front.                                  *)
LEMMA InFront ==
  ASSUME NEW S, NEW x \in S, NEW s \in Seq(S)
  PROVE  /\ <<x>> \o s \in Seq(S) /\ Len(<<x>> \o s) = Len(s) + 1 /\ (<<x>> \o s)[1] = x
         /\ \A j \in 1..Len(s) : (<<x>> \o s)[j + 1] = s[j]
<1>1. PICK one \in Seq(S) : one = <<x>> /\ Len(one) = 1 /\ one[1] = x
  <2>1. <<x>> \in Seq(S) /\ Len(<<x>>) = 1 /\ <<x>>[1] = x
    OBVIOUS
  <2> QED BY <2>1, Zenon
<1>2. PICK N \in Nat : N = Len(s)
  OBVIOUS
<1>3. /\ one \o s \in Seq(S) /\ Len(one \o s) = 1 + N
      /\ \A j \in 1..(1 + N) : (one \o s)[j] = IF j <= 1 THEN one[j] ELSE s[j - 1]
  BY <1>1, <1>2, ConcatProperties
<1>4. ASSUME NEW j \in 1..N PROVE (one \o s)[j + 1] = s[j]
  <2>1. j + 1 \in 1..(1 + N) /\ ~(j + 1 <= 1) /\ (j + 1) - 1 = j
    OBVIOUS
  <2> QED BY <1>3, <2>1
<1>5. (one \o s)[1] = x
  BY <1>1, <1>3
<1> QED BY <1>1, <1>2, <1>3, <1>4, <1>5

\* From a on, k elements of r that replace nothing.
Plain(r, a, k) == \A j \in 1..k : r[a + j - 1] \notin Secrets
\* They are those of text from b on.
Same(r, a, text, b, k) == b + k - 1 <= Len(text) /\ \A j \in 1..k : r[a + j - 1] = text[b + j - 1]

\* What the rest of a text from i on consists of.
Labels(r, text, secret) ==
    \A p \in 1..Len(r) : \/ r[p] = secret /\ \E q \in 1..Len(text) : Matches(text, Token(secret), q)
                         \/ \E q \in 1..Len(text) : text[q] = r[p]
Begins(r, text, i) == \A k \in 1..Len(r) : Plain(r, 1, k) => Same(r, 1, text, i, k)
Copies(r, text, secret) ==
    \A p, k \in 1..Len(r) : p + k - 1 <= Len(r) /\ Plain(r, p, k) =>
        \E q \in 1..Len(text) : Same(r, p, text, q, k) /\ ~Matches(text, Token(secret), q)
Rest(r, text, secret, i) ==
    /\ r \in Text
    /\ Labels(r, text, secret) /\ Begins(r, text, i) /\ Copies(r, text, secret)

\* s is r without its first element.
Shifted(r, s, n) == \A j \in 1..n : r[j + 1] = s[j]

(* The elements behind the first are where they were, one further on.      *)
LEMMA PlainFurther ==
  ASSUME NEW s, NEW r, NEW n \in Nat, Shifted(r, s, n),
         NEW a \in 1..n, NEW k \in Nat, a + k - 1 <= n, Plain(r, a + 1, k)
  PROVE  Plain(s, a, k)
<1>1. ASSUME NEW j \in 1..k PROVE r[(a + 1) + j - 1] = s[a + j - 1]
  <2>1. a + j - 1 \in 1..n /\ (a + j - 1) + 1 = (a + 1) + j - 1
    OBVIOUS
  <2> QED BY <2>1 DEF Shifted
<1> QED BY <1>1 DEF Plain

(* If those equal a run of a text, so do the ones they are shifted from.   *)
LEMMA SameFurther ==
  ASSUME NEW s, NEW r, NEW n \in Nat, Shifted(r, s, n), NEW text, NEW b \in Nat,
         NEW a \in 1..n, NEW k \in Nat, a + k - 1 <= n, Same(s, a, text, b, k)
  PROVE  Same(r, a + 1, text, b, k)
<1>1. ASSUME NEW j \in 1..k PROVE r[(a + 1) + j - 1] = s[a + j - 1]
  <2>1. a + j - 1 \in 1..n /\ (a + j - 1) + 1 = (a + 1) + j - 1
    OBVIOUS
  <2> QED BY <2>1 DEF Shifted
<1> QED BY <1>1 DEF Same

(* So what holds of the rest s holds of the elements of it behind another. *)
LEMMA CopiesFurther ==
  ASSUME NEW text, NEW secret, NEW s, NEW r, NEW n \in Nat, n = Len(s), Shifted(r, s, n),
         Copies(s, text, secret),
         NEW p \in 2..(n + 1), NEW k \in 1..(n + 1), p + k - 1 <= n + 1, Plain(r, p, k)
  PROVE  \E q \in 1..Len(text) : Same(r, p, text, q, k) /\ ~Matches(text, Token(secret), q)
<1>1. PICK a \in 1..n : p = a + 1
  <2>1. p - 1 \in 1..n /\ p = (p - 1) + 1
    OBVIOUS
  <2> QED BY <2>1
<1>2. k \in 1..n /\ a + k - 1 <= n /\ k \in Nat
  BY <1>1
<1>3. Plain(s, a, k)
  BY <1>1, <1>2, PlainFurther
<1>4. PICK q \in 1..Len(text) : Same(s, a, text, q, k) /\ ~Matches(text, Token(secret), q)
  BY <1>2, <1>3 DEF Copies
<1>5. q \in Nat
  OBVIOUS
<1>6. Same(r, a + 1, text, q, k)
  BY <1>2, <1>4, <1>5, SameFurther
<1> QED BY <1>1, <1>4, <1>6

(* A token that is replaced leaves its label in front of the rest.         *)
LEMMA ReplacedInFront ==
  ASSUME NEW text \in Text, NEW secret \in Secrets, NEW i \in 1..Len(text), NEW s, NEW b,
         Rest(s, text, secret, b), Matches(text, Token(secret), i)
  PROVE  Rest(<<secret>> \o s, text, secret, i)
<1>1. s \in Text
  BY DEF Rest
<1>2. PICK n \in Nat : n = Len(s)
  BY <1>1 DEF Text
<1>3. PICK r \in Text : /\ r = <<secret>> \o s /\ Len(r) = n + 1 /\ r[1] = secret
                        /\ \A j \in 1..n : r[j + 1] = s[j]
  <2>1. PICK S : S = Bytes \cup 0..255 \cup Secrets /\ Text = Seq(S)
    BY DEF Text
  <2>2. secret \in S
    BY <2>1
  <2>3. s \in Seq(S)
    BY <1>1, <2>1
  <2>4. PICK r : r = <<secret>> \o s
    OBVIOUS
  <2>5. /\ r \in Seq(S) /\ Len(r) = Len(s) + 1 /\ r[1] = secret
        /\ \A j \in 1..Len(s) : r[j + 1] = s[j]
    BY <2>2, <2>3, <2>4, InFront
  <2> QED BY <1>2, <2>1, <2>4, <2>5
<1>4. Labels(r, text, secret)
  <2> SUFFICES ASSUME NEW p \in 1..(n + 1)
               PROVE  \/ r[p] = secret /\ \E q \in 1..Len(text) : Matches(text, Token(secret), q)
                      \/ \E q \in 1..Len(text) : text[q] = r[p]
    BY <1>3 DEF Labels
  <2>1. CASE p = 1
    BY <1>3, <2>1
  <2>2. CASE p # 1
    <3>1. p - 1 \in 1..n /\ (p - 1) + 1 = p
      BY <2>2
    <3>2. r[p] = s[p - 1]
      BY <1>3, <3>1
    <3> QED BY <1>2, <3>1, <3>2 DEF Rest, Labels
  <2> QED BY <2>1, <2>2
<1>5. ASSUME NEW k \in 1..(n + 1) PROVE ~Plain(r, 1, k)
  <2>1. 1 \in 1..k /\ 1 + 1 - 1 = 1
    OBVIOUS
  <2> QED BY <1>3, <2>1 DEF Plain
<1>6. Begins(r, text, i)
  BY <1>3, <1>5 DEF Begins
<1>7. Copies(r, text, secret)
  <2> SUFFICES ASSUME NEW p \in 1..(n + 1), NEW k \in 1..(n + 1), p + k - 1 <= n + 1, Plain(r, p, k)
               PROVE  \E q \in 1..Len(text) : Same(r, p, text, q, k) /\ ~Matches(text, Token(secret), q)
    BY <1>3 DEF Copies
  <2>1. p # 1
    BY <1>5
  <2>2. p \in 2..(n + 1)
    BY <2>1
  <2>3. Shifted(r, s, n) /\ Copies(s, text, secret)
    BY <1>3 DEF Shifted, Rest
  <2> QED BY <1>2, <2>2, <2>3, CopiesFurther
<1> QED BY <1>3, <1>4, <1>6, <1>7 DEF Rest

(* An element that is not at the beginning of a token is copied.           *)
LEMMA CopiedInFront ==
  ASSUME NEW text \in Text, NEW secret \in Secrets, NEW i \in 1..Len(text), NEW s,
         Rest(s, text, secret, i + 1), ~Matches(text, Token(secret), i)
  PROVE  Rest(<<text[i]>> \o s, text, secret, i)
<1>1. s \in Text
  BY DEF Rest
<1>2. PICK n \in Nat, N \in Nat : n = Len(s) /\ N = Len(text)
  BY <1>1 DEF Text
<1>3. PICK r \in Text : /\ r = <<text[i]>> \o s /\ Len(r) = n + 1 /\ r[1] = text[i]
                        /\ \A j \in 1..n : r[j + 1] = s[j]
  <2>1. PICK S : S = Bytes \cup 0..255 \cup Secrets /\ Text = Seq(S)
    BY DEF Text
  <2>2. text[i] \in S
    <3>1. text \in Seq(S)
      BY <2>1
    <3> QED BY ONLY <3>1, i \in 1..Len(text)
  <2>3. s \in Seq(S)
    BY <1>1, <2>1
  <2>4. PICK r : r = <<text[i]>> \o s
    OBVIOUS
  <2>5. /\ r \in Seq(S) /\ Len(r) = Len(s) + 1 /\ r[1] = text[i]
        /\ \A j \in 1..Len(s) : r[j + 1] = s[j]
    BY <2>2, <2>3, <2>4, InFront
  <2> QED BY <1>2, <2>1, <2>4, <2>5
<1>4. Labels(r, text, secret)
  <2> SUFFICES ASSUME NEW p \in 1..(n + 1)
               PROVE  \/ r[p] = secret /\ \E q \in 1..Len(text) : Matches(text, Token(secret), q)
                      \/ \E q \in 1..Len(text) : text[q] = r[p]
    BY <1>3 DEF Labels
  <2>1. CASE p = 1
    BY <1>3, <2>1
  <2>2. CASE p # 1
    <3>1. p - 1 \in 1..n /\ (p - 1) + 1 = p
      BY <2>2
    <3>2. r[p] = s[p - 1]
      BY <1>3, <3>1
    <3> QED BY <1>2, <3>1, <3>2 DEF Rest, Labels
  <2> QED BY <2>1, <2>2
<1>5. ASSUME NEW k \in 1..(n + 1), Plain(r, 1, k) PROVE Same(r, 1, text, i, k)
  <2>1. CASE k = 1
    <3>1. \A j \in 1..1 : 1 + j - 1 = 1 /\ i + j - 1 = i
      OBVIOUS
    <3>2. i + 1 - 1 <= N
      BY <1>2
    <3> QED BY <1>2, <1>3, <2>1, <3>1, <3>2 DEF Same
  <2>2. CASE k # 1
    <3>1. k - 1 \in 1..n
      BY <2>2
    <3>2. ASSUME NEW j \in 1..(k - 1)
          PROVE  /\ s[1 + j - 1] = r[1 + (j + 1) - 1] /\ j + 1 \in 1..k
                 /\ (i + 1) + j - 1 = i + (j + 1) - 1
      <4>1. j \in 1..n /\ 1 + j - 1 = j /\ 1 + (j + 1) - 1 = j + 1
        OBVIOUS
      <4> QED BY <1>3, <4>1
    <3>3. Plain(s, 1, k - 1)
      BY <1>5, <3>2 DEF Plain
    <3>4. Same(s, 1, text, i + 1, k - 1)
      BY <1>2, <3>1, <3>3 DEF Rest, Begins
    <3>5. i + k - 1 <= N
      BY <1>2, <3>4 DEF Same
    <3>6. ASSUME NEW j \in 1..k PROVE r[1 + j - 1] = text[i + j - 1]
      <4>1. CASE j = 1
        <5>1. 1 + j - 1 = 1 /\ i + j - 1 = i
          BY <4>1
        <5> QED BY <1>3, <5>1
      <4>2. CASE j # 1
        <5>1. j - 1 \in 1..(k - 1) /\ (j - 1) + 1 = j
          BY <4>2
        <5>2. s[1 + (j - 1) - 1] = text[(i + 1) + (j - 1) - 1]
          BY <3>4, <5>1 DEF Same
        <5>3. s[1 + (j - 1) - 1] = r[1 + j - 1] /\ (i + 1) + (j - 1) - 1 = i + j - 1
          BY <3>2, <5>1
        <5> QED BY <5>2, <5>3
      <4> QED BY <4>1, <4>2
    <3> QED BY <1>2, <3>5, <3>6 DEF Same
  <2> QED BY <2>1, <2>2
<1>6. Begins(r, text, i)
  BY <1>3, <1>5 DEF Begins
<1>7. Copies(r, text, secret)
  <2> SUFFICES ASSUME NEW p \in 1..(n + 1), NEW k \in 1..(n + 1), p + k - 1 <= n + 1, Plain(r, p, k)
               PROVE  \E q \in 1..Len(text) : Same(r, p, text, q, k) /\ ~Matches(text, Token(secret), q)
    BY <1>3 DEF Copies
  <2>1. CASE p = 1
    BY <1>5, <2>1
  <2>2. CASE p # 1
    <3>1. p \in 2..(n + 1)
      BY <2>2
    <3>2. Shifted(r, s, n) /\ Copies(s, text, secret)
      BY <1>3 DEF Shifted, Rest
    <3> QED BY <1>2, <3>1, <3>2, CopiesFurther
  <2> QED BY <2>1, <2>2
<1> QED BY <1>3, <1>4, <1>6, <1>7 DEF Rest

(* Every rest of the text is such a rest, from the end on.                 *)
LEMMA EveryRest ==
  ASSUME NEW text \in Text, NEW secret \in Secrets
  PROVE  Rest(ReplaceToken(text, secret), text, secret, 1)
<1>1. PICK N \in Nat, T \in Nat \ {0} : N = Len(text) /\ T = Len(Token(secret))
  BY TokenIsAWord DEF Text
<1>2. PICK g : /\ \A i \in 1..(N + T) : g[i] = RestAt(text, secret, g, i)
               /\ ReplaceToken(text, secret) = g[1]
  BY <1>1, RestsAreRead
<1> DEFINE Good(i) == Rest(g[i], text, secret, i)
           n == N + T
           Bad == {m \in 0..(n - 1) : ~Good(n - m)}
<1>3. ASSUME NEW i \in (N + 1)..n PROVE Good(i)
  <2>1. g[i] = <<>>
    <3>1. i \in 1..(N + T) /\ i > N
      OBVIOUS
    <3>2. g[i] = RestAt(text, secret, g, i)
      BY <1>2, <3>1
    <3> QED BY <1>1, <3>1, <3>2 DEF RestAt
  <2>2. <<>> \in Text /\ Len(<<>>) = 0 /\ 1..0 = {}
    BY EmptySeq DEF Text
  <2> QED BY <2>1, <2>2 DEF Rest, Labels, Begins, Copies
<1>4. ASSUME NEW i \in 1..N, \A j \in (i + 1)..n : Good(j) PROVE Good(i)
  <2>1. i \in 1..(N + T) /\ ~(i > N) /\ i + T \in (i + 1)..n /\ i + 1 \in (i + 1)..n
    BY <1>1
  <2>2. Good(i + T) /\ Good(i + 1)
    BY <1>4, <2>1
  <2>3. CASE Matches(text, Token(secret), i)
    <3>1. g[i] = <<secret>> \o g[i + T]
      BY <1>1, <1>2, <2>1, <2>3 DEF RestAt
    <3> QED BY <1>1, <2>2, <2>3, <3>1, ReplacedInFront
  <2>4. CASE ~Matches(text, Token(secret), i)
    <3>1. g[i] = <<text[i]>> \o g[i + 1]
      BY <1>1, <1>2, <2>1, <2>4 DEF RestAt
    <3> QED BY <1>1, <2>2, <2>4, <3>1, CopiedInFront
  <2> QED BY <2>3, <2>4
<1> HIDE DEF Good
<1>5. Bad = {}
  <2> SUFFICES ASSUME Bad # {} PROVE FALSE
    OBVIOUS
  <2>1. PICK m \in Bad : \A y \in Bad : m <= y
    <3>1. Bad \subseteq Nat
      OBVIOUS
    <3> HIDE DEF Bad
    <3> QED BY <3>1, LeastNatural
  <2>2. PICK i \in 1..n : i = n - m /\ ~Good(i)
    BY <2>1
  <2>3. ASSUME NEW j \in (i + 1)..n PROVE Good(j)
    <3>1. n - j \in 0..(n - 1) /\ n - j < m /\ n - (n - j) = j
      BY <2>1, <2>2
    <3>2. n - j \notin Bad
      BY <2>1, <3>1
    <3> QED BY <3>1, <3>2
  <2>4. i \in 1..N \/ i \in (N + 1)..n
    OBVIOUS
  <2> QED BY <1>3, <1>4, <2>2, <2>3, <2>4
<1>6. Good(1)
  <2>1. n - 1 \in 0..(n - 1) /\ n - (n - 1) = 1
    OBVIOUS
  <2> QED BY <1>5, <2>1
<1> QED BY <1>2, <1>6 DEF Good

(* A token replaced is gone, no other word of bytes comes up that was not  *)
(* there, and a label stands where the token was in the text.              *)
LEMMA ReplaceHides ==
  ASSUME NEW text \in Text, NEW secret \in Secrets, NEW r, r = ReplaceToken(text, secret)
  PROVE  /\ r \in Text
         /\ ~Occurs(r, Token(secret))
         /\ \A w \in Seq(Bytes) \ {<<>>} : Occurs(r, w) => Occurs(text, w)
         /\ \A p \in 1..Len(r) : \/ r[p] = secret /\ Occurs(text, Token(secret))
                                 \/ \E q \in 1..Len(text) : text[q] = r[p]
<1>1. r \in Text /\ Labels(r, text, secret) /\ Copies(r, text, secret)
  BY EveryRest DEF Rest
<1>2. PICK n \in Nat, N \in Nat : n = Len(r) /\ N = Len(text)
  BY <1>1 DEF Text
<1>3. ASSUME NEW w \in Seq(Bytes), w # <<>>, Occurs(r, w)
      PROVE  Occurs(text, w) /\ w # Token(secret)
  <2>1. PICK k \in 1..Len(w) : k = Len(w)
    <3>1. Len(w) \in Nat /\ Len(w) # 0
      BY <1>3, EmptySeq
    <3> QED BY <3>1
  <2>2. PICK i \in 0..n : i + k <= n /\ \A j \in 1..k : r[i + j] = w[j]
    BY <1>2, <1>3, <2>1 DEF Occurs, OccursAt
  <2>3. PICK p \in 1..n : p = i + 1
    <3>1. i + 1 \in 1..n
      BY <2>1, <2>2
    <3> QED BY <3>1
  <2>4. k \in 1..n /\ p + k - 1 <= n
    BY <2>1, <2>2, <2>3
  <2>5. ASSUME NEW j \in 1..k PROVE r[p + j - 1] = w[j] /\ w[j] \in Bytes
    <3>1. p + j - 1 = i + j
      BY <2>1, <2>2, <2>3
    <3>2. r[i + j] = w[j]
      BY <2>2
    <3>3. w[j] \in Bytes
      BY ONLY w \in Seq(Bytes), k \in 1..Len(w), j \in 1..k
    <3> QED BY <3>1, <3>2, <3>3
  <2>6. Plain(r, p, k)
    BY <2>5, SecretsAreNoBytes DEF Plain
  <2>7. PICK q \in 1..N : Same(r, p, text, q, k) /\ ~Matches(text, Token(secret), q)
    BY <1>1, <1>2, <2>4, <2>6 DEF Copies
  <2>8. PICK a \in 0..N : a = q - 1 /\ q = a + 1
    BY <2>7
  <2>9. a + k <= N
    BY <1>2, <2>1, <2>7, <2>8 DEF Same
  <2>10. ASSUME NEW j \in 1..k PROVE text[a + j] = w[j]
    <3>1. q + j - 1 = a + j
      BY <2>1, <2>8
    <3>2. r[p + j - 1] = text[q + j - 1]
      BY <2>7 DEF Same
    <3> QED BY <2>5, <3>1, <3>2
  <2>11. OccursAt(text, w, a)
    BY <2>1, <2>10 DEF OccursAt
  <2>12. Occurs(text, w)
    BY <1>2, <2>1, <2>9, <2>11 DEF Occurs
  <2>13. ASSUME w = Token(secret) PROVE FALSE
    <3>1. q + Len(w) <= Len(text) + 1
      BY <1>2, <2>1, <2>8, <2>9
    <3>2. Matches(text, Token(secret), q)
      BY <2>8, <2>11, <2>13, <3>1 DEF Matches
    <3> QED BY <2>7, <3>2
  <2> QED BY <2>12, <2>13
<1>4. Token(secret) \in Seq(Bytes) /\ Token(secret) # <<>>
  BY TokenIsAWord, EmptySeq
<1>5. ASSUME NEW q \in 1..Len(text), Matches(text, Token(secret), q)
      PROVE  Occurs(text, Token(secret))
  <2>1. PICK a \in 0..N : a = q - 1
    BY <1>2
  <2>2. PICK T \in Nat : T = Len(Token(secret))
    BY TokenIsAWord
  <2>3. a + T <= N /\ OccursAt(text, Token(secret), a)
    BY <1>2, <1>5, <2>1, <2>2 DEF Matches
  <2> QED BY <1>2, <2>2, <2>3 DEF Occurs
<1>6. \A p \in 1..Len(r) : \/ r[p] = secret /\ Occurs(text, Token(secret))
                           \/ \E q \in 1..Len(text) : text[q] = r[p]
  BY <1>1, <1>5 DEF Labels
<1> QED BY <1>1, <1>3, <1>4, <1>6

\* What the text is after k entries of the catalog, if g says what it was before.
AfterAt(text, g, k) == IF k = 0 THEN text ELSE ReplaceToken(g[k - 1], Catalog[k])

(* The passes of redact one after the other are well defined.              *)
LEMMA PassesAreDefined ==
  ASSUME NEW text, NEW n \in Nat
  PROVE  \E g : g = [k \in 0..n |-> AfterAt(text, g, k)]
<1> DEFINE
      Reads(g, m) == g = [k \in 0..m |-> AfterAt(text, g, k)]
      Readable(m) == \E g : Reads(g, m)
      Bad == {m \in 0..n : ~Readable(m)}
<1>1. Readable(0)
  <2>1. PICK g : g = [k \in {0} |-> text]
    OBVIOUS
  <2>2. g = [k \in 0..0 |-> AfterAt(text, g, k)]
    BY <2>1 DEF AfterAt
  <2> QED BY <2>2
<1>2. ASSUME NEW m \in 1..n, NEW g, Reads(g, m - 1) PROVE Readable(m)
  <2>1. PICK h : h = [k \in 0..m |-> IF k = m THEN AfterAt(text, g, m) ELSE g[k]]
    OBVIOUS
  <2>2. ASSUME NEW k \in 0..m PROVE h[k] = AfterAt(text, h, k)
    <3>1. k = 0 \/ k - 1 \in 0..(m - 1)
      OBVIOUS
    <3>2. k # 0 => h[k - 1] = g[k - 1]
      BY <2>1, <3>1
    <3>3. AfterAt(text, h, k) = AfterAt(text, g, k)
      BY <3>2 DEF AfterAt
    <3>4. CASE k = m
      BY <2>1, <3>3, <3>4
    <3>5. CASE k # m
      <4>1. k \in 0..(m - 1)
        BY <3>5
      <4>2. g[k] = AfterAt(text, g, k)
        BY <1>2, <4>1
      <4> QED BY <2>1, <3>3, <3>5, <4>2
    <3> QED BY <3>4, <3>5
  <2>3. Reads(h, m)
    BY <2>1, <2>2
  <2> HIDE DEF Reads
  <2> QED BY <2>3
<1>3. \A m \in 1..n : Readable(m - 1) => Readable(m)
  <2> HIDE DEF Reads
  <2> QED BY <1>2
<1> HIDE DEF Readable
<1>4. Bad = {}
  <2> SUFFICES ASSUME Bad # {} PROVE FALSE
    OBVIOUS
  <2>1. PICK m \in Bad : \A y \in Bad : m <= y
    <3>1. Bad \subseteq Nat
      OBVIOUS
    <3> HIDE DEF Bad
    <3> QED BY <3>1, LeastNatural
  <2>2. m \in 1..n /\ ~Readable(m)
    BY <1>1, <2>1
  <2>3. m - 1 \in 0..n /\ m - 1 \notin Bad
    BY <2>1, <2>2
  <2> QED BY <1>3, <2>2, <2>3
<1>5. Readable(n)
  <2>1. n \in 0..n
    OBVIOUS
  <2> QED BY <1>4, <2>1
<1> HIDE DEF Reads
<1>6. \E g : Reads(g, n)
  BY <1>5, Zenon DEF Readable
<1> QED BY <1>6 DEF Reads

(* What redact computes.                                                   *)
LEMMA PassesAreRead ==
  ASSUME NEW text
  PROVE  \E g : /\ \A k \in 0..Len(Catalog) : g[k] = AfterAt(text, g, k)
                /\ redact(text) = g[Len(Catalog)]
<1> DEFINE Reads(g) == g = [k \in 0..Len(Catalog) |-> AfterAt(text, g, k)]
<1>1. PICK h : h = CHOOSE g : Reads(g)
  OBVIOUS
<1>2. Reads(h)
  <2>1. Len(Catalog) \in Nat
    BY CatalogListsSecrets
  <2> QED BY <1>1, <2>1, PassesAreDefined
<1>3. redact(text) = (CHOOSE g : Reads(g))[Len(Catalog)]
  BY DEF redact, AfterAt
<1>4. \A k \in 0..Len(Catalog) : h[k] = AfterAt(text, h, k)
  <2>1. PICK D : D = 0..Len(Catalog)
    OBVIOUS
  <2> QED BY <1>2
<1> QED BY <1>1, <1>3, <1>4

\* After k entries of the catalog: their tokens are gone, no other came up, labels are of tokens.
Redacted(r, text, k) ==
    /\ r \in Text
    /\ \A w \in Seq(Bytes) \ {<<>>} : Occurs(r, w) => Occurs(text, w)
    /\ \A m \in 1..k : ~Occurs(r, Token(Catalog[m]))
    /\ \A p \in 1..Len(r) : r[p] \in Secrets => r[p] \in tokensIn(text)

(* One more entry of the catalog.                                          *)
LEMMA OnePass ==
  ASSUME NEW text, NEW k \in 1..Len(Catalog), NEW before, Redacted(before, text, k - 1),
         NEW r, r = ReplaceToken(before, Catalog[k])
  PROVE  Redacted(r, text, k)
<1>1. PICK secret \in Secrets : secret = Catalog[k]
  BY CatalogListsSecrets
<1>2. before \in Text
  BY DEF Redacted
<1>3. /\ r \in Text
      /\ ~Occurs(r, Token(secret))
      /\ \A w \in Seq(Bytes) \ {<<>>} : Occurs(r, w) => Occurs(before, w)
      /\ \A p \in 1..Len(r) : \/ r[p] = secret /\ Occurs(before, Token(secret))
                              \/ \E q \in 1..Len(before) : before[q] = r[p]
  BY <1>1, <1>2, ReplaceHides
<1>4. ASSUME NEW s \in Secrets PROVE Token(s) \in Seq(Bytes) \ {<<>>}
  BY <1>4, TokenIsAWord, EmptySeq
<1>5. \A w \in Seq(Bytes) \ {<<>>} : Occurs(r, w) => Occurs(text, w)
  BY <1>3 DEF Redacted
<1>6. ASSUME NEW m \in 1..k PROVE ~Occurs(r, Token(Catalog[m]))
  <2>1. CASE m = k
    BY <1>1, <1>3, <2>1
  <2>2. CASE m # k
    <3>1. m \in 1..(k - 1) /\ m \in 1..Len(Catalog)
      BY <2>2, CatalogListsSecrets
    <3>2. Catalog[m] \in Secrets
      BY ONLY <3>1, CatalogListsSecrets
    <3>3. ~Occurs(before, Token(Catalog[m]))
      BY <3>1 DEF Redacted
    <3> QED BY <1>3, <1>4, <3>2, <3>3
  <2> QED BY <2>1, <2>2
<1>7. ASSUME NEW p \in 1..Len(r), r[p] \in Secrets PROVE r[p] \in tokensIn(text)
  <2>1. CASE r[p] = secret /\ Occurs(before, Token(secret))
    <3>1. Occurs(text, Token(secret))
      BY <1>4, <2>1 DEF Redacted
    <3> QED BY <2>1, <3>1 DEF tokensIn, Token
  <2>2. CASE \E q \in 1..Len(before) : before[q] = r[p]
    BY <1>7, <2>2 DEF Redacted
  <2> QED BY <1>3, <2>1, <2>2
<1> QED BY <1>3, <1>5, <1>6, <1>7 DEF Redacted

(* redact leaves no token of the catalog in a name, whatever their order   *)
(* and however they overlap, and its labels are of tokens of the name.     *)
LEMMA RedactHides ==
  ASSUME NEW text \in Seq(Bytes \cup 0..255)
  PROVE  Redacted(redact(text), text, Len(Catalog))
<1>1. PICK n \in Nat : n = Len(Catalog)
  BY CatalogListsSecrets
<1>2. PICK g : /\ \A k \in 0..n : g[k] = AfterAt(text, g, k)
               /\ redact(text) = g[n]
  BY <1>1, PassesAreRead
<1> DEFINE Good(k) == Redacted(g[k], text, k)
           Bad == {k \in 0..n : ~Good(k)}
<1>3. Good(0)
  <2>1. g[0] = text
    BY <1>2 DEF AfterAt
  <2>2. text \in Text
    BY DEF Text
  <2>3. \A p \in 1..Len(text) : text[p] \notin Secrets
    BY SecretsAreNoBytes
  <2> QED BY <2>1, <2>2, <2>3 DEF Redacted
<1>4. ASSUME NEW k \in 1..n, Good(k - 1) PROVE Good(k)
  <2>1. k \in 0..n /\ k # 0
    OBVIOUS
  <2>2. g[k] = AfterAt(text, g, k)
    BY <1>2, <2>1
  <2>3. g[k] = ReplaceToken(g[k - 1], Catalog[k])
    BY <2>1, <2>2 DEF AfterAt
  <2> QED BY <1>1, <1>4, <2>3, OnePass
<1> HIDE DEF Good
<1>5. Bad = {}
  <2> SUFFICES ASSUME Bad # {} PROVE FALSE
    OBVIOUS
  <2>1. PICK m \in Bad : \A y \in Bad : m <= y
    <3>1. Bad \subseteq Nat
      OBVIOUS
    <3> HIDE DEF Bad
    <3> QED BY <3>1, LeastNatural
  <2>2. m \in 1..n /\ ~Good(m)
    BY <1>3, <2>1
  <2>3. m - 1 \in 0..n /\ m - 1 \notin Bad
    BY <2>1, <2>2
  <2> QED BY <1>4, <2>2, <2>3
<1>6. Good(n)
  <2>1. n \in 0..n
    OBVIOUS
  <2> QED BY <1>5, <2>1
<1> QED BY <1>1, <1>2, <1>6 DEF Good

(* The name that is read from a datagram is made of bytes.                 *)
LEMMA NamesAreBytes ==
  ASSUME NEW d, IsDatagram(d), parseQuestion(d).ok
  PROVE  parseQuestion(d).name \in Seq(0..255)
<1>1. d.body \in Seq(0..255)
  BY DEF IsDatagram
<1>2. PICK body \in Seq(0..255) : body = d.body
  BY <1>1
<1>3. PICK n \in Nat : n = Len(body)
  OBVIOUS
<1>4. PICK g : /\ \A o \in 1..(n + 1) : g[o] = LabelAt(body, g, o)
               /\ labels(body) = g[1]
  BY <1>3, LabelsAreRead
<1> DEFINE Question == [ok : BOOLEAN, name : Seq(0..255), end : Nat]
           Good(o) == g[o] \in Question
           Bad == {m \in 0..n : ~Good(n + 1 - m)}
<1>5. ASSUME NEW o \in 1..(n + 1), \A p \in (o + 1)..(n + 1) : Good(p) PROVE Good(o)
  <2>1. g[o] = LabelAt(body, g, o)
    BY <1>4
  <2>2. NoQuestion \in Question /\ [ok |-> TRUE, name |-> <<>>, end |-> o + 1] \in Question
    BY DEF NoQuestion
  <2>3. CASE o > n
    BY <1>3, <2>1, <2>2, <2>3 DEF LabelAt
  <2>4. CASE o <= n
    <3>1. PICK length \in Nat : length = body[o]
      BY <1>3, <2>4
    <3>2. PICK rest, label : rest = g[o + length + 1] /\ label = SubSeq(body, o + 1, o + length)
      OBVIOUS
    <3>3. CASE length = 0 \/ length > 63 \/ o + length > n \/ ~rest.ok
      <4> HIDE DEF Question
      <4> QED BY <1>3, <2>1, <2>2, <2>4, <3>1, <3>2, <3>3 DEF LabelAt
    <3>4. CASE ~(length = 0 \/ length > 63 \/ o + length > n \/ ~rest.ok)
      <4>1. g[o] = [rest EXCEPT !.name = IF @ = <<>> THEN label ELSE label \o <<46>> \o @]
        BY <1>3, <2>1, <2>4, <3>1, <3>2, <3>4, SMTT(60) DEF LabelAt
      <4>2. o + length + 1 \in (o + 1)..(n + 1)
        BY <2>4, <3>4
      <4>3. rest \in Question
        BY <1>5, <3>2, <4>2
      <4>4. label \in Seq(0..255)
        <5>1. o + 1 \in 1..n /\ o + length \in 1..n
          BY <2>4, <3>4
        <5>2. ASSUME NEW q \in (o + 1)..(o + length) PROVE q \in 1..n /\ body[q] \in 0..255
          <6>1. q \in 1..n
            BY <5>1
          <6>2. q \in 1..Len(body)
            BY <1>3, <6>1
          <6>3. \A x \in 1..Len(body) : body[x] \in 0..255
            <7>1. PICK B : B = 0..255
              OBVIOUS
            <7>2. body \in Seq(B)
              BY <7>1
            <7>3. \A x \in 1..Len(body) : body[x] \in B
              BY ONLY <7>2
            <7> QED BY <7>1, <7>3
          <6> QED BY <6>1, <6>2, <6>3
        <5> QED BY <1>3, <3>2, <5>1, <5>2, SubSeqProperties
      <4>5. label \o <<46>> \o rest.name \in Seq(0..255)
        <5>1. <<46>> \in Seq(0..255) /\ rest.name \in Seq(0..255)
          BY <4>3
        <5> QED BY <4>4, <5>1, ConcatProperties
      <4>6. PICK name \in Seq(0..255) : name = IF rest.name = <<>> THEN label ELSE label \o <<46>> \o rest.name
        BY <4>4, <4>5
      <4>7. g[o] = [rest EXCEPT !.name = name]
        BY <4>1, <4>6
      <4> QED BY <4>3, <4>7
    <3> QED BY <3>3, <3>4
  <2> QED BY <2>3, <2>4
<1> HIDE DEF Good
<1>6. Bad = {}
  <2> SUFFICES ASSUME Bad # {} PROVE FALSE
    OBVIOUS
  <2>1. PICK m \in Bad : \A y \in Bad : m <= y
    <3>1. Bad \subseteq Nat
      OBVIOUS
    <3> HIDE DEF Bad
    <3> QED BY <3>1, LeastNatural
  <2>2. PICK o \in 1..(n + 1) : o = n + 1 - m /\ ~Good(o)
    BY <2>1
  <2>3. ASSUME NEW p \in (o + 1)..(n + 1) PROVE Good(p)
    <3>1. PICK y \in 0..n : y = n + 1 - p
      OBVIOUS
    <3>2. m \in 0..n /\ y < m /\ n + 1 - y = p
      BY <2>1, <2>2, <3>1
    <3>3. ~(m <= y)
      BY <3>2
    <3>4. y \notin Bad
      <4> HIDE DEF Bad
      <4> QED BY <2>1, <3>3
    <3> QED BY <3>2, <3>4
  <2> QED BY <1>5, <2>2, <2>3
<1>7. Good(1)
  <2>1. n \in 0..n /\ n + 1 - n = 1
    OBVIOUS
  <2> QED BY <1>6, <2>1
<1>8. PICK q : q = labels(body) /\ q.name \in Seq(0..255)
  BY <1>4, <1>7 DEF Good
<1>9. d.whole /\ d.qdcount # 0 /\ parseQuestion(d).name = IF q.name = <<>> THEN <<46>> ELSE q.name
  <2>1. d.whole /\ d.qdcount # 0
    BY DEF parseQuestion, NoQuestion
  <2>2. q.ok /\ q.end + 3 <= Len(d.body)
    BY <1>2, <1>8, <2>1 DEF parseQuestion
  <2> QED BY <1>2, <1>8, <2>1, <2>2 DEF parseQuestion
<1>10. <<46>> \in Seq(0..255)
  OBVIOUS
<1> QED BY <1>8, <1>9, <1>10

(* The row of a query has no token in its name, for any catalog and any    *)
(* name, and each label in it is of a token that canary_match lists.       *)
THEOREM RowsHideTokens ==
  ASSUME \A d \in Datagrams : IsDatagram(d)
  PROVE  SinkholeSpec => []RowHidesTokens
<1>1. SinkholeInit => ParsedInv
  BY DEF SinkholeInit, ParsedInv, Handling
<1>2. ParsedInv /\ [SinkholeNext]_sinkholeVars => ParsedInv'
  BY ParsedStep
<1>3. ParsedInv => RowHidesTokens
  <2> SUFFICES ASSUME ParsedInv, Handling
               PROVE  /\ \A s \in Secrets : ~Occurs(row.query, MatchToken[s])
                      /\ \A k \in 1..Len(row.query) :
                            row.query[k] \in Secrets =>
                                row.query[k] \in row.canary_match
    BY DEF RowHidesTokens
  <2>1. PICK name \in Seq(0..255) : name = parseQuestion(query).name
    BY NamesAreBytes DEF ParsedInv
  <2>2. row.query = redact(name) /\ row.canary_match = tokensIn(name)
    BY <2>1 DEF row, Event
  <2>3. name \in Seq(Bytes \cup 0..255)
    BY <2>1
  <2>4. Redacted(redact(name), name, Len(Catalog))
    BY <2>3, RedactHides
  <2>5. ASSUME NEW s \in Secrets PROVE ~Occurs(redact(name), MatchToken[s])
    BY <2>4, CatalogListsSecrets DEF Redacted, Token
  <2> QED BY <2>2, <2>4, <2>5 DEF Redacted
<1> QED BY <1>1, <1>2, <1>3, PTL DEF SinkholeSpec
=============================================================================
