------------------------------ MODULE CanaryMatcher ------------------------------
(***************************************************************************)
(* canaryMatcher, which http-listener/main.go and dns-sinkhole/main.go     *)
(* both define: the secrets of canary.json, the search for their tokens    *)
(* and the redaction of a value before it is logged.  A string is a        *)
(* sequence of bytes; the text "[canary:ID]" that replaces a token is one  *)
(* element of the redacted sequence, the id itself, because generated      *)
(* tokens are alphanumeric and a bracket ends every match.                 *)
(***************************************************************************)
EXTENDS Naturals, Sequences

CONSTANTS
    Bytes,         \* bytes of names, bodies and tokens
    Secrets,       \* secret ids of the catalog
    MatchToken,    \* secret id -> its token
    Catalog        \* the secrets in the order of the file

(* loadCanaryMatcher drops the entries without an id or a token.           *)
ASSUME TokensAreWords ==
    /\ MatchToken \in [Secrets -> Seq(Bytes)]
    /\ \A s \in Secrets : Len(MatchToken[s]) > 0
ASSUME CatalogListsSecrets ==
    /\ Catalog \in Seq(Secrets)
    /\ \A s \in Secrets : \E i \in 1..Len(Catalog) : Catalog[i] = s
(* The text put in place of a token is told from the bytes of a name.      *)
ASSUME SecretsAreNoBytes == \A s \in Secrets : s \notin Bytes \cup 0..255

(* strings.Contains                                                        *)
OccursAt(text, token, i) ==
    \A j \in 1..Len(token) : text[i + j] = token[j]

Occurs(text, token) ==
    \E i \in 0..Len(text) : i + Len(token) <= Len(text) /\ OccursAt(text, token, i)

tokensIn(text) == {s \in Secrets : Occurs(text, MatchToken[s])}

(* maxMatchTokenLen                                                        *)
maxMatchTokenLen ==
    IF Secrets = {} THEN 0
    ELSE CHOOSE n \in {Len(MatchToken[s]) : s \in Secrets} :
             \A s \in Secrets : Len(MatchToken[s]) <= n

(* Mutant: only the first occurrence is replaced.                          *)
ReplaceToken_Once(text, secret) ==
    LET token == MatchToken[secret]
        at == {i \in 0..Len(text) : i + Len(token) <= Len(text) /\ OccursAt(text, token, i)}
    IN  IF at = {} THEN text
        ELSE LET first == CHOOSE i \in at : \A j \in at : i <= j
             IN  SubSeq(text, 1, first) \o <<secret>>
                     \o SubSeq(text, first + Len(token) + 1, Len(text))

(* strings.ReplaceAll(text, token, "[canary:" + secret + "]"), leftmost    *)
(* first and without overlap: from[i] is the rest of text from i on.       *)
ReplaceToken(text, secret) ==
    LET token == MatchToken[secret]
        from[i \in 1..Len(text) + Len(token)] ==
            IF i > Len(text) THEN <<>>
            ELSE IF i + Len(token) <= Len(text) + 1 /\ OccursAt(text, token, i - 1)
                 THEN <<secret>> \o from[i + Len(token)]
                 ELSE <<text[i]>> \o from[i + 1]
    IN from[1]

(* redact: the tokens are replaced one after the other, in catalog order.  *)
redact(text) ==
    LET after[k \in 0..Len(Catalog)] ==
            IF k = 0 THEN text ELSE ReplaceToken(after[k - 1], Catalog[k])
    IN after[Len(Catalog)]
=============================================================================
