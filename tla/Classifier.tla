------------------------------- MODULE Classifier -------------------------------
(***************************************************************************)
(* DownloadClassifier: the verdict on each egress event of a run, from the *)
(* rows of dns.jsonl and http.jsonl and the lists of known domains.        *)
(*                                                                         *)
(* A text is the sequence of its parts, trimmed and in lower case as all   *)
(* comparisons of the code take it: labels, and the marks ".", ":" and "/" *)
(* that normalizeHost and the lists look for.  What java.net.URI makes of  *)
(* a text, what java.net.IDN makes of a label, and the length and entropy  *)
(* of a label are given by constants.                                      *)
(***************************************************************************)
EXTENDS Naturals, Sequences, FiniteSets, SequencesExt

CONSTANTS
    Runs,          \* run_id values
    EgressEvents,  \* egress events the join may report
    HttpEvents, DnsEvents,     \* rows the logs may hold
    DomainLists,   \* reason -> the entries of its list
    UrlHost,       \* URL -> its host, which may be null; others are malformed
    AsciiLabel,    \* label -> its ASCII form, for those that have another one
    IllegalLabels, \* labels IDN.toASCII throws on
    IpLiterals,    \* the texts that are IP literals
    LongLabels,    \* labels of 24 characters or more
    EntropyLabels, \* labels of 16 or more, with a digit and 3.4 bits a character
    Spelled,       \* text -> the labels of the name it spells, of those that spell one
    Nothing,       \* null, or a blank host
    MaxEvents      \* bound: rows and egress events

VARIABLES
    reported,      \* egress events of all runs
    httpSeen, dns, \* rows of http.jsonl and dns.jsonl
    result         \* run -> the last classify()

classifierVars == <<reported, httpSeen, dns, result>>

-----------------------------------------------------------------------------
(* Of equals and endsWith("." + n).                                        *)
Under(name, n) == name = n \/ IsSuffix(<<".">> \o n, name)

Before(mark, text) ==
    LET at == SelectInSeq(text, LAMBDA part : part = mark)
    IN  IF at = 0 THEN text ELSE SubSeq(text, 1, at - 1)

(* A colon that is alone and not the first character begins the port.      *)
WithoutPort(text) ==
    IF Cardinality({i \in DOMAIN text : text[i] = ":"}) = 1 /\ text[1] # ":"
    THEN Before(":", text) ELSE text

WithoutDot(text) == IF IsSuffix(<<".">>, text) THEN Front(text) ELSE text

(* IDN.toASCII throws on a bad label and on an empty one that is not last. *)
toAsciiOrRaw(host) ==
    LET empty == \E i \in DOMAIN host : host[i] = "." /\ (i = 1 \/ host[i - 1] = ".")
    IN  IF empty \/ \E i \in DOMAIN host : host[i] \in IllegalLabels THEN host
        ELSE [i \in DOMAIN host |->
                 IF host[i] \in DOMAIN AsciiLabel THEN AsciiLabel[host[i]] ELSE host[i]]

SchemeEnd == <<":", "/", "/">>
HasPart(text, part) ==
    \E i \in 0..(Len(text) - Len(part)) : SubSeq(text, i + 1, i + Len(part)) = part

(* A text with "://" is taken for a URL; a malformed one stays as it is.   *)
urlHost(text) ==
    IF HasPart(text, SchemeEnd) /\ text \in DOMAIN UrlHost THEN UrlHost[text] ELSE text

normalizeHost(text) ==
    IF urlHost(text) = Nothing THEN <<>>
    ELSE toAsciiOrRaw(WithoutDot(WithoutPort(Before("/", urlHost(text)))))

firstLabel(text) == Before(".", normalizeHost(text))

dnsMatchesEgress(query, host) ==
    /\ query # Nothing /\ host # Nothing
    /\ \/ Under(normalizeHost(query), normalizeHost(host))
       \/ Under(normalizeHost(host), normalizeHost(query))

destination(e) ==
    IF e.host # Nothing THEN e.host
    ELSE IF e.dstIp \in IpLiterals THEN e.dstIp ELSE Nothing

isRawIpDestination(e) == e.host = Nothing /\ e.dstIp \in IpLiterals

matchingDnsCanary(e, dnsRows) ==
    \E row \in dnsRows : row.canary /\ dnsMatchesEgress(row.query, e.host)

highEntropyLabel(label) == label \in EntropyLabels

looksLikeDnsSubdomainExfil(host, dnsRows) ==
    \E row \in dnsRows :
        /\ dnsMatchesEgress(row.query, host)
        /\ firstLabel(row.query) \in LongLabels \/ highEntropyLabel(firstLabel(row.query))

isHighEntropyDomain(host) ==
    normalizeHost(host) \notin IpLiterals /\ highEntropyLabel(firstLabel(normalizeHost(host)))

(* DomainList.matches: an entry with a path is looked for in the text as   *)
(* it stands, one without is compared with the host made of all of it.     *)
ListMatches(list, text) ==
    \E entry \in list :
        IF \E i \in DOMAIN entry : entry[i] = "/"
        THEN \/ text = entry \/ IsPrefix(entry \o <<"/">>, text)
             \/ HasPart(text, SchemeEnd \o entry)
        ELSE Under(normalizeHost(text), entry)

domainRuleCandidate(e) == (IF e.host = Nothing THEN <<>> ELSE e.host) \o e.path

addDomainReasons(e) == 
    {r \in DOMAIN DomainLists : ListMatches(DomainLists[r], domainRuleCandidate(e))}

(* Mutant: every row of the flow must have a body.                         *)
downloadState_All(e, httpRows) ==
    LET rows == {row \in httpRows : e.flow # Nothing /\ row.flow = e.flow}
    IN  IF rows # {} /\ \A row \in rows : row.body THEN "OBSERVED" ELSE "ATTEMPTED"

downloadState(e, httpRows) ==
    IF e.flow # Nothing /\ \E row \in httpRows : row.flow = e.flow /\ row.body
    THEN "OBSERVED" ELSE "ATTEMPTED"

confirmations(e, dnsRows) ==
    {r \in {"canary_match", "dns_canary_match"} :
        IF r = "canary_match" THEN e.canary ELSE matchingDnsCanary(e, dnsRows)}

destinationReasons(e, dnsRows) ==
    LET host == destination(e)
    IN  IF host = Nothing THEN {"unknown_destination"}
        ELSE addDomainReasons(e)
             \cup {r \in {"raw_ip", "dns_exfil", "high_entropy_domain"} :
                     CASE r = "raw_ip" -> isRawIpDestination(e)
                       [] r = "dns_exfil" -> looksLikeDnsSubdomainExfil(host, dnsRows)
                       [] OTHER -> isHighEntropyDomain(host)}

suspicious(reasons) == reasons \ {"synthetic_honeynet_response"} # {}

classifyOne(e, httpRows, dnsRows) ==
    LET confirmed == confirmations(e, dnsRows)
        dnsExfil == IF "dns_canary_match" \in confirmed THEN {"dns_exfil"} ELSE {}
        state == downloadState(e, httpRows)
        synthetic == IF state = "OBSERVED" THEN {"synthetic_honeynet_response"} ELSE {}
        reasons == confirmed \cup dnsExfil \cup destinationReasons(e, dnsRows) \cup synthetic
        disposition == IF confirmed # {} THEN "EXFIL_CONFIRMED"
                       ELSE IF suspicious(reasons) THEN "SUSPICIOUS" ELSE "LEGIT_LOOKING"
    IN  [egress |-> e, disposition |-> disposition, downloadState |-> state,
         reasons |-> IF disposition = "LEGIT_LOOKING"
                     THEN reasons \cup {"no_suspicious_signals"} ELSE reasons]

(* Mutant: the rows of all runs.                                           *)
OfRun_All(events, run) == events

OfRun(events, run) == {event \in events : event.run = run}

(* classify: the egress events of the run with the rows of the run.        *)
classification(run) ==
    {classifyOne(e, OfRun(httpSeen, run), OfRun(dns, run)) : e \in OfRun(reported, run)}

-----------------------------------------------------------------------------
ClassifierInit == reported = {} /\ httpSeen = {} /\ dns = {} /\ result = [run \in Runs |-> {}]

Room == Cardinality(reported) + Cardinality(httpSeen) + Cardinality(dns) < MaxEvents

(* Between two calls the lists of events may have grown.                   *)
AddEgress(e) == /\ Room /\ reported' = reported \cup {e}
                /\ UNCHANGED <<httpSeen, dns, result>>
AddHttp(row) == /\ Room /\ httpSeen' = httpSeen \cup {row}
                /\ UNCHANGED <<reported, dns, result>>
AddDns(row) == /\ Room /\ dns' = dns \cup {row}
               /\ UNCHANGED <<reported, httpSeen, result>>

classify(run) ==
    /\ result' = [result EXCEPT ![run] = classification(run)]
    /\ UNCHANGED <<reported, httpSeen, dns>>

ClassifierNext ==
    \/ \E e \in EgressEvents : AddEgress(e)
    \/ \E row \in HttpEvents : AddHttp(row)
    \/ \E row \in DnsEvents : AddDns(row)
    \/ \E run \in Runs : classify(run)

ClassifierSpec == ClassifierInit /\ [][ClassifierNext]_classifierVars

-----------------------------------------------------------------------------
Severity(d) == CASE d = "LEGIT_LOOKING" -> 0 [] d = "SUSPICIOUS" -> 1 [] OTHER -> 2

(* More rows never soften the verdict on an event: no later row of a log   *)
(* hides what an earlier one showed, nor takes back a completed download.  *)
VerdictNeverSoftens ==
    [][\A r \in Runs : \A old \in result[r] : \E new \in result'[r] :
          /\ new.egress = old.egress
          /\ Severity(new.disposition) >= Severity(old.disposition)
          /\ old.reasons \ {"no_suspicious_signals"} \subseteq new.reasons
          /\ old.downloadState = "OBSERVED" => new.downloadState = "OBSERVED"]_classifierVars

AboveOrBelow(a, b) == IsSuffix(a, b) \/ IsSuffix(b, a)

(* Each time a run is classified, an event to a host that is, is above or  *)
(* is below a name that was looked up with a canary in it comes out        *)
(* confirmed, however the host is spelled, and only for a lookup of that   *)
(* run: the names are compared label by label here.  An event without a    *)
(* host, or one of a request with a canary, does not depend on lookups.    *)
LookupsConfirmTheirRun ==
    [][\A run \in Runs : classify(run) =>
          \A c \in result'[run] :
              LET e == c.egress
                  lookups == {row \in dns : row.run = run /\ row.canary}
                  named(row) == /\ row.query \in DOMAIN Spelled
                                /\ AboveOrBelow(Spelled[row.query], Spelled[e.host])
              IN  e.host = Nothing \/ e.host \in DOMAIN Spelled =>
                      (c.disposition = "EXFIL_CONFIRMED" <=>
                          \/ e.canary
                          \/ e.host # Nothing /\ \E row \in lookups : named(row))]_classifierVars
=============================================================================
