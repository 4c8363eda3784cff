------------------------------ MODULE MCClassifier ------------------------------
(* Events for the runs of Classifier: hosts that are, are under and are    *)
(* above the names looked up, spelled in several ways, in two runs.        *)
EXTENDS Classifier

CONSTANTS r1, r2, f1, f2, null

\* The text of a name of one, two or three labels.
Text(labels) == [i \in 1..(2 * Len(labels) - 1) |-> IF i % 2 = 0 THEN "." ELSE labels[(i + 1) \div 2]]

Com == <<"com">>
Evil == <<"evil", "com">>
Odd == <<"odd", "evil", "com">>
Long == <<"long", "evil", "com">>
Other == <<"other", "com">>
Listed == <<"x", "listed", "com">>
Coded == <<"xn--u", "evil", "com">>
Hooks == <<"other", ".", "com", "/", "hooks">>

DottedEvil == Text(Evil) \o <<".">>
UrlEvil == <<"http", ":", "/", "/">> \o Text(Evil) \o <<"/", "hooks">>
PortOdd == Text(Odd) \o <<":", "443">>
Accented == Text(<<"u umlaut", "evil", "com">>)
Oversized == Text(<<"64 letters", "evil", "com">>)
\* These spell no name: a URL without a scheme, two last dots, two colons.
Broken == SchemeEnd \o Text(Evil)
TwoDots == DottedEvil \o <<".">>
TwoColons == Text(Evil) \o <<":", "4", ":", "4">>

Names ==
    {Com, Evil, Odd, Long, Other, Listed, Coded, <<"64 letters", "evil", "com">>}
MCSpelled ==
    LET plain == [t \in {Text(n) : n \in Names} |->
                      CHOOSE n \in Names : Text(n) = t]
    IN  [t \in DOMAIN plain \cup {DottedEvil, UrlEvil, PortOdd, Accented} |->
            CASE t \in DOMAIN plain -> plain[t]
              [] t \in {DottedEvil, UrlEvil} -> Evil
              [] t = PortOdd -> Odd
              [] OTHER -> Coded]

Ip == <<"198", ".", "51", ".", "100", ".", "53">>
Api == <<"/", "hooks", "/", "id">>
\* A path with a URL in it: of the host and the path together URI makes no host.
Redirect == <<"/", "to", "=", "https", ":", "/", "/">> \o Hooks
MCUrlHost == [t \in {UrlEvil, UrlEvil \o Api, Text(Listed) \o Redirect, Redirect} |->
                 IF t \in {UrlEvil, UrlEvil \o Api} THEN Text(Evil) ELSE null]

Egress(run, flow, host, path, canary) ==
    [run |-> run, flow |-> flow, host |-> host, path |-> path, dstIp |-> Ip, canary |-> canary]

MCEgress ==
    {Egress(r1, f1, Text(Evil), Api, FALSE), Egress(r1, f1, PortOdd, Api, FALSE),
     Egress(r1, f2, DottedEvil, Api, FALSE), Egress(r1, f2, UrlEvil, Api, FALSE),
     Egress(r1, f2, Accented, Api, FALSE), Egress(r1, f2, Oversized, Api, FALSE), Egress(r1, f2, Broken, Api, FALSE), Egress(r1, f2, TwoDots, <<>>, FALSE),
     Egress(r1, f2, TwoColons, Api, FALSE),
     Egress(r1, f2, Text(Other), Api, TRUE), Egress(r1, f2, Text(Other), <<"/", "hooks">>, FALSE),
     Egress(r1, f2, Text(Listed), Api, FALSE), Egress(r1, f2, Text(Listed), Redirect, FALSE),
     Egress(r1, null, null, <<>>, FALSE), Egress(r1, null, null, Redirect, FALSE),
     [Egress(r1, null, null, <<>>, FALSE) EXCEPT !.dstIp = null],
     Egress(r2, f1, Text(Evil), Api, FALSE)}
MCHttp == {[run |-> r1, flow |-> f1, body |-> TRUE], [run |-> r1, flow |-> f1, body |-> FALSE],
           [run |-> r2, flow |-> f1, body |-> TRUE], [run |-> r1, flow |-> null, body |-> TRUE]}
Row(run, query, canary) == [run |-> run, query |-> query, canary |-> canary]
MCDns == {Row(r1, Text(Evil), FALSE), Row(r1, Text(Odd), TRUE), Row(r1, Text(Long), FALSE),
          Row(r1, Text(Coded), TRUE), Row(r1, Text(Com), TRUE), Row(r1, <<>>, TRUE),
          Row(r1, null, TRUE), Row(r2, Text(Evil), TRUE)}
MCLists == [exfil_service |-> {Hooks}, ephemeral_domain |-> {Text(<<"listed", "com">>)}]
MCAscii == [l \in {"u umlaut"} |-> "xn--u"]
MCIps == {Ip}
MCLong == {<<"long">>}
MCEntropy == {<<"odd">>}
=============================================================================
