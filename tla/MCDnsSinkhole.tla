------------------------------ MODULE MCDnsSinkhole ------------------------------
(* Datagrams and tokens for the runs of DnsSinkhole.                       *)
EXTENDS DnsSinkhole, SequencesExt

CONSTANTS s1, s2

Datagram(id, body) == [id |-> id, whole |-> TRUE, qdcount |-> 1, body |-> body]

(* Three queries: an address, an address of class CHAOS, a name that breaks *)
(* off; and a packet shorter than a header and one without questions.      *)
FewDatagrams ==
    {Datagram(1, <<1, 97, 0, 0, 1, 0, 1>>),
     Datagram(2, <<1, 97, 0, 0, 1, 0, 3>>),
     Datagram(3, <<2, 97>>)}
    \cup {[Datagram(3, <<0, 0, 1, 0, 1>>) EXCEPT !.whole = FALSE],
          [Datagram(3, <<0, 0, 1, 0, 1>>) EXCEPT !.qdcount = 0]}

(* Every question section of up to four bytes, and names of one and two    *)
(* labels with any trailer: cut anywhere or followed by more, lengths that *)
(* lead beyond the end and reserved lengths.                               *)
Some == {0, 1, 64}
Names == {<<0>>} \cup {<<1, x, 0>> : x \in Some} \cup {<<2, x, y, 0>> : x, y \in Some}
         \cup {<<1, x, 1, y, 0>> : x, y \in Some}
AllBodies == {Datagram(1, body) : body \in
                 BoundedSeq(Some, 4) \cup {n \o rest : n \in Names, rest \in BoundedSeq({0, 1}, 5)}}

(* Names of one label of five letters and of labels of three and two.      *)
Letters == {97, 98}
Named == {Datagram(1, <<5>> \o name \o <<0, 0, 1, 0, 1>>) :
              name \in [1..5 -> Letters]}
         \cup {Datagram(2, <<3>> \o SubSeq(name, 1, 3) \o <<2>> \o SubSeq(name, 4, 5)
                             \o <<0, 0, 16, 0, 1>>) : name \in [1..5 -> Letters]}

(* Any traffic of the first, and one datagram of the others by itself.     *)
Few(w, n, q) ==
    w \subseteq FewDatagrams /\ Cardinality(w) <= 2 /\ n < 3 /\ q \in FewDatagrams \cup {<<>>}
MCBounded(w, n, q) == Few(w, n, q) \/ (Cardinality(w) = 1 /\ n = 0)
MCDatagrams == FewDatagrams \cup AllBodies \cup Named

(* Two tokens that overlap each other and themselves.                      *)
MCSecrets == {s1, s2}
MCCatalog == <<s1, s2>>
MCMatchToken == [s \in MCSecrets |-> IF s = s1 THEN <<97, 98, 97>> ELSE <<98, 97>>]
=============================================================================
