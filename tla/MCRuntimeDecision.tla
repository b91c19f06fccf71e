-------------------------- MODULE MCRuntimeDecision --------------------------
(* Instances of RuntimeDecision for TLC: campaigns that agree, that are     *)
(* near a tolerance, and that differ in a contact time; one scalar channel, *)
(* one orientation, contacts with one onset and one release.                *)
EXTENDS RuntimeDecision

CONSTANTS nan, zero

Tolerances == [c \in Channels \cup Contacts |-> IF c \in Scalars THEN 10 ELSE 6]

Nominal(b, q) == [baseline |-> [SCALAR |-> <<0, 0, 0>>, ORIENTATION |-> <<0, 0, 0>>],
                 candidate |-> [SCALAR |-> b, ORIENTATION |-> q]]
OneContact(a, b) == [baseline |-> [c \in {10} |-> a], candidate |-> [c \in {10} |-> b]]
TwoContacts(a, b) == [baseline |-> [c \in {10, 20} |-> IF c = 10 THEN a ELSE <<>>],
                      candidate |-> [c \in {10, 20} |-> IF c = 10 THEN b ELSE <<>>]]

Agreeing == [values |-> Nominal(<<0, 0, 0>>, <<0, 1, 1>>), events |-> OneContact(<<2, 6>>, <<2, 6>>)]
Bordering == [values |-> Nominal(<<0, 4, 6>>, <<0, 0, 0>>), events |-> OneContact(<<2, 6>>, <<2, 6>>)]
Differing == [values |-> Nominal(<<9, 9, 9>>, <<7, 7, 7>>), events |-> OneContact(<<2, 6>>, <<2, 6>>)]
OneContactCampaigns == {Agreeing, Bordering, Differing}
LateContact == [values |-> Nominal(<<0, 0, 0>>, <<0, 0, 0>>), events |-> TwoContacts(<<0, 1>>, <<7, 8>>)]
TwoContactCampaigns == {LateContact}

SomeDeviations == [SCALAR |-> {<<20, {0}>>, <<nan, Repeats>>},
                   ORIENTATION |-> {<<20, Repeats>>, <<zero, {0}>>}]
SomeMoves == {<<>>, <<2, 5>>}
LateMoves == {<<6, 7>>}
=============================================================================
