-------------------------- MODULE MCRegexDetector ---------------------------
(* Values of RegexDetector's constants for TLC.                            *)
EXTENDS RegexDetector

CONSTANTS s1, idCard, phone, badPhone, id1, ph1, ph2, word, pat1, pat2, v1, v2, v3

OneScan == {s1}

\* badPhone stands under the name of phone and does not compile.
ThreeRules == {idCard, phone, badPhone}
TwoNames == {idCard, phone}
BadRule == {badPhone}
Names == [d \in RuleDefs |-> IF d = badPhone THEN phone ELSE d]

\* A keyword for the one; for the other two false-positive patterns, each for one
\* of the two phone numbers a text may hold.
ThreeMatches == {id1, ph1, ph2}
OneWord == {word}
TwoPatterns == {pat1, pat2}
EntryFor == [e \in Exemptions |-> IF e = word THEN idCard ELSE phone]
OneEach == [e \in Patterns |-> IF e = pat1 THEN {ph1} ELSE {ph2}]

FoundIn(ids, phones) ==
  [d \in RuleDefs |-> CASE d = idCard -> ids [] d = phone -> phones [] d = badPhone -> <<>>]
AnyText ==
  [matches : {FoundIn(i, p) : i \in {<<>>, <<id1>>}, p \in {<<>>, <<ph1>>, <<ph1, ph2>>}},
   words : SUBSET Keywords, fingerprint : BOOLEAN]

\* A list with both rules, one with the other alone, and none at all.
Lists ==
  [v \in {v1, v2, v3} |->
     CASE v = v1 -> <<idCard, badPhone, phone>> [] v = v2 -> <<phone>> [] v = v3 -> <<>>]
Defaults == <<phone, idCard>>
=============================================================================
