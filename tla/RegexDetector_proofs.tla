------------------------ MODULE RegexDetector_proofs ------------------------
(***************************************************************************)
(* Proofs about RegexDetector, for every number of scans, every rule list  *)
(* and every text: reloads, toggles and exemptions under a scan neither    *)
(* hide a match that is due nor report one that is not.                    *)
(***************************************************************************)
EXTENDS RegexDetector, SequenceTheorems, TLAPS

USE DEF ruleVars, scanVars, reasonVars

\* The reasons for a text are reasons.
LEMMA OffTyped ==
  ASSUME disabled \subseteq RuleNames, NEW t
  PROVE  Off(t) \subseteq Reasons
<1> SUFFICES ASSUME NEW r \in Off(t) PROVE r \in Reasons
  OBVIOUS
<1>1. QED
  BY DEF Off, Reasons

LEMMA TypeInit == Init => TypeOK
<1> SUFFICES ASSUME Init PROVE TypeOK
  OBVIOUS
<1>1. rules \in Seq(RuleDefs)
  BY CompiledShape DEF Init
<1>2. QED
  BY <1>1 DEF Init, TypeOK

\* The rule a scan asks about is one of its copy.
LEMMA RuleTyped ==
  ASSUME TypeOK, NEW c \in Scans, More(c)
  PROVE  Rule(c) \in RuleDefs /\ NameOf[Rule(c)] \in RuleNames /\ at[c] \in 1..Len(copy[c])
<1>1. copy[c] \in Seq(RuleDefs) /\ at[c] \in Nat \ {0} /\ at[c] <= Len(copy[c])
  BY DEF TypeOK, More
<1>2. at[c] \in 1..Len(copy[c])
  BY <1>1
<1>3. QED
  BY <1>1, <1>2, RuleShape DEF Rule

\* What a scan finds for its rule are matches.
LEMMA FoundTyped ==
  ASSUME TypeOK, NEW c \in Scans, NEW d \in RuleDefs
  PROVE  /\ text[c].matches[d] \in Seq(Matches)
         /\ Range(text[c].matches[d]) =
              {text[c].matches[d][k] : k \in 1..Len(text[c].matches[d])}
<1>1. text[c] \in Texts
  BY DEF TypeOK
<1>2. text[c].matches \in [RuleDefs -> Seq(Matches)]
  BY <1>1, TextShape
<1>3. text[c].matches[d] \in Seq(Matches)
  BY <1>2
<1>4. DOMAIN text[c].matches[d] = 1..Len(text[c].matches[d])
  BY <1>3
<1>5. QED
  BY <1>3, <1>4 DEF Range

LEMMA FoundRange ==
  ASSUME TypeOK, NEW c \in Scans, Rule(c) \in RuleDefs
  PROVE  Range(Found(c)) = {Found(c)[k] : k \in 1..Len(Found(c))}
BY FoundTyped DEF Found

\* Going to the next question, or the next rule.
LEMMA AskTyped ==
  ASSUME TypeOK, NEW c \in Scans, SkipRule(c) \/ (More(c) /\ \E p \in {"exempt", "match"} : OnTo(c, p)),
         nth' \in [Scans -> Nat \ {0}], found' \in [Scans -> BOOLEAN],
         UNCHANGED <<ruleVars, text, copy, answer, started, reasonVars>>
  PROVE  TypeOK'
<1>1. pc' \in [Scans -> {"idle", "enabled", "exempt", "match", "returned"}]
  BY DEF SkipRule, OnTo, TypeOK
<1>2. at' \in [Scans -> Nat \ {0}]
  <2>1. at[c] + 1 \in Nat \ {0} /\ at \in [Scans -> Nat \ {0}]
    BY DEF TypeOK
  <2>2. QED
    BY <2>1 DEF SkipRule, OnTo
<1>3. \A d \in Scans : pc'[d] \in {"exempt", "match"} => at'[d] <= Len(copy'[d])
  BY DEF SkipRule, OnTo, More, TypeOK
<1>4. QED
  BY <1>1, <1>2, <1>3 DEF TypeOK

LEMMA TypeNext == TypeOK /\ [Next]_vars => TypeOK'
<1> SUFFICES ASSUME TypeOK, [Next]_vars PROVE TypeOK'
  OBVIOUS
<1>1. CASE UNCHANGED vars
  BY <1>1 DEF vars, TypeOK
<1>2. CASE ReloadRules
  <2>1. rules' \in Seq(RuleDefs)
    BY <1>2, CompiledShape DEF ReloadRules
  <2>2. QED
    BY <1>2, <2>1 DEF ReloadRules, TypeOK
<1>3. CASE ToggleRule \/ ChangeExemptions
  <2>1. disabled' \subseteq RuleNames /\ exemptions' \subseteq Exemptions
    BY <1>3 DEF ToggleRule, ChangeExemptions, TypeOK
  <2>2. \A c \in Scans : Off(text[c])' \subseteq Reasons
    BY <2>1 DEF Off, Reasons
  <2>3. NoteReasons /\ offEver \in [Scans -> SUBSET Reasons] /\ offAlways \in [Scans -> SUBSET Reasons]
    BY <1>3 DEF ToggleRule, ChangeExemptions, TypeOK
  <2>4. offEver' \in [Scans -> SUBSET Reasons]
    BY <2>2, <2>3 DEF NoteReasons
  <2>5. offAlways' \in [Scans -> SUBSET Reasons]
    BY <2>3 DEF NoteReasons
  <2>6. QED
    BY <1>3, <2>1, <2>4, <2>5 DEF ToggleRule, ChangeExemptions, TypeOK
<1>4. ASSUME NEW c \in Scans, DetectBegin(c) PROVE TypeOK'
  <2>1. Off(text[c]) \subseteq Reasons
    BY OffTyped DEF TypeOK
  <2>2. QED
    BY <1>4, <2>1 DEF DetectBegin, TypeOK
<1>5. ASSUME NEW c \in Scans, CheckEnabled(c) PROVE TypeOK'
  <2>1. nth' \in [Scans -> Nat \ {0}] /\ found' \in [Scans -> BOOLEAN]
    BY <1>5 DEF CheckEnabled, TypeOK
  <2>2. QED
    BY <1>5, <2>1, AskTyped DEF CheckEnabled
<1>6. ASSUME NEW c \in Scans, CheckExempt(c) PROVE TypeOK'
  <2>1. nth' \in [Scans -> Nat \ {0}] /\ found' \in [Scans -> BOOLEAN]
    BY <1>6 DEF CheckExempt, TypeOK
  <2>2. QED
    BY <1>6, <2>1, AskTyped DEF CheckExempt, More, TypeOK
<1>7. ASSUME NEW c \in Scans, CheckMatch(c) PROVE TypeOK'
  <2>1. nth' \in [Scans -> Nat \ {0}]
    <3>1. nth[c] + 1 \in Nat \ {0} /\ nth \in [Scans -> Nat \ {0}]
      BY DEF TypeOK
    <3>2. QED
      BY <1>7, <3>1 DEF CheckMatch
  <2>2. found' \in [Scans -> BOOLEAN]
    BY <1>7 DEF CheckMatch, MatchTaken, TypeOK
  <2>3. QED
    BY <1>7, <2>1, <2>2 DEF CheckMatch, MatchTaken, TypeOK
<1>8. ASSUME NEW c \in Scans, MatchesDone(c) PROVE TypeOK'
  <2>1. Rule(c) \in RuleDefs
    BY <1>8, RuleTyped DEF MatchesDone, More, TypeOK
  <2>2. nth' \in [Scans -> Nat \ {0}] /\ found' \in [Scans -> BOOLEAN]
    BY <1>8 DEF MatchesDone, TypeOK
  <2>3. CASE SkipRule(c) /\ UNCHANGED answer
    BY <1>8, <2>2, <2>3, AskTyped DEF MatchesDone
  <2>4. CASE pc' = [pc EXCEPT ![c] = "returned"] /\ answer' = [answer EXCEPT ![c] = Rule(c)]
             /\ UNCHANGED at
    BY <1>8, <2>1, <2>4 DEF MatchesDone, TypeOK
  <2>5. QED
    BY <1>8, <2>3, <2>4 DEF MatchesDone
<1>9. ASSUME NEW c \in Scans, RulesDone(c) PROVE TypeOK'
  BY <1>9 DEF RulesDone, TypeOK
<1>10. QED
  BY <1>1, <1>2, <1>3, <1>4, <1>5, <1>6, <1>7, <1>8, <1>9 DEF Next, Scan

\* Types, and: a scan never asks about a rule beyond its copy.
THEOREM TypeCorrect == Spec => []TypeOK
BY TypeInit, TypeNext, PTL DEF Spec

-----------------------------------------------------------------------------
(* What a scan has established when it is at a rule.                       *)

\* It works on the rules of its beginning, and the history variables bound the
\* reasons that hold now.
Copied(c) == pc[c] # "idle" => started[c] = copy[c]
Bounded(c) ==
  Scanning(c) => offAlways[c] \subseteq Off(text[c]) /\ Off(text[c]) \subseteq offEver[c]

\* The reasons that did not hold when it asked.
Against(c, why) == <<NameOf[Rule(c)], why>>
NotDisabled(c) ==
  pc[c] \in {"exempt", "match"} => Against(c, "disabled") \notin offAlways[c]
NotExempt(c) ==
  pc[c] = "match" => Against(c, "exempt") \notin offAlways[c]

\* Of the matches it has looked at, one counted, or something spoke against each.
Looked(c) ==
  pc[c] = "match" =>
    IF found[c]
      THEN \E k \in 1..Len(Found(c)) : Against(c, Found(c)[k]) \notin offAlways[c]
      ELSE \A k \in 1..(nth[c] - 1) : k <= Len(Found(c)) => Against(c, Found(c)[k]) \in offEver[c]

\* Nothing was due among the rules it has passed.
Passed(c) == pc[c] # "returned" => answer[c] = NoAnswer /\ \A i \in 1..(at[c] - 1) : ~Due(c, i)

Reported(c) ==
  answer[c] \in RuleDefs =>
    /\ \E i \in 1..Len(started[c]) : answer[c] = started[c][i]
    /\ Open(c, answer[c], offAlways[c])
Complete(c) ==
  \A i \in 1..Len(started[c]) :
    pc[c] = "returned" /\ Due(c, i) => \E j \in 1..i : answer[c] = started[c][j]

ScanInv(c) ==
  /\ Copied(c) /\ Bounded(c) /\ NotDisabled(c) /\ NotExempt(c) /\ Looked(c) /\ Passed(c)
  /\ Reported(c) /\ Complete(c)

ScansRight == \A c \in Scans : ScanInv(c)

\* A step of another scan, or of none.
LEMMA ScanKept ==
  ASSUME NEW c \in Scans, ScanInv(c), UNCHANGED <<disabled, exemptions>>,
         pc'[c] = pc[c], text'[c] = text[c], copy'[c] = copy[c], at'[c] = at[c],
         nth'[c] = nth[c], found'[c] = found[c],
         answer'[c] = answer[c], started'[c] = started[c], offEver'[c] = offEver[c],
         offAlways'[c] = offAlways[c]
  PROVE  ScanInv(c)'
<1>1. Off(text[c])' = Off(text[c]) /\ Rule(c)' = Rule(c)
  BY DEF Off, IsExempt, IsFalsePositive, Rule
<1>2. \A i : Due(c, i)' = Due(c, i)
  BY DEF Due, Open
<1>3. Found(c)' = Found(c) /\ \A why : Against(c, why)' = Against(c, why)
  BY <1>1 DEF Found, Against
<1>4. Open(c, answer[c], offAlways[c])' = Open(c, answer[c], offAlways[c])
  BY DEF Open
<1>5. Looked(c)'
  BY <1>3 DEF ScanInv, Looked
<1>6. Reported(c)'
  BY <1>4 DEF ScanInv, Reported
<1>7. QED
  BY <1>1, <1>2, <1>3, <1>5, <1>6 DEF ScanInv, Copied, Bounded, NotDisabled, NotExempt, Passed,
     Complete, Scanning

\* A reason more makes no rule due.
LEMMA OpenLess ==
  ASSUME NEW c, NEW d, NEW R, NEW S, R \subseteq S, Open(c, d, S)
  PROVE  Open(c, d, R)
BY DEF Open

\* A toggle or an exemption under a scan.
LEMMA ScanNoted ==
  ASSUME TypeOK, NEW c \in Scans, ScanInv(c), UNCHANGED scanVars, NoteReasons
  PROVE  ScanInv(c)'
<1>0. Rule(c)' = Rule(c) /\ Found(c)' = Found(c) /\ \A why : Against(c, why)' = Against(c, why)
  BY DEF Rule, Found, Against
<1>1. CASE ~Scanning(c)
  <2>1. offEver'[c] = offEver[c] /\ offAlways'[c] = offAlways[c] /\ ~Scanning(c)'
    BY <1>1 DEF NoteReasons, Scanning
  <2>2. \A i : Due(c, i)' = Due(c, i)
    BY <2>1 DEF Due, Open
  <2>3. Open(c, answer[c], offAlways[c])' = Open(c, answer[c], offAlways[c])
    BY <2>1 DEF Open
  <2>4. Reported(c)'
    BY <2>3 DEF ScanInv, Reported
  <2>5. QED
    BY <1>1, <2>1, <2>2, <2>4 DEF ScanInv, Copied, Bounded, NotDisabled, NotExempt, Looked, Passed,
       Complete, Scanning
<1>2. CASE Scanning(c)
  <2>1. /\ offEver'[c] = offEver[c] \cup Off(text[c])'
        /\ offAlways'[c] = offAlways[c] \cap Off(text[c])'
    BY <1>2 DEF NoteReasons
  <2>2. ASSUME NEW i, Due(c, i)' PROVE Due(c, i)
    <3>1. Open(c, started[c][i], offEver'[c])
      BY <2>2 DEF Due, Open
    <3>2. QED
      BY <2>1, <3>1, OpenLess DEF Due
  <2>3. pc[c] # "returned" /\ answer[c] = NoAnswer /\ NoAnswer \notin RuleDefs
    BY <1>2, ScanAnswers DEF Scanning, ScanInv, Passed
  <2>4. Looked(c)'
    BY <1>0, <2>1 DEF ScanInv, Looked
  <2>5. QED
    BY <1>0, <2>1, <2>2, <2>3, <2>4 DEF ScanInv, Copied, Bounded, NotDisabled, NotExempt, Passed,
       Reported, Complete, Scanning
<1>3. QED
  BY <1>1, <1>2

\* A reason that holds for the rule of the scan makes it no longer due.
LEMMA OffIsNotDue ==
  ASSUME NEW c \in Scans, ScanInv(c), Scanning(c), NEW why \in {"disabled", "exempt"},
         Against(c, why) \in Off(text[c])
  PROVE  ~Due(c, at[c])
<1>1. started[c] = copy[c] /\ Against(c, why) \in offEver[c]
  BY DEF ScanInv, Copied, Bounded, Scanning
<1>2. QED
  BY <1>1 DEF Due, Open, Rule, Against

\* The scan goes on to the next rule.
LEMMA ScanSkips ==
  ASSUME TypeOK, NEW c \in Scans, ScanInv(c), Scanning(c), SkipRule(c), ~Due(c, at[c]),
         UNCHANGED <<ruleVars, text, copy, answer, started, reasonVars>>
  PROVE  ScanInv(c)'
<1>1. pc'[c] = "enabled" /\ at'[c] = at[c] + 1 /\ at[c] \in Nat
  BY DEF SkipRule, TypeOK
<1>2. \A i : Due(c, i)' = Due(c, i)
  BY DEF Due, Open
<1>3. Off(text[c])' = Off(text[c])
  BY DEF Off, IsExempt, IsFalsePositive
<1>4. answer[c] = NoAnswer /\ NoAnswer \notin RuleDefs
  BY ScanAnswers DEF Scanning, ScanInv, Passed
<1>5. \A i \in 1..(at'[c] - 1) : i \in 1..(at[c] - 1) \/ i = at[c]
  BY <1>1
<1>6. Passed(c)'
  BY <1>2, <1>4, <1>5 DEF ScanInv, Passed, Scanning
<1>7. QED
  BY <1>1, <1>3, <1>4, <1>6 DEF ScanInv, Copied, Bounded, NotDisabled, NotExempt, Looked, Reported,
     Complete, Scanning

\* The scan asks the next question about the same rule, or the first about its
\* matches.
LEMMA ScanGoesOn ==
  ASSUME TypeOK, NEW c \in Scans, ScanInv(c), Scanning(c), NEW p \in {"exempt", "match"}, OnTo(c, p),
         Against(c, "disabled") \notin offAlways[c],
         p = "match" => Against(c, "exempt") \notin offAlways[c] /\ nth'[c] = 1 /\ ~found'[c],
         UNCHANGED <<ruleVars, text, copy, answer, started, reasonVars>>
  PROVE  ScanInv(c)'
<1>1. pc'[c] = p /\ at' = at
  BY DEF OnTo, TypeOK
<1>2. \A i : Due(c, i)' = Due(c, i)
  BY DEF Due, Open
<1>3. Off(text[c])' = Off(text[c]) /\ Rule(c)' = Rule(c)
  BY <1>1 DEF Off, IsExempt, IsFalsePositive, Rule
<1>4. answer[c] = NoAnswer /\ NoAnswer \notin RuleDefs
  BY ScanAnswers DEF Scanning, ScanInv, Passed
<1>5. \A why : Against(c, why)' = Against(c, why)
  BY <1>3 DEF Against
<1>6. Looked(c)'
  BY <1>1 DEF Looked
<1>7. QED
  BY <1>1, <1>2, <1>3, <1>4, <1>5, <1>6 DEF ScanInv, Copied, Bounded, NotDisabled, NotExempt, Passed,
     Reported, Complete, Scanning

\* The scan looks at one more match.
LEMMA ScanLooks ==
  ASSUME TypeOK, NEW c \in Scans, ScanInv(c), CheckMatch(c)
  PROVE  ScanInv(c)'
<1>1. /\ pc[c] = "match" /\ pc' = pc /\ at' = at /\ nth[c] \in Nat \ {0}
      /\ nth'[c] = nth[c] + 1 /\ nth[c] <= Len(Found(c))
      /\ UNCHANGED <<ruleVars, text, copy, answer, started, reasonVars>>
  BY DEF CheckMatch, MatchTaken, TypeOK
<1>2. Rule(c) \in RuleDefs /\ NameOf[Rule(c)] \in RuleNames
  BY <1>1, RuleTyped DEF More, TypeOK
<1>3. Found(c) \in Seq(Matches) /\ nth[c] \in 1..Len(Found(c))
  BY <1>1, <1>2, FoundTyped DEF Found
<1>4. Found(c)[nth[c]] \in Matches
  BY <1>3
<1>5. found'[c] = (found[c] \/ ~IsFalsePositive(NameOf[Rule(c)], Found(c)[nth[c]]))
  BY DEF CheckMatch, MatchTaken, TypeOK
<1>6. /\ Off(text[c])' = Off(text[c]) /\ Rule(c)' = Rule(c) /\ Found(c)' = Found(c)
      /\ \A why : Against(c, why)' = Against(c, why)
  BY <1>1 DEF Off, IsExempt, IsFalsePositive, Rule, Found, Against
<1>7. \A i : Due(c, i)' = Due(c, i)
  BY <1>1 DEF Due, Open
<1>8. answer[c] = NoAnswer /\ NoAnswer \notin RuleDefs
  BY <1>1, ScanAnswers DEF ScanInv, Passed
<1>9. offAlways[c] \subseteq Off(text[c]) /\ Off(text[c]) \subseteq offEver[c]
  BY <1>1 DEF ScanInv, Bounded, Scanning
<1>10. Against(c, Found(c)[nth[c]]) \in Off(text[c]) <=>
         IsFalsePositive(NameOf[Rule(c)], Found(c)[nth[c]])
  BY <1>2, <1>4, ExemptionShape DEF Off, Against
<1>11. Looked(c)'
  <2>1. CASE found[c]
    BY <1>1, <1>5, <1>6, <2>1 DEF ScanInv, Looked
  <2>2. CASE ~IsFalsePositive(NameOf[Rule(c)], Found(c)[nth[c]])
    <3>1. Against(c, Found(c)[nth[c]]) \notin offAlways[c]
      BY <1>9, <1>10, <2>2
    <3>2. QED
      BY <1>1, <1>3, <1>5, <1>6, <2>2, <3>1 DEF Looked
  <2>3. CASE ~found[c] /\ IsFalsePositive(NameOf[Rule(c)], Found(c)[nth[c]])
    <3>1. Against(c, Found(c)[nth[c]]) \in offEver[c]
      BY <1>9, <1>10, <2>3
    <3>2. \A k \in 1..(nth'[c] - 1) : k \in 1..(nth[c] - 1) \/ k = nth[c]
      BY <1>1
    <3>3. ~found'[c]
      BY <1>5, <2>3
    <3>4. \A k \in 1..(nth'[c] - 1) :
            k <= Len(Found(c)) => Against(c, Found(c)[k]) \in offEver[c]
      BY <1>1, <2>3, <3>1, <3>2 DEF ScanInv, Looked
    <3>5. QED
      BY <1>1, <1>6, <3>3, <3>4 DEF Looked
  <2>4. QED
    BY <2>1, <2>2, <2>3
<1>12. QED
  BY <1>1, <1>6, <1>7, <1>8, <1>11 DEF ScanInv, Copied, Bounded, NotDisabled, NotExempt, Passed,
     Reported, Complete, Scanning

\* The scan begins.
LEMMA ScanBegins ==
  ASSUME TypeOK, NEW c \in Scans, ScanInv(c), DetectBegin(c), at[c] = 1
  PROVE  ScanInv(c)'
<1>1. /\ pc'[c] = "enabled" /\ copy'[c] = started'[c] /\ at'[c] = 1
      /\ offEver'[c] = Off(text[c]) /\ offAlways'[c] = Off(text[c])
  BY DEF DetectBegin, TypeOK
<1>2. Off(text[c])' = Off(text[c])
  BY DEF DetectBegin, Off, IsExempt, IsFalsePositive
<1>3. answer'[c] = NoAnswer /\ NoAnswer \notin RuleDefs
  BY ScanAnswers DEF DetectBegin, ScanInv, Passed
<1>4. QED
  BY <1>1, <1>2, <1>3 DEF ScanInv, Copied, Bounded, NotDisabled, NotExempt, Looked, Passed,
     Reported, Complete, Scanning

\* The scan reports the rule it is at.
LEMMA ScanReports ==
  ASSUME TypeOK, NEW c \in Scans, ScanInv(c), pc[c] = "match", found[c],
         pc' = [pc EXCEPT ![c] = "returned"], answer' = [answer EXCEPT ![c] = Rule(c)],
         UNCHANGED <<ruleVars, text, copy, at, started, reasonVars>>
  PROVE  ScanInv(c)'
<1>1. pc'[c] = "returned" /\ answer'[c] = Rule(c)
  BY DEF TypeOK
<1>2. at[c] \in 1..Len(copy[c]) /\ started[c] = copy[c] /\ Rule(c) \in RuleDefs
  BY RuleTyped DEF ScanInv, Copied, More, TypeOK
<1>3. \A i : Due(c, i)' = Due(c, i)
  BY DEF Due, Open
<1>4. Open(c, Rule(c), offAlways[c])
  <2>1. PICK k \in 1..Len(Found(c)) : Against(c, Found(c)[k]) \notin offAlways[c]
    BY DEF ScanInv, Looked
  <2>2. Found(c)[k] \in Range(Found(c))
    BY <1>2, FoundRange
  <2>3. Against(c, "disabled") \notin offAlways[c] /\ Against(c, "exempt") \notin offAlways[c]
    BY DEF ScanInv, NotDisabled, NotExempt
  <2>4. QED
    BY <2>1, <2>2, <2>3 DEF Open, Against, Found
<1>5. Reported(c)'
  <2>1. Open(c, answer[c], offAlways[c])'
    BY <1>1, <1>4 DEF Open
  <2>2. QED
    BY <1>1, <1>2, <2>1 DEF Reported, Rule
<1>6. Complete(c)'
  <2> SUFFICES ASSUME NEW i \in 1..Len(started[c]), Due(c, i)
               PROVE  \E j \in 1..i : Rule(c) = started[c][j]
    BY <1>1, <1>3 DEF Complete
  <2>1. i \notin 1..(at[c] - 1)
    BY DEF ScanInv, Passed
  <2>2. copy[c] \in Seq(RuleDefs)
    BY DEF TypeOK
  <2>3. at[c] \in 1..i
    BY <1>2, <2>1, <2>2
  <2>4. QED
    BY <1>2, <2>3 DEF Rule
<1>7. QED
  BY <1>1, <1>2, <1>5, <1>6 DEF ScanInv, Copied, Bounded, NotDisabled, NotExempt, Looked, Passed,
     Scanning

\* A rule each match of which met a reason not to count is not due.
LEMMA NoneCounted ==
  ASSUME TypeOK, NEW c \in Scans, ScanInv(c), pc[c] = "match", ~found[c], nth[c] > Len(Found(c))
  PROVE  ~Due(c, at[c])
<1>1. Rule(c) \in RuleDefs /\ started[c] = copy[c]
  BY RuleTyped DEF ScanInv, Copied, More, TypeOK
<1>2. Found(c) \in Seq(Matches) /\ nth[c] \in Nat
  BY <1>1, FoundTyped DEF Found, TypeOK
<1>3. \A k \in 1..Len(Found(c)) : Against(c, Found(c)[k]) \in offEver[c]
  <2>1. \A k \in 1..Len(Found(c)) : k \in 1..(nth[c] - 1) /\ k <= Len(Found(c))
    BY <1>2
  <2>2. QED
    BY <2>1 DEF ScanInv, Looked
<1>4. \A x \in Range(Found(c)) : Against(c, x) \in offEver[c]
  BY <1>1, <1>3, FoundRange
<1>5. QED
  BY <1>1, <1>4 DEF Due, Open, Found, Rule, Against

\* The scan is through with its rules.
LEMMA ScanEnds ==
  ASSUME TypeOK, NEW c \in Scans, ScanInv(c), RulesDone(c)
  PROVE  ScanInv(c)'
<1>1. pc'[c] = "returned" /\ answer'[c] \notin RuleDefs
  BY ScanAnswers DEF RulesDone, TypeOK
<1>2. \A i : Due(c, i)' = Due(c, i)
  BY DEF RulesDone, Due, Open
<1>3. started[c] = copy[c] /\ at[c] \in Nat \ {0} /\ copy[c] \in Seq(RuleDefs) /\ at[c] > Len(copy[c])
  BY DEF RulesDone, More, ScanInv, Copied, TypeOK
<1>4. \A i \in 1..Len(started[c]) : i \in 1..(at[c] - 1)
  BY <1>3
<1>5. \A i \in 1..Len(started[c]) : ~Due(c, i)
  BY <1>4 DEF RulesDone, ScanInv, Passed
<1>6. Complete(c)'
  BY <1>2, <1>5 DEF RulesDone, Complete
<1>7. QED
  BY <1>1, <1>3, <1>6 DEF RulesDone, ScanInv, Copied, Bounded, NotDisabled, NotExempt, Looked,
     Passed, Reported, Scanning

\* A scan that has not begun is at the first rule.
AtFirst == \A c \in Scans : pc[c] = "idle" => at[c] = 1

LEMMA AtFirstNext == TypeOK /\ AtFirst /\ [Next]_vars => AtFirst'
<1> SUFFICES ASSUME TypeOK, AtFirst, [Next]_vars PROVE AtFirst'
  OBVIOUS
<1>1. CASE UNCHANGED vars \/ ReloadRules \/ ToggleRule \/ ChangeExemptions
  BY <1>1 DEF vars, ReloadRules, ToggleRule, ChangeExemptions, AtFirst
<1>2. ASSUME NEW c \in Scans, Scan(c) PROVE AtFirst'
  BY <1>2 DEF Scan, DetectBegin, CheckEnabled, CheckExempt, CheckMatch, MatchTaken, MatchesDone,
     RulesDone, SkipRule, OnTo, AtFirst, TypeOK
<1>3. QED
  BY <1>1, <1>2 DEF Next

\* A step of scan c keeps what it has established.
LEMMA ScanStepped ==
  ASSUME TypeOK, AtFirst, NEW c \in Scans, ScanInv(c), Scan(c)
  PROVE  ScanInv(c)'
<1>1. CASE DetectBegin(c)
  BY <1>1, ScanBegins DEF AtFirst, DetectBegin
<1>2. CASE CheckEnabled(c)
  <2>1. Scanning(c) /\ Rule(c) \in RuleDefs /\ NameOf[Rule(c)] \in RuleNames
    BY <1>2, RuleTyped DEF CheckEnabled, Scanning
  <2>2. CASE NameOf[Rule(c)] \in disabled
    <3>1. Against(c, "disabled") \in Off(text[c])
      BY <2>2 DEF Off, Against
    <3>2. QED
      BY <1>2, <2>1, <2>2, <3>1, OffIsNotDue, ScanSkips DEF CheckEnabled
  <2>3. CASE NameOf[Rule(c)] \notin disabled
    <3>1. Against(c, "disabled") \notin Off(text[c])
      BY <2>3, ExemptionShape DEF Off, Against
    <3>2. Against(c, "disabled") \notin offAlways[c]
      BY <2>1, <3>1 DEF ScanInv, Bounded
    <3>3. QED
      BY <1>2, <2>1, <2>3, <3>2, ScanGoesOn DEF CheckEnabled
  <2>4. QED
    BY <2>2, <2>3
<1>3. CASE CheckExempt(c)
  <2>1. Scanning(c) /\ Rule(c) \in RuleDefs /\ NameOf[Rule(c)] \in RuleNames
    BY <1>3, RuleTyped DEF CheckExempt, Scanning, More, TypeOK
  <2>2. CASE IsExempt(NameOf[Rule(c)], text[c])
    <3>1. Against(c, "exempt") \in Off(text[c])
      BY <2>1, <2>2 DEF Off, Against
    <3>2. QED
      BY <1>3, <2>1, <2>2, <3>1, OffIsNotDue, ScanSkips DEF CheckExempt
  <2>3. CASE ~IsExempt(NameOf[Rule(c)], text[c])
    <3>1. Against(c, "exempt") \notin Off(text[c])
      BY <2>3, ExemptionShape DEF Off, Against
    <3>2. Against(c, "exempt") \notin offAlways[c]
      BY <2>1, <3>1 DEF ScanInv, Bounded
    <3>3. Against(c, "disabled") \notin offAlways[c]
      BY <1>3 DEF CheckExempt, ScanInv, NotDisabled
    <3>4. nth'[c] = 1 /\ ~found'[c]
      BY <1>3 DEF CheckExempt, TypeOK
    <3>5. QED
      BY <1>3, <2>1, <2>3, <3>2, <3>3, <3>4, ScanGoesOn DEF CheckExempt
  <2>4. QED
    BY <2>2, <2>3
<1>4. CASE CheckMatch(c)
  BY <1>4, ScanLooks
<1>5. CASE MatchesDone(c)
  <2>1. CASE found[c]
    BY <1>5, <2>1, ScanReports DEF MatchesDone
  <2>2. CASE ~found[c]
    BY <1>5, <2>2, NoneCounted, ScanSkips DEF MatchesDone, Scanning
  <2>3. QED
    BY <2>1, <2>2
<1>6. CASE RulesDone(c)
  BY <1>6, ScanEnds
<1>7. QED
  BY <1>1, <1>2, <1>3, <1>4, <1>5, <1>6 DEF Scan

LEMMA ScansNext == TypeOK /\ AtFirst /\ ScansRight /\ [Next]_vars => ScansRight'
<1> SUFFICES ASSUME TypeOK, AtFirst, ScansRight, [Next]_vars, NEW d \in Scans PROVE ScanInv(d)'
  BY DEF ScansRight
<1>0. ScanInv(d)
  BY DEF ScansRight
<1>1. CASE UNCHANGED vars \/ ReloadRules
  BY <1>0, <1>1, ScanKept DEF vars, ReloadRules
<1>2. CASE ToggleRule \/ ChangeExemptions
  BY <1>0, <1>2, ScanNoted DEF ToggleRule, ChangeExemptions
<1>3. ASSUME NEW c \in Scans, Scan(c) PROVE ScanInv(d)'
  <2>1. CASE d = c
    BY <1>0, <1>3, <2>1, ScanStepped
  <2>2. CASE d # c
    <3>1. /\ pc'[d] = pc[d] /\ text'[d] = text[d] /\ copy'[d] = copy[d] /\ at'[d] = at[d]
          /\ nth'[d] = nth[d] /\ found'[d] = found[d]
          /\ answer'[d] = answer[d] /\ started'[d] = started[d] /\ offEver'[d] = offEver[d]
          /\ offAlways'[d] = offAlways[d]
      BY <1>3, <2>2 DEF Scan, DetectBegin, CheckEnabled, CheckExempt, CheckMatch, MatchTaken,
         MatchesDone, RulesDone, SkipRule, OnTo, TypeOK
    <3>2. UNCHANGED <<disabled, exemptions>>
      BY <1>3 DEF Scan, DetectBegin, CheckEnabled, CheckExempt, CheckMatch, MatchTaken,
         MatchesDone, RulesDone
    <3>3. QED
      BY <1>0, <3>1, <3>2, ScanKept
  <2>3. QED
    BY <2>1, <2>2
<1>4. QED
  BY <1>1, <1>2, <1>3 DEF Next

LEMMA ScansInit == Init => ScansRight /\ AtFirst
<1> SUFFICES ASSUME Init PROVE ScansRight /\ AtFirst
  OBVIOUS
<1>1. AtFirst
  BY DEF Init, AtFirst
<1>2. ASSUME NEW c \in Scans PROVE ScanInv(c)
  <2>1. pc[c] = "idle" /\ answer[c] = NoAnswer /\ at[c] = 1 /\ NoAnswer \notin RuleDefs
    BY ScanAnswers DEF Init
  <2>2. QED
    BY <2>1 DEF ScanInv, Copied, Bounded, NotDisabled, NotExempt, Looked, Passed, Reported,
       Complete, Scanning
<1>3. QED
  BY <1>1, <1>2 DEF ScansRight

\* A reload, a toggle or an exemption under a scan hides no match that nothing
\* spoke against at any moment of it (NothingMissed).
THEOREM NothingMissedHolds == Spec => []NothingMissed
<1>1. ScansRight => NothingMissed
  BY DEF ScansRight, ScanInv, Complete, NothingMissed
<1>2. QED
  BY <1>1, TypeCorrect, ScansInit, ScansNext, AtFirstNext, PTL DEF Spec

\* A rule is reported only if it was in force and has a match against which no
\* single reason stood all the time (NoFalseAlarm).
THEOREM NoFalseAlarmHolds == Spec => []NoFalseAlarm
<1>1. ScansRight => NoFalseAlarm
  BY DEF ScansRight, ScanInv, Reported, NoFalseAlarm
<1>2. QED
  BY <1>1, TypeCorrect, ScansInit, ScansNext, AtFirstNext, PTL DEF Spec

=============================================================================
