--------------------------- MODULE RegexDetector ----------------------------
(***************************************************************************)
(* The regex detector of internal/detector/tier1_regex.go: scans run while *)
(* the rules are reloaded, switched off and on, and exempted.              *)
(*                                                                         *)
(* Detect works on a copy of the rules, but asks for each rule whether it  *)
(* is disabled or exempt when it comes to it, and then for each match of   *)
(* the rule, one by one, whether it is a known false positive.  A text is  *)
(* known by what matches it, so regular expressions, validators and        *)
(* keyword search are data of the text.                                    *)
(***************************************************************************)
EXTENDS Integers, Sequences, Functions

CONSTANTS
  Scans,         \* calls of Detect, StreamDetect and DetectWithState
  Texts,         \* the texts they are given, see TextShape
  RuleDefs,      \* rules as they may stand in a configuration
  RuleNames,
  NameOf,        \* the name of each of them
  Invalid,       \* those whose pattern does not compile
  DefaultRules,  \* the built-in rule list
  RulesOf,       \* detection.regex_rules of each configuration
  Matches,       \* the strings that rules find in texts
  Keywords,      \* entries of the exemption manager: keywords,
  Patterns,      \* and false-positive patterns
  ExemptedRule,  \* the rule name of each entry
  Covers,        \* the matches each pattern matches
  Fingerprint,   \* the answer "a fingerprint pattern matched"
  Clean,         \* the answer "no match"
  NoAnswer       \* "not returned yet"

Exemptions == Keywords \cup Patterns

\* matches: what each rule finds, in order, and its validator accepts; words: the
\* keywords it contains; fingerprint: one of the fixed patterns matches.
ASSUME TextShape ==
  Texts \subseteq [matches : [RuleDefs -> Seq(Matches)], words : SUBSET Keywords,
                   fingerprint : BOOLEAN]
ASSUME RuleShape ==
  /\ NameOf \in [RuleDefs -> RuleNames] /\ Invalid \subseteq RuleDefs
  /\ DefaultRules \in Seq(RuleDefs)
  /\ \A v \in DOMAIN RulesOf : RulesOf[v] \in Seq(RuleDefs)
ASSUME ExemptionShape ==
  /\ ExemptedRule \in [Exemptions -> RuleNames] /\ Keywords \cap Patterns = {}
  /\ Covers \in [Patterns -> SUBSET Matches]
  /\ {"disabled", "exempt"} \cap Matches = {}
ASSUME ScanAnswers ==
  /\ {Fingerprint, Clean, NoAnswer} \cap RuleDefs = {}
  /\ Fingerprint # Clean /\ Clean # NoAnswer /\ Fingerprint # NoAnswer

VARIABLES
  rules,      \* rd.rules
  disabled,   \* rd.disabledRules
  exemptions, \* what rd.exemptionManager holds in memory
  pc,         \* "idle", "enabled", "exempt", "match" or "returned"
  text,       \* the text of each scan
  copy,       \* its copy of the rules
  at,         \* the rule it is at
  nth,        \* the match of that rule it is at
  found,      \* validMatches is not empty
  answer,     \* what it returned
  started,    \* history: the rules when the scan began
  offEver,    \* history: the reasons to skip a rule that held at some moment of the scan
  offAlways   \* history: those that have held ever since it began

ruleVars   == <<rules, disabled, exemptions>>
scanVars   == <<pc, text, copy, at, nth, found, answer, started>>
reasonVars == <<offEver, offAlways>>
vars == <<ruleVars, scanVars, reasonVars>>

-----------------------------------------------------------------------------
(* Rules, toggles and exemptions.                                          *)

Compiles(d) == d \notin Invalid

\* loadRules, under rd.mu: the configured rules, or the defaults if there are
\* none; what does not compile is skipped.
CompiledRules(v) ==
  SelectSeq(IF RulesOf[v] = <<>> THEN DefaultRules ELSE RulesOf[v], Compiles)

\* Leaving rules out keeps a list of rules one.
ASSUME CompiledShape == \A v \in DOMAIN RulesOf : CompiledRules(v) \in Seq(RuleDefs)

ReloadRules ==
  /\ \E v \in DOMAIN RulesOf : rules' = CompiledRules(v)
  /\ UNCHANGED <<disabled, exemptions, scanVars, reasonVars>>

IsExempt(n, t) == \E e \in exemptions \cap t.words : ExemptedRule[e] = n
IsFalsePositive(n, m) ==
  \E e \in exemptions \cap Patterns : ExemptedRule[e] = n /\ m \in Covers[e]

\* The reasons that hold for a text right now: not to look at a rule, and not to
\* count a match of it.
Off(t) ==
  (disabled \X {"disabled"})
    \cup ({n \in RuleNames : IsExempt(n, t)} \X {"exempt"})
    \cup {r \in RuleNames \X Matches : IsFalsePositive(r[1], r[2])}

Scanning(c) == pc[c] \in {"enabled", "exempt", "match"}

NoteReasons ==
  /\ offEver' = [c \in Scans |-> IF Scanning(c) THEN offEver[c] \cup Off(text[c])' ELSE offEver[c]]
  /\ offAlways' = [c \in Scans |-> IF Scanning(c) THEN offAlways[c] \cap Off(text[c])' ELSE offAlways[c]]

\* Disabling is by name and outlives a reload.
ToggleRule ==
  /\ \E n \in RuleNames : disabled' = disabled \cup {n} \/ disabled' = disabled \ {n}
  /\ UNCHANGED <<rules, exemptions, scanVars>>
  /\ NoteReasons

\* An administrator adds or removes an entry, or the file is loaded.
ChangeExemptions ==
  /\ exemptions' \in SUBSET Exemptions
  /\ UNCHANGED <<rules, disabled, scanVars>>
  /\ NoteReasons

-----------------------------------------------------------------------------
(* Detect.                                                                 *)

\* Under rd.mu the rules are copied.
DetectBegin(c) ==
  /\ pc[c] = "idle"
  /\ offEver' = [offEver EXCEPT ![c] = Off(text[c])]
  /\ offAlways' = [offAlways EXCEPT ![c] = Off(text[c])]
  /\ pc' = [pc EXCEPT ![c] = "enabled"]
  /\ copy' = [copy EXCEPT ![c] = rules]
  /\ started' = [started EXCEPT ![c] = rules]
  /\ UNCHANGED <<ruleVars, text, at, nth, found, answer>>

Rule(c)  == copy[c][at[c]]
More(c)  == at[c] <= Len(copy[c])
Found(c) == text[c].matches[Rule(c)]

\* Mutant: the loop goes on without looking for its end.
SkipRuleUnchecked(c) ==
  pc' = [pc EXCEPT ![c] = "exempt"] /\ at' = [at EXCEPT ![c] = @ + 1]

SkipRule(c) == pc' = [pc EXCEPT ![c] = "enabled"] /\ at' = [at EXCEPT ![c] = @ + 1]
OnTo(c, p)  == pc' = [pc EXCEPT ![c] = p] /\ UNCHANGED at

CheckEnabled(c) ==
  /\ pc[c] = "enabled" /\ More(c)
  /\ IF NameOf[Rule(c)] \in disabled THEN SkipRule(c) ELSE OnTo(c, "exempt")
  /\ UNCHANGED <<ruleVars, text, copy, nth, found, answer, started, reasonVars>>

CheckExempt(c) ==
  /\ pc[c] = "exempt"
  /\ IF IsExempt(NameOf[Rule(c)], text[c]) THEN SkipRule(c) ELSE OnTo(c, "match")
  /\ nth' = [nth EXCEPT ![c] = 1] /\ found' = [found EXCEPT ![c] = FALSE]
  /\ UNCHANGED <<ruleVars, text, copy, answer, started, reasonVars>>

MatchTaken(c, valid) ==
  /\ pc[c] = "match" /\ nth[c] <= Len(Found(c))
  /\ found' = [found EXCEPT ![c] = @ \/ valid]
  /\ UNCHANGED <<ruleVars, pc, text, copy, at, answer, started, reasonVars>>

\* Mutant: a match that is a known false positive counts.
CheckMatchCountsAll(c) == MatchTaken(c, TRUE) /\ nth' = [nth EXCEPT ![c] = @ + 1]

\* Mutant: the first known false positive ends the loop over the matches.
CheckMatchBreaks(c) ==
  LET known == IsFalsePositive(NameOf[Rule(c)], Found(c)[nth[c]]) IN
  /\ MatchTaken(c, ~known)
  /\ nth' = [nth EXCEPT ![c] = IF known THEN Len(Found(c)) + 1 ELSE @ + 1]

\* The loop over the matches asks for each of them on its own, and takes em.mu
\* anew each time: the exemptions may change between two matches.
CheckMatch(c) ==
  /\ MatchTaken(c, ~IsFalsePositive(NameOf[Rule(c)], Found(c)[nth[c]]))
  /\ nth' = [nth EXCEPT ![c] = @ + 1]

\* The first rule with a match that was no known false positive is the answer.
\* The action is the rule's or its override, which never change at run time.
MatchesDone(c) ==
  /\ pc[c] = "match" /\ nth[c] > Len(Found(c))
  /\ IF found[c]
       THEN /\ pc' = [pc EXCEPT ![c] = "returned"]
            /\ answer' = [answer EXCEPT ![c] = Rule(c)]
            /\ UNCHANGED at
       ELSE SkipRule(c) /\ UNCHANGED answer
  /\ UNCHANGED <<ruleVars, text, copy, nth, found, started, reasonVars>>

\* No rule applied: the fingerprints decide.
RulesDone(c) ==
  /\ pc[c] = "enabled" /\ ~More(c)
  /\ pc' = [pc EXCEPT ![c] = "returned"]
  /\ answer' = [answer EXCEPT ![c] = IF text[c].fingerprint THEN Fingerprint ELSE Clean]
  /\ UNCHANGED <<ruleVars, text, copy, at, nth, found, started, reasonVars>>

Scan(c) ==
  \/ DetectBegin(c) \/ CheckEnabled(c) \/ CheckExempt(c)
  \/ CheckMatch(c) \/ MatchesDone(c) \/ RulesDone(c)

\* NewRegexDetector.
Init ==
  /\ \E v \in DOMAIN RulesOf : rules = CompiledRules(v)
  /\ disabled = {}
  /\ exemptions \in SUBSET Exemptions
  /\ pc = [c \in Scans |-> "idle"]
  /\ text \in [Scans -> Texts]
  /\ copy = [c \in Scans |-> <<>>] /\ at = [c \in Scans |-> 1]
  /\ nth = [c \in Scans |-> 1] /\ found = [c \in Scans |-> FALSE]
  /\ answer = [c \in Scans |-> NoAnswer]
  /\ started = [c \in Scans |-> <<>>]
  /\ offEver = [c \in Scans |-> {}] /\ offAlways = [c \in Scans |-> {}]

Next ==
  \/ ReloadRules \/ ToggleRule \/ ChangeExemptions
  \/ \E c \in Scans : Scan(c)

Spec == Init /\ [][Next]_vars

-----------------------------------------------------------------------------
(* Properties.                                                             *)

Reasons == RuleNames \X ({"disabled", "exempt"} \cup Matches)

\* The type invariant.  A scan that asks about a rule is at one of its copy.
TypeOK ==
  /\ rules \in Seq(RuleDefs) /\ disabled \subseteq RuleNames /\ exemptions \subseteq Exemptions
  /\ pc \in [Scans -> {"idle", "enabled", "exempt", "match", "returned"}]
  /\ text \in [Scans -> Texts]
  /\ copy \in [Scans -> Seq(RuleDefs)] /\ started \in [Scans -> Seq(RuleDefs)]
  /\ at \in [Scans -> Nat \ {0}] /\ nth \in [Scans -> Nat \ {0}] /\ found \in [Scans -> BOOLEAN]
  /\ \A c \in Scans : pc[c] \in {"exempt", "match"} => at[c] <= Len(copy[c])
  /\ answer \in [Scans -> RuleDefs \cup {Fingerprint, Clean, NoAnswer}]
  /\ offEver \in [Scans -> SUBSET Reasons] /\ offAlways \in [Scans -> SUBSET Reasons]

\* None of the reasons given stands against rule d in the text of scan c: it is
\* neither disabled nor exempt, and at least one match of it counts.
Open(c, d, reasons) ==
  \E m \in Range(text[c].matches[d]) :
    {<<NameOf[d], "disabled">>, <<NameOf[d], "exempt">>, <<NameOf[d], m>>} \cap reasons = {}

\* Rule i of those in force when the scan began has a match that nothing spoke
\* against at any moment of the scan.
Due(c, i) == Open(c, started[c][i], offEver[c])

\* A reload, a toggle or an exemption under a scan hides no such match: the answer
\* is a rule as early in the list as any that has one.  Not more than that: the
\* matches are looked at one after the other, and a rule whose matches were
\* covered by turns, each when its turn came, is passed over although some match
\* of it counted at every moment.
NothingMissed ==
  \A c \in Scans : \A i \in 1..Len(started[c]) :
    pc[c] = "returned" /\ Due(c, i) => \E j \in 1..i : answer[c] = started[c][j]

\* A rule is reported only if it was in force when the scan began and has a match
\* against which no single reason stood all the time.
NoFalseAlarm ==
  \A c \in Scans : answer[c] \in RuleDefs =>
    /\ \E i \in 1..Len(started[c]) : answer[c] = started[c][i]
    /\ Open(c, answer[c], offAlways[c])

=============================================================================
