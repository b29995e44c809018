--------------------------- MODULE ExemptionStore ---------------------------
(***************************************************************************)
(* The exemption manager of internal/detector/exemption_manager.go: a set  *)
(* of exemptions in memory and in exemptions.yaml, changed by              *)
(* administrators through /admin/whitelist, by hand in the file, and       *)
(* loaded by the watcher, by /admin/exemptions/reload and at startup.      *)
(*                                                                         *)
(* An item is a keyword or a false-positive pattern of a rule.             *)
(***************************************************************************)
EXTENDS FileWatch, FiniteSets

CONSTANTS
  Items,     \* what may be exempted
  Admins,    \* requests to the admin server that run at the same time
  Garbled,   \* what two writers at once may leave in the file
  NoItems,   \* nothing at hand
  MaxCalls,  \* bound: admin requests
  MaxFails,  \* bound: errors of os.WriteFile
  MaxBoots   \* bound: restarts

ASSUME StoreShape ==
  /\ Contents = SUBSET Items
  /\ Garbled \notin Contents \cup {Blank, Absent}
  /\ NoItems \notin Contents

ASSUME StoreBounds == MaxCalls \in Nat /\ MaxFails \in Nat /\ MaxBoots \in Nat

VARIABLES
  memory,   \* em.exemptions and em.falsePositives
  sourced,  \* em.sourceFile is set
  pc,       \* where each admin request stands
  hand,     \* what it is about to write, or has read
  got,      \* what the watcher's callback has read
  calls, fails, boots,
  wanted    \* history: the items after the changes made so far, by whomever

memVars   == <<memory, sourced>>
adminVars == <<pc, hand>>
boundVars == <<calls, fails, boots>>
vars == <<watchVars, memVars, adminVars, boundVars, got, wanted>>

Busy     == \E a \in Admins : pc[a] # "idle"
Calm(a)  == \A b \in Admins \ {a} : pc[b] = "idle"
WatchRest == UNCHANGED <<timerVars, loop, handVars>>

\* What LoadFromFile makes of a file; nothing, if it returns an error.  A member of
\* Contents is the meaning of a text, as LoadFromFile takes it: of two entries for
\* the same rule the later one, and the patterns that compile.  What a hand edit
\* loses that way is outside the model, and hand edits are texts that parse.  Two
\* YAML texts on top of each other may still be one.
Parses(f) ==
  CASE f \in Contents -> {f}
    [] f = Blank      -> {{}}
    [] f = Garbled    -> Contents
    [] f = Absent     -> {}
MayFail(f) == f \in {Garbled, Absent}

-----------------------------------------------------------------------------
(* POST /admin/whitelist: the change, then Persist.                        *)

\* A change is raced if it begins while another request or a load is under way, or
\* while a change by hand is not loaded yet.
Raced(a) == raced \/ ~Calm(a) \/ loop = "apply" \/ saving \/ memory # wanted

\* Under em.mu.  What is wanted is changed in the same way.
Change(a, new) ==
  /\ pc[a] = "idle" /\ calls < MaxCalls
  /\ calls' = calls + 1
  /\ memory' = new
  /\ raced' = Raced(a)
  /\ pc' = [pc EXCEPT ![a] = "persist"]
  /\ WatchRest
  /\ UNCHANGED <<file, watching, events, sourced, hand, fails, boots, got>>

AddKeyword(a) ==
  \E i \in Items : Change(a, memory \cup {i}) /\ wanted' = wanted \cup {i}

RemoveKeyword(a) ==
  \E i \in Items : Change(a, memory \ {i}) /\ wanted' = wanted \ {i}

\* Persist copies memory under the lock, and gives up without a source file:
\* then the change stays in memory although the request fails.
Snapshot(a) ==
  /\ pc[a] = "persist"
  /\ IF sourced
       THEN pc' = [pc EXCEPT ![a] = "open"] /\ hand' = [hand EXCEPT ![a] = memory]
       ELSE pc' = [pc EXCEPT ![a] = "idle"] /\ UNCHANGED hand
  /\ raced' = (raced \/ ~sourced)
  /\ WatchRest
  /\ UNCHANGED <<file, watching, events, memVars, boundVars, got, wanted>>

\* os.WriteFile: O_TRUNC, then the write, without the lock.
PersistOpen(a) ==
  /\ pc[a] = "open"
  /\ Truncate
  /\ pc' = [pc EXCEPT ![a] = "write"]
  /\ WatchRest
  /\ UNCHANGED <<raced, memVars, hand, boundVars, got, wanted>>

\* What a write from the start of the file leaves, if another writer has been
\* there since the truncation.
Overwritten(old, new) ==
  IF old \notin Contents \/ old \subseteq new THEN {new} ELSE {new, Garbled}

PersistWrite(a) ==
  /\ pc[a] = "write"
  /\ \E c \in Overwritten(file, hand[a]) : WriteTo(c)
  /\ pc' = [pc EXCEPT ![a] = "idle"]
  /\ hand' = [hand EXCEPT ![a] = NoItems]
  /\ WatchRest
  /\ UNCHANGED <<raced, memVars, boundVars, got, wanted>>

\* The file the request has opened is not the one of that name any more.
PersistWriteLost(a) ==
  /\ pc[a] = "orphan"
  /\ pc' = [pc EXCEPT ![a] = "idle"]
  /\ hand' = [hand EXCEPT ![a] = NoItems]
  /\ WatchRest
  /\ UNCHANGED <<file, watching, events, raced, memVars, boundVars, got, wanted>>

\* Opening fails and the file stays, or writing does and part of it is written.
PersistFail(a) ==
  /\ pc[a] \in {"open", "write"} /\ fails < MaxFails
  /\ fails' = fails + 1
  /\ raced' = TRUE
  /\ pc' = [pc EXCEPT ![a] = "idle"]
  /\ hand' = [hand EXCEPT ![a] = NoItems]
  /\ \/ UNCHANGED <<file, watching, events>>
     \/ pc[a] = "write" /\ WriteTo(Garbled)
  /\ WatchRest
  /\ UNCHANGED <<memVars, calls, boots, got, wanted>>

-----------------------------------------------------------------------------
(* LoadFromFile: the file is read, and memory replaced under the lock.     *)

\* Mutant: an error of os.ReadFile does not end the request.
ReloadReadAnyway(a) ==
  /\ pc[a] = "idle" /\ calls < MaxCalls
  /\ calls' = calls + 1
  /\ raced' = (Raced(a) \/ file \notin Contents)
  /\ pc' = [pc EXCEPT ![a] = "apply"]
  /\ IF MayFail(file) THEN UNCHANGED hand
     ELSE \E c \in Parses(file) : hand' = [hand EXCEPT ![a] = c]
  /\ WatchRest
  /\ UNCHANGED <<file, watching, events, memVars, fails, boots, got, wanted>>

\* POST /admin/exemptions/reload.
ReloadRead(a) ==
  /\ pc[a] = "idle" /\ calls < MaxCalls
  /\ calls' = calls + 1
  /\ raced' = (Raced(a) \/ file \notin Contents)
  /\ \/ \E c \in Parses(file) :
          pc' = [pc EXCEPT ![a] = "apply"] /\ hand' = [hand EXCEPT ![a] = c]
     \/ MayFail(file) /\ UNCHANGED adminVars
  /\ WatchRest
  /\ UNCHANGED <<file, watching, events, memVars, fails, boots, got, wanted>>

ReloadApply(a) ==
  /\ pc[a] = "apply"
  /\ memory' = hand[a] /\ sourced' = TRUE
  /\ pc' = [pc EXCEPT ![a] = "idle"]
  /\ hand' = [hand EXCEPT ![a] = NoItems]
  /\ WatchRest
  /\ UNCHANGED <<file, watching, events, raced, boundVars, got, wanted>>

\* The callback main gives the watcher.
CallbackRead ==
  /\ loop = "called"
  /\ raced' = (raced \/ Busy)
  /\ \/ \E c \in Parses(file) : loop' = "apply" /\ got' = c
     \/ MayFail(file) /\ loop' = "idle" /\ UNCHANGED got
  /\ UNCHANGED <<file, watching, events, timerVars, handVars, memVars, adminVars, boundVars, wanted>>

\* Mutant: what is loaded is added to what is there.
CallbackMerge ==
  /\ loop = "apply"
  /\ memory' = memory \cup got /\ sourced' = TRUE
  /\ got' = NoItems
  /\ loop' = "idle"
  /\ UNCHANGED <<file, watching, events, timerVars, handVars, raced, adminVars, boundVars, wanted>>

CallbackApply ==
  /\ loop = "apply"
  /\ memory' = got /\ sourced' = TRUE
  /\ got' = NoItems
  /\ loop' = "idle"
  /\ UNCHANGED <<file, watching, events, timerVars, handVars, raced, adminVars, boundVars, wanted>>

-----------------------------------------------------------------------------
(* Changes by hand, the watcher, and restarts.                             *)

\* What is saved by hand is what is wanted from then on.
EditInPlace ==
  /\ HandInPlace(Busy)
  /\ wanted' = IF file' \in Contents THEN file' ELSE wanted
  /\ UNCHANGED <<memVars, adminVars, boundVars, got>>

EditAnew ==
  /\ HandAnew(Busy)
  /\ wanted' = IF file' \in Contents THEN file' ELSE wanted
  /\ pc' = [a \in Admins |-> IF pc[a] = "write" THEN "orphan" ELSE pc[a]]
  /\ UNCHANGED <<memVars, hand, boundVars, got>>

Watcher ==
  /\ WatchStep
  /\ UNCHANGED <<memVars, adminVars, boundVars, got, wanted>>

\* main loads the file and watches it; without a file it does neither, and a file
\* it cannot read leaves memory empty and unsourced.
LoadAtStart(f) == (Parses(f) \X {TRUE}) \cup (IF MayFail(f) THEN {<<{}, FALSE>>} ELSE {})

NotYet == [a \in Admins |-> "idle"]
Nothing == [a \in Admins |-> NoItems]

Restart ==
  /\ boots < MaxBoots
  /\ boots' = boots + 1
  /\ UNCHANGED <<file, handVars, calls, fails, wanted>>
  /\ raced' = (raced \/ Busy \/ file \notin Contents)
  /\ \E m \in LoadAtStart(file) : memory' = m[1] /\ sourced' = m[2]
  /\ pc' = NotYet /\ hand' = Nothing /\ got' = NoItems
  /\ watching' = (file # Absent)
  /\ events' = <<>> /\ recent' = FALSE /\ reAdd' = FALSE /\ loop' = "idle"

Init ==
  /\ file \in Contents \cup {Absent}
  /\ WatchInit
  /\ \E m \in LoadAtStart(file) : memory = m[1] /\ sourced = m[2]
  /\ pc = NotYet /\ hand = Nothing /\ got = NoItems
  /\ calls = 0 /\ fails = 0 /\ boots = 0
  /\ wanted = memory

Persist(a) == Snapshot(a) \/ PersistOpen(a) \/ PersistWrite(a) \/ PersistWriteLost(a)
Callback == CallbackRead \/ CallbackApply

Next ==
  \/ \E a \in Admins :
       \/ AddKeyword(a) \/ RemoveKeyword(a) \/ ReloadRead(a)
       \/ Persist(a) \/ PersistFail(a) \/ ReloadApply(a)
  \/ Callback \/ Watcher \/ EditInPlace \/ EditAnew \/ Restart

Spec == Init /\ [][Next]_vars

\* Fairness: requests and the watcher's goroutine run, file operations return,
\* the timer fires and time passes.
Fairness ==
  /\ \A a \in Admins : WF_vars(Persist(a) \/ ReloadApply(a))
  /\ WF_vars(Callback)
  /\ WF_vars(WatchLoop /\ Watcher) /\ WF_vars(SecondPasses /\ Watcher)
  /\ WF_vars(ReAdd /\ Watcher)

FairSpec == Spec /\ Fairness

-----------------------------------------------------------------------------
(* Properties.                                                             *)

\* The type invariant.  A request is about to write, or to install, a complete
\* set of items.
TypeOK ==
  /\ WatchTypeOK
  /\ file \in Contents \cup {Blank, Absent, Garbled}
  /\ loop \in {"idle", "called", "apply"}
  /\ memory \in Contents /\ wanted \in Contents /\ sourced \in BOOLEAN
  /\ pc \in [Admins -> {"idle", "persist", "open", "write", "orphan", "apply"}]
  /\ hand \in [Admins -> Contents \cup {NoItems}]
  /\ \A a \in Admins : pc[a] \in {"open", "write", "orphan", "apply"} => hand[a] \in Contents
  /\ got \in Contents \cup {NoItems} /\ (loop = "apply" => got \in Contents)
  /\ calls \in 0..MaxCalls /\ fails \in 0..MaxFails /\ boots \in 0..MaxBoots

Quiet == ~Busy /\ loop = "idle" /\ events = <<>> /\ ~saving

\* Requests, saves by hand, reloads and restarts lose nothing and bring nothing
\* back as long as they do not overlap: at rest, memory and the file hold what
\* the changes so far add up to.
Agreement == Quiet /\ ~raced => memory = wanted /\ file = wanted /\ sourced

\* A change by hand is in force in the end, also after the file was replaced.
Converges == memory # wanted /\ ~raced ~> memory = wanted \/ raced \/ saving

\* "admin-created allowlists survive config reloads" (Persist).  One administrator
\* at a time and nobody else: what they changed stays in force.
ChangeSurvives == Quiet => memory = wanted

=============================================================================
