---------------------------- MODULE ConfigReload ----------------------------
(***************************************************************************)
(* Hot reload of config.yaml: the watcher, the callback main gives it, and *)
(* the components the callback updates.  The content of the file stands    *)
(* for the configuration read from it; an empty file gives the zero        *)
(* configuration.                                                          *)
(***************************************************************************)
EXTENDS FileWatch

CONSTANTS
  Unparsable,  \* contents that are no YAML of a configuration
  BadUpstream  \* configurations whose upstream URL url.Parse rejects

ASSUME ConfigSets ==
  Unparsable \subseteq Contents /\ BadUpstream \subseteq Contents \ Unparsable

VARIABLES
  instance,   \* config.instance
  proxyCfg,   \* ph.config
  auditCfg,   \* al.config
  ruleCfg,    \* where rd.rules come from
  lastUsable  \* history: the last configuration loaded that the proxy can use

configVars == <<instance, proxyCfg, auditCfg, ruleCfg, lastUsable>>
vars == <<watchVars, configVars>>

Loadable == (Contents \ Unparsable) \cup {Blank}
Usable(v) == v \notin BadUpstream

CallbackRest == UNCHANGED <<file, watching, events, timerVars, handVars, raced>>

-----------------------------------------------------------------------------
(* The callback, on the watcher's goroutine.                               *)

\* Mutant: the error of LoadConfig is logged and forgotten.
ReloadConfigAnyway ==
  /\ loop = "called"
  /\ instance' = file
  /\ lastUsable' = file
  /\ loop' = "proxy"
  /\ CallbackRest
  /\ UNCHANGED <<proxyCfg, auditCfg, ruleCfg>>

\* ReloadConfig: what is in the file now becomes the instance, or the callback
\* returns.
ReloadConfig ==
  /\ loop = "called"
  /\ IF file \in Loadable
       THEN /\ instance' = file
            /\ lastUsable' = IF Usable(file) THEN file ELSE lastUsable
            /\ loop' = "proxy"
       ELSE loop' = "idle" /\ UNCHANGED <<instance, lastUsable>>
  /\ CallbackRest
  /\ UNCHANGED <<proxyCfg, auditCfg, ruleCfg>>

\* Mutant: the callback returns when the proxy rejects the configuration.
UpdateProxyOrReturn ==
  /\ loop = "proxy"
  /\ proxyCfg' = IF Usable(instance) THEN instance ELSE proxyCfg
  /\ loop' = IF Usable(instance) THEN "audit" ELSE "idle"
  /\ CallbackRest
  /\ UNCHANGED <<instance, auditCfg, ruleCfg, lastUsable>>

\* proxyHandler.UpdateConfig; its error is ignored.
UpdateProxy ==
  /\ loop = "proxy"
  /\ proxyCfg' = IF Usable(instance) THEN instance ELSE proxyCfg
  /\ loop' = "audit"
  /\ CallbackRest
  /\ UNCHANGED <<instance, auditCfg, ruleCfg, lastUsable>>

UpdateAudit ==
  /\ loop = "audit"
  /\ auditCfg' = instance
  /\ loop' = "rules"
  /\ CallbackRest
  /\ UNCHANGED <<instance, proxyCfg, ruleCfg, lastUsable>>

ReloadRules ==
  /\ loop = "rules"
  /\ ruleCfg' = instance
  /\ loop' = "idle"
  /\ CallbackRest
  /\ UNCHANGED <<instance, proxyCfg, auditCfg, lastUsable>>

Callback == ReloadConfig \/ UpdateProxy \/ UpdateAudit \/ ReloadRules

-----------------------------------------------------------------------------

\* main: a configuration it cannot load or use ends the process at startup.
Init ==
  /\ file \in Contents \ Unparsable /\ Usable(file)
  /\ WatchInit
  /\ instance = file /\ proxyCfg = file /\ auditCfg = file /\ ruleCfg = file
  /\ lastUsable = file

WatchOnly == UNCHANGED configVars

Next ==
  \/ (HandInPlace(FALSE) \/ HandAnew(FALSE)) /\ WatchOnly
  \/ WatchStep /\ WatchOnly
  \/ Callback

Spec == Init /\ [][Next]_vars

\* Fairness: the watcher's goroutine runs, its timer fires and time passes.
Fairness ==
  /\ WF_vars(WatchLoop /\ WatchOnly) /\ WF_vars(SecondPasses /\ WatchOnly)
  /\ WF_vars(ReAdd /\ WatchOnly) /\ WF_vars(Callback)

FairSpec == Spec /\ Fairness

-----------------------------------------------------------------------------
(* Properties.                                                             *)

\* The type invariant of the file, the watcher and the configurations in use.
\* Nothing that could not be read is ever installed.
TypeOK ==
  /\ WatchTypeOK
  /\ file \in Contents \cup {Blank, Absent}
  /\ loop \in {"idle", "called", "proxy", "audit", "rules"}
  /\ {instance, auditCfg, ruleCfg, proxyCfg, lastUsable} \subseteq Loadable
  /\ Usable(proxyCfg) /\ Usable(lastUsable)

\* Between reloads, whichever of them failed or were skipped, the audit logger and
\* the rules run on the configuration instance, and so does the proxy, unless it
\* rejected that one: then the proxy stays on the last configuration it could use
\* while the others have gone on, as the callback that ignores its error has it.
InStep ==
  loop = "idle" =>
    /\ auditCfg = instance /\ ruleCfg = instance
    /\ Usable(instance) => proxyCfg = instance
    /\ ~Usable(instance) => proxyCfg = lastUsable

Settled == loop = "idle" /\ events = <<>> /\ ~recent /\ ~saving

\* When nothing is under way, what is in the file is what runs, if no change came
\* within a second of another one or removed the file.
Loaded == Settled /\ ~raced /\ file \in Loadable => instance = file

\* Each such change is loaded in the end.  In particular a replaced file is
\* watched again.
Follows ==
  file \in Loadable /\ instance # file /\ ~raced
    ~> instance = file \/ raced \/ file \notin Loadable

=============================================================================
