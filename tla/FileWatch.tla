----------------------------- MODULE FileWatch ------------------------------
(***************************************************************************)
(* A watched file and the FileWatcher of internal/config/watcher.go, with  *)
(* the part of fsnotify (inotify) that the watcher relies on.  Modules     *)
(* that extend this one give the callback its steps: it starts with loop = *)
(* "called" and ends with loop = "idle".                                   *)
(*                                                                         *)
(* The watch is on the inode: a file that is replaced or deleted takes its *)
(* watch with it, and the watcher looks for the new file 200 ms after it   *)
(* has accepted such an event.                                             *)
(***************************************************************************)
EXTENDS Integers, Sequences

CONSTANTS
  Contents,  \* what a complete file may hold
  Blank,     \* a file of zero bytes: between truncation and write
  Absent,    \* no file
  MaxEdits   \* bound: changes made by hand

ASSUME FileStates == Blank \notin Contents /\ Absent \notin Contents /\ Blank # Absent
ASSUME EditBound == MaxEdits \in Nat

VARIABLES
  file,      \* what is on disk
  watching,  \* the watcher's inotify watch is on the file of that name
  events,    \* fw.watcher.Events: "write" or "gone" (Remove, Rename)
  recent,    \* at most a second since lastEventTime
  reAdd,     \* the timer of 200 ms is running
  loop,      \* "idle", or where the callback stands
  saving,    \* somebody has truncated the file and is about to write it
  edits,     \* changes by hand so far
  raced      \* history: a change came before the one before it was dealt with,
             \* or the file was not there

timerVars == <<recent, reAdd>>
handVars  == <<saving, edits>>
watchVars == <<file, watching, events, timerVars, loop, handVars, raced>>

-----------------------------------------------------------------------------
(* Changes of the file.                                                    *)

Notify(e) == events' = IF watching THEN Append(events, e) ELSE events

\* Opening for writing empties the file: an event unless it was empty already or
\* had to be created.
Truncate ==
  /\ file' = Blank
  /\ IF file \in {Blank, Absent} THEN UNCHANGED events ELSE Notify("write")
  /\ UNCHANGED watching

WriteTo(c) == file' = c /\ Notify("write") /\ UNCHANGED watching

\* The change is not the first of its burst, or others are at work (busy).
TooSoon(busy) == busy \/ recent \/ events # <<>>

ByHand ==
  /\ edits < MaxEdits
  /\ edits' = edits + 1
  /\ UNCHANGED <<timerVars, loop>>

\* A save in place (cp, most IDEs) is a truncation and a write.
HandTruncate(busy) ==
  /\ ~saving
  /\ Truncate
  /\ saving' = TRUE
  /\ raced' = (raced \/ TooSoon(busy))
  /\ ByHand

HandWrite(busy) ==
  /\ saving
  /\ \E c \in Contents : WriteTo(c)
  /\ saving' = FALSE
  /\ raced' = (raced \/ TooSoon(busy))
  /\ UNCHANGED <<timerVars, loop, edits>>

\* A new file takes the place of the old one, or of none (write-temp and
\* rename; the second half of delete-and-create).
HandReplace(busy) ==
  /\ ~saving
  /\ file' \in Contents
  /\ IF file = Absent THEN UNCHANGED events ELSE Notify("gone")
  /\ watching' = FALSE
  /\ raced' = (raced \/ TooSoon(busy))
  /\ UNCHANGED saving
  /\ ByHand

HandDelete ==
  /\ ~saving /\ file # Absent
  /\ file' = Absent
  /\ Notify("gone")
  /\ watching' = FALSE
  /\ raced' = TRUE
  /\ UNCHANGED saving
  /\ ByHand

HandInPlace(busy) == HandTruncate(busy) \/ HandWrite(busy)
HandAnew(busy)    == HandReplace(busy) \/ HandDelete

-----------------------------------------------------------------------------
(* The goroutine of Watch.                                                 *)

\* An event at most a second after the last accepted one is dropped, whatever
\* it says.
Coalesce ==
  /\ loop = "idle" /\ events # <<>> /\ recent
  /\ events' = Tail(events)
  /\ UNCHANGED <<file, watching, timerVars, loop, handVars, raced>>

\* Mutant: a replaced file is not watched again.
AcceptWithoutReAdd ==
  /\ loop = "idle" /\ events # <<>> /\ ~recent
  /\ events' = Tail(events)
  /\ recent' = TRUE
  /\ loop' = "called"
  /\ UNCHANGED <<file, watching, reAdd, handVars, raced>>

\* The others are accepted: lastEventTime, the timer for a file that has gone,
\* and the callback.
Accept ==
  /\ loop = "idle" /\ events # <<>> /\ ~recent
  /\ events' = Tail(events)
  /\ recent' = TRUE
  /\ reAdd' = (Head(events) = "gone")
  /\ loop' = "called"
  /\ UNCHANGED <<file, watching, handVars, raced>>

\* A second has passed since lastEventTime.  The timer of 200 ms is at most
\* 800 ms late.
SecondPasses ==
  /\ recent /\ ~reAdd
  /\ recent' = FALSE
  /\ UNCHANGED <<file, watching, events, reAdd, loop, handVars, raced>>

\* fw.watcher.Add(path), tried once: without a file it fails.
ReAdd ==
  /\ reAdd
  /\ reAdd' = FALSE
  /\ watching' = (watching \/ file # Absent)
  /\ UNCHANGED <<file, events, recent, loop, handVars, raced>>

WatchLoop == Coalesce \/ Accept
WatchStep == WatchLoop \/ SecondPasses \/ ReAdd

\* Watch(path, callback) on the file as it is; an absent one is not watched.
WatchInit ==
  /\ watching = (file # Absent)
  /\ events = <<>> /\ recent = FALSE /\ reAdd = FALSE /\ loop = "idle"
  /\ saving = FALSE /\ edits = 0 /\ raced = (file = Absent)

WatchTypeOK ==
  /\ watching \in BOOLEAN /\ recent \in BOOLEAN /\ reAdd \in BOOLEAN
  /\ events \in Seq({"write", "gone"})
  /\ saving \in BOOLEAN /\ edits \in 0..MaxEdits /\ raced \in BOOLEAN

=============================================================================
