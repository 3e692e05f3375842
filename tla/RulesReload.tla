----------------------------- MODULE RulesReload -----------------------------
(***************************************************************************)
(* The rules file and its hot reload (guard/gate.py, Gate._load and        *)
(* Gate.reload_if_changed).                                                *)
(*                                                                         *)
(* Someone edits the file while the guard runs.  Before it judges a call   *)
(* the gate looks at the file's mtime, at most once per debounce period,   *)
(* reads and compiles a changed file, installs the rules and records the   *)
(* mtime.  The reads and the stats are separate system calls: an edit can  *)
(* come between any two of them.                                           *)
(***************************************************************************)
EXTENDS Naturals

CONSTANTS
  Good,       \* file contents that parse and compile
  Bad,        \* file contents that do not
  Cut,        \* what is left of a file while it is being written in place
  Absent,     \* there is no file
  Initial,    \* the contents the gate starts with
  Debounce,   \* _RELOAD_S, in ticks
  MaxEdits    \* bound: edits of the file

VARIABLES
  content,    \* what is in the file
  stamp,      \* its mtime: every write has its own
  writing,    \* what an in-place write has still to put there, or Absent
  rules,      \* Gate.rules
  mtime,      \* Gate._mtime
  age,        \* ticks since Gate._checked, at most Debounce
  pc,         \* where reload_if_changed is
  text,       \* what _load has read
  loaded      \* the mtime that the file had when text was read (history)

vars == <<content, stamp, writing, rules, mtime, age, pc, text, loaded>>

Contents == Good \cup Bad \cup {Cut}

(* A file cut short by a write in progress parses: an empty file is an     *)
(* empty list of rules.                                                    *)
Parses == Good \cup {Cut}

ASSUME ContentsAssumption ==
  /\ Initial \in Good
  /\ Absent \notin Contents
  /\ Good \cap Bad = {} /\ Cut \notin Good \cup Bad
ASSUME ReloadBounds ==
  Debounce \in Nat \ {0} /\ MaxEdits \in Nat
-----------------------------------------------------------------------------
(* The constructor loads a good file, or the guard does not start; _checked*)
(* is 0, so the first call looks at the file.                              *)
Init ==
  /\ content = Initial
  /\ stamp = 0
  /\ writing = Absent
  /\ rules = Initial
  /\ mtime = 0
  /\ age = Debounce
  /\ pc = "idle"
  /\ text = Absent
  /\ loaded = 0

MayEdit == stamp < MaxEdits

(* An editor that saves by renaming a new file over the old one.           *)
Replace(c) ==
  /\ MayEdit
  /\ writing = Absent
  /\ content' = c
  /\ stamp' = stamp + 1
  /\ UNCHANGED <<writing, rules, mtime, age, pc, text, loaded>>

(* One that writes in place: the file is cut first, then complete.         *)
Truncate(c) ==
  /\ MayEdit
  /\ writing = Absent
  /\ content' = Cut
  /\ stamp' = stamp + 1
  /\ writing' = c
  /\ UNCHANGED <<rules, mtime, age, pc, text, loaded>>

Complete ==
  /\ writing # Absent
  /\ content' = writing
  /\ stamp' = stamp + 1
  /\ writing' = Absent
  /\ UNCHANGED <<rules, mtime, age, pc, text, loaded>>

RemoveFile ==
  /\ MayEdit
  /\ writing = Absent /\ content # Absent
  /\ content' = Absent
  /\ stamp' = stamp + 1
  /\ UNCHANGED <<writing, rules, mtime, age, pc, text, loaded>>

Tick ==
  /\ age < Debounce
  /\ age' = age + 1
  /\ UNCHANGED <<content, stamp, writing, rules, mtime, pc, text, loaded>>
-----------------------------------------------------------------------------
(* reload_if_changed, when the period has passed: _checked moves on even   *)
(* if the file is gone or unchanged.                                       *)
Look ==
  /\ pc = "idle"
  /\ age = Debounce
  /\ age' = 0
  /\ pc' = IF content # Absent /\ stamp # mtime THEN "read" ELSE "idle"
  /\ UNCHANGED <<content, stamp, writing, rules, mtime, text, loaded>>

(* mutant: a text that was read before is taken from a cache               *)
MutRead ==
  /\ pc = "read"
  /\ pc' = IF content = Absent THEN "idle" ELSE "compile"
  /\ text' = IF text = Absent THEN content ELSE text
  /\ loaded' = stamp
  /\ UNCHANGED <<content, stamp, writing, rules, mtime, age>>

(* _load opens and reads the file, or open raises.                         *)
Read ==
  /\ pc = "read"
  /\ pc' = IF content = Absent THEN "idle" ELSE "compile"
  /\ text' = content
  /\ loaded' = stamp
  /\ UNCHANGED <<content, stamp, writing, rules, mtime, age>>

(* mutant: the rules are replaced before they are compiled                 *)
MutCompile ==
  /\ pc = "compile"
  /\ rules' = text
  /\ pc' = IF text \in Parses THEN "record" ELSE "idle"
  /\ UNCHANGED <<content, stamp, writing, mtime, age, text, loaded>>

(* Rules that do not compile raise before anything is replaced.            *)
Compile ==
  /\ pc = "compile"
  /\ rules' = IF text \in Parses THEN text ELSE rules
  /\ pc' = IF text \in Parses THEN "record" ELSE "idle"
  /\ UNCHANGED <<content, stamp, writing, mtime, age, text, loaded>>

(* The mtime that is recorded is the one the file has by then.             *)
Record ==
  /\ pc = "record"
  /\ mtime' = IF content = Absent THEN mtime ELSE stamp
  /\ pc' = "idle"
  /\ UNCHANGED <<content, stamp, writing, rules, age, text, loaded>>

Edit ==
  \/ \E c \in Good \cup Bad : Replace(c) \/ Truncate(c)
  \/ RemoveFile

GateStep == Look \/ Read \/ Compile \/ Record

Next == Edit \/ Complete \/ Tick \/ GateStep

Spec == Init /\ [][Next]_vars
-----------------------------------------------------------------------------
TypeOK ==
  /\ content \in Contents \cup {Absent}
  /\ stamp \in Nat
  /\ writing \in Good \cup Bad \cup {Absent}
  /\ rules \in Contents
  /\ mtime \in 0..stamp
  /\ age \in 0..Debounce
  /\ pc \in {"idle", "read", "compile", "record"}
  /\ text \in Contents \cup {Absent}
  /\ loaded \in 0..stamp

(* Whatever is saved, and whenever, the rules in force compiled: a file    *)
(* that does not parse leaves the previous rules in force.                 *)
LastGoodStays == rules \in Parses

(* Between two looks, a gate that has recorded the file's mtime has the    *)
(* file's rules, unless the file was edited under its last load.           *)
UpToDate ==
  pc = "idle" /\ content \in Parses /\ mtime = stamp /\ loaded = stamp => rules = content
=============================================================================
