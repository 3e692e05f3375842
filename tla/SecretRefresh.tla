--------------------------- MODULE SecretRefresh ---------------------------
(***************************************************************************)
(* The secret list and its refresh (guard/secrets.py, SecretList).         *)
(*                                                                         *)
(* The values to mask come from KEY=value files that others edit.  Every   *)
(* use of the list looks, at most once per period, at the signature of the *)
(* files; when it differs from the recorded one, the new signature is      *)
(* recorded and every file is parsed.  Each stat and each read is a system *)
(* call of its own, so files change between them, and each may fail: an    *)
(* OSError is swallowed, a file that cannot be looked at counts as absent, *)
(* and of one that cannot be opened, or read to its end, counts what came. *)
(*                                                                         *)
(* A value stands for all of its spellings: refresh derives the encoded    *)
(* forms from the value alone.                                             *)
(***************************************************************************)
EXTENDS Naturals, FiniteSets

CONSTANTS
  Paths,      \* the configured files
  Values,     \* secret values
  Garbled,    \* marks a file that is not UTF-8
  Contents,   \* what a file may hold: a set of values, or Garbled
  Period,     \* _REFRESH_S, in ticks
  MaxEdits    \* bound: edits of the files and stats that fail

VARIABLES
  files,      \* path -> its contents and its (mtime, size), 0 if there is no file
  clock,      \* the last stamp an edit used, and what there was of failed stats
  sig,        \* SecretList._sig
  values,     \* SecretList._values
  age,        \* ticks since SecretList._at, at most Period
  pc,         \* where refresh is
  visited,    \* the paths this pass has visited
  seen,       \* the signature under construction
  got,        \* path -> the values parsed from it
  cut,        \* the paths this pass read in part only (history)
  listed,     \* the signature the files of the list in force had (history)
  short       \* the paths the list in force was read from in part (history)

vars == <<files, clock, sig, values, age, pc, visited, seen, got, cut, listed, short>>

File == [content : Contents, stamp : Nat]
NoFile == [content |-> {}, stamp |-> 0]

ASSUME FilesAssumption ==
  /\ \A c \in Contents : c = Garbled \/ c \subseteq Values
  /\ \A c \in SUBSET Values : c # Garbled
  /\ IsFiniteSet(Paths)
ASSUME PeriodAssumption == Period \in Nat \ {0} /\ MaxEdits \in Nat

Decodable(p) == files[p].content # Garbled
Signature    == [p \in Paths |-> files[p].stamp]
Complete     == visited = Paths

(* The locals of refresh when it does not run.                             *)
NoneSeen == [p \in Paths |-> 0]
NoneGot  == [p \in Paths |-> {}]

(* What the lines of a file may add to the list before its read ends: any  *)
(* of its values, in whatever order they stand; any value, if the lines    *)
(* come before bytes that are not UTF-8.                                   *)
Held(p) == IF Decodable(p) THEN files[p].content ELSE Values
-----------------------------------------------------------------------------
(* The constructor refreshes by force, and swallows what refresh swallows; *)
(* the files are there before the guard serves anyone, and a file that is  *)
(* not UTF-8 keeps it from starting.                                       *)
Init ==
  /\ files \in [Paths -> {NoFile} \cup {[content |-> c, stamp |-> 1] : c \in Contents \ {Garbled}}]
  /\ clock = 1
  /\ sig = Signature /\ listed = Signature
  /\ \E parts \in [Paths -> SUBSET Values] :
       /\ \A p \in Paths : parts[p] \subseteq Held(p)
       /\ values = UNION {parts[p] : p \in Paths}
       /\ short = {p \in Paths : parts[p] # files[p].content}
  /\ age = 0
  /\ pc = "idle"
  /\ visited = {} /\ cut = {}
  /\ seen = NoneSeen /\ got = NoneGot

(* A file is saved: every save has its own (mtime, size).                  *)
Save(p, c) ==
  /\ clock <= MaxEdits
  /\ files' = [files EXCEPT ![p] = [content |-> c, stamp |-> clock + 1]]
  /\ clock' = clock + 1
  /\ UNCHANGED <<sig, values, age, pc, visited, seen, got, cut, listed, short>>

RemoveFile(p) ==
  /\ clock <= MaxEdits
  /\ files[p] # NoFile
  /\ files' = [files EXCEPT ![p] = NoFile]
  /\ clock' = clock + 1
  /\ UNCHANGED <<sig, values, age, pc, visited, seen, got, cut, listed, short>>

Tick ==
  /\ age < Period
  /\ age' = age + 1
  /\ UNCHANGED <<files, clock, sig, values, pc, visited, seen, got, cut, listed, short>>
-----------------------------------------------------------------------------
(* mask or contains is called and the period is over.                      *)
Begin ==
  /\ pc = "idle"
  /\ age = Period
  /\ age' = 0
  /\ pc' = "stat"
  /\ UNCHANGED <<files, clock, sig, values, visited, seen, got, cut, listed, short>>

(* _signature stats one more path.                                         *)
Stat(p) ==
  /\ pc = "stat"
  /\ p \notin visited
  /\ seen' = [seen EXCEPT ![p] = files[p].stamp]
  /\ visited' = visited \cup {p}
  /\ UNCHANGED <<files, clock, sig, values, age, pc, got, cut, listed, short>>

(* The stat of a path fails: the file counts as absent.                    *)
StatFails(p) ==
  /\ pc = "stat"
  /\ p \notin visited
  /\ clock <= MaxEdits
  /\ clock' = clock + 1
  /\ seen' = [seen EXCEPT ![p] = 0]
  /\ visited' = visited \cup {p}
  /\ UNCHANGED <<files, sig, values, age, pc, got, cut, listed, short>>

(* Nothing changed, or the new signature is recorded and parsing begins.   *)
Compare ==
  /\ pc = "stat" /\ Complete
  /\ \/ seen = sig /\ pc' = "idle" /\ UNCHANGED sig
     \/ seen # sig /\ sig' = seen /\ pc' = "parse"
  /\ visited' = {} /\ seen' = NoneSeen
  /\ UNCHANGED <<files, clock, values, age, got, cut, listed, short>>

(* One more file is parsed, to its end or up to an OSError of open or read, *)
(* which _parse swallows: the values it has by then are all of that file.  *)
Parse(p) ==
  /\ pc = "parse"
  /\ p \notin visited
  /\ \E part \in SUBSET Held(p) :
       /\ got' = [got EXCEPT ![p] = part]
       /\ cut' = cut \cup {q \in {p} : part # files[q].content}
  /\ visited' = visited \cup {p}
  /\ UNCHANGED <<files, clock, sig, values, age, pc, seen, listed, short>>

(* Decoding a file that is not UTF-8 raises out of refresh, and the list   *)
(* stays as it was.                                                        *)
Undecodable(p) ==
  /\ pc = "parse"
  /\ p \notin visited
  /\ ~Decodable(p)
  /\ pc' = "idle"
  /\ visited' = {} /\ got' = NoneGot /\ cut' = {}
  /\ UNCHANGED <<files, clock, sig, values, age, seen, listed, short>>

(* mutant: the signature is taken again once the files are parsed          *)
MutInstall ==
  /\ pc = "parse" /\ Complete
  /\ values' = UNION {got[p] : p \in Paths}
  /\ sig' = Signature
  /\ listed' = Signature /\ short' = cut
  /\ pc' = "idle"
  /\ visited' = {} /\ got' = NoneGot /\ cut' = {}
  /\ UNCHANGED <<files, clock, age, seen>>

(* Every file is parsed: the new list replaces the old one at once.        *)
Install ==
  /\ pc = "parse" /\ Complete
  /\ values' = UNION {got[p] : p \in Paths}
  /\ listed' = sig /\ short' = cut
  /\ pc' = "idle"
  /\ visited' = {} /\ got' = NoneGot /\ cut' = {}
  /\ UNCHANGED <<files, clock, sig, age, seen>>

Refresh ==
  \/ Begin
  \/ \E p \in Paths : Stat(p) \/ StatFails(p) \/ Parse(p) \/ Undecodable(p)
  \/ Compare
  \/ Install

Next ==
  \/ \E p \in Paths : (\E c \in Contents : Save(p, c)) \/ RemoveFile(p)
  \/ Tick
  \/ Refresh

(* Time passes and requests keep using the list.                           *)
Spec     == Init /\ [][Next]_vars
FairSpec == Spec /\ WF_vars(Tick) /\ WF_vars(Refresh)
-----------------------------------------------------------------------------
TypeOK ==
  /\ files \in [Paths -> File \cup {NoFile}]
  /\ clock \in Nat
  /\ sig \in [Paths -> Nat] /\ listed \in [Paths -> Nat]
  /\ values \subseteq Values
  /\ age \in 0..Period
  /\ pc \in {"idle", "stat", "parse"}
  /\ visited \subseteq Paths /\ cut \subseteq Paths /\ short \subseteq Paths
  /\ seen \in [Paths -> Nat]
  /\ got \in [Paths -> SUBSET Values]

(* The values of every file that is still as it was when the list in force *)
(* was parsed are masked, unless a read of it failed then: whatever was    *)
(* edited while the signatures were taken and the files read, only an      *)
(* OSError makes the list claim more than it has.                          *)
NothingUnmasked ==
  \A p \in Paths \ short :
    Decodable(p) /\ listed[p] = files[p].stamp => files[p].content \subseteq values

(* Once the files are left alone, refresh comes to rest with the values of *)
(* all of them masked, unless its last parse failed, and but for files of  *)
(* which it swallowed a failing read: it does not read those again.        *)
CatchesUp ==
  []<>(pc = "idle" /\ (listed = sig =>
         \A p \in Paths \ short : Decodable(p) /\ files[p].content \subseteq values))

(* Once the files are left alone, the values of those that are UTF-8 and   *)
(* whose reads did not fail end up masked.                                 *)
Refreshes ==
  []<>(\A p \in Paths \ short : Decodable(p) => files[p].content \subseteq values)
=============================================================================
