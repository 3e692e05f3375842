---------------------------- MODULE PluginReload ----------------------------
(***************************************************************************)
(* The two places that enforce the rules file: the gate, which reloads it  *)
(* (RulesReload), and the opencode plugin, which rereads every period what *)
(* rules_to_json.py exported of it.                                        *)
(*                                                                         *)
(* The export is a shell redirection: the exported file is empty from the  *)
(* start of the converter to its end, and stays so if the converter fails  *)
(* on rules that do not compile.  The plugin then uses its built-in rules. *)
(***************************************************************************)
EXTENDS RulesReload

CONSTANTS
  BuiltIn,      \* DEFAULT_RULES of the plugin
  Period,       \* how long the plugin keeps its rules, in ticks
  MaxExports    \* bound: runs of the converter

VARIABLES
  exported,     \* guard-rules.json: the version of the rules in it, or Absent
  exporting,    \* whether the converter is running
  exports,      \* its runs
  plugin,       \* state.rules of the plugin
  pluginAge     \* ticks since loadedAt, at most Period + 1

exportVars == <<exported, exporting, exports>>
stateVars  == <<plugin, pluginAge>>
pluginVars == <<exportVars, stateVars>>
allVars    == <<vars, pluginVars>>

ASSUME PluginAssumption ==
  BuiltIn \notin Contents \cup {Absent} /\ Period \in Nat \ {0} /\ MaxExports \in Nat

(* loadRules: the exported rules, or the built-in ones if there is no      *)
(* file, it does not parse, or it has no rules.                            *)
LoadRules == IF exported \in Good THEN exported ELSE BuiltIn
-----------------------------------------------------------------------------
PluginInit ==
  /\ Init
  /\ exported \in {Initial, Absent} /\ exporting = FALSE /\ exports = 0
  /\ plugin = LoadRules /\ pluginAge = 0

(* Someone runs the converter.  The shell empties the file first.          *)
Export ==
  /\ exports < MaxExports /\ exports' = exports + 1
  /\ ~exporting /\ exporting' = TRUE
  /\ exported' = Absent
  /\ UNCHANGED <<vars, stateVars>>

(* It reads the rules file as it is then, and writes the rules or raises.  *)
Convert ==
  /\ exporting /\ exporting' = FALSE
  /\ exported' = IF content \in Parses THEN content ELSE exported
  /\ UNCHANGED <<vars, exports, stateVars>>

(* mutant: the built-in rules stay once they are in force                  *)
MutReload ==
  /\ pluginAge > Period
  /\ plugin' = IF plugin = BuiltIn THEN plugin ELSE LoadRules
  /\ pluginAge' = 0
  /\ UNCHANGED <<vars, exportVars>>

(* A tool runs, the period is over: the plugin loads its rules.            *)
Reload ==
  /\ pluginAge > Period
  /\ plugin' = LoadRules /\ pluginAge' = 0
  /\ UNCHANGED <<vars, exportVars>>

TimePasses ==
  /\ age < Debounce \/ pluginAge <= Period
  /\ IF age < Debounce THEN Tick ELSE UNCHANGED vars
  /\ pluginAge' = IF pluginAge <= Period THEN pluginAge + 1 ELSE pluginAge
  /\ UNCHANGED <<exportVars, plugin>>

Editing == (Edit \/ Complete) /\ UNCHANGED pluginVars

Gating == GateStep /\ UNCHANGED pluginVars

PluginNext == Editing \/ Gating \/ TimePasses \/ Export \/ Convert \/ Reload

(* Time passes, calls keep coming to be judged and tools keep running, a   *)
(* write that began is finished, and a converter that runs ends.           *)
PluginSpec ==
  /\ PluginInit /\ [][PluginNext]_allVars
  /\ WF_allVars(Gating) /\ WF_allVars(TimePasses) /\ WF_allVars(Complete /\ UNCHANGED pluginVars)
  /\ WF_allVars(Convert) /\ WF_allVars(Reload)
-----------------------------------------------------------------------------
(* Once both files are left alone, the gate comes to rest with the mtime   *)
(* of a good rules file recorded, and the plugin has the rules that were   *)
(* exported, whatever either of them loaded while files were being edited. *)
Converges ==
  []<>(/\ content \in Good => pc = "idle" /\ mtime = stamp
       /\ exported \in Good => plugin = exported)
=============================================================================
