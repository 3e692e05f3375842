------------------------------ MODULE RuleScan ------------------------------
(***************************************************************************)
(* One tool call against one list of rules, at the two places that         *)
(* enforce them: Gate.evaluate in the router (guard/gate.py) and the       *)
(* tool.execute.before hook of the opencode plugin (guard-plugin.js),      *)
(* which reads what rules_to_json.py makes of the same file.               *)
(*                                                                         *)
(* A call is the set of tokens a pattern can be found in: those of its     *)
(* decoded strings, and those of the raw text of its arguments.  A rule is *)
(* its action, the kind of its pattern and the tokens that it finds.       *)
(***************************************************************************)
EXTENDS Naturals, Sequences, FiniteSets, SequencesExt

CONSTANTS
  Tokens,     \* what patterns look for
  Secrets,    \* the tokens that are values of the secret list
  RuleLists,  \* the rules files: sequences of rules
  BuiltIn,    \* the plugin's own rules
  ToolCalls   \* the calls

VARIABLES
  list,       \* the rules file
  mode,       \* Gate.mode
  call,       \* the call that is judged
  next,       \* the rule the gate looks at next
  verdict,    \* the gate's verdict so far
  hit,        \* the rule that it is due to, 0 for none
  gate,       \* where evaluate is
  pnext,      \* the rule of its list the plugin comes to next
  plog,       \* the rules in the plugin's log, in order
  plugin      \* where the hook is

gateVars   == <<next, verdict, hit, gate>>
pluginVars == <<pnext, plog, plugin>>
scanVars   == <<list, mode, call, gateVars, pluginVars>>

(* "secret" is the pattern __SECRET_VALUE__, "dunder" any other pattern    *)
(* that begins with two underscores; "python" a pattern that Python        *)
(* compiles and JavaScript rejects, "regex" one that both compile.         *)
Kinds    == {"regex", "python", "secret", "dunder"}
Rule     == [action : {"block", "flag"}, kind : Kinds, finds : SUBSET Tokens]
ToolCall == [tool : Tokens, strings : SUBSET Tokens, raw : SUBSET Tokens, json : BOOLEAN]

ASSUME RuleListsAssumption == RuleLists \subseteq Seq(Rule) /\ BuiltIn \in Seq(Rule)
ASSUME CallsAssumption     == ToolCalls \subseteq ToolCall /\ Secrets \subseteq Tokens
-----------------------------------------------------------------------------
(* The text that is searched: the tool's name, and every decoded string;   *)
(* the gate takes the raw arguments when there is none or no JSON.         *)
GateText(c) ==
  {c.tool} \cup (IF c.json /\ c.strings # {} THEN c.strings ELSE c.raw)
PluginText(c) == {c.tool} \cup c.strings

Matches(r, text) ==
  IF r.kind = "secret" THEN Secrets \cap text # {} ELSE r.finds \cap text # {}

(* Where in a list the rules stand that the plugin has of it:              *)
(* rules_to_json.py leaves out the special ones, and the plugin logs and   *)
(* drops what it cannot compile.                                           *)
Converted(rs) == {n \in 1..Len(rs) : rs[n].kind \notin {"secret", "dunder"}}
Compiled(rs)  == {n \in Converted(rs) : rs[n].kind # "python"}

(* The list it takes its rules from: its own when none is left of the file.*)
PluginList == IF Compiled(list) = {} THEN BuiltIn ELSE list

ScanInit ==
  /\ list \in RuleLists
  /\ mode \in {"block", "flag"}
  /\ call \in ToolCalls
  /\ next = 1 /\ verdict = "allow" /\ hit = 0 /\ gate = "scan"
  /\ pnext = 1 /\ plog = <<>> /\ plugin = "scan"

(* mutant: a flag rule ends the scan                                       *)
MutGateRule ==
  LET r == list[next]
      matched == Matches(r, GateText(call)) IN
  /\ gate = "scan" /\ next <= Len(list)
  /\ \/ /\ matched
        /\ verdict' = IF r.action = "block" /\ mode = "block" THEN "block" ELSE "flag"
        /\ hit' = next
        /\ gate' = "done"
        /\ UNCHANGED next
     \/ /\ ~matched
        /\ next' = next + 1
        /\ UNCHANGED <<verdict, hit, gate>>
  /\ UNCHANGED <<list, mode, call, pluginVars>>

(* One turn of evaluate's loop: a block rule decides, the first flag rule  *)
(* is remembered.  A special rule other than the secret one has no regex.  *)
GateRule ==
  LET r == list[next]
      matched == Matches(r, GateText(call)) IN
  /\ gate = "scan" /\ next <= Len(list)
  /\ \/ /\ r.kind = "dunder"
        /\ gate' = "raised"
        /\ UNCHANGED <<next, verdict, hit>>
     \/ /\ r.kind # "dunder" /\ matched /\ r.action = "block"
        /\ verdict' = IF mode = "block" THEN "block" ELSE "flag"
        /\ hit' = next
        /\ gate' = "done"
        /\ UNCHANGED next
     \/ /\ r.kind # "dunder" /\ ~(matched /\ r.action = "block")
        /\ next' = next + 1
        /\ \/ matched /\ verdict = "allow" /\ verdict' = "flag" /\ hit' = next
           \/ ~(matched /\ verdict = "allow") /\ UNCHANGED <<verdict, hit>>
        /\ UNCHANGED gate
  /\ UNCHANGED <<list, mode, call, pluginVars>>

GateEnd ==
  /\ gate = "scan" /\ next > Len(list)
  /\ gate' = "done"
  /\ UNCHANGED <<list, mode, call, next, verdict, hit, pluginVars>>

(* mutant: the plugin throws at the first rule that matches                *)
MutPluginRule ==
  LET matched == pnext \in Compiled(PluginList) /\ Matches(PluginList[pnext], PluginText(call)) IN
  /\ plugin = "scan" /\ pnext <= Len(PluginList)
  /\ plog' = IF matched THEN Append(plog, pnext) ELSE plog
  /\ plugin' = IF matched THEN "thrown" ELSE "scan"
  /\ pnext' = pnext + 1
  /\ UNCHANGED <<list, mode, call, gateVars>>

(* One turn of the hook's loop: every rule that matches is logged, and the *)
(* first block rule throws.  A rule that the plugin does not have is none  *)
(* of its turns and changes nothing.                                       *)
PluginRule ==
  LET r == PluginList[pnext]
      matched == pnext \in Compiled(PluginList) /\ Matches(r, PluginText(call)) IN
  /\ plugin = "scan" /\ pnext <= Len(PluginList)
  /\ plog' = IF matched THEN Append(plog, pnext) ELSE plog
  /\ plugin' = IF matched /\ r.action = "block" THEN "thrown" ELSE "scan"
  /\ pnext' = pnext + 1
  /\ UNCHANGED <<list, mode, call, gateVars>>

PluginEnd ==
  /\ plugin = "scan" /\ pnext > Len(PluginList)
  /\ plugin' = "passed"
  /\ UNCHANGED <<list, mode, call, pnext, plog, gateVars>>

(* Both have answered.                                                     *)
Over == gate # "scan" /\ plugin # "scan" /\ UNCHANGED scanVars

ScanNext == GateRule \/ GateEnd \/ PluginRule \/ PluginEnd \/ Over
ScanSpec == ScanInit /\ [][ScanNext]_scanVars
-----------------------------------------------------------------------------
ScanTypeOK ==
  /\ list \in Seq(Rule)
  /\ mode \in {"block", "flag"}
  /\ next \in 1..(Len(list) + 1)
  /\ verdict \in {"allow", "flag", "block"}
  /\ hit \in 0..Len(list)
  /\ gate \in {"scan", "done", "raised"}
  /\ pnext \in Nat \ {0}
  /\ plog \in Seq(Nat)
  /\ plugin \in {"scan", "thrown", "passed"}

Hits(a) == {k \in 1..Len(list) : list[k].action = a /\ Matches(list[k], GateText(call))}

(* Wherever they stand in the file: a block rule that matches wins over    *)
(* every flag rule and the first of them is named; without one, the first  *)
(* flag rule that matches is named; in flag mode a block only flags.       *)
FirstBlockWins ==
  gate = "done" =>
    \/ /\ hit \in Hits("block")
       /\ \A k \in Hits("block") : hit <= k
       /\ verdict = IF mode = "block" THEN "block" ELSE "flag"
    \/ /\ Hits("block") = {} /\ hit \in Hits("flag")
       /\ \A k \in Hits("flag") : hit <= k
       /\ verdict = "flag"
    \/ /\ Hits("block") = {} /\ Hits("flag") = {}
       /\ hit = 0 /\ verdict = "allow"

(* On a call with decoded strings, and a file of which the plugin has any  *)
(* rule: the plugin stops exactly the calls that a block rule it has       *)
(* matches, and only what the router stops too; a rule the router names is *)
(* in its log if it has that rule, and last there if it threw.  What the   *)
(* router blocks by a rule the plugin does not have (special patterns, and *)
(* those JavaScript rejects), the plugin need not stop.                    *)
PointsAgree ==
  Compiled(list) # {} /\ call.json /\ call.strings # {} /\ gate = "done" /\ plugin # "scan" =>
    /\ plugin = "thrown" <=> Hits("block") \cap Compiled(list) # {}
    /\ plugin = "thrown" => hit \in Hits("block")
    /\ hit \in Compiled(list) =>
         /\ hit \in {plog[k] : k \in 1..Len(plog)}
         /\ plugin = "thrown" => Last(plog) = hit
=============================================================================
