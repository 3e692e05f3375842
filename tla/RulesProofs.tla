----------------------------- MODULE RulesProofs -----------------------------
(***************************************************************************)
(* Theorems about the rules: their evaluation on a call by Gate.evaluate   *)
(* and by the hook of the opencode plugin (RuleScan), for every rules file *)
(* and every call, and their hot reload (RulesReload), for any contents,   *)
(* any debounce and any number of edits.  The two specifications share no  *)
(* variable, and each theorem is about one of them.                        *)
(***************************************************************************)
EXTENDS RuleScan, RulesReload, SequenceLemmas

(***************************************************************************)
(* The gate.                                                               *)
(***************************************************************************)

LEMMA ScanTypeNext ==
  ASSUME ScanTypeOK, [ScanNext]_scanVars
  PROVE  ScanTypeOK'
<1> USE DEF ScanTypeOK
<1>1. CASE GateRule
  BY <1>1 DEF GateRule, pluginVars
<1>2. CASE GateEnd
  BY <1>2 DEF GateEnd, pluginVars
<1>3. CASE PluginRule
  BY <1>3 DEF PluginRule, gateVars
<1>4. CASE PluginEnd
  BY <1>4 DEF PluginEnd, gateVars
<1>5. CASE Over \/ UNCHANGED scanVars
  BY <1>5 DEF Over, scanVars, gateVars, pluginVars
<1> QED
  BY <1>1, <1>2, <1>3, <1>4, <1>5 DEF ScanNext

(* The scans of the router and of the plugin stay within their rules: the  *)
(* rule that evaluate names is one of the file, or none.                   *)
THEOREM ScanTypes == ScanSpec => []ScanTypeOK
<1>1. ScanInit => ScanTypeOK
  BY RuleListsAssumption DEF ScanInit, ScanTypeOK
<1> QED
  BY <1>1, ScanTypeNext, PTL DEF ScanSpec

(* What the scan has established about the rules before next.              *)
ScanInv ==
  /\ list \in Seq(Rule)
  /\ next \in 1..(Len(list) + 1)
  /\ gate = "scan" =>
       /\ \A k \in Hits("block") : next <= k
       /\ \/ verdict = "allow" /\ hit = 0 /\ \A k \in Hits("flag") : next <= k
          \/ /\ verdict = "flag" /\ hit \in Hits("flag")
             /\ \A k \in Hits("flag") : hit <= k
  /\ FirstBlockWins

LEMMA InitScan == ScanInit => ScanInv
<1> SUFFICES ASSUME ScanInit PROVE ScanInv
  OBVIOUS
<1>1. list \in Seq(Rule) /\ next = 1 /\ gate = "scan" /\ verdict = "allow" /\ hit = 0
  BY RuleListsAssumption DEF ScanInit
<1>2. next \in 1..(Len(list) + 1)
  <2>1. Len(list) \in Nat
    BY <1>1
  <2> QED
    BY <1>1, <2>1
<1>3. \A k \in Hits("block") \cup Hits("flag") : next <= k
  BY <1>1 DEF Hits
<1> QED
  BY <1>1, <1>2, <1>3 DEF ScanInv, FirstBlockWins

(* One more rule is looked at.                                             *)
LEMMA GateRuleScan ==
  ASSUME ScanInv, GateRule
  PROVE  ScanInv'
<1> DEFINE r == list[next]
           matched == Matches(r, GateText(call))
<1>1. /\ list \in Seq(Rule) /\ next \in 1..Len(list) /\ gate = "scan"
      /\ UNCHANGED <<list, mode, call>>
  BY DEF GateRule, ScanInv
<1>2. r.action \in {"block", "flag"}
  <2>1. r \in Rule
    BY <1>1
  <2> QED
    BY <2>1 DEF Rule
<1>3. Hits("block")' = Hits("block") /\ Hits("flag")' = Hits("flag")
  BY <1>1 DEF Hits, Matches, GateText
<1>4. /\ matched /\ r.action = "block" <=> next \in Hits("block")
      /\ matched /\ r.action = "flag" <=> next \in Hits("flag")
  BY <1>1 DEF Hits
<1>5. /\ Hits("block") \subseteq Nat /\ Hits("flag") \subseteq Nat
      /\ \A k \in Hits("block") : next <= k
      /\ \/ verdict = "allow" /\ hit = 0 /\ \A k \in Hits("flag") : next <= k
         \/ /\ verdict = "flag" /\ hit \in Hits("flag")
            /\ \A k \in Hits("flag") : hit <= k
  BY <1>1 DEF ScanInv, Hits
<1>6. CASE r.kind = "dunder"
  <2>1. gate' = "raised" /\ next' = next
    BY <1>6 DEF GateRule
  <2> QED
    BY <1>1, <2>1 DEF ScanInv, FirstBlockWins
<1>7. CASE r.kind # "dunder" /\ matched /\ r.action = "block"
  <2>1. /\ verdict' = (IF mode = "block" THEN "block" ELSE "flag")
        /\ hit' = next /\ gate' = "done" /\ next' = next
    BY <1>7 DEF GateRule
  <2>2. FirstBlockWins'
    BY <1>1, <1>3, <1>4, <1>5, <1>7, <2>1 DEF FirstBlockWins
  <2> QED
    BY <1>1, <2>1, <2>2 DEF ScanInv
<1>8. CASE r.kind # "dunder" /\ ~(matched /\ r.action = "block")
  <2>1. /\ next' = next + 1 /\ gate' = "scan"
        /\ \/ matched /\ verdict = "allow" /\ verdict' = "flag" /\ hit' = next
           \/ ~(matched /\ verdict = "allow") /\ UNCHANGED <<verdict, hit>>
    BY <1>1, <1>8 DEF GateRule
  <2>2. \A k \in Hits("block") : next' <= k
    BY <1>1, <1>4, <1>5, <1>8, <2>1
  <2>3. \/ verdict' = "allow" /\ hit' = 0 /\ \A k \in Hits("flag") : next' <= k
        \/ /\ verdict' = "flag" /\ hit' \in Hits("flag")
           /\ \A k \in Hits("flag") : hit' <= k
    <3>1. CASE matched /\ verdict = "allow"
      BY <1>2, <1>4, <1>5, <1>8, <2>1, <3>1
    <3>2. CASE ~matched /\ verdict = "allow"
      BY <1>1, <1>4, <1>5, <2>1, <3>2
    <3>3. CASE verdict # "allow"
      BY <1>5, <2>1, <3>3
    <3> QED
      BY <3>1, <3>2, <3>3
  <2>4. next' \in 1..(Len(list') + 1)
    BY <1>1, <2>1
  <2> QED
    BY <1>1, <1>3, <2>1, <2>2, <2>3, <2>4 DEF ScanInv, FirstBlockWins
<1> QED
  BY <1>6, <1>7, <1>8

(* No rule is left.                                                        *)
LEMMA GateEndScan ==
  ASSUME ScanInv, GateEnd
  PROVE  ScanInv'
<1>1. Hits("block")' = Hits("block") /\ Hits("flag")' = Hits("flag")
  BY DEF GateEnd, Hits, Matches, GateText
<1>2. \A k \in Hits("block") \cup Hits("flag") : k \in Nat /\ k < next
  BY DEF GateEnd, ScanInv, Hits
<1>3. FirstBlockWins'
  BY <1>1, <1>2 DEF GateEnd, ScanInv, FirstBlockWins
<1> QED
  BY <1>3 DEF GateEnd, ScanInv

LEMMA NextScan ==
  ASSUME ScanInv, [ScanNext]_scanVars
  PROVE  ScanInv'
<1>1. CASE GateRule
  BY <1>1, GateRuleScan
<1>2. CASE GateEnd
  BY <1>2, GateEndScan
<1>3. CASE PluginRule \/ PluginEnd \/ Over \/ UNCHANGED scanVars
  <2>1. UNCHANGED <<list, mode, call, gateVars>>
    BY <1>3 DEF PluginRule, PluginEnd, Over, scanVars
  <2> QED
    BY <2>1 DEF ScanInv, FirstBlockWins, Hits, Matches, GateText, gateVars
<1> QED
  BY <1>1, <1>2, <1>3 DEF ScanNext

(* Every rules file, every call, either mode: the gate names the first     *)
(* block rule that matches, or failing that the first flag rule, wherever  *)
(* the rules stand in the file.                                            *)
THEOREM EvaluateNamesFirstBlock == ScanSpec => []FirstBlockWins
<1>1. ScanInit => ScanInv
  BY InitScan
<1>2. ScanInv /\ [ScanNext]_scanVars => ScanInv'
  BY NextScan
<1>3. ScanInv => FirstBlockWins
  BY DEF ScanInv
<1> QED
  BY <1>1, <1>2, <1>3, PTL DEF ScanSpec
-----------------------------------------------------------------------------
(***************************************************************************)
(* The plugin beside the gate.                                             *)
(***************************************************************************)

(* What the hook has established about the rules before pnext.             *)
Comparable == Compiled(list) # {} /\ call.json /\ call.strings # {}
Had(a)     == Hits(a) \cap Compiled(list)
Logged(m)  == \E n \in 1..Len(plog) : plog[n] = m
PluginInv ==
  /\ list \in Seq(Rule) /\ pnext \in Nat \ {0} /\ plog \in Seq(Nat)
  /\ plugin \in {"scan", "thrown", "passed"}
  /\ Comparable =>
       /\ \A m \in Had("block") \cup Had("flag") : m < pnext => Logged(m)
       /\ plugin = "scan" => pnext <= Len(list) + 1 /\ \A m \in Had("block") : pnext <= m
       /\ plugin = "thrown" =>
            \E m \in Had("block") : /\ \A l \in Had("block") : m <= l
                                    /\ plog # <<>> /\ Last(plog) = m
       /\ plugin = "passed" => Had("block") = {} /\ pnext > Len(list)

LEMMA HitsStay ==
  ASSUME UNCHANGED <<list, call>>
  PROVE  (\A a : Had(a)' = Had(a)) /\ (Comparable' <=> Comparable) /\ PluginList' = PluginList
BY DEF Had, Hits, Matches, GateText, Comparable, Converted, Compiled, PluginList

(* One more rule is looked at.                                             *)
LEMMA PluginRuleScan ==
  ASSUME PluginInv, PluginRule
  PROVE  PluginInv'
<1>1. /\ plugin = "scan" /\ pnext <= Len(PluginList) /\ pnext' = pnext + 1
      /\ UNCHANGED <<list, call>>
      /\ list \in Seq(Rule) /\ pnext \in Nat \ {0} /\ plog \in Seq(Nat)
  BY DEF PluginRule, PluginInv
<1> DEFINE matched == pnext \in Compiled(PluginList) /\ Matches(PluginList[pnext], PluginText(call))
<1>2. /\ plog' = (IF matched THEN Append(plog, pnext) ELSE plog)
      /\ plugin' = (IF matched /\ PluginList[pnext].action = "block" THEN "thrown" ELSE "scan")
  BY DEF PluginRule
<1> HIDE DEF matched
<1>3. plog' \in Seq(Nat) /\ pnext' \in Nat \ {0}
  BY <1>1, <1>2
<1>4. (\A a : Had(a)' = Had(a)) /\ (Comparable' <=> Comparable)
  BY <1>1, HitsStay
<1>5. ASSUME Comparable
      PROVE  /\ \A m \in Had("block") \cup Had("flag") : m < pnext' => Logged(m)'
             /\ plugin' = "scan" => pnext' <= Len(list) + 1 /\ \A m \in Had("block") : pnext' <= m
             /\ plugin' = "thrown" =>
                  \E m \in Had("block") : /\ \A l \in Had("block") : m <= l
                                          /\ plog' # <<>> /\ Last(plog') = m
  <2>1. PluginList = list
    BY <1>5 DEF Comparable, PluginList
  <2>2. PluginText(call) = GateText(call)
    BY <1>5 DEF Comparable, PluginText, GateText
  <2>3. matched /\ list[pnext].action = "block" <=> pnext \in Had("block")
    BY <1>1, <2>1, <2>2 DEF Had, Hits, Compiled, Converted, matched
  <2>4. \A m \in Had("block") \cup Had("flag") : m = pnext => matched
    BY <2>1, <2>2 DEF Had, Hits, Compiled, Converted, matched
  <2>5. /\ \A m \in Had("block") \cup Had("flag") : m < pnext => Logged(m)
        /\ \A m \in Had("block") : pnext <= m
    BY <1>1, <1>5 DEF PluginInv
  <2>6. \A m \in Had("block") \cup Had("flag") : m \in Nat
    BY DEF Had, Hits
  <2>7. ASSUME NEW m, Logged(m) PROVE Logged(m)'
    <3>1. PICK n \in 1..Len(plog) : plog[n] = m
      BY <2>7 DEF Logged
    <3>2. n \in 1..Len(plog') /\ plog'[n] = m
      BY <1>1, <1>2, <3>1
    <3> QED
      BY <3>2 DEF Logged
  <2>8. ASSUME NEW m, m = pnext, matched PROVE Logged(m)'
    <3>1. plog' = Append(plog, pnext)
      BY <1>2, <2>8
    <3>2. Len(plog) + 1 \in 1..Len(plog') /\ plog'[Len(plog) + 1] = m
      BY <1>1, <2>8, <3>1
    <3> QED
      BY <3>2 DEF Logged
  <2>9. \A m \in Had("block") \cup Had("flag") : m < pnext' => Logged(m)'
    <3> SUFFICES ASSUME NEW m \in Had("block") \cup Had("flag"), m < pnext' PROVE Logged(m)'
      OBVIOUS
    <3>1. m < pnext \/ m = pnext
      BY <1>1, <2>6
    <3>2. CASE m < pnext
      BY <2>5, <2>7, <3>2
    <3>3. CASE m = pnext
      BY <2>4, <2>8, <3>3
    <3> QED
      BY <3>1, <3>2, <3>3
  <2>10. CASE matched /\ list[pnext].action = "block"
    <3>1. plog' = Append(plog, pnext) /\ plugin' = "thrown"
      BY <1>2, <2>1, <2>10
    <3>2. plog' # <<>> /\ Last(plog') = pnext
      BY <1>1, <3>1 DEF Last
    <3> QED
      BY <2>3, <2>5, <2>9, <2>10, <3>1, <3>2
  <2>11. CASE ~(matched /\ list[pnext].action = "block")
    <3>1. plugin' = "scan"
      BY <1>2, <2>1, <2>11
    <3>2. pnext' <= Len(list) + 1
      BY <1>1, <2>1
    <3>3. \A m \in Had("block") : pnext' <= m
      BY <1>1, <2>3, <2>5, <2>6, <2>11
    <3> QED
      BY <2>9, <3>1, <3>2, <3>3
  <2> QED
    BY <2>10, <2>11
<1>6. plugin' # "passed"
  BY <1>2
<1>7. ASSUME Comparable
      PROVE  /\ \A m \in Had("block")' \cup Had("flag")' : m < pnext' => Logged(m)'
             /\ plugin' = "scan" => pnext' <= Len(list') + 1 /\ \A m \in Had("block")' : pnext' <= m
             /\ plugin' = "thrown" =>
                  \E m \in Had("block")' : /\ \A l \in Had("block")' : m <= l
                                           /\ plog' # <<>> /\ Last(plog') = m
  BY <1>1, <1>4, <1>5, <1>7
<1> QED
  BY <1>1, <1>2, <1>3, <1>4, <1>6, <1>7 DEF PluginInv

(* Every other step leaves the hook where it was, or ends it.              *)
LEMMA PluginOther ==
  ASSUME PluginInv, PluginEnd \/ GateRule \/ GateEnd \/ UNCHANGED scanVars
  PROVE  PluginInv'
<1>1. /\ UNCHANGED <<list, call, pnext, plog>>
      /\ plugin' = plugin \/ (plugin = "scan" /\ plugin' = "passed" /\ pnext > Len(PluginList))
  BY DEF PluginEnd, GateRule, GateEnd, scanVars, pluginVars
<1>2. /\ (\A a : Had(a)' = Had(a)) /\ (Comparable' <=> Comparable)
      /\ \A m : Logged(m)' <=> Logged(m)
  BY <1>1, HitsStay DEF Logged
<1>3. list \in Seq(Rule) /\ pnext \in Nat \ {0} /\ plog \in Seq(Nat)
  BY DEF PluginInv
<1>4. CASE plugin' = plugin
  BY <1>1, <1>2, <1>4 DEF PluginInv
<1>5. CASE plugin = "scan" /\ plugin' = "passed" /\ pnext > Len(PluginList)
  <2>1. Comparable => PluginList = list
    BY DEF Comparable, PluginList
  <2>2. Comparable => Had("block") = {} /\ pnext > Len(list)
    <3> SUFFICES ASSUME Comparable PROVE Had("block") = {} /\ pnext > Len(list)
      OBVIOUS
    <3>1. pnext > Len(list)
      BY <1>5, <2>1
    <3>2. \A m \in Had("block") : pnext <= m /\ m \in 1..Len(list)
      BY <1>5 DEF PluginInv, Had, Hits
    <3>3. Len(list) \in Nat
      BY <1>3
    <3> QED
      BY <1>3, <3>1, <3>2, <3>3
  <2> QED
    BY <1>1, <1>2, <1>5, <2>2 DEF PluginInv
<1> QED
  BY <1>1, <1>4, <1>5

(* For every file of which the plugin has any rule, with special patterns  *)
(* and such that JavaScript rejects among them, every call with decoded    *)
(* strings, and in whatever order the two are asked: the plugin throws     *)
(* exactly when a block rule that it has matches, and then the gate has a  *)
(* block rule too; a rule the gate names is in the plugin's log, if the    *)
(* plugin has it.                                                          *)
THEOREM BothPointsAgree == ScanSpec => []PointsAgree
<1>1. ScanInit => ScanInv /\ PluginInv
  <2> SUFFICES ASSUME ScanInit PROVE PluginInv
    BY InitScan
  <2>1. /\ list \in Seq(Rule) /\ pnext = 1 /\ plog = <<>> /\ plugin = "scan"
    BY RuleListsAssumption DEF ScanInit
  <2>2. \A m \in Had("block") \cup Had("flag") : m \in 1..Len(list) /\ m \in Nat
    BY DEF Had, Hits
  <2>3. Len(list) \in Nat
    BY <2>1
  <2> QED
    BY <2>1, <2>2, <2>3 DEF PluginInv
<1>2. ScanInv /\ PluginInv /\ [ScanNext]_scanVars => (ScanInv /\ PluginInv)'
  <2> SUFFICES ASSUME ScanInv, PluginInv, [ScanNext]_scanVars PROVE ScanInv' /\ PluginInv'
    OBVIOUS
  <2> QED
    BY NextScan, PluginRuleScan, PluginOther DEF ScanNext, Over
<1>3. ScanInv /\ PluginInv => PointsAgree
  <2> SUFFICES ASSUME ScanInv, PluginInv, Comparable, gate = "done", plugin # "scan"
               PROVE  /\ plugin = "thrown" <=> Had("block") # {}
                      /\ plugin = "thrown" => hit \in Hits("block")
                      /\ hit \in Compiled(list) =>
                           Logged(hit) /\ (plugin = "thrown" => Last(plog) = hit)
    BY DEF PointsAgree, Comparable, Logged, Had
  <2>1. FirstBlockWins
    BY DEF ScanInv
  <2>2. /\ Hits("block") \subseteq Nat /\ Hits("flag") \subseteq Nat
        /\ \A m \in Hits("flag") : m <= Len(list)
        /\ Had("block") \subseteq Hits("block")
        /\ \A m \in Compiled(list) : m # 0
    BY DEF Hits, Had, Compiled, Converted
  <2>3. CASE plugin = "thrown"
    <3>1. PICK m \in Had("block") : (\A l \in Had("block") : m <= l) /\ plog # <<>> /\ Last(plog) = m
      BY <2>3 DEF PluginInv
    <3>2. hit \in Hits("block") /\ \A l \in Hits("block") : hit <= l
      BY <2>1, <2>2, <3>1 DEF FirstBlockWins
    <3>3. hit \in Compiled(list) => hit = m
      BY <2>2, <3>1, <3>2 DEF Had
    <3>4. plog \in Seq(Nat) /\ Last(plog) = plog[Len(plog)] /\ Len(plog) \in 1..Len(plog)
      BY <3>1 DEF PluginInv, Last
    <3>5. hit \in Compiled(list) => Logged(hit)
      BY <3>1, <3>3, <3>4 DEF Logged
    <3> QED
      BY <2>3, <3>1, <3>2, <3>3, <3>5
  <2>4. CASE plugin = "passed"
    <3>1. Had("block") = {} /\ pnext > Len(list) /\ pnext \in Nat /\ Len(list) \in Nat
      BY <2>4 DEF PluginInv
    <3>2. hit \in Compiled(list) => hit \in Had("flag") /\ hit < pnext
      BY <2>1, <2>2, <3>1 DEF FirstBlockWins, Had
    <3>3. hit \in Compiled(list) => Logged(hit)
      BY <3>2 DEF PluginInv
    <3> QED
      BY <2>4, <3>1, <3>3
  <2>5. plugin \in {"scan", "thrown", "passed"}
    BY DEF PluginInv
  <2> QED
    BY <2>3, <2>4, <2>5
<1> QED
  BY <1>1, <1>2, <1>3, PTL DEF ScanSpec
-----------------------------------------------------------------------------
(***************************************************************************)
(* The reload.                                                             *)
(***************************************************************************)

(* What a load in progress has in hand, unless the file was edited under   *)
(* it.                                                                     *)
LoadInv ==
  /\ TypeOK
  /\ UpToDate
  /\ pc # "idle" => mtime # stamp
  /\ pc = "compile" /\ loaded = stamp => text = content
  /\ pc = "record" /\ loaded = stamp => text = content /\ rules = content

LEMMA TypeInit == Init => TypeOK /\ LastGoodStays
BY ContentsAssumption, ReloadBounds DEF Init, TypeOK, LastGoodStays, Contents, Parses

LEMMA TypeNext == TypeOK /\ LastGoodStays /\ [Next]_vars => TypeOK' /\ LastGoodStays'
<1> SUFFICES ASSUME TypeOK, LastGoodStays, [Next]_vars
             PROVE  TypeOK' /\ LastGoodStays'
  OBVIOUS
<1> USE ContentsAssumption, ReloadBounds DEF TypeOK, LastGoodStays, Contents, Parses
<1>1. ASSUME NEW c \in Good \cup Bad, Replace(c) \/ Truncate(c)
      PROVE  TypeOK' /\ LastGoodStays'
  BY <1>1 DEF Replace, Truncate
<1>2. CASE RemoveFile \/ Complete
  BY <1>2 DEF RemoveFile, Complete
<1>3. CASE Tick \/ Look
  BY <1>3 DEF Tick, Look
<1>4. CASE Read
  BY <1>4 DEF Read
<1>5. CASE Compile
  BY <1>5 DEF Compile
<1>6. CASE Record
  BY <1>6 DEF Record
<1>7. CASE UNCHANGED vars
  BY <1>7 DEF vars
<1> QED
  BY <1>1, <1>2, <1>3, <1>4, <1>5, <1>6, <1>7 DEF Next, Edit, GateStep

(* A file that does not parse never takes the place of rules that do,      *)
(* however edits and loads interleave.                                     *)
THEOREM BadNeverReplacesGood == Spec => []LastGoodStays
<1>1. Spec => [](TypeOK /\ LastGoodStays)
  BY TypeInit, TypeNext, PTL DEF Spec
<1> QED
  BY <1>1, PTL

LEMMA LoadNext ==
  LoadInv /\ LastGoodStays /\ [Next]_vars => LoadInv'
<1> SUFFICES ASSUME LoadInv, LastGoodStays, [Next]_vars
             PROVE  LoadInv'
  OBVIOUS
<1>1. TypeOK /\ TypeOK'
  BY TypeNext DEF LoadInv
<1> USE <1>1 DEF LoadInv, UpToDate
<1>2. ASSUME NEW c \in Good \cup Bad, Replace(c) \/ Truncate(c)
      PROVE  LoadInv'
  BY <1>2 DEF Replace, Truncate, TypeOK
<1>3. CASE RemoveFile \/ Complete
  BY <1>3 DEF RemoveFile, Complete, TypeOK
<1>4. CASE Tick \/ Look
  BY <1>4 DEF Tick, Look
<1>5. CASE Read
  BY <1>5, ContentsAssumption DEF Read, Parses, Contents
<1>6. CASE Compile
  BY <1>6 DEF Compile
<1>7. CASE Record
  BY <1>7 DEF Record, TypeOK
<1>8. CASE UNCHANGED vars
  BY <1>8 DEF vars
<1> QED
  BY <1>2, <1>3, <1>4, <1>5, <1>6, <1>7, <1>8 DEF Next, Edit, GateStep

(* Unless the file was edited between the read and the second stat of the  *)
(* last load, a gate that has recorded the file's mtime has its rules.     *)
THEOREM RecordedMeansLoaded == Spec => []UpToDate
<1>1. Init => LoadInv
  BY TypeInit DEF Init, LoadInv, UpToDate
<1>2. LoadInv /\ LastGoodStays /\ [Next]_vars => LoadInv'
  BY LoadNext
<1>3. LoadInv => UpToDate
  BY DEF LoadInv
<1> QED
  BY <1>1, <1>2, <1>3, BadNeverReplacesGood, PTL DEF Spec
=============================================================================
