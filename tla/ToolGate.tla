------------------------------ MODULE ToolGate ------------------------------
(***************************************************************************)
(* What the guard promises about the tool calls of one streamed reply,     *)
(* whatever the wire format: the arguments of a call may grow until the    *)
(* call is judged; the verdict is the verdict of everything assembled;     *)
(* only a call judged and not blocked is passed on in its original form;   *)
(* a blocked call may be replaced.  The one way round the verdict is       *)
(* fail_mode "open", once the guard itself has failed.                     *)
(*                                                                         *)
(* ChatStream, AnthropicStream and ResponsesStream implement it, each     *)
(* under its own mapping.                                                  *)
(***************************************************************************)
EXTENDS Sequences

CONSTANTS
  Calls,        \* the tool calls of the reply
  Pieces,       \* fragments of arguments, as they arrive on the wire
  BlockedArgs,  \* assembled arguments that match a rule with action block
  FlaggedArgs   \* assembled arguments that match a rule with action flag only

VARIABLES
  mode,         \* Gate.mode: "block", or "flag" for the dry run
  assembled,    \* what has arrived of each call
  verdict,      \* the verdict on each call, "none" until it is judged
  passed,       \* the calls of which an original fragment was released
  replaced,     \* the calls of which the replacement was released
  opened        \* the guard has failed and fail_mode is open

gateVars == <<mode, assembled, verdict, passed, replaced, opened>>

Verdicts == {"allow", "flag", "block"}

(* The verdict on assembled arguments: a block rule wins over a flag rule, *)
(* and in flag mode it only flags.                                         *)
Judgement(args) ==
  CASE args \in BlockedArgs -> IF mode = "block" THEN "block" ELSE "flag"
    [] args \in FlaggedArgs \ BlockedArgs -> "flag"
    [] OTHER -> "allow"

Init ==
  /\ mode \in {"block", "flag"}
  /\ assembled = [c \in Calls |-> <<>>]
  /\ verdict = [c \in Calls |-> "none"]
  /\ passed = {}
  /\ replaced = {}
  /\ opened = FALSE

(* Fragments arrive, for calls that are not judged yet.                    *)
Receive ==
  /\ assembled' \in [Calls -> Seq(Pieces)]
  /\ \A c \in Calls : assembled'[c] # assembled[c] => verdict[c] = "none"
  /\ UNCHANGED <<mode, verdict, passed, replaced, opened>>

Judge(c) ==
  /\ verdict[c] = "none"
  /\ verdict' = [verdict EXCEPT ![c] = Judgement(assembled[c])]
  /\ UNCHANGED <<mode, assembled, passed, replaced, opened>>

(* Something is released: more of calls that were let through, or the      *)
(* replacement of blocked ones.                                            *)
Release ==
  /\ passed \subseteq passed'
  /\ \A c \in passed' \ passed : c \in Calls /\ verdict[c] \in {"allow", "flag"}
  /\ replaced \subseteq replaced'
  /\ \A c \in replaced' \ replaced : c \in Calls /\ verdict[c] = "block"
  /\ UNCHANGED <<mode, assembled, verdict, opened>>

FailOpen ==
  /\ opened' = TRUE
  /\ UNCHANGED <<mode, assembled, verdict, passed, replaced>>

(* After the guard failed open, everything held is flushed as it came.     *)
FlushOpen ==
  /\ opened
  /\ passed \subseteq passed' /\ passed' \ passed \subseteq Calls
  /\ replaced \subseteq replaced' /\ replaced' \ replaced \subseteq Calls
  /\ UNCHANGED <<mode, assembled, verdict, opened>>

Next ==
  \/ Receive
  \/ \E c \in Calls : Judge(c)
  \/ Release
  \/ FailOpen
  \/ FlushOpen

Spec == Init /\ [][Next]_gateVars
=============================================================================
