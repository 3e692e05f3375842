---------------------------- MODULE MaskRequest ----------------------------
(***************************************************************************)
(* The masking of one request on its way out (guard/hooks.py,              *)
(* async_pre_call_hook with _mask_request and _mask_messages) over the     *)
(* secret list it uses (SecretRefresh).                                    *)
(*                                                                         *)
(* The strings of the request's text fields are masked in place one after  *)
(* the other, and each call of SecretList.mask may first refresh the list: *)
(* a request can be masked with several lists, and a refresh that fails    *)
(* leaves it masked up to there.  The hook does not await, so no other     *)
(* request uses the list meanwhile; files change and time passes.          *)
(*                                                                         *)
(* A string is how often each secret value occurs in it.                   *)
(***************************************************************************)
EXTENDS SecretRefresh, Sequences

CONSTANT
  Requests      \* the requests a client may send: their strings

VARIABLES
  fail,         \* fail_mode
  stage,        \* where the hook is
  original,     \* the strings as the client sent them (history)
  texts,        \* the strings as they stand
  k,            \* the string that is masked next
  counts,       \* how often each value was masked
  masks,        \* guard_masks: what was recorded of that
  promised      \* values the list had from the start of the request on (history)

hookVars    == <<fail, stage, original, texts, k, counts, masks, promised>>
requestVars == <<fail, original, masks>>
maskVars    == <<vars, hookVars>>

String == [Values -> Nat]

ASSUME RequestsAssumption == Requests \subseteq Seq(String)

Nothing == [v \in Values |-> 0]

(* The values of the files that are as they were when the list in force    *)
(* was parsed, and were read to their ends then.                           *)
Covered == UNION {files[p].content :
  p \in {q \in Paths \ short : Decodable(q) /\ listed[q] = files[q].stamp}}

Track == promised' = promised \cap Covered'
-----------------------------------------------------------------------------
MaskInit ==
  /\ Init
  /\ fail \in {"closed", "open"}
  /\ stage = "idle"
  /\ original = <<>> /\ texts = <<>> /\ k = 1
  /\ counts = Nothing /\ masks = Nothing
  /\ promised = {}

(* The proxy calls the hook.                                               *)
Arrive(r) ==
  /\ stage = "idle" /\ pc = "idle"
  /\ original' = r /\ texts' = r
  /\ stage' = "mask"
  /\ promised' = Covered
  /\ UNCHANGED <<vars, fail, k, counts, masks>>

(* SecretList.mask is called and the list is due.                          *)
CallRefresh ==
  /\ stage = "mask" /\ k <= Len(texts)
  /\ Begin /\ stage' = "refresh"
  /\ UNCHANGED <<requestVars, texts, k, counts>>

(* A step of that refresh; one that raises ends the masking.               *)
RefreshStep ==
  /\ stage = "refresh"
  /\ \/ /\ (\E p \in Paths : Stat(p) \/ StatFails(p) \/ Parse(p)) \/ Compare \/ Install
        /\ stage' = IF pc' = "idle" THEN "substitute" ELSE "refresh"
     \/ /\ \E p \in Paths : Undecodable(p)
        /\ stage' = "error"
  /\ UNCHANGED <<requestVars, texts, k, counts>>

(* mutant: the counts of a string replace those of the strings before it   *)
MutCounted(text) == [v \in Values |-> IF v \in values THEN text[v] ELSE 0]

(* The counts once the values of the list are masked in a string.          *)
Counted(text) == [v \in Values |-> IF v \in values THEN counts[v] + text[v] ELSE counts[v]]

(* A string with the values of the list masked.                            *)
Masked(text) == [v \in Values |-> IF v \in values THEN 0 ELSE text[v]]

(* One string is masked with the list as it is now.                        *)
Substitute ==
  /\ k <= Len(texts)
  /\ stage = "substitute" \/ (stage = "mask" /\ age < Period)
  /\ texts' = [texts EXCEPT ![k] = Masked(@)]
  /\ counts' = Counted(texts[k])
  /\ k' = k + 1
  /\ stage' = "mask"
  /\ UNCHANGED <<vars, requestVars>>

(* All strings are masked; the counts are recorded, or the ledger has      *)
(* swallowed an error, and the request goes on to the upstream.            *)
Send ==
  /\ stage = "mask" /\ k > Len(texts)
  /\ masks' \in {counts, Nothing}
  /\ stage' = "sent"
  /\ UNCHANGED <<vars, fail, original, texts, k, counts>>

(* mutant: the error is logged only                                        *)
MutGiveUp ==
  /\ stage = "error"
  /\ stage' = "sent_open"
  /\ UNCHANGED <<vars, requestVars, texts, k, counts>>

(* The except clause: the request is refused, or goes on as far as it got. *)
GiveUp ==
  /\ stage = "error"
  /\ stage' = IF fail = "closed" THEN "refused" ELSE "sent_open"
  /\ UNCHANGED <<vars, requestVars, texts, k, counts>>

(* Other requests and replies use the list while this one is not masked.   *)
Elsewhere ==
  /\ stage \notin {"mask", "refresh", "substitute", "error"}
  /\ Refresh /\ Track
  /\ UNCHANGED <<requestVars, stage, texts, k, counts>>

(* Files change at any time.                                               *)
Edit ==
  /\ \E p \in Paths : (\E c \in Contents : Save(p, c)) \/ RemoveFile(p)
  /\ Track
  /\ UNCHANGED <<requestVars, stage, texts, k, counts>>

TimePasses ==
  /\ Tick /\ Track
  /\ UNCHANGED <<requestVars, stage, texts, k, counts>>

HookStep == (CallRefresh \/ RefreshStep \/ Substitute \/ Send \/ GiveUp) /\ Track

MaskNext ==
  \/ \E r \in Requests : Arrive(r)
  \/ HookStep
  \/ Elsewhere
  \/ Edit
  \/ TimePasses

(* The hook runs on, time passes and other requests keep using the list.   *)
MaskSpec ==
  /\ MaskInit /\ [][MaskNext]_maskVars
  /\ WF_maskVars(HookStep) /\ WF_maskVars(Elsewhere) /\ WF_maskVars(TimePasses)
-----------------------------------------------------------------------------
MaskTypeOK ==
  /\ fail \in {"closed", "open"}
  /\ stage \in {"idle", "mask", "refresh", "substitute", "error", "sent", "sent_open", "refused"}
  /\ texts \in Seq(String) /\ Len(texts) = Len(original)
  /\ k \in 1..(Len(texts) + 1)
  /\ counts \in [Values -> Nat] /\ masks \in [Values -> Nat]
  /\ promised \subseteq Values
  /\ pc # "idle" => stage \notin {"mask", "substitute", "error"}

(* A request that leaves has no value left that the list had, from a file  *)
(* nobody touched meanwhile and no refresh failed to stat or read, when    *)
(* its masking began, however often the list was refreshed between its     *)
(* strings; in closed mode it does not leave if that raised half way.      *)
PromisedNotSent ==
  stage = "sent" \/ (stage = "sent_open" /\ fail = "closed") =>
    \A i \in 1..Len(texts) : \A v \in promised : texts[i][v] = 0

(* How often v occurs in the first n strings, for every n, and in all.      *)
Tally(s, v) ==
  LET upTo[n \in 0..Len(s)] == IF n = 0 THEN 0 ELSE upTo[n - 1] + s[n][v]
  IN  upTo
Occurrences(s, v) == Tally(s, v)[Len(s)]

(* What the ledger recorded is what is gone from the strings that left.    *)
CountsMatch ==
  stage = "sent" /\ masks # Nothing =>
    \A v \in Values : Occurrences(original, v) = masks[v] + Occurrences(texts, v)
=============================================================================
