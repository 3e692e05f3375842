----------------------------- MODULE LeakAudit -----------------------------
(***************************************************************************)
(* The ledger of tool calls and the audit that joins it with a harness's   *)
(* store (guard/ledger.py, audit/leak_audit.py and its adapters opencode   *)
(* and router_log).                                                        *)
(*                                                                         *)
(* A harness runs sessions: request, reply, and while the reply has tool   *)
(* calls, their results and the next request.  The router picks an         *)
(* upstream for every request.  The guard writes a row for every call it   *)
(* judges; the harness stores every result with a stamp of its own clock.  *)
(* At any time the audit can be run over both stores.  All rows of one     *)
(* reply agree in what the audit reads, so one stands for them.            *)
(***************************************************************************)
EXTENDS Naturals, Sequences, FiniteSets, FiniteSetsExt

CONSTANTS
  Sessions,      \* sessions of the harness
  Keys,          \* names of secrets
  Bases,         \* the api_base of upstreams
  FirstParty,    \* those whose host is a model maker's own
  NoBase,        \* an upstream the callback learns no api_base of
  NoRow,         \* NO_ROW, and the session of a row without session header
  Windows,       \* --days, in ticks, 0 for all time
  Margin,        \* the second the join looks back, in ticks
  MaxTime,       \* bound: ticks
  MaxRequests    \* bound: requests of all sessions

VARIABLES
  conf,          \* session header, where the ledger is configured, --days
  now,           \* the time
  stage,         \* session -> what it is waiting for
  called,        \* session -> when its last reply with calls came
  served,        \* session -> the upstreams of its requests, in order (history)
  rows,          \* guard_tool_calls
  parts          \* the stored tool results that hold a secret

harnessVars == <<stage, called, served>>
vars == <<conf, now, harnessVars, rows, parts>>

Upstreams == Bases \cup {NoBase}
Conf == [header : BOOLEAN, ledger : {"env", "rules"}, days : Windows]
Row  == [session : Sessions \cup {NoRow}, ts : Nat, base : Upstreams, request : Nat]
Part == [session : Sessions, ts : Nat, keys : SUBSET Keys, request : Nat]

ASSUME NamesAssumption ==
  NoBase \notin Bases /\ FirstParty \subseteq Bases /\ NoRow \notin Sessions \cup Upstreams
ASSUME TimesAssumption == Windows \subseteq Nat /\ {Margin, MaxTime, MaxRequests} \subseteq Nat
-----------------------------------------------------------------------------
Init ==
  /\ conf \in Conf
  /\ now = 0
  /\ stage = [s \in Sessions |-> "user"]
  /\ called = [s \in Sessions |-> 0]
  /\ served = [s \in Sessions |-> <<>>]
  /\ rows = <<>>
  /\ parts = {}

Tick ==
  /\ now < MaxTime
  /\ now' = now + 1
  /\ UNCHANGED <<conf, harnessVars, rows, parts>>

Asked == MapThenSumSet(LAMBDA s : Len(served[s]), Sessions)

(* The harness sends its next request and the router picks an upstream.    *)
Ask(s, u) ==
  /\ stage[s] = "user" /\ Asked < MaxRequests
  /\ stage' = [stage EXCEPT ![s] = "reply"]
  /\ served' = [served EXCEPT ![s] = Append(@, u)]
  /\ UNCHANGED <<conf, now, called, rows, parts>>

(* _ctx_from_request: the session is what a header of the request says.    *)
SessionId(s) == IF conf.header THEN s ELSE NoRow

(* The row of a judged call.                                               *)
Record(s) ==
  Append(rows, [session |-> SessionId(s), ts |-> now,
                base |-> served[s][Len(served[s])], request |-> Len(served[s])])

(* A reply without tool calls, of which the ledger has nothing.            *)
ReplyText(s) ==
  /\ stage[s] = "reply"
  /\ stage' = [stage EXCEPT ![s] = "user"]
  /\ UNCHANGED <<conf, now, called, served, rows, parts>>

(* A reply with tool calls: they are judged and recorded, or tool_call has *)
(* swallowed an error of the database, and handed to the harness.          *)
ReplyCalls(s) ==
  /\ stage[s] = "reply"
  /\ rows' \in {rows, Record(s)}
  /\ stage' = [stage EXCEPT ![s] = "tools"]
  /\ called' = [called EXCEPT ![s] = now]
  /\ UNCHANGED <<conf, now, served, parts>>

(* The tools have run.  The harness has stamped the result when it created *)
(* its part, at some time since it was handed the call.                    *)
ToolResult(s, ks, ts) ==
  /\ stage[s] = "tools" /\ called[s] <= ts /\ ts <= now
  /\ stage' = [stage EXCEPT ![s] = "user"]
  /\ parts' = IF ks = {} THEN parts
              ELSE parts \cup {[session |-> s, ts |-> ts, keys |-> ks, request |-> Len(served[s])]}
  /\ UNCHANGED <<conf, now, called, served, rows>>

Next ==
  \/ Tick
  \/ \E s \in Sessions :
       \/ \E u \in Upstreams : Ask(s, u)
       \/ ReplyText(s)
       \/ ReplyCalls(s)
       \/ \E ks \in SUBSET Keys, ts \in 0..now : ToolResult(s, ks, ts)

Spec == Init /\ [][Next]_vars
-----------------------------------------------------------------------------
(***************************************************************************)
(* The audit, run now.                                                     *)
(***************************************************************************)
(* The guard writes where the rules say (configure), else to the path of   *)
(* the environment or the default; the audit does not read ledger_db.      *)
GuardDb == conf.ledger
AuditDb == "env"
Visible == IF AuditDb = GuardDb THEN rows ELSE <<>>

(* opencode.scan: the parts with a secret, of the window.                  *)
Hits == {h \in parts : conf.days = 0 \/ h.ts + conf.days > now}

(* mutant: the rows of every session count                                 *)
MutMatches(h) == {i \in 1..Len(Visible) : Visible[i].ts + Margin >= h.ts}

(* The query of attach_upstreams: the first of these rows, by ts.          *)
Matches(h) ==
  {i \in 1..Len(Visible) : Visible[i].session = h.session /\ Visible[i].ts + Margin >= h.ts}

(* mutant: the last of the rows                                            *)
MutJoined(h) == CHOOSE j \in Matches(h) : \A l \in Matches(h) : l <= j

Joined(h) ==
  CHOOSE j \in Matches(h) : \A l \in Matches(h) :
    Visible[j].ts < Visible[l].ts \/ (Visible[j].ts = Visible[l].ts /\ j <= l)

(* The label of a hit, the base standing for its host.                     *)
Upstream(h) ==
  IF Matches(h) = {} \/ Visible[Joined(h)].base = NoBase THEN NoRow ELSE Visible[Joined(h)].base

IsIntermediary(label) == label \notin FirstParty \cup {NoRow}

(* build_report: crossed_intermediary of a key.                            *)
Crossed(key) == \E h \in Hits : key \in h.keys /\ IsIntermediary(Upstream(h))
-----------------------------------------------------------------------------
TypeOK ==
  /\ conf \in Conf /\ now \in 0..MaxTime
  /\ stage \in [Sessions -> {"user", "reply", "tools"}]
  /\ called \in [Sessions -> 0..MaxTime]
  /\ served \in [Sessions -> Seq(Upstreams)]
  /\ rows \in Seq(Row) /\ parts \subseteq Part

(* The request that carried the result of h to an upstream, whether it is  *)
(* recorded where the audit looks, and whether a row of an earlier request *)
(* is too close to the hit to tell.                                        *)
NextRequest(h) == h.request + 1
Sent(h)        == NextRequest(h) <= Len(served[h.session])
Of(s, r)       == {i \in 1..Len(Visible) : Visible[i].session = s /\ Visible[i].request = r}
Recorded(h)    == Of(h.session, NextRequest(h)) # {}
TooClose(h)    == \E r \in 1..h.request : \E i \in Of(h.session, r) : Visible[i].ts + Margin >= h.ts
Answer(h)      == LET u == served[h.session][NextRequest(h)] IN IF u = NoBase THEN NoRow ELSE u

(* For a hit more than a second behind the last call recorded before it,   *)
(* the audit names the upstream that served the next request, if that      *)
(* request was answered with a recorded call; and it names none only when  *)
(* the ledger has none since.                                              *)
NamesNextUpstream ==
  \A h \in Hits :
    /\ Recorded(h) /\ ~TooClose(h) => Upstream(h) = Answer(h)
    /\ Upstream(h) = NoRow =>
         \A r \in NextRequest(h)..Len(served[h.session]) : Of(h.session, r) = {} \/
           \E q \in 1..r : Of(h.session, q) # {} /\ served[h.session][q] = NoBase

(* The exit status blames an intermediary for a key only if one served a   *)
(* request of a session the key was found in; what other sessions did in   *)
(* the meantime does not matter.                                           *)
NoFalseAlarm ==
  \A key \in Keys : Crossed(key) =>
    \E h \in parts : /\ key \in h.keys
                     /\ \E r \in 1..Len(served[h.session]) :
                          served[h.session][r] \in Bases \ FirstParty
=============================================================================
