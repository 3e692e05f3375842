# routerguard in TLA+

A verification development for `routerguard`: TLA+ modules that model its
core, TLC configurations that check them on small instances, and theorems that
TLAPS proves for every value of the constants. Paths are relative to `src/`;
line numbers are those of the modelled commit.

## 1. Inventory

routerguard is a callback of the LiteLLM proxy. It sits between an agent and
the model behind a router, masks secret values in requests, judges the tool
calls of replies, and keeps a ledger of both.

    agent --> async_pre_call_hook: mask --> upstream model
    agent <-- success / streaming hooks: gate <-- upstream model
                    |            |
              Gate (rules)   SecretList        both re-read their files
                    |
              ledger (sqlite) --> leak-audit (offline)
    opencode plugin: the same rules, enforced again before a tool runs

| component | state | operations | interacts with | what is hard | what makes it correct |
|---|---|---|---|---|---|
| chat streams, `hooks.py` `_stream_chat` | held tool chunks, chunks held behind them, calls by index, verdicts, replaced calls | take a chunk, keepalive, judge, release / rewrite / strip, note, failure flush | upstream iterator, client, gate, ledger | a call is spread over deltas; two buffers are released in another order than they came; a failure, timeout or disconnection may come at any await or yield | only judged calls are released; what the client assembles is what was judged; text, finish reason and note arrive; a closed failure releases no call |
| Messages streams, `_stream_anthropic`, `_sse_events` | open block, its events, flags `kept_tool`, `stripped` | hold, judge at the block's stop, release / replace, patch the stop reason, failure flush | same | events and chunks do not line up; a stream may end in a held block; the stop reason depends on all earlier blocks | as above; blocks never overlap; stop reason fits what the client holds |
| Responses streams, `_stream_responses` | open item, its events, deltas, `replaced`, `dropped`, `notes` | hold, judge, rewrite / drop, patch `response.completed` | same | items interleave; the final copy is matched by id, call id or arguments | every view the client has of an item agrees with its verdict: its events, and the final copy; other items are neither lost nor reordered |
| choice of handler, `async_post_call_streaming_iterator_hook` | first chunk | read it, choose, hand on | all three handlers | a failure before the first chunk is caught by nobody | the right handler sees every chunk |
| whole replies, `async_post_call_success_hook`, `_gate_*`, `_strip_all` | the reply, changed in place | judge, rewrite, strip, strip all | gate, ledger | a failure between two calls of a half-changed reply | no blocked call survives |
| request masking, `async_pre_call_hook`, `_mask_*` | the request, changed in place | mask each field, record counts | secret list, ledger | the list is refreshed, or fails to be, between two fields | nothing leaves that the list had when the masking began; the counts fit what is gone |
| rule evaluation, `gate.py` `evaluate` | none but the rules | scan in order | secret list | order of flag and block rules, special patterns, arguments that are no JSON | the first matching block rule decides |
| rules reload, `_load`, `reload_if_changed` | rules, recorded mtime, time of the last look | look, read, compile, record | the file and whoever edits it | edits between stat, read and stat | bad rules never replace good ones; edits are taken up |
| secret list, `secrets.py` | values, signature, time of the last look | refresh, mask, contains | the files | edits between stats and reads; a stat or read that fails is swallowed, a file that does not decode raises | every value in an unchanged file is masked, unless its read failed |
| ledger, `ledger.py` | connection, rows | configure, tool_call, masks | hooks, audit | errors are swallowed | one row per judged call |
| opencode plugin, `guard-plugin.js`, `rules_to_json.py` | rules, time of the load | load or fall back, scan, throw | the exported rules file | two enforcement points must agree; special patterns, and those JavaScript rejects, are dropped | stops what the rules it has would stop at the router's gate |
| leak-audit, `audit/` | none | scan stores, join with the ledger | ledger rows | two clocks joined by time; rows that were never written | names the upstream that saw the value, and blames none that did not serve the session |

`rules.example.yaml`, the adapters' READMEs and configuration snippets are data
and instructions. `PROJECT.json` lists under `hazards` every place where this
code can go wrong in a way a test would hardly reach, with the properties that
watch it.

## 2. Modules

| module | models | how |
|---|---|---|
| `ToolGate` | what every streaming handler promises | abstract: calls grow until judged; the verdict is that of everything assembled; only calls let through are passed on; `fail_mode: open` after a failure is the only way round. The three stream modules implement it |
| `ChatStream`, `MCChatStream` | `_stream_chat`, `_on_stream_failure`, `_keepalive`, `_note` | `Receive`/`Stall`/`UpstreamEnds` are the three outcomes of the `asyncio.wait`; `JudgeCall`/`AllJudged` the verdict loop; `EmitBuffered`/`EndBuffered`/`EmitTail`/`EndTail` the three release branches, one yield per step; `ChunkError`/`GuardError`/`UpstreamError` the except clauses and `EmitFlush`/`EndFlush` the chunks they yield; `ClientGone` the closing of the generator at a yield or await |
| `AnthropicStream`, `MCAnthropicStream` | `_stream_anthropic`, `_sse_events` | `Receive` takes one event (a chunk with several is the same as several chunks); `Straddle` an event whose bytes are split between two chunks, which the handler parses in neither; `Judge`/`Build`/`Yield`/`EndRelease` the dealing with a complete block; the rest as above |
| `ResponsesStream`, `MCResponsesStream` | `_stream_responses`, `keys_of`, `patch_completed` | `Receive` takes one event, holds it or passes it on, `response.completed` patched; `Judge`/`Build`/`Yield`/`EndYields` deal with an item that is done, one yield per step; `UpstreamEnds` and the second half of `Build` with one the stream was cut in; `EventError`/`GuardError`/`UpstreamError` the except clause |
| `ReplyGate`, `MCReplyGate` | `async_post_call_success_hook`, `_gate_responses`, `_gate_anthropic`, `_strip_all` | a reply is a sequence of groups (choices, or the one output list); `JudgeItem` one turn of the verdict loop, `GroupJudged`/`RewriteCall`/`GroupRewritten`/`StripGroup` the branches behind it, `GuardError` the except clause, `DropGroup`/`DropError` `_strip_all` |
| `SecretRefresh`, `MCSecretRefresh` | `SecretList.refresh`, `_signature`, `_parse` | `Begin`, one `Stat` or `StatFails` per file, `Compare` (records the signature), one `Parse` per file, to its end or up to an `OSError`, or `Undecodable`, which raises, `Install` |
| `MaskRequest`, `MCMaskRequest` | `async_pre_call_hook`, `_mask_request`, `_mask_messages`, `SecretList.mask`, `ledger.masks` | composes with `SecretRefresh`, whose steps it takes: `CallRefresh`/`RefreshStep` the refresh inside `mask`, `Substitute` the masking of one string, `Send` the record and the return, `GiveUp` the except clause, `Elsewhere` the refreshes other requests and replies cause |
| `RulesReload` | `Gate._load`, `reload_if_changed` | one step per system call: `Look` (stat), `Read`, `Compile` (parse and install), `Record` (second stat); editors that rename, write in place or remove |
| `PluginReload`, `MCPluginReload` | `rules_to_json.py`, `loadRules` and the 30 s re-read of `guard-plugin.js` | composes with `RulesReload`: `Export` empties the exported file, `Convert` fills it from the rules file or fails, `Reload` is the plugin's load with its fallback; time is common to both |
| `RuleScan`, `MCRuleScan` | `Gate.evaluate` and the plugin's hook on one call | one step per rule at each of the two places, in any order; `Converted`, `Compiled` and `PluginList` are the rules the plugin has after the conversion, `new RegExp` and the fallback |
| `LeakAudit`, `MCLeakAudit` | `ledger.tool_call`, `configure`; `opencode.scan`, `attach_upstreams`, `label_upstream`, `build_report` | actions are what harness, router and guard do (`Ask`, `ReplyText`, `ReplyCalls`, `ToolResult`, `Tick`); the audit is an operator on the two stores (`Hits`, `Matches`, `Joined`, `Upstream`, `Crossed`), so that every state is one it may be run in |
| `ChatStreamProofs`, `AnthropicStreamProofs`, `ResponsesStreamProofs`, `ReplyGateProofs`, `MaskRequestProofs` (also for `SecretRefresh`), `RulesProofs` (for `RuleScan` and `RulesReload`), `LeakAuditProofs` | theorems | section 5 |
| `SequenceLemmas` | facts on sequences, their concatenation and finite sets | what several of the proof modules cite |

State keeps the code's names: `buffered`, `finishChunks`, `calls`, `verdicts`,
`emitted` of `ChatStream` are the locals of `_stream_chat`; `open`, `held`,
`kept`, `stripped` are `open_index`, `held`, `kept_tool`, `stripped` of
`_stream_anthropic`; `open`, `held`, `notes` of `ResponsesStream` are `open_idx`,
`held`, `notes` of `_stream_responses`, `marked` what its `replaced` and
`dropped` remember, and `calls` what it assembles of `held` and `deltas`;
`rules`, `mtime`, `age` of `RulesReload` are `rules`, `_mtime` and the time since
`_checked` of `Gate`, and `list` of `RuleScan` is `rules` as well; `sig`, `values`, `age` are `_sig`, `_values` and the time since `_at` of
`SecretList`; `texts`, `counts`, `masks` are the request's strings, the `Counter`
and the rows of `guard_masks`; `plugin`, `pluginAge` are `state.rules` and the time
since `loadedAt`; `rows` is `guard_tool_calls`. Variables marked `(history)` are
not in the code: what was received and sent, ledger rows of a stream, the stamp
under which a text was read, which files were read in part (`cut`, `short`), who
served a request, what was promised.

Abstractions. A tool call is the sequence of fragments that make up its name and
arguments, and the rules are the sets of assembled calls that match a block or a
flag rule, so that a pattern may be visible in no single fragment. The
replacement and the note are one value each; their wording is not modelled.
An mtime is a number that grows with every edit. A pattern in `RuleScan` is the
set of tokens it finds, the same in Python and in JavaScript if both compile it;
that one of the two rejects it is modelled. A string of a request is how often each secret value
occurs in it, whatever its spelling. All ledger rows of one reply agree in what
the audit reads, and one stands for them. The rules and secrets are constants of
a reply: in the code a reload may fall between two of its calls, which gives each
call the verdict of the rules then in force; how those change is the subject of
`RulesReload` and `SecretRefresh`.

Assumptions about the environment, all in guards of their own: a chat upstream
sends nothing more of a choice behind its finish reason and announces
`tool_calls` only if it sent some; a Messages upstream numbers its blocks from 0,
one after the other; a Responses upstream begins its items in order, each with an
added event and ends each with a done event, both of which name the function of a
call, with those of different items in any order between, has at most one `function_call` under way (unless `Overlapping`, the
subject of a run of its own), and sends `response.completed` last, with the ids the
items had or new ones. Any stream may end anywhere. A harness stamps a tool result
between the reply with the call and its next request. Of the two clocks of the audit
no more is assumed than that they agree.

Not modelled of the handlers: a chunk with several choices at once, a chunk with
two deltas of the same index, chunks of the Messages stream that are not bytes,
events of the upstream whose data does not parse though they came whole (both go
through), a failure between two events of one Responses rewrite, the reading task
that is left running when the client leaves. A Responses reply that ends in
`response.incomplete` or `response.failed` is one that is cut: those two events
carry a copy of the items as well, which the code passes on unpatched
(`hooks.py:605`), with blocked calls in it; they are not in the model. A blocked
chat call whose first delta has no `function` gets no replacement
(`hooks.py:512`); LiteLLM's deltas always have the field, and so have the model's.
When a replacement fails in a whole reply, the call keeps its arguments but has
the new name already (`hooks.py:360`, `390`); the model leaves it as it was, which
differs in open mode only, since closed mode drops it. Ledger errors are swallowed
(`ledger.py:86`): a row of the stream and reply modules is a call made to the
ledger, and only `MaskRequest` and `LeakAudit` lose rows.

## 3. Runs

| run | question | bounds |
|---|---|---|
| `ChatStream_main` | is what the client can assemble what was judged, with text, finish reason and note where they belong? does the handler implement `ToolGate`, does the invariant of the proofs hold, does a reply end? | 3 chunks of 9 kinds: text, usage, a call of several deltas (the block pattern only in two together, the id on either), a delta that shares its chunk with text or with the finish reason, a second call, two parallel deltas in one chunk, a finish chunk; 1 keepalive; all 16 settings of the knobs |
| `AnthropicStream_main` | the same questions for Messages; well-formed blocks and stop reason | 5 events of 10 kinds, 2 blocks, pings by upstream and guard, starts and stops of blocks that straddle chunks |
| `ResponsesStream_main` | do all views the client has of an item agree, whatever interleaves? does the handler implement `ToolGate`? | 7 replies of two items, a text beside a call or two calls of every mix of verdicts, once with the same arguments, spelled in deltas and args_done, in deltas alone, or in the done event alone; new or same ids in the final copy; all 16 settings |
| `ReplyGate_main` | what is left of a whole reply, screened or failed anywhere? | chat: 2 choices of up to 2 calls; other formats: lists of up to 3 items; a failure at every call, replacement, note and in `_strip_all` |
| `MaskRequest_main` | what leaves in a request whose strings are masked with several lists, while files are edited, garbled and removed? does the list come to rest? | 2 files, 2 values, garbled contents, 2 edits or failing stats at any moment, any read failing with any part read, one request of two strings |
| `PluginReload_main` | what do edits between the system calls of a load do? do gate and plugin come to rest with what they read? | 2 good texts, a broken and a cut one, 4 edits, 2 runs of the converter, each look due after 1 tick |
| `RuleScan_agree` | does the verdict depend on the order of flag rules; do router and plugin agree? | all lists of up to 3 of 9 rules of every kind, all kinds of call, both modes |
| `LeakAudit_main` | whom does the audit name, run at any moment over a ledger that lost rows? | 2 sessions, 1 secret, upstreams of a maker, an intermediary and without `api_base`, 3 requests, 2 ticks, a margin of 1, all time or the last tick, both places of the ledger, with and without session header; sessions are symmetric |
| `ChatStream_open_blocked`, `AnthropicStream_straddle`, `ResponsesStream_overlap`, `SecretRefresh_garbled` | section 4 | the smallest that show it |

Why the bounds are enough. A chat reply has three parts that the code treats
differently (before, within and behind the held chunks) and a call needs two
deltas for "first" and "later" to differ; with three chunks a two-delta call
occurs with text before, within or behind it, with a parallel call, with a
finish chunk or the usage, and one of two calls is stripped, or all. A whole
reply is dealt with choice by choice, with nothing carried over but the place
of a failure, for which two choices suffice. The Messages handler keeps nothing across
blocks but two flags, which two blocks set in every combination. The Responses
handler keeps what it remembers of blocked items, for which two items with
different and with shared keys suffice; an item has up to five events, between
any two of which one of the other can fall. A load and a refresh have three to six
system calls; the number of edits exceeds the number of gaps in which two edits
differ from one. Of a request, two strings are what it takes for a refresh to fall
between them; one request suffices because the list before it is in any state the
edits before it can have left. The audit looks at one hit, and the rows before and
behind it, of its own session and of another one: three requests spread over two
sessions in every way. Every run of a stream ranges over all settings of the
knobs: block and flag mode, rewriting with and without the tool offered,
stripping, and both fail modes.

Each property has a mutant in `PROJECT.json`: a changed definition (named
`Mut...`, next to the original) that makes the property fail under the same
configuration.

### What the properties say

Streams. `NoBlockedCallDelivered` compares what was sent with what the *upstream*
spelled, not with the handler's own assembly; `ClientAssemblesVerdict` puts the
client's stream together as a client does and compares it call by call;
`TextKept`, `FinishDelivered`, `FinishMatchesCalls`, `NoteDelivered` (chat) and
`BlocksWellFormed`, `StopReason`, `PassThrough` (Messages) say what else reaches
the client; `LedgerComplete` relates rows to calls. `FinishDelivered` leaves out
the one finish reason the code loses (`Emptied`, section 4). In `ResponsesStream`,
`OthersInOrder` says that the events of other items survive the holding, in
order; `ClientViewsAgree` that the added, delta, args_done and done events of a
call tell one story, that of its verdict; `CompletedAgrees` that
`response.completed` tells the same, under whatever ids, unless two calls share
arguments and differ in verdict (`Clash`); `RowsComplete` that each call, even one
the stream was cut in, was judged once on what there was of it.
`ClosedStaysClosed` is an action property; `GateSpec` is the refinement of
`ToolGate`; `Terminates` is liveness.

Files: `LastGoodStays`, `UpToDate` (rules) and `NothingUnmasked` (secrets) relate
what is in force to what is on disk. `UpToDate` and `NothingUnmasked` are the
strongest the code gives: they speak of the stamp under which the text in force
was *read*, because the code may record another one, and `NothingUnmasked` excepts the
files of which a read failed when that list was parsed (`short`): it says that a
swallowed failure costs the values of that file and no others. `Converges` (gate and
plugin) and `CatchesUp` (secrets) say where both come to rest once nobody edits:
the gate with the mtime of a good file recorded, the plugin with what was
exported, the list with every value but those of files in `short`, unless its last
parse raised. Edits and failing stats end at the bound; reads may fail for ever.

Requests: `PromisedNotSent` says that no string leaves with a value that the list
had when the masking began, whatever refreshes fall between the strings, as long as
nobody touched its file and no refresh failed to stat or read it; `CountsMatch` that the ledger's counts are
what is gone.

Whole replies (`ReplyGate`): `CallsAsJudged` compares each choice with what its
verdicts demand of the original; `FinishFits`, `OtherKept` and `Inv` (the rows
cover what was judged, and all that is gone) hold of half-changed replies too,
whose screening failed on the way.

Rules: `FirstBlockWins`, and `PointsAgree`, which compares the two points on any file
of which the plugin has a rule: it stops exactly what the block rules it has match,
never a call the router lets through, and logs the rule the router names if it has
it. If it has all of them the two stop the same calls. Audit: `NamesNextUpstream` says whom it
names, whenever the ledger can tell (not `TooClose` to an earlier row), and when
it may name nobody; `NoFalseAlarm` that an intermediary is blamed only if it
served a session in which the secret was found.

### Fairness

`GuardStep` of the chat and Messages handlers is weakly fair: between two awaits a
coroutine runs on, and a yield returns when the consumer asks for the next
chunk, which LiteLLM does until the client leaves (`ClientGone`). Nothing is
assumed of the upstream, so that a reply may wait for it for ever; `Terminates`
starts where it has ended. `MaskSpec` and `PluginSpec` assume that time passes
(`TimePasses`), that a hook that began runs on (`HookStep`, `Gating`), that requests
and tool calls keep coming, so that each look is taken and finished (`Elsewhere`,
`Gating`, `Reload`), since these are done only when the guard is used; that an
editor that cut a file writes it (`Complete`) and that a converter that runs ends
(`Convert`). Edits, exports and the arrival of requests are not fair: they may stop
at any time, and their number is bounded, which is what "once the files are left
alone" means. `ResponsesStream`, `ReplyGate`, `RuleScan` and `LeakAudit` state no
liveness and assume no fairness.

Deadlock is checked in every run but `LeakAudit_main`, where the bounds on time and
requests end the model: users may stop at any time. Elsewhere `Over` marks the
end of a reply or a scan, the only places where a model stops.

## 4. Where the code and its documentation disagree

Each is a run that TLC ends with a counterexample, recorded in `PROJECT.json`
under `findings`.

- `ChatStream_open_blocked`: a failure behind the verdict flushes blocked calls
  in open mode (`hooks.py:553`, `752`; `README.md:164`).
- `AnthropicStream_straddle`: the halves of an event that straddles two chunks
  are sent with a blank line between them (`hooks.py:693`; `README.md:149`).
- `ResponsesStream_overlap`: a function call that opens while another is held goes
  out with it, neither evaluated nor recorded (`hooks.py:610`; `README.md:151-152`:
  parallel calls are judged independently). OpenAI's own streams do not overlap
  calls; an upstream that does is what the run assumes.
- `SecretRefresh_garbled`: `secrets.py:91` records the signature before it
  parses. A file that is not UTF-8 ends the refresh; the list stays old and
  counts as current, also for the other files (`README.md:87`). The trace also
  shows that it may last: when the bad file is removed again, the signature can
  be the recorded one.

Seen while modelling and not kept as runs, since each follows from the lines
named.

Streams:
- a finish reason on a delta of a blocked call goes with the chunk
  (`hooks.py:521`, `537`; `README.md:142`); when the chunk has text as well, it
  stays, and with it the reason `tool_calls`, though no call may be left
  (`hooks.py:530-552`);
- calls are kept by index, not by choice: with two choices, one call is judged
  that is neither's (`hooks.py:461`; `README.md:151`);
- a usage chunk overtakes a held finish chunk (`hooks.py:474`); the note is lost
  when the last chunk has no choices (`hooks.py:805`);
- after a failure in open mode the chunk it happened on is missing, in the
  Responses stream the event, and chat chunks already released are sent again
  (`hooks.py:752`, `661`);
- a Messages stream cut inside a block is released unjudged in open mode although
  nothing failed in the guard (`hooks.py:739`), and in closed mode a failure drops
  the block without a note (`hooks.py:744`);
- when a Responses stream is cut in a call that is blocked, the events of other
  items that were held with it are lost, and no note is left (`hooks.py:651-658`);
- in `response.completed` the entry of a call that was let through is replaced or
  dropped when it has the arguments of a blocked one (`hooks.py:575`, `585`);
- the Responses handler has no keepalive (`README.md:150`).

Elsewhere:
- a chat reply that is a dict goes through unread (`hooks.py:98`, `297`); in open
  mode a whole reply that failed on the way is handed on half changed
  (`hooks.py:332`; `README.md:161` says untouched), and so is a request, whose
  counts are then not recorded (`hooks.py:278`);
- an edit of the rules file between the read and the second stat of a load is
  recorded as loaded and never taken up (`gate.py:53`; `README.md:87`); a pattern
  that begins with two underscores makes every evaluation raise (`gate.py:101`);
- an `OSError` when a secret file is opened or read is swallowed
  (`secrets.py:58-59`): the list is installed without its values, or with the first
  few, under a signature that counts as current, nothing is raised in either
  `fail_mode`, and the file is not read again until some signature changes
  (`README.md:87`); the values of the other files are not affected
  (`NothingUnmasked`);
- a pattern that Python compiles and JavaScript does not, such as `(?P<x>..)` or
  `(?i)`, is logged and dropped by the plugin (`guard-plugin.js:69-73`), so that the
  router blocks what the plugin passes, though both share one ruleset
  (`rules_to_json.py:2-3`);
- a failed export, or one of which no rule compiles, makes the plugin use its
  built-in rules (`guard-plugin.js:82`);
- within one second of a call the audit may name the upstream that sent the call
  rather than the one that got its result (`router_log.py:34-36`; `README.md:61`);
- the audit does not read `ledger_db` from the rules file, so that it joins with
  nothing when the ledger is configured there (`leak_audit.py:47`).

## 5. Proofs

Proved by `tlapm` for every value of the constants, from the assumptions named in
the modules and nothing else (the assumptions say what the constants are: sets,
bounds that are numbers, markers that differ from data, a Responses call whose
added and done events both name the function; TLC evaluates them in the runs).

A property that follows what the upstream spelled through buffers, verdicts and
yields is proved in three layers: what the handler's locals say of each other,
what they say of the stream so far, and what the two say of the stream sent. Each
layer is an invariant that is inductive given those below, with one lemma per
action. A concatenation over a stream is unfolded one element at a time
(`FlattenAppend` and its companions); what holds of it for every length is proved
from a least counterexample or the smallest set (`LeastNumber`, `SetInduction` of
`SequenceLemmas`), since the library's induction theorems cannot be instantiated.

`ChatStreamProofs` (run `ChatStream_main`)
- `Invariance`, `TypeCorrectness`, `JudgedBeforeReleased`: for any chunks, calls,
  choices and patterns, a delta that is out belongs to a judged call and is the
  original exactly if the call was not blocked. `ReleasedOnVerdict` is not
  inductive: that the held chunks contain a replacement only for blocked calls,
  that the chunks behind them carry no calls, and that the verdicts are complete
  in the releasing phases (`BuffersInv`, `VerdictsInv`, `TakenInv`) is what each
  yield needs. Below them one lemma per operator (`ScreenChunk`,
  `AccumulateSlots`, `FailureChunksAre`).
- `ImplementsToolGate`: `Spec => GateSpec`, with `passed` and `replaced` read off
  the stream that was sent. Each step is a step of `ToolGate` or a stutter, given
  the invariant before it.
- `ClosedMeansClosed` (`ClosedStaysClosed`, an action property): what `BaseInv` adds
  is which phase goes with which cause and queue, and that rows and verdicts count
  the same calls.
- `BlockedCallsStay`, `LedgerIsComplete`: a call's slot holds what the *upstream*
  spelled, chunk by chunk (`SpelledInv`), or the guard failed before it took the
  last chunk and nothing of a call is out.
- `ClientHoldsVerdicts`: of each call, what was sent is what was received, if it was
  let through, and else the replacement once, or nothing. While chunks are released
  this is said of the released prefix (`ReleasedInv`), of what is still held before
  that (`HeldInv`), and of the whole stream behind it (`ThroughInv`).
- `FinishTellsTheTruth`, `StrippedCallsAreNoted`, `TextIsKept`: each call that is not
  dropped waits in a held chunk that is still to come, or some call is out
  (`FinishInv`); once the held chunks are through the note is out (`NoteInv`); each
  text waits in one place or is out once (`TextInv`).
- `EachChoiceFinishes`: where a choice's finish reason is (held, queued behind the
  calls, out, or lost with an emptied chunk) and that nothing of the choice comes
  behind it (`EndInv`).
- Premises. `BlockedCallsStay`, `LedgerIsComplete`, `ClientHoldsVerdicts` and
  `EachChoiceFinishes` assume `OwnIndices`, an upstream that uses no index in two
  choices, and are false without: `hooks.py:461` keys the calls by index alone
  (section 4). It includes every reply with one choice. `FinishTellsTheTruth` and
  `EachChoiceFinishes` assume `FinishApart`: no chunk has text, a delta and the
  reason `tool_calls` at once. Such a chunk is left with its reason when its calls
  are stripped (section 4). `MCChatStream` assumes both of its upstreams, which TLC
  evaluates.

`AnthropicStreamProofs` (run `AnthropicStream_main`)
- `Invariance`, `JudgedBeforeReleased`, `ImplementsToolGate`: the same for Messages,
  for any events, any number of blocks and any types that straddle. `Inv` needs
  three things to be inductive: a block that starts is new, because blocks are
  numbered as they start (`IndexInv`); what is held is the upstream's, and a second
  start among it can only be there if the first block is never judged
  (`HeldEvents`); what is queued is the original or the replacement as the verdict
  says, and what a failure flushes is flushed in open mode (`QueueInv`).
- `BlockedCallsStay`: what is assembled of a judged block is what was received of
  it, because a judged block has stopped and nothing comes behind a stop
  (`BlockInv`, `SpellInv`).
- `ClientHoldsVerdicts`: settled blocks are out as their verdict says, the held one
  not at all, the one in release by what is out and queued together (`SettledInv`,
  with `RangeInv`: only events of the open block are held).
- `StopReasonIsTrue`: `kept` and `stripped` say what is out or queued, and a
  `message_delta` never waits (`StopInv`).
- `BlocksNeverOverlap`: starts and stops are counted, out and received, and differ by
  the block that is held (`FormInv`).
- `NothingBlockedPassesThrough`: unless something was blocked, what is out, then held,
  is what was received, event by event (`OrderInv`).
- The last three properties are stated for replies of which no event straddled two
  chunks (`Intact`); the others hold of all.

`ResponsesStreamProofs` (run `ResponsesStream_main`), all with the premise
`~Overlapping`, without which they fail as `ResponsesStream_overlap` shows, for any
replies, however their items interleave:
- `Invariance`, `ImplementsToolGate`. `AInv` adds what makes `Inv` inductive: an event
  that was sent on is compared with the one received under its number
  (`ReceivedInv`, `OutInv`); the one call that may be half streamed is the one that
  is open, so that no event of a call arrives outside its item (`OpenInv`); it is
  judged once, behind its last event (`JudgedInv`); of calls only events of the open
  one are held, and a queue that is flushed was let through or is flushed in open
  mode (`QueueInv`). That an upstream's items are counted up to their last event
  needs the cardinalities of `FiniteSetTheorems` (`CountGrows`, `ReplyGrows`).
- `OthersKeepTheirOrder`: the streams out, held and queued rise in the numbers they
  have of the upstream, each above the one before, and what of other items is in
  none of them was never received (`ScriptInv`, `OrderInv`).
- `EachCallIsJudged`: what is assembled of an item is what its events spelled so far,
  the whole call once it is done (`CallInv`); there are as many rows as judged items,
  each with its own (`RowInv`).
- `TheCopyAgrees`: the marks are those of the blocked items that were dealt with, and
  `response.completed` comes behind all of them (`MarkInv`, `CopyInv`).
- `ClientReadsOneCall`: while an item is held all its events are, so that each view of
  it, out and queued together, is the one its verdict asks for (`ViewInv`).
- What an item's events may spell is a clause of `RepliesAssumption`: a call is what
  its done event repeats, or else what its added event and its deltas spell; it has
  at most one args_done.

`ReplyGateProofs` (run `ReplyGate_main`), for replies of any number and length of groups
- `Invariance`: `ReplyInv` says of each group what `_strip_all` must be able to rely on
  when it meets a half-changed reply (`GroupsInv`); that the groups behind the one at
  work are as they were, those before it as their verdicts demand, and it itself as
  far as the step says (`WorkInv`), so that each list is the original with some of its
  blocked calls rewritten, or without them; and how it may end (`EndInv`).
- `Judgement`, `Finish`, `Kept`: what these say of the groups, the first two when the
  reply is returned.
- `Ledger`: the rows are those of the calls before the one that is judged next,
  counted through the concatenation of all groups (`RowsInv`, with `NextCall`), and a
  group that was changed lies before it (`ChangedInv`).
- Below them, lemmas on what a filter keeps (`OnlyAppend`, `OnlyConcat`, `OnlyOnly`):
  all lists of the code and of the properties are the original filtered by what an
  item is (`ListIs`).

`MaskRequestProofs` (run `MaskRequest_main`)
- `ListIsNoOlderThanItSays`, `ListStaysCurrent`: for any number of files, whatever is
  edited between stats and reads and whichever of these fail, a UTF-8 file that still
  has the signature the list was parsed under is masked, unless its own read failed
  then, also while requests use the list. The invariant `IInv` says that stamps only
  grow, and that a file with the stamp that was seen, and read to its end, has the
  contents that were read (`ParsedInv`, `StatIInv`, `ParseIInv`). Without the exception
  the statement is false (section 4).
- `NothingPromisedIsSent`: a request of any length leaves without the values that
  were listed when its masking began, those excepted whose file was edited, or which
  a refresh failed to stat or read, between its strings. Every step of `MaskRequest` is one of
  `SecretRefresh` or leaves the list alone (`StepOfList`), so that `IInv` holds here
  too; a promised value stays in a file that is as it was when the list was parsed, and
  was read to its end (`PromiseInv`), hence in every list that is used, and the strings before the next
  one are free of it (`MaskedInv`).
- `LedgerCountsWhatIsGone`: up to the next string, what was there of a value is what
  was counted and what is left (`CountInv`), a sum over strings of any number
  (`TallyEntry`, `TallyAgrees`).

`RulesProofs`, on `RuleScan` (run `RuleScan_agree`)
- `ScanTypes`, `EvaluateNamesFirstBlock`: for every list and call, the scan names the first
  matching block rule, else the first flag rule. The invariant is the same
  statement about the rules scanned so far.
- `BothPointsAgree`: for every file of which the plugin has a rule, whatever else is in
  it; every matching rule that the plugin has and its scan has passed is in its log,
  and a call it stopped has the first such block rule there last (`PluginInv`).
and on `RulesReload` (run `PluginReload_main`)
- `BadNeverReplacesGood`: whatever is written whenever, the rules in force
  compiled.
- `RecordedMeansLoaded`: a recorded mtime vouches for the rules unless the file
  was edited under its load. The invariant `LoadInv` adds what a load in progress
  holds.

`LeakAuditProofs` (run `LeakAudit_main`)
- `JoinsNextRequest`, `BlamesOnlyWhoServed`: for any sessions, upstreams, times and
  margin, and any rows lost. `LInv` says that rows are true, that a session's rows
  are in the order of its requests and of time, and that a result is no younger than
  the rows behind it; that the join has a first row is `LeastNumber`.

Only model-checked: liveness (`Terminates`, `CatchesUp`, `Converges`), which the
prover does not do. Every invariant, every action property and every refinement
that a passing run checks is a theorem, those of the chat and Responses streams
from the premises named above.

## 6. Not modelled

- The choice of a stream's handler is a function of the type of the first chunk
  and has no state; the failure before that chunk is in each stream module.
- `leak-audit`: the transcripts of Claude Code, whose label is taken from the
  audit's own environment; the parsing of env files and the printing of the
  report, which are sequential and read-only. A label is the `api_base` of an
  upstream, not its host.
- The ledger's connection and its lock: every writer runs on the proxy's event
  loop, so that one row is one step.
- The wording of messages, regular expressions themselves, the encodings of a
  secret value (`_variants` derives them from the value alone), two values that
  overlap in a text, and `LLM_GUARD=off`.
- `rules.example.yaml`, the adapters' READMEs and snippets: data.
