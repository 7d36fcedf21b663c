# m3652API: specifications and proofs

m3652API is a Go proxy. It speaks the OpenAI Responses API to clients such as
Codex CLI and the Microsoft 365 Copilot chat API of Microsoft Graph to its
upstream. The HTTP server, the stream forwarding and the storage of
credentials come from the CLIProxyAPI SDK (not in this repository); the
repository supplies an executor for that SDK, its token handling and the OAuth
start-up of `cmd/m3652api`.

Paths below are relative to the repository; files without a directory are in
`internal/provider/m365/`.

## Inventory

| Component | State | Operations | Interacts with |
|---|---|---|---|
| Session store (`session_store.go`) | mutex, map from session key to `*sessionState` (conversation id, processed input length, last use, in-flight flag), TTL | `getOrCreate`, `tryStart`, its `end` closure, `gc` | called by the executor on every request; the executor also writes the fields of its `sessionState` without the mutex |
| Turn executor (`executor.go`, `openai_helpers.go`, `tool_retry.go`, `responses_*.go`) | locals of one request, one goroutine and one channel of 64 chunks per stream | `prepareTurnState`, `Execute`, `ExecuteStream`, `repairToolCall`, `emitFailed`, `Refresh`, `HttpRequest` | SDK (calls it, drains the channel), session store, token, upload, Graph |
| Image upload (`sharepoint_upload.go`) | locals; files in the SharePoint app folder | decode, resolve site and app root, upload, look up the URL, roll back, clean up | executor, Graph |
| Graph client (`graph_client.go`) | none | `createConversation`, `chatOverStream`, `readSSEStream` | executor, Graph |
| Text deltas (`executor.go:359-407, 503-566, 663-675`) | last visible text per upstream message id | select the assistant message, hide tool-call text, compute a delta | executor |
| Token life cycle (`token.go`, `static_auth.go`, `oauth_auth_code.go`) | metadata of the SDK's `Auth` object | parse, refresh, persist, enable one auth and disable the others, OAuth callback | executor, upload, SDK store, identity service |
| OAuth state store (`internal/oauthstate`) | map from state to verifier and time | `Put`, `Pop`, `NewPKCE` | start and callback routes |
| Tool-call protocol (`tool_call.go`, `executor.go:576-661`) | none | parse delimiter blocks and JSON calls, build items | executor |
| Prompt builder (`prompt_builder.go`) | none | context messages, truncation | executor |
| Device-code login (`login_device_code.go`) | none | poll for a token | not reached from `main.go` |
| Server and configuration (`cmd/m3652api/main.go`, `runtime_config.go`, `models.go`, `translator.go`) | flags, files | wiring, routes | SDK |

What is hard here:

- **Concurrency.** Requests run in goroutines of the SDK. `tryStart` takes the
  mutex twice and tests `inFlight` on an object found in the first critical
  section; `gc` reads the clock before it locks; the executor touches session
  fields without the lock.
- **Ordering.** A streaming request publishes its terminal event first and only
  then deletes files, releases the session and closes its channel.
- **Failure.** Each Graph call may fail, lose its reply or be cancelled by a
  client that left; a turn is retried by the client, with the same history,
  against a session that was already advanced.
- **Restart and expiry.** All sessions live in memory and are lost together.
- **Limits.** Two repair attempts, 64 chunks, 30 s of clean-up, 30 min TTL.

What makes each component correct: a session key admits one request at a time
and a session in use is not lost (store); every new item of a history goes
upstream once, in one conversation, and every request ends in exactly one
terminal event with its session released (executor); files exist while the
chat needs them and not afterwards (upload); a refreshed token is not lost
(tokens); a state is redeemed once (OAuth).

`PROJECT.json` lists the hazards line by line.

## Modules

| Module | Models | Checked by |
|---|---|---|
| `SessionLease` | abstract promise of the store: an exclusive lease per key | refined by `SessionStore` |
| `SessionStore` | `session_store.go` and the goroutines that use it | `MCSessionStore` with `SessionStore.cfg` |
| `SessionStore_proofs` | theorems about `SessionStore` | the proof system |
| `Turns` | abstract promise of the proxy to the requests of one session key | refined by `Executor` |
| `Executor` | the requests of one session key, their client and the upstream | `MCExecutor` with five configurations |
| `Executor_proofs` | theorems about `Executor`: types, events, refusals | the proof system |
| `ExecutorForwarding_proofs` | theorems about `Executor`: what is posted, when and how often, and the refinement of `Turns` | the proof system |
| `ImageUpload` | the images of one turn | `ImageUpload.cfg`, `ImageUploadLeak.cfg` |
| `ImageUpload_proofs` | theorems about `ImageUpload` | the proof system |
| `StreamDelta` | the event callback of a stream: message selection, hidden tool text, deltas | `MCStreamDelta` with `StreamDelta.cfg`; `StreamDeltaPlan.cfg` |
| `StreamDelta_proofs` | theorems about `StreamDelta` | the proof system |
| `Credentials` | the account's token from sign-in to use, across restarts; the OAuth state store | `MCCredentials` with `Credentials.cfg` |
| `Credentials_proofs` | theorems about `Credentials`: accounts and logins | the proof system |
| `CredentialsTokens_proofs` | theorems about `Credentials`: tokens handed out, sign-ins kept | the proof system |
| `ToolCalls` | the tool-call parser, and what a text means | through `ToolStream` |
| `ToolStream` | the SSE reader, and the search for calls in every snapshot | `MCToolStream` with `ToolStream.cfg` |
| `ToolStream_proofs` | theorems about `ToolStream` | the proof system |

`Executor` composes the others by their promises rather than by instance. It
uses the store through what `SessionLease` promises: `Prepare` is `Acquire`,
`Release` and `UploadFails` are `Release`, `Expire` is `Forget`. It uses
uploads through what `ImageUpload` shows: all files exist before the chat or
the request fails. `StreamDelta` opens up the one action `Snapshot` of
`Executor`, which only says that a delta may or may not be sent; `ToolStream`
opens up `Snapshot`, `ToolCalls` and `StreamEnds` on the side of the tool calls;
`Credentials` opens up `Token` and `TokenFails`.

Definitions whose comment says "Mutant of" are deliberately wrong variants of
a definition. No specification uses them; each property is checked to fail when
its mutant replaces the original.

### SessionStore

| TLA+ | Code |
|---|---|
| `sessions`, `heap` | the map, and the fields of the objects it points to |
| `pc`, `key`, `st` | a goroutine: idle, between the two sections of `tryStart`, running, or in `gc` |
| `gcNow` | the local `now` of `gc` |
| `GetExisting`, `CreateNew` | `getOrCreate`, one critical section |
| `StartRefused`, `StartGranted` | second critical section of `tryStart` |
| `SetConversation` | unlocked writes of the executor |
| `End` | the closure returned by `tryStart` |
| `GcReadClock`, `GcSweep` | `gc` before and inside its critical section |
| `Tick` | time; bounded so that the gap inside `tryStart` lasts at most `MaxStall` |

Objects are values with identity. An object that neither the table nor a
goroutine points to is free and may be allocated again, so reuse of memory is
covered. `processedInputLen` is written exactly where the conversation id is and
behaves the same; only the id is kept. A nil entry of the map (`gc` guards
against one) is never stored by any code and is not modelled. A goroutine is
preempted in the gap for at most `MaxStall`: `KeyMutex`,
`HeldSessionReachable` and `ImplementsLease` need `MaxStall <= TTL`, that is, no
goroutine sleeps 30 minutes between two adjacent statements.
`ExclusiveObject` and `RefusedOnlyIfBusy` do not need it: the theorems
`ObjectMutex` and `RefusalJustified` hold for every `MaxStall`. With longer stalls a key can have two
requests in flight, each on an object of its own.

### Executor

`req[r]` is one call of `Execute` or `ExecuteStream`; `pc` is the next call it
makes. Every action is one call that leaves the process or publishes something,
up to its result. A stream's `out` holds events computed and not yet sent; the
next step runs only when all are in the channel, as in the code, where `ch <-`
blocks. `recv` is what the client has.

- `Prepare` is `prepareTurnState` after `tryStart` succeeded, with
  `extractPendingTurn` and `extractTurnData`: the tail of the history behind
  `processedInputLen`, of which the last user message and all tool outputs are
  forwarded. A user message whose content is no array, or has neither text nor
  image (kind `mute`), is the last one all the same: nothing is read of it, and the
  message before it is superseded (`LastUser`, `Superseded`). An output that is blank or
  has a type that `extractTurnData` does not know (kind `blank`) is passed over
  (`Outputs`). An input that is one string (`SubmitText`) has no tail and leaves
  the length alone.
- `Upload`/`UploadFails`, `Token`/`TokenFails`, `Converse`/`ConverseFails`,
  `Chat`/`ChatFails` are the calls in order with their early returns. A failing
  `Chat` may have been accepted by Graph.
- `Snapshot`, `ToolCalls`, `StreamEnds` are `readSSEStream` and its callback;
  texts are abstracted to "plain", "candidate that does not parse" and "tool
  calls that parse", of which an answer may hold several (`CallCounts`): one
  `output_item.done` each, then `response.completed`.
- `Repair*` is `repairToolCall`; its items become events in the same way.
- `Cleanup`, `Release`, `Close` are the deferred calls, last deferred first.
- `WriteMessage`, `Submit`, `SubmitText`, `SubmitCompacted`, `GoOn`, `HangUp`,
  `Receive`, `Reclaim` are the environment: a client that resends its whole
  history, appends answers and tool outputs, retries failed requests, compacts
  its history, and may leave at any time; and the SDK, which drains the channel.
- `Expire` and `Restart` lose the session.

`Turns` says what all this amounts to: a request is open and then answered once; only the one that
holds the conversation speaks to the upstream, first its turn, of which the conversation has
been sent nothing before, then a bounded number of repairs that say nothing new; a
request is completed exactly if its turn was asked and the asking did not fail; it is turned away only while
another one holds the conversation. `Executor` implements it (`ImplementsTurns`) as
follows.

| `Turns` | `Executor` |
|---|---|
| `reply[r]` | the terminal event among all that was offered to the client: received, in the channel, or computed and not yet sent |
| `holders` | the requests between `Prepare` and `Release` |
| `asked[r]` | the posts of `r` that Graph accepted |
| `conv`, `made`, `sent` | the session's conversation, the conversations so far, `posts` |
| `Ask`, `Leave` | the client's submissions; `Reclaim` |
| `TurnAway`, `Take` | `Prepare` when the session is busy, and when it is not |
| `Converse`, `Post`, `Repair` | `Converse`, `Chat` and a `ChatFails` that Graph accepted, `Repair` |
| `Fail`, `Complete`, `Release` | the other failures; the step that computes the terminal event; `Release` |
| `Forget`, `Die` | `Expire`, `Restart` |

Everything else is invisible: uploads, tokens, snapshots, the channel, the client's reading,
hanging up, clean-up and closing.

Assumption about the client: it has one request at a time that it waits for
(earlier ones it hung up on may still be running). It compacts its history into a
summary when it likes, without knowing what the proxy has processed. The code keeps only the
length of that, so a rewritten history that is not shorter passes for one that grew, and so does
the older history of an abandoned request that is prepared late. Two history fields of
the session keep this apart: `processed` is the input the length was taken from, and
`unnoticed` says that an input was taken for its continuation without being one
(`Unnoticed`). What such a request skips the code cannot know: `NothingSkipped` excepts the
session until it is reset or lost. `ForwardedOnce` needs no exception: an item has one place in
every history that has it, and the length only falls together with the conversation.

The second parse of the final text (`executor.go:248-257, 413-426`) can never
succeed, because the same text was parsed when its snapshot arrived; the model
has no step for it. `SecondParseFindsNothing` of `ToolStream` checks this.

### ImageUpload

One turn: images are decoded first, then uploaded one by one under fresh names.
Each call may succeed, fail, or be carried out with its reply lost. `item` is
the local of the loop, which the failing URL lookup overwrites. Rollback and
clean-up are the same loop with a 30 s deadline of its own (`Expire`),
independent of the client's context (`Cancel`). `lost`, `nameless` and
`undeleted` are history variables.

### StreamDelta

A text is a sequence of tokens: numbered words, blanks, the two halves of a
start marker, and `Brace` for `{` or a code fence. `spelled` says how a word reads; two words
may read alike, and the code compares nothing else (`BeginsWith`). The upstream adds a token to
its newest message, starts a message, or rewrites one; it names ids and roles
or not. `Snapshot` is one call of the callback: `Selected` is
`selectAssistantMessage` with its two passes, `Sanitize` is
`sanitizeAssistantTextForDisplay`, `Delta` the difference to
`lastTextByMsgID` with its trimming. `seen`, `grew` and `swallowed` are history
variables: what was visible of each message when it was last selected,
whether all visible texts have only been extended, and the words never sent because they
read like those shown before. Tool calls never parse here,
because then the stream ends at once.

An event that cuts a marker in two shows the first half, and the completed
marker makes the visible text shorter, whereupon the fallback for rewritten
texts sends it again. So `WordsDelivered` speaks of behaviours in which visible
texts only grow; `ToolTextHidden` holds with cut markers and rewriting too.
`WordsDelivered` says that the words the client has are those that were visible, and that their
numbers increase (`InOrder`), so none comes twice. One exception is stated in it: messages without an id
share the entry `unknown`, so that a message which begins like the one before it loses the
words they share (`swallowed`, `executor.go:387-394`). With ids nothing is swallowed.

### Credentials

| TLA+ | Code |
|---|---|
| `phase`, `config`, `starts` | how far `serve` got, the configured `auth-id`, the starts of the process |
| `account`, `tok[i]` | the manager's account `i`: unknown, enabled or disabled, and its token map |
| `disk` | the token files |
| `job[w]`, `tok[w]` | a request or a callback: its locals, and the token map of its clone |
| `same[h]` | who holds the same Go map as `h` |
| `pending` | the OAuth state store |
| `redeemed`, `login`, `latest`, `stale`, `raced` | history |

`Load`, `LoadFails`, `EnsureStaticAuth`, `DisableOther` and `Serve` are the
start-up in its order; the process may die (`Crash`) before, between and after
them, and the configuration may name another account at the next start.
`OAuthStart`, `OAuthCallback`, `OAuthCallbackLate` are the routes; a winning callback
takes its account and exchanges the code (`Exchange`), writes the tokens into a
clone (`PersistTokens`, `PersistExpiry`), and `core.Update` replaces the account
in memory (`Install`) and saves it (`SaveLogin`). A request takes a clone
(`Pick`), reads it (`Read`), uses the cached token (`ServeCached`) or refreshes
it (`Refresh`), writes it back and saves its clone (`Save`); images need the file
scope as well. `Leave` is every way out in between.

Whether the SDK's `Clone` copies the nested token map is not decided in this
repository, so `Init` chooses. Nothing locks the map, hence reading and writing it
take two steps each: access and refresh token, then scope and expiry. `raced` says
that two such accesses overlapped.

A refresh token is known by the sign-in it descends from. A sign-in brings one if the
configuration of the process asks for `offline_access` (`OfflineStarts`: the default scopes do,
`delegated-scopes` need not); if not, the token of an earlier sign-in stays in the map (`Granted`,
`token.go:131`). A refresh may omit it (`KeptRefresh`). Assumed of the
identity service: each reply names its scope, and a token lives `Lifetime` from its
issue. The token calls have no deadline, so a reply may take any time, and `expires_at` is
computed when it arrives: a token is `late` if its reply took longer than the margin of
60 s, and such a token the code uses after its end. Apart from `raced`, `ServedTokenValid` excepts these and no others
when it speaks of cached tokens. Ids differ in
more than case, and from the names of goroutines, since `tok` is indexed by both. The second token request of `/m365/upstream/check` on one clone
is a second request with a new clone here.

What the code does not promise, and the properties therefore leave out: a
request that took the account before a sign-in was complete may save the old
login over the new one (`stale`, `Loses`); after a failed `core.Load` the
bootstrap registers an empty account over the file (`LoadFails`, against the
comment at `static_auth.go:39`); a reader of a map that is being written may take
a token with another one's expiry (`raced`).

### ToolCalls and ToolStream

`ToolCalls` has the functions of `tool_call.go` under their names, on texts that
are sequences of tokens: the eight delimiters, names, braces, a code fence,
words. The constant `Bare` has the objects that name a tool, each with the key of what else is in
them, `arguments` or `input` (in the run `{fn`, `{sh` and `{zz`, `{cu`); `{cmd` opens an object with
a command, `null` and `quoted` are JSON's null and a string that holds no JSON, and
`junk` makes an object invalid. The second half of the module says what a text means without an
algorithm: `Blocks` are the pairs of a start outside any block and the next end,
`WellFormed` and `Meaning` say which of them are calls, and a text without a call
in a block may make one with its first object; `WrittenItems` puts them in the order
of the text. Null as the arguments of a block counts as `{}` on both sides, because the code
makes it so (`tool_call.go:139-141`), and null as the `arguments` of an object as none.
Not represented: white space, braces inside JSON strings, objects with both keys, synonyms
and order of keys, the case of names, length limits.

The parser takes more than that for a call: marks of a block in any order, text between
them, a payload that repeats a mark. `Regular` is a condition on texts that leaves these out, without
mention of the parser: each closed block has one of the three forms (`Shaped`:
name and arguments, input, or an object, right or wrong, without marks inside), lacks what every
call has (`Incomplete`), or is the start of an input that quotes the end of a block, for
a tool that takes no arguments (`CutInput`). An answer of a
model that keeps to the format it is told (`prompt_builder.go`) is regular.

`ToolStream` writes one of the `Answers` token by token. An event carries all that is
written so far, on one data line or two. `DataLine`, `SecondDataLine`,
`BlankLine` are the branches of `readSSEStream` that matter, `EndOfFile`,
`EndInLine` and `Broken` its three ends: between lines, inside a line, and an
error, after which the buffer is not flushed. An event cut between its lines is
half a JSON value, of which gjson may return any part (`Decoded`). `OnEvent` is
the callback; `after` stops the stream at the first snapshot with calls. `Finish`
is what follows the stream: the second parse, then repair or message.

A turn stops at the first snapshot with calls, which is safe only if the rest of the answer
cannot change them. `SnapshotCallsStand` says so, with its one exception: `BareCallFirst`, a
call outside the delimiters, or in the arguments of a block that is still open, whose text
`tool_call.go:55-61` reads as bare. The whole answer would be read without it. The answers of the
run have both: a bare call before a block, and arguments that look like a call. In both cases the code
sends a call that the whole answer does not give; no property forbids it. `MCToolStream`
checks by an `ASSUME` that the answers of the run are regular, as two of the theorems require.

## Runs

| Run | Bounds | Shows |
|---|---|---|
| `session_store` | 2 keys, 3 goroutines, 3 objects, TTL 1, stall 1, clock to 4 | `ExclusiveObject`, `KeyMutex`, `HeldSessionReachable`, `RefusedOnlyIfBusy`, and that the store implements `SessionLease` |
| `executor` | 3 requests in 2 slots, 3 user messages (some mute), blank outputs, 1 loss, hang-ups, synchronous | `ForwardedOnce`, `NothingSkipped` |
| `executor_stream` | 2 streaming requests with images and tools, 1 snapshot each, 2 calls in an answer, channel of 1 | `StreamGrammar`, `PostsInOrder`, `CompletedWasPosted`, `RefusedOnlyAfterHangUp`, `ImplementsTurns`, `SessionReleased`, `EveryRequestEnds` |
| `image_upload` | up to 3 images | `FilesServeTheChat`, `AllOrNothing`, `EveryFileAccountedFor`, `TurnEnds` |
| `stream_delta` | 2 answer messages, 4 tokens, words of 2 readings, tools offered | `WordsDelivered`, `ToolTextHidden` |
| `credentials` | 2 accounts, 2 goroutines, 2 sign-ins, 2 starts of which one asks for `offline_access`, 1 failed write or load, tokens of 2 ticks with a margin of 1, clock to 2 | `LoginKept`, `SignInSticks`, `ConfiguredAccountServes`, `ServedTokenValid`, `OneRedemption` |
| `tool_stream` | 52 answers of one or two segments, cut at every token into 2 snapshots | `ParsesAsWritten`, `SnapshotCallsStand`, `EventsAsWritten`, `SecondParseFindsNothing`, `CompleteAnswerServed` |
| `executor_retry`, `executor_hand_over`, `executor_broken`, `image_upload_leak`, `stream_delta_plan` | smaller | disagreements, below |

Why the bounds are enough. Store: three goroutines are a holder, a competitor
and a sweep; a clock of 4 lets a session expire (more than TTL) twice; three objects let one be
held, one be in the table and one be recycled. Executor: two requests are needed to post an item twice
or to skip one, a third to build on the damage; two
slots let one abandoned request overlap a live one; two calls in an answer are the smallest case of a loop
over several; a channel of 1 blocks at
every event, which a capacity of 64 does only later. A second snapshot repeats
the first one's states. Upload: with three images there is a first, a middle and a last one.
Deltas: four tokens are a word, a marker in two halves and a word behind it, or
two words with a blank and the first words of a second message; two readings let a message begin
like the one before it or not.

Credentials: a configured account and one that used to be, two goroutines for a
reader and a writer or two sign-ins, a restart with one fault, and a clock on which
a token passes its margin and then its end, and a reply can be later than the margin. Tool calls: two snapshots are one that is
cut and the one that completes it; segments are the shapes of a block, right and
wrong, and those worth a second one are paired.

Symmetry: goroutines, objects, keys, request slots and readings of words are only compared with
each other. `executor_stream` and `image_upload`, which check liveness, use none.
The `View` of `executor` leaves out how upstream streams ended and which repair
posts were accepted: nothing forwarding does depends on them. It makes room
for the third user message, which a compaction after an abandoned turn needs; a second
loss adds no kind of behaviour that one does not have, and the theorems hold for any number.
`executor_stream` loses no session, so that `Forget` and `Die` of `Turns` are taken in the theorem `TurnsKept` only.

Deadlock is checked for the store and the upload (whose terminal states stutter
explicitly), not for the executor and the deltas, whose client and upstream may
stop writing or use up their bounds, nor for the credentials, whose process may
stay down, and the tool stream, whose turn ends. A request that is stuck is found by `EveryRequestEnds`.

Fairness. `SessionStore` claims no liveness and has none. `Executor` is weakly
fair for each request's own steps and for the SDK's reading of its channel: a
goroutine that can run does run, a Graph call ends in a result or an error, and
the SDK drains the channel until it is closed. The posts have deadlines (300 s
and 120 s); token, conversation and upload calls have none of their own, so for
those the assumption is about the network: a call that hangs under a live context is assumed away.
What `EveryRequestEnds` shows of them is that a request ends after its client has left and that no path
waits for itself. No fairness
is assumed of the client. `ImageUpload` is weakly fair for the turn's own steps.

## Disagreements found

Five runs check a statement of the documentation and find it violated.

1. `executor_retry`: `processedInputLen` is advanced before the post
   (`executor.go:122-124`), the plan advances it after a successful post. After
   a failed turn the client's retry forwards "Continue." without the message.
2. `executor_hand_over`: the session is released only after the clean-up that
   follows `response.completed`, so a client that goes on at that event can be
   refused. With a client that waits for the end of the stream
   (`executor_stream`) the same property holds.
3. `executor_broken`: the error of `readSSEStream` is dropped, a truncated
   upstream answer is completed instead of failed.
4. `image_upload_leak`: a failed URL lookup loses the id of the uploaded file,
   which the rollback then skips.
5. `stream_delta_plan`: every delta is trimmed, which removes the blanks between
   words of successive events and the line break in front of a rewritten text.

Further disagreements, seen while modelling and noted as hazards, have no run:

- `docs/2026-03-12-19-13-codex-cli-tool-calling-protocol.md:244` lets an answer carry
  several tool blocks, but the callback stops at the first snapshot whose calls
  parse (`executor.go:371-383`), so blocks that arrive later are lost.
  `SnapshotCallsStand` says what holds: the items are the first calls of the answer.
- Line 249 of the same document asks that the arguments be a JSON object; `null` is taken for `{}`
  (`tool_call.go:139-141`). `ParsesAsWritten` gives it the code's meaning.
- `static_auth.go:39` says that the dynamic fields must be kept so that a restart
  does not lose the login; after a failed `core.Load`, which `main.go:143-145` only
  logs, the account is registered without them.

## Proofs

Every theorem holds for all values of the constants that satisfy the modules'
named assumptions, so for any number of actors and with the bounds as large as one likes.

### SessionStore_proofs

| Theorem | States | Assumes |
|---|---|---|
| `TypeCorrect` | `Spec => []TypeOK` | |
| `ObjectMutex` | `Spec => []ExclusiveObject` | |
| `RefusalJustified` | `Spec => RefusedOnlyIfBusy` | |
| `HeldReachable` | `Spec => []HeldSessionReachable` | `MaxStall <= TTL` |
| `Mutex` | `Spec => []KeyMutex` | `MaxStall <= TTL` |
| `Refinement` | `Spec => ImplementsLease` | `MaxStall <= TTL` |

The module also relies on `NilAssumption` and `TimeAssumption`. The argument has
two inductive invariants.

`BaseInv` needs no assumption on the scheduler. Besides the type invariant it
says that clocks lie in the past (`ClockInv`), that a goroutine points to an
object exactly while it is between `getOrCreate` and its end (`PointerInv`), that an
object is in flight exactly if some goroutine runs on it (`FlagInv`), and that
the goroutines on one object have the key of the table entry, if it has one
(`OneKeyPerObject`). `ExclusiveObject` is not inductive alone: it survives
`StartGranted` only because of `FlagInv`, and memory reuse only because of
`PointerInv`. `RefusalJustified` follows from `FlagInv` and `OneKeyPerObject`.

`FullInv` adds that a goroutine in the gap refreshed its object at most
`MaxStall` ago (`GapRecent`). With `MaxStall <= TTL` no sweep takes such a session, which makes
`HeldSessionReachable` inductive; `KeyMutex` follows, since two
running goroutines with one key would share one object. The refinement maps the
holders of a key to its running goroutines and reads conversation and last use
through the table; each step maps to a step of the lease or to a stutter.

### Executor_proofs

| Theorem | States | Assumes |
|---|---|---|
| `TypeCorrect` | `Spec => []TypeOK` | |
| `EventsInOrder` | `Spec => []StreamGrammar` | |
| `NoEmptySuccess` | `Spec => []CompletedWasPosted` | |
| `TurnedAway` | `Spec => RefusedOnlyAfterHangUp` | `HandOver = "eof"` |

It relies on `NoReqAssumption`, `ClientAssumption` and `BoundAssumption`. The
inductive invariant is `ExecutorInv`:

- `Phase` ties what a request has published (received, in the channel and not
  yet sent, taken together) to its program point: nothing before the
  token, an open stream without item or terminal event until the answer, a
  finished one afterwards. `StreamGrammar` alone says nothing of a stream that
  still grows, so that a step could add a second terminal event.
- `PostInv` adds to `CompletedWasPosted` that a request which listens to the upstream
  has posted; completing happens only there.
- `HeldInv`: a session in flight is held by a request.
- `WaitInv`: with a client that waits for the end of the stream, a request that
  is not hung up on is the one waited for. A request that is refused finds
  the session held by another one (`HeldInv`), which its client no longer waits for
  (`WaitInv`): that is `TurnedAway`. For a client that goes on at
  `response.completed` the run `executor_hand_over` refutes it.

### ExecutorForwarding_proofs

| Theorem | States |
|---|---|
| `NeverTwice` | `Spec => []ForwardedOnce` |
| `NoneSkipped` | `Spec => []NothingSkipped` |
| `Posting` | `Spec => PostsInOrder` |
| `TurnsKept` | `Spec => ImplementsTurns` |

They hold for any number of request slots, requests, messages and losses, for either
hand-over, and for every client of the model, one that compacts its history unnoticed included.

- `PlaceInv`: an item has one place in all histories that have it (the client's, and the inputs
  of the requests), and a string is the input of one request. This is what makes a length stand for a
  set of items.
- `HolderInv`: one request holds the session at most, its turn is part of its
  input, and unless that is a string, the session's length is that of this input.
- `SentInv`, without which `ForwardedOnce` is not inductive: whatever the current conversation was sent lies
  below the processed length in every history that has it, and outside every turn that is prepared and
  not yet posted. `Prepare` then takes the items above the length, or
  drops the conversation.
- `CoveredInv` carries `NothingSkipped` over the release of the session: it
  speaks of the history the session has processed, where `NothingSkipped` speaks of the input of the request that
  holds it; after its post a turn has nothing left that is neither posted nor given up.
- `CountInv` for `PostsInOrder`: a request has its own id, the posts with that id are the turn's and then
  repairs, as many as its attempts, and a turn whose images are needed has uploaded them.

The proof sorts the steps of a request by what they do to the posts and the session:
take it, post, change the conversation, fail, release it, or none of these; each kind
preserves the invariants by one lemma.

`TurnsKept` is the refinement, step by step. It needs all of the above: `Phase` says
that a reply is computed once and what a request has published while it still asks, `HolderInv` that `holders`
has one member at most, `SentInv` that the turn is disjoint from what the conversation was told, `CountInv` how often a request
has asked. One more invariant, `ToldInv`, is for the repairs: while a request asks, some post to the
session's conversation has the items of its turn, so a repair repeats them where they were said. The mutant
that repairs in a new conversation keeps `PostsInOrder` and breaks this.

### ImageUpload_proofs

| Theorem | States |
|---|---|
| `TypeCorrect` | `Spec => []TypeOK` |
| `FilesForTheChat` | `Spec => []FilesServeTheChat` |
| `NothingOfABadTurn` | `Spec => []AllOrNothing` |
| `AllFilesAccountedFor` | `Spec => []EveryFileAccountedFor` |

The invariant `UploadInv` adds what the loop has achieved so far (`LoopInv`:
the files are the first images in order, all on the drive, and only a failing
URL lookup leaves an item behind) and that all images decode once the decoding
is over (`DecodeInv`). `FilesServeTheChat` speaks of the chat only and
`AllOrNothing` of a drive that is not empty, so neither carries itself through
the loop.

### Credentials_proofs

| Theorem | States |
|---|---|
| `TypeCorrect` | `Spec => []TypeOK` |
| `OnlyConfiguredServes` | `Spec => []ConfiguredAccountServes` |
| `RedeemedOnce` | `Spec => OneRedemption` |
| `LoginsKept` | `Spec => []LoginKept` |

These four use `CredentialAssumption` alone, and hold whether or not `Clone`
shares the token map.

- `ServingInv`: once the process serves, every account but the configured one
  is disabled, and whoever works does so for the configured one. The first half is what a
  request that picks an account needs.
- `PendingInv`: a state that waits in the store was put by this process and has
  not been redeemed, and its flow has begun. Without `f =< begun` a flow could
  be redeemed before it begins, and its beginning would then reset the count.
- `KeptInv` is `TypeOK`, `ServingInv`, `WriterInv` and `LoginInv`. `LoginKept` is
  not inductive: a saved clone replaces the file, so the clones must be known to have a
  refresh token as well. `WriterInv` says so for every goroutine that is about to write or
  to save, and that one which found a refresh token still has it when the reply
  comes. `LoginInv` keeps the tokens in memory while an account is
  loaded but not yet registered. The steps that write a map which others may share are
  covered by one lemma: whoever writes, no other holder loses its refresh token.

### CredentialsTokens_proofs

| Theorem | States | Assumes |
|---|---|---|
| `TokensValid` | `Spec => []ServedTokenValid` | |
| `SignInsStick` | `Spec => []SignInSticks` | |

Both rest on `CredentialAssumption` alone, hold for replies of any delay and for sign-ins
with or without a refresh token, and extend the invariants of `Credentials_proofs`.

- `MapInv`: holders of one map see the same token, and only maps of the configured account
  are shared.
- `SoundInv`: unless accesses overlapped (`raced`), expiry and scope of every map and file
  are those of its access token, up to the margin, unless its reply was late, and except for a map that is
  half-written; a goroutine that has read its map still agrees with it.
  `ServedTokenValid` looks at the locals of one goroutine at the moment it hands out a
  token; those come from a map that somebody else may have written, or from a file.
- `FlowInv`: a sign-in that was redeemed is carried by one goroutine.
- `StickInv`: from the moment a sign-in writes its tokens, everybody else who works with the account and is
  not `stale` has its refresh token. `SignInSticks` begins only when the sign-in is
  saved; a request that took its clone between install and save could otherwise overwrite it later.

### StreamDelta_proofs

| Theorem | States |
|---|---|
| `TypeCorrect` | `Spec => []TypeOK` |
| `ToolTextNeverShown` | `Spec => []ToolTextHidden` |
| `DeltasDeliver` | `Spec => []WordsDelivered` |

They hold for any number of messages and tokens, with and without ids, roles and tools.

- `TextInv`: each text has its words in increasing order, and later messages have greater ones.
- `HiddenInv`: no word that has been shown is behind a marker now. A word once shown cannot get
  there: a marker is only written behind it, and a rewritten text has new words.
- `OrderInv`: there is a message that was selected last (`LastSeen`). Nothing of a later
  one was seen, an earlier one is not selected again (a message never stops being usable, and only the
  newest can become so), and its visible text is what the next delta is
  taken from, also when messages without ids share one entry. So the words of a delta are
  greater than all words shown. What the entry swallows of a text are words of that text, the
  first of it, so the words shown and those swallowed together are the ones seen.

`Min` and `Max` are choices; that they exist is proved from the well-foundedness of `<`.

### ToolStream_proofs

| Theorem | States | Assumes |
|---|---|---|
| `TypeCorrect` | `Spec => []TypeOK` | |
| `EventsDelivered` | `Spec => []EventsAsWritten` | |
| `NothingLeftToParse` | `Spec => []SecondParseFindsNothing` | |
| `SnapshotsStand` | `Spec => []SnapshotCallsStand` | |
| `BlocksRead` | `parseV2ToolCalls(t)` is the calls of the closed blocks of `t`, in order | `t` is a sequence |
| `ParsedAsWritten` | `Spec => []ParsesAsWritten` | `RegularAnswers` |
| `AnswerServed` | `Spec => []CompleteAnswerServed` | `RegularAnswers` |

`ReadInv` relates the buffer to the line that was read last, and the events given to the callback
to those written: a snapshot is in the buffer or was delivered. `NoCallsInv` says that a
turn without calls found none in its final text, which is the last snapshot unless something was cut.
The first three theorems use no more of the parser than that it finds nothing in a blank text.

The others are about the parser itself, a recursive function over the places of a text. What
it computes for every text is an induction over data, for which the prover has no rule that
can be used; two arguments stand in for it.

- Chains. The loops of `parseV2ToolCalls` and `buildItems` are functions
  `f[i] = IF next[i] = 0 THEN <<>> ELSE add[i] \o f[next[i]]` whose `next` only goes forward and
  ends (`Chained`, `Forward`). That such an `f` exists, and what holds of it at every place, is proved once
  for all chains, from the end of the text to its beginning (`FromTheEnd`). The depth of braces is
  followed in the other direction (`Upwards`). Both rules come from the well-foundedness of `<`
  (`LeastMember`), for a set of places instead of a predicate.
- Prefixes. Reading a prefix of a text goes the same way as reading the text as long as the
  blocks are closed in it, so the calls of the prefix are the first calls of the text: this is
  `SnapshotsStand`, for every answer.

`BlocksRead` compares the chain with the set `Blocks`: a block that the loop finds is
in it, the next one found is the next one of the set, and when none is found none is
left. `InOrder` is then the list the loop builds, for a sorted list of a finite set is unique
(`SortedIsInOrder`). For `ParsedAsWritten` each body is compared with its meaning
(`BlockMeans` for the three forms, `IncompleteIsNone` and `CutIsNoItem` for the rest), the bare text with `FirstObjects` (`V1Reads`: the brace at which the depth
is zero for the first time is the end of the object).

`RegularAnswers` is a condition on what the upstream writes, not on the parser, and
cannot be dropped: of a block with its marks in the wrong order the parser makes a call, which
no definition of "written" in the sense of the format contains. A prefix of a regular text is regular
(`RegularPrefix`), so it is enough to ask it of whole answers. Where the code makes a call of a block
that is still open, `ParsesAsWritten` agrees: what it calls bare includes the text of such a block, as
`tool_call.go:55-61` does. `SnapshotsStand` needs no condition, for `SnapshotCallsStand` excepts that
case itself.

### Only model-checked

Every invariant of a passing run is stated by a theorem. Left to TLC are:

- All liveness (`SessionReleased`, `EveryRequestEnds`, `TurnEnds`), which is beyond the prover.
- The five disagreements, which are counterexamples.

## Not modelled

- Wording: prompts, tool directory, error texts, JSON and SSE framing.
- `Refresh`, `CountTokens` and `HttpRequest` of the executor: a token and one
  call, no state of their own.
- The prompt builder: text without control. `truncateMiddle` cuts bytes, so it
  may split a character (`prompt_builder.go:218`).
- The device-code login: no command of `main.go` reaches it, and `README.md:64`
  says the project uses the authorization-code flow.
- Of the server, `/m365/oauth/status` and `/m365/upstream/check`, which read the state
  that `Credentials` models, and the building of URLs and configuration.
- `tokenByClientSecret` and `extractAssistantText`, which have no caller.
- The SDK, its store and its retry between credentials.
- Details of the credentials that the abstraction hides: ids that differ only in
  case are one account to `disableOtherM365Auths` (`static_auth.go:82`) and two to the
  SDK; tokens of a reply without the file scope are dropped, with the refresh token that
  may come with them (`sharepoint_upload.go:456`).

## Plan

Done: `SessionLease`, `SessionStore`, `Executor`, `Turns`, `ImageUpload`, `Credentials`,
`StreamDelta`, `ToolCalls` and `ToolStream`, with proofs of every safety property their runs check,
of both refinements, and of the parser against what a text means. What would come next:

1. Prompt truncation (`truncateMiddle`) against the tool blocks it may cut.
2. Tokens below the ones of `ToolCalls`: JSON strings that contain braces, and a V1 call with
   the synonyms of its keys.
3. The device-code login, once a command reaches it.
