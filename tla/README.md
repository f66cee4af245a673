# Remote Workstreams in TLA+

Remote Workstreams lets a phone talk to agent sessions (Claude Code or Codex) that
run in tmux windows on a laptop.  This directory holds its verification project:
TLA+ modules translated from the Python source, TLC configurations that check them
on small instances, and TLAPS proofs of the theorems that matter most.  Paths below
are relative to `src/remote_workstreams/` unless they start with `src/`.

## 1. Inventory

The server is one Python process with one asyncio event loop.  Code between two
`await`s is atomic; every `await` is a place where other tasks run.  All of the
interesting behaviour comes from that, from the agent sessions (which write their
transcripts whenever they like), from the phone (which comes and goes) and from the
laptop (somebody may type into the same tmux windows).

| Component | State | Operations | Hard part, and what makes it correct |
|---|---|---|---|
| **AudioPipeline** `audio/pipeline.py`, `audio/state.py` | state shown to the phone, final spans, held endpoint, current turn task, hushed, muted, closed | `run` (chunks from the recogniser), `text`, `set_hushed`, `set_muted`, `close`, grace commit, the turn task | six tasks suspended in the same methods.  One live turn; no word sent twice, or lost but with a turn that was cut off; the phone's state is what goes on; a hush is silence; after closing no turn but those a suspended caller or a late text begins; no THINKING for ever |
| **ConvoBridge** `convo.py` | session, transcript tail, active queue, `_unfinished` | `turn`, the sentence stream, `run` (poll), `reset`, `close`, `subscribe`, `history`, `slash` | nothing ties an answer to its text but a count of TurnEnds.  A stream speaks its own reply, all of it, and ends |
| **ConvoRuntime** `server/runtime.py`, `server/ws.py` | live connection, pipeline, its task, muted, hushed, button tasks, watch task | `attach` (takeover, history replay), `detach`, the buttons, pipeline replacement | one socket at a time; every chat entry once; the phone's mutes survive a provider failure |
| **WorkstreamManager** `server/workstreams.py` | the workstreams, cards, plans, marker into the convo transcript | rehydrate, new, send-to, input, end, compact, cards | the dictionary changes across awaits; markers into a transcript that a reset replaces; crashes half way through a spawn |
| **Substrate** `substrate.py` | tmux windows, one paste buffer, codex rollout files | spawn, send, slash, archive, kill, alive | one buffer for all pastes; a Codex spawn claims the newest rollout, whosever it is; a gone window's name may find another's |
| **Bootstrap** `bootstrap.py`, `server/__main__.py` | the stored convo session and its model | `ensure_convo`, `fresh_convo` | crashes between kill, spawn and record; two resets at once.  The server comes up again, but for three known ways not to |
| **Approvals** `server/approvals.py`, `server/api.py`, `src/hooks/ask_phone.py` | pending futures | request, resolve, timeout | a late answer against the timeout; a phone that was away.  The session is told what the user chose, or nothing, once |
| **Auth** `server/auth.py` | pairings, logins, attempts, sessions | begin/finish pairing and login | single use, expiry, lockout, revocation between start and finish |
| **Store** `server/store.py` | SQLite rows | accessors | what is on disk when the process dies |
| **Transcript**, **rollout** `transcript.py`, `rollout.py` | offset, vitals | `read_new`, `parse_line`, vitals | complete lines only, each once, in any portions; a card that says what the session is doing |
| **Chunker**, **EchoGuard** `audio/chunker.py`, `audio/echo.py` | the text buffer; recent sentences and playback clock | `feed`, `flush`; `is_echo` | pure text functions |
| **Adapters** `adapters/` | provider streams | `stream`, `synthesize`, `cancel` | a stream cancelled under its reader |
| **Web client** `web/` | socket, cards, spinners | reconnect, buttons | reconnect against takeover; spinners that wait for a lost message |

How they interact: the phone's socket (`ws.py`) hands messages one after another to
the runtime, which hands speech and text to the pipeline; the pipeline calls
`ConvoBridge.turn` and iterates over the stream it returns; the bridge types into
the session through the substrate and polls the session's transcript file; every
entry also goes to the phone as chat, by `subscribe`.  Clear, or a change of
engine, goes through bootstrap to `ConvoBridge.reset`.  The workstream manager
spawns further sessions, reads the convo's transcript up to a stored marker and
pushes cards to the phone.

`PROJECT.json` lists every component with its status, and every hazard at its line.

## 2. The modules

### ConvoBridge

| In the model | In `convo.py` |
|---|---|
| `epoch`, `read` | `_session`, `_tail`: which session, how far its transcript has been polled |
| `unfinished`, `turnQueue`, `closed` | `_unfinished`, `_turn_queue`, `_closed` |
| `stream[s]` | one call of `turn()`: its local `skip`, its queue, where its generator is |
| `Turn`, `BeginSend`, `Submit`, `SendDone` | `turn()` up to `return`; the generator's `await self.send(text)` in three steps: it starts, the Enter key lands, it returns and `_unfinished += 1` |
| `Poll` | one entry of `run()` |
| `TakeText`, `SkipEnd`, `TakeOwnEnd`, `EndQuietly` | one iteration of the stream's loop |
| `Abandon` | the consumer closes or cancels the stream, or tmux fails |
| `Reset`, `Close` | `reset()`, `close()` |
| `log`, `submitted`, `SessionText`, `SessionEnd`, `LaptopInput` | the agent session and the laptop, which are outside of the repository |

A stream's queue only ever receives consecutive entries of one transcript, so it is
an interval of positions; entries that no stream looks at (tools, user lines) are
left out.  The history variable `disturbed` says that the count of TurnEnds of a
session was upset: by input the bridge did not send, by a TurnEnd polled before its
send returned, by a stream dropped between Submit and SendDone, or by a turn or a
Clear that came while an earlier text was still on its way.  The invariants hold
for undisturbed sessions; that some of those ways exist at all is the finding of
`bridge_cut`.

### AudioPipeline

| In the model | In `audio/pipeline.py` |
|---|---|
| `sm`, `spans`, `grace`, `hushed`, `closed`, `turnTask` | `_sm.state`, `_final_spans`, `_grace_task is not None`, `hushed`, `_closed`, `_turn_task` |
| `turn[t]` | the task of `_speak_turn`: where it is, whether it has been heard, the words it has yet to type, and whether `close()` could find it (`stray`) |
| `caller[c]` | a task inside the pipeline: `run()`, the socket's `text()`, the grace timer's `_commit`, a mute's `_endpoint`, a hush's `_silence`, `close()` |
| `detached` | the runtime has torn the socket down |
| `Chunk`, `Text`, `SetHushed`/`Silence`, `SetMuted`/`Flush`, `GraceOver`, `Close` | the methods, up to their first await |
| `Aborted`, `Joined`, `Told` | how a caller goes on after `_abort_turn`, after awaiting the finishing turn, after `sink.state` |
| `Typed` | `_speak_turn` first asks its stream for a sentence: `convo.py:101` types the text |
| `Sentence` ... `Cancelled` | the other steps of `_speak_turn` |

The methods share their tails, and so does the model: `StartAbort`, `EnterState`,
`Begin`, `Think`, `Supersede`, `StartTurn`, `Commit` are the code of `_abort_turn`,
`_set_state`, `_start_turn` and `_commit` between two awaits.  `EnterState` raises
`IllegalTransition` where `audio/state.py` does: that ends `run()` through its
`finally`, kills any other caller with the words it holds, and sends a turn into its
`except` branch.  A cancelled turn is `closing` until its generators are closed; a
caller that awaits a turn somebody else cancels dies of the CancelledError.

A turn is created with its words in hand (`words`), and types them when its task
first runs: a turn that is cancelled or fails before that takes them with it, which is
where `EveryWordInOnePlace` says a lost word can be.

`clash` is a history variable: two callers have been suspended inside the pipeline
at the same time, or a text was accepted by a closed pipeline.  `caught` is another:
the callers that were suspended inside when `close()` came and are so still.  The socket handles
one message after another, so `SetHushed` and `SetMuted` never arrive while a
`text()` is suspended; the other overlaps are all possible.

Left out: the echo guard (a chunk it drops is no chunk), captions, the microphone
queue, timings, the Cartesia stream that a clash can cut short.  Named bounds:
`MaxWords`, and one task of each kind at a time (two grace commits, two flushes or
two silencings at once are not modelled).

### ConvoRuntime

| In the model | In `server/runtime.py` and `server/ws.py` |
|---|---|
| `conn`, `pushConn`, `pipeline`, `switches`, `lock` | `conn`, `push.conn`, `pipeline`, `_muted` and `_hushed`, the owner of `_lock` |
| `old` | the locals of the `_teardown` under way |
| `socket[c]` | one run of `websocket_endpoint`: where it is, and what its phone has been sent |
| `task[c]` | `_run_pipeline` of that socket |
| `Hello`, `Attach`, `Replay`, `Leave`, `Detach` | the endpoint and its `attach()`, `detach()`, between two awaits |
| `PipelineClosed`, `TaskCancelled`, `Parted` | `_teardown`, after each of its awaits |
| `ProviderFails`, `FailedClosed`, `Reconnect` | one round of `_run_pipeline`'s loop |
| `log`, `polled`, `fanned`, `Poll`, `FanOut` | chat entries written, polled by the bridge, pushed by `_fan_out` |

A socket's `slipped` is a history variable: when its history was read the fan-out
was behind, or it pushed something before the socket went live.  Left out: the watch
task of the detail view, the buttons (each starts a method of another component),
Clear.  An entry is one chat message; TurnEnds are none.  Bounds: `MaxLog` entries,
`MaxPipelines` pipelines, each socket connects once.

### Substrate, Bootstrap, Workstreams

One specification in three modules, each extending the one before: tmux and its
windows, the conversation's session, the workstreams.

| In the model | In the code |
|---|---|
| `windows`, `buffer` | tmux's windows (name, session, how far its agent has come, what stands unsubmitted in its composer) and its stack of paste buffers |
| `task[t]` | a task of the server: its operation, the await it is suspended in (`pc`), its locals |
| `Status` | `WorkstreamManager.run()`; until it starts, the booting server |
| `db`, `mem` | the rows of `server/store.py`; `convo_transcript` and `_workstreams` |
| `lines` | the length of each conversation's transcript |
| `OpenWindow`, `TypeCommand`, `RunCommand`, `Claim`, `NoRollout` | `Substrate.spawn`, `_spawn_codex`, `_await_rollout`; the command line and its Enter are two tmux commands |
| `LoadBuffer`, `PasteBuffer`, `TypeLine`, `Enter` | `Tmux.paste`, `type_line`, one tmux command each; `Enter` and `KillWindow` are the first half of the caller's next step |
| `Boot` ... `BootRecord` | `ensure_convo` and the rest of `_serve` |
| `CutShort` | the process dies between the two commits of `fresh_convo`, the session's record and the marker's reset |
| `Clear`, `SetModel`, `Look`, `Respawned`, `ConvoRecord`, `Retyped`, `BlankEntered` | `ConvoRuntime._clear_convo`, `set_model`, `fresh_convo`, `_spawn_fresh`, `convo_reset`, a typed `/model` |
| `NewWorkstream`, `Planned`, `Ready`, `Rename`, `Launched`, `GiveUp` | `new_workstream` |
| `SendTo`, `Directed`, `Injected` | `send_to_workstream` |
| `End`, `Archives`, `Ended`, `ArchiveFails` | `end_workstream` |
| `Input`, `Say`, `InputSent` | `workstream_input`, `compact_workstream`, `ConvoBridge.slash` and its `send` |
| `Wake`, `Card`, `NextCard`, `Died` | `run` and `push_cards`, with the iterator that raises when the dictionary's length changed |
| `Crash`, `WindowCloses`, `AgentUp`, `ChildUp`, `Talk` | the server or the machine dies; windows and agents go their own ways, and a Codex agent starts a child, whose rollout appears among the others |
| `done` | history: the lines of the recorded conversation that were told to a running workstream, and those that were lost |

A window is addressed by its name.  tmux takes a beginning of a name too, when no
window has the name itself and only one begins so (`Near`); it refuses a name that two
windows have.  `Named` is the window found, if any, and the wrapper, which ignores exit
codes, goes on in every case.  A line counts as told when the Enter submits its plan or
directive to the running agent of that workstream's own window (`Reaches`), and as lost
when it does not; the marker moves all the same, as in the code.

`past` is a history variable, the kinds of accident that have happened:

| In `past` | What happened |
|---|---|
| `crash` | the server died |
| `twins` | a window was opened under a name that exists (two planners, two injectors, two spawns of the conversation, or one name for two workstreams) |
| `reused` | a plan took the name of a workstream that exists or is under way |
| `resets` | a reset of the conversation began while another was under way |
| `stale` | a marker was recorded, or left, against another transcript than it counts |
| `cut` | a crash fell between a stored choice of a model and the record of its session |
| `norollout`, `rivals`, `child`, `misclaim` | a Codex spawn found no rollout; two were under way at once; an agent started a child while one was; one claimed a rollout that is not its session's |
| `prefix` | a command reached a window of another name than it was meant for |
| `overlap`, `muddle` | two sends or command lines overlapped, or a crash cut one; an Enter submitted a text that was not its own alone |

The invariants say which accident each consequence needs, so that any new way to it
is a violation.  Bounds: `MaxSessions` ids known at a time (forgotten ids are taken
up again, which uuid4 never does: nothing refers to them any more), `MaxLines`,
`MaxEvents` (operations, crashes, children and windows that close, together).  Planners
and injectors are of either engine (`PlanOn`, `InjectOn`); the id of a planner or an
injector is never asked for again, so a claim of theirs only takes the time it takes.
Left out: which of several titles a planner picks (any name), prompts, the polls of `_await_file`
(one step that finds the file or gives up), the archive's files (an outcome).

### Transcript, Rollout, Sessions, LogFeed

| In the model | In the code |
|---|---|
| `ParseClaude`, `ParseCodex` | `parse_line` of `transcript.py` and of `rollout.py` |
| `ScanClaude`, `ScanCodex`, `TaskRuns` | `SessionVitals._scan*`, `RolloutVitals._scan`, `_scan_child` |
| `Complete`, `Entries`, `LogLine` | `read_complete_lines`, `TranscriptTail.read_new` through `entry_log` |
| `RunDies`, `Restart` | the `RuntimeError` of `push_cards`, which ends `run()`; the server's restart, which reads every file anew |
| `Refresh`, `Scan`, `ScanLine` | `refresh`, its loop over the new lines, and the engine's `_scan` |
| `Children`, `TasksRun` | `_refresh_children` and its loop over a child's new lines |
| `Replay`, `Poll`, `Push`, `OpenView`, `CloseView`, `Detach` | `_watch` between two awaits, `watch_workstream`, the part of `_teardown` that cancels it |
| `real`, `kid` and the actions that `Write` | what the session is in fact doing, and the lines that makes it write |

The writer is outside of the repository: its lines, and their order, are those that
the comments of `transcript.py` and `rollout.py` and the fixtures of
`src/tests/test_transcript.py` and `src/tests/test_rollout.py` describe.  A card that
agrees with `real` is therefore a card that reads those lines right, in whatever
portions and whatever overlap of turns, agents, errors and compactions they come.
`reader` splits the behaviours: the card's reader and the log's share the file and
nothing else.  A line is written in two steps, its text and its newline.

`LogFeed` is the abstract specification of the detail view: it shows a stretch of
the log without gaps or repetitions, and never goes back.  `FeedIsFaithful` states
that `Sessions` implements it, with `log` as the entries of the whole lines and
`view` as what the phone has been sent since the last `reset`.

### Auth, Approvals, Phone, Verdict

| In the model | In the code |
|---|---|
| `failures`, `lockedUntil`, `pairings`, `logins`, `sessions`, `rows` | the fields of `PairingManager` and `LoginManager`, the credentials table |
| `WrongPin`, `PairStart`, `PairFinish`, `PairRefused` | `PairingManager.start`, `finish`, and the token the route mints |
| `LoginStart`, `LoginFinish`, `LoginRefused`, `Revoke` | `LoginManager`, the revocation route |
| `hook[r]` | one process of `src/hooks/ask_phone.py` |
| `gate[r]`, `pending` | `Approvals.create` at one of its awaits, and its future; `Approvals.pending` |
| `Ask`, `AskForbidden`, `CardArrives`, `Notified`, `Answered`, `TimesUp`, `TimedOut` | the route and `create`, between two awaits; the 403 of an old run's token |
| `Resolve` | `Approvals.resolve`, one message of the socket, which may come before `notify` has returned |
| `Tap`, `Fade`, `Hello` | `decide` and the timer of `web/ui.js`; `ready`, which clears the cards |
| `Break`, `Detach` | the socket dies with the end of what was on its way; the server notices |
| `Restart` | the process dies: everything but the table is forgotten, the token changes |

A PIN lockout lasts minutes and an approval seconds, so a behaviour has one clock and
a `scale`, chosen at the start.  On the scale of seconds one phone logs in and
answers; on that of minutes several devices pair, log in and are revoked.  `TimesUp`
may take a future that has its result already: when the timer and the answer fall in
one turn of the loop, `wait_for` may raise TimeoutError and drop the result.  Time
stands still while the event loop has something due: a step of the loop is shorter
than a tick.

`Verdict` is the abstract specification of an approval: one answer, once, what the
user chose or silence.  `VerdictHolds` states that `Phone` implements it.  The card may be on the phone, and
answered, before `notify` returns.  Left out: a `notify` that raises (the only one is
`ClientPush`, over `WSConnection.send_message`, which catches every exception),
hashing, WebAuthn's own checks, signature counts (a refusal is an outcome).

## 3. The runs

| Run | Instance | Question |
|---|---|---|
| `bridge` | 3 streams, 1 session, 4 lines, 1 laptop input, symmetric streams | Does every stream speak exactly its own reply?  Three are needed: one that ended, one superseded, one that skips for it. |
| `bridge_clear` | 2 streams, 2 sessions, fair | Does a Clear in the middle of anything start the count over, and does every stream end? |
| `bridge_cut` (violation) | 2 streams, one at a time | The docstring's unconditional promise.  TLC finds a stream dropped between the Enter key and the return of `send`. |
| `pipeline` | 4 words, until the first clash | Words, turns and the phone's state, over all interleavings of a caller with the turn, a hush, a mute and failures.  Four words give a turn, its successor, a held span and one in hand. |
| `pipeline_clash` | 2 words, every clash allowed, fair | What survives any clash: no endpoint is held for nothing, the phone does not stay THINKING, and every turn alive after `close()` is one of three known kinds.  Two words are a commit and a text, or a turn and its successor. |
| `pipeline_hush` (violation) | 1 word | "While on, turns run silently."  TLC finds a hush between a sentence and its first audio. |
| `pipeline_race` (violation) | 2 words | "The in-flight turn is cancelled."  TLC finds two callers of `_start_turn`, both in THINKING. |
| `runtime` | 2 sockets, 2 entries, 3 pipelines, 1 switch, fair | One live socket, one open pipeline, a whole chat.  Two sockets are enough: at any time the lock involves one that is torn down and one that comes, and whoever else waits only waits. |
| `runtime_chat` (violation) | 1 socket, 2 entries | "Then live entries stream via the fan-out."  TLC finds the entry the history and the fan-out both deliver. |
| `workstreams` | 2 tasks and the cards' task, 2 names (one on Codex, and the beginning of the other), planners on Claude and injectors on Codex, 7 sessions, 1 line, 2 events, from an empty store or one with a workstream, with or without their windows, up to the third kind of accident; 2 million states | Rows against memory, windows nobody knows, lines that are unaccounted for, a server that does not come up, texts and rollouts in the wrong session.  Two events are two operations at once, an operation and a crash, a child or a closing window within it, or a crash and the boot's own crash; each is taken at every await. |
| `sessions` | 5 lines (3 when the log is watched), 1 broken socket, a replay of 2 entries, fair | Is the card true, and does the detail view show a stretch of the log, and its end?  Five lines hold a background agent's launch, acknowledgement, notification and end with a turn in it; three entries exceed the replay. |
| `phone` | 3 PINs, a lockout of 2 ticks, a clock of 3, 3 challenges; 2 requests, server limit 2, hook limit 3, 2 runs of the server; fair | How many guesses, who is admitted, and what the asking session is told.  The approval limits keep the order of the code's (60 s and 90 s).  Lockout, pairing and login are all ten minutes in the code, each measured for itself; the run takes the lockout apart from the others, so that a flow can end within it. |

`FewAccidents` stops a behaviour of `workstreams` where a third kind of accident has
happened, a state that is still checked; without the constraint the run has 3.7 million
states, in which TLC finds no more.
The constraint `Undisturbed` (`NoClash`) stops at the first disturbance (clash):
from there on the properties that ask for none hold by their condition, and the
first state beyond is still checked.  `CHECK_DEADLOCK FALSE` everywhere: a user who
says nothing more, an agent with nothing to answer and a closed server are real ends.

Every property of a passing run has a mutant in `PROJECT.json`: a small, plausible
bug in a definition, kept in front of the right form in the module, that the run
must find.

Fairness.  `ConvoBridge`: `run()` polls every 0.25 s, the consumer keeps asking for
the next sentence, and the agent ends every turn it was given.  Nothing is assumed
of users, resets or text blocks.  `AudioPipeline`: the event loop resumes every task
whose await has been answered, and what is awaited answers (cancelled tasks, the
socket: a sink suppresses its errors).  A reply ends: that is strong fairness of
`ReplyOver`, because a sentence in synthesis suspends the loop over sentences, and
it is what `EveryStreamEnds` says of the bridge.  Grace timers, users and the
recogniser need no fairness.  `ConvoRuntime`: what `attach()` and `detach()` await
comes to an end, and the lock is handed on to every waiter in turn (`asyncio.Lock` is
first come, first served; the model lets any waiter go first, and assumes strong
fairness).  Phones, providers and the session need none.  `Sessions`: the watch task
polls, and `run()` does for as long as it is not over (`push_cards` may raise, and
nothing brings it back but a restart, of which no fairness is assumed); a broken socket
is noticed (uvicorn's pings) and the phone redials (`web/app.js`); nothing is assumed of
the session.  `CardsCatchUp` promises nothing of a card once `run()` is over.  `Phone`:
time passes, the loop and the hooks do what is due, and a send to the phone ends;
nothing is assumed of the user or the network.  `Workstreams` states no liveness and no fairness.

Refinements.  `FeedIsFaithful` and `VerdictHolds` are `INSTANCE ... WITH` of an
abstract specification, checked as temporal properties: every step of the detailed
one is a step of the abstract one or changes nothing of it.

## 4. The proofs

Eight modules prove, for every value of the constants, the type invariant and every
safety invariant of the passing runs, the action property and both refinements.  They
assume no more than the `...Assumption`s of the modules they are
about, which TLC evaluates on every run.  `PROJECT.json` lists the theorems by name.

| Module | What it proves | Inductive invariants |
|---|---|---|
| `ConvoBridge_proofs` | `TypeOK` and the four invariants of `bridge` | `IInv` |
| `AudioPipeline_proofs` | `TypeOK`, `HeldEndpointHasWords`, `OneLiveTurn`, `StateMatchesTurn`, `ClosedIsQuiet`, `EveryWordInOnePlace` | `CallerInv`, `QuietInv`, `WordsInv`, `StrayInv` |
| `ConvoRuntime_proofs` | `TypeOK`, `NoPipelineLeaks`, `OneLiveSocket`, `SwitchesSurvive`, `ChatIsWhole`, and the action property `PlaceLostToSuccessor` | `RuntimeInv`, `ChatInv` |
| `Phone_proofs` | `TypeOK`, `FewGuesses`, `Admission` | `Types`, `GuessInv`, `AdmissionInv` |
| `Approvals_proofs` | `TakenIsTold`; that `Phone` implements `Verdict` | `ToldInv`, `VerdictInv` |
| `Workstreams_proofs` | `TypeOK`, `BootsAgain`, `StoreMatchesMemory`, `NothingSkipped` | `TypeInv`, `BootInv`, `StoreInv`, `SkipInv` |
| `WorkstreamWindows_proofs` | `OwnText`, `OwnRollout`, `NoStrays` | `Single`, `TextInv`, `RolloutInv`, `StrayInv` |
| `Sessions_proofs` | `TypeOK`, `VitalsAreTrue`; that `Sessions` implements `LogFeed` | `FileInv`, `RealInv`, `CardInv`, `WatchTypes`, `FeedInv` |

None of the properties is inductive by itself.  In each module the invariant of types
comes first, one lemma per action; the others are proved over it, and each theorem
follows from its invariant alone.

**ConvoBridge.**  `IInv` adds

- the shape of a transcript: the inputs it answers are consecutive, and change only
  after an end (`TurnAt` of any position depends on the lines before it alone, and an
  appended line leaves it as it was);
- the count: `unfinished` plus the input at the poll position is one more than what
  was submitted, corrected while a single send is on its way;
- for every stream: how far its queue reaches against `read`, and that the input at
  the head of its queue, plus the ends it still has to skip, is its own input.

The last equation is why counting works: taking a TurnEnd off the queue moves both
sides by one, a poll leaves them alone, and `Turn` establishes it because `skip` is
taken from the count when nothing is on its way.

**AudioPipeline.**  `CallerInv` says what a suspended caller can be about to do and with
which words in hand, whatever callers clash: `HeldEndpointHasWords` needs no more.  As
long as there has been no clash at most one caller is inside, and `QuietInv` ties its
record to the turns: a caller that aborts has taken `_turn_task` away and the one live
turn is closing; one that joins waits for a turn that speaks no more; one that tells
the phone has no live turn; and with nobody inside, the live turn is `_turn_task` and
the phone shows it.  Each method's tail (`StartAbort`, `EnterState`, `Begin`, ...) has a
lemma that says in which of these situations it leaves the pipeline.  `WordsInv` then
counts the words of the callers in with the spans, the turns and what was typed.
`ClosedIsQuiet` needs no such condition: its `StrayInv` says that whoever lets go of a
live turn marks it, and that once the pipeline is closed only the callers that were
caught inside, and `text()`, are on the way to a turn of their own.

**ConvoRuntime.**  `LockInv`: the lock is held from the first await of `attach()` or
`detach()` to its end, and meanwhile the runtime has no socket and no pipeline; what it
had is in `old`.  `PlaceInv`: otherwise the live socket has the pushes and a pipeline of
its own.  `TaskInv`: a task that sleeps before it reconnects has closed its pipeline,
which is why its successor is the only open one.  `ChatInv` follows the replay entry by
entry: a history nothing slipped past is as long as the fan-out is far.

**Phone, Approvals.**  `GuessInv` bounds the guesses of a lockout's length by the failures
counted, or puts a lockout behind them that outlasts them all; it rests on what
forgetting the oldest guesses (`Old`) does to the sequence.  `AdmissionInv`
is about numbers: one is handed out once, to a pairing, a login, or the token minted for
it.  `ToldInv` relates two clocks: while a handler can still take a verdict, its hook has
been waiting no longer than the handler, but for what a fast notify took, and the hook's
limit is the longer one.  The refinement is proved step by step over `VerdictInv`: every
action of `Phone` is a step of the abstract question of every request, or changes
nothing of it.

**Workstreams.**  `Shape` says where each operation can be and about which window, and
with which of its fields set; `UpInv`, what the server's state says of its processes.

- `BootInv` adds to `BootsAgain` that what is being spawned for the conversation is of
  the engine chosen, and that one reset is under way at a time: so the record that ends
  a change of model agrees with the choice.
- `NameInv`: unless a plan reused a name, a workstream that is being made has its name to
  itself, and what a task read of a workstream before an await is what the name stands
  for still, or nothing.  That is why rows and memory agree although both are written by
  tasks that looked before they slept.
- `SkipInv` adds to `NothingSkipped` the injectors: the lines before an injector's own are
  covered, so moving the marker to where it was told to read skips nothing.
- `Single`: one window to a name, which makes `Named` and `Hit` the same.
- `TextInv`: unless sends or command lines overlapped, windows shared a name or tmux
  took a beginning for a name, at most one task sends at a time, the top of the buffer
  is its text, and what stands in a composer is the text of a task that is about to
  press Enter on that very window.
- `RolloutInv`: unless two Codex spawns met, a child was started or a spawn was given up,
  one Codex session is on its way at a time, in the window of the one task that waits for
  it, and no rollout but its own appears meanwhile.
- `StrayInv`: a window whose name a spawn under way is for is that spawn's, what is being
  archived has no window any more, and every window is known or a spawn's.  That a
  window just opened is nobody else's uses `NameInv`; that a claim takes the right
  session, `RolloutInv`; that a kill kills, `Single`.

Steps that open no window at most move some (`Moved`: every window after the step was
one before it, with the same name and session), and one lemma about such steps serves
each invariant (`SingleMoves`, `RolloutFrame`, `StrayFrame`).

**Sessions.**  What a reader makes of a transcript is a fold over its lines, a recursive
function on the offsets it has read.  A theorem about it needs induction over the
offsets.  The library's induction theorems take an operator as a parameter, which the
provers cannot instantiate; but the least member of a set can be had (`WFMin`, with
`NatLessThanWellFounded`), and from it `AllNaturals`: a set of naturals with 0 and every
successor is the whole of them.  With the set in place of the operator, each fold gets
the same four lemmas: a run of it exists and is unique, one line more is one step more
(`ScanNext`, `TasksNext`, `EntriesNext`), lines it has not read do not matter
(`...Agrees`), and read in portions or at once it says the same (`ScanPortions`,
`TasksPortions`, `EntriesPortions`).  Then

- `RealInv`: the vitals of the whole file, scanned from the start, are what the session
  is in fact doing.  It is proved over the writer's actions, one line at a time:
  `ClaudeSays` and `CodexSays` say what a line must do to the session for the scan of it
  to do the same, and every action of the writer is shown to write such a line.
- `CardInv`: a card's vitals are those of the file scanned from the start to its offset.
  `ScanPortions` is the reason: it does not matter where the polls cut.  A child's
  rollout likewise, and a child that is archived takes its offset with it.
- `VitalsAreTrue` is the two together, at the end of the file.
- `FeedInv` follows the detail view: what the phone shows is a stretch of the log that
  ends somewhere; a frame on its way starts where that stretch ends, or anywhere if it
  comes with a reset; and the view of a watch that sleeps over a live socket ends at
  its offset.  A frame that a broken socket swallows breaks the second part, which is
  why it is claimed of live sockets alone, and why `Reconnect` has to watch again.
- `FeedSteps` is the step simulation.  The log only grows at its end (`LogGrows`), and
  its entries are all different (the model tells them apart by the line and the place
  they come from, lemma `EntriesDistinct`), so the place the view has come to
  (a CHOOSE in `LogFeed`) is the end of its stretch (`ReachedIsEnd`).

Proving changed the models where they were wrong or said too much.  `OwnText` now also
excuses two windows of one name, since an Enter that tmux refuses leaves the text in
the composer for the next; `NoStrays` excuses a reused name, since the row of the one
workstream hides the window of the other.  `WorkstreamsAssumption` says that there is room for the initial sessions.

Only model-checked: the liveness properties (`EverySocketIsServed`, `TurnComesToAnEnd`,
`EveryStreamEnds`, `EveryAskEnds`, `CardsCatchUp`, `FeedCatchesUp`), since the proof
system has no ENABLED; and the violations, which are single behaviours.

## 5. What is found

The four violation runs are real schedules of the code; `PROJECT.json` quotes the
lines they contradict.  In short: a text is counted after it was delivered, not with
it (`convo.py:102`); a hush is looked at before synthesis and not after
(`audio/pipeline.py:163`); `_start_turn` awaits between the check for a turn in
flight and the creation of its own (`audio/pipeline.py:269`);
the history and the fan-out overlap (`server/runtime.py:204`).

The later modules met further consequences that no document denies.  They are steps
of the models, and the invariants name them as the exceptions they need:

- A text that supersedes a THINKING turn before that turn's stream has typed cancels it,
  and the superseded words are lost: they left the spans when the turn was created
  (`audio/pipeline.py:270`), and are typed when its task first runs (`convo.py:101`).
- A commit that is suspended in `sink.state` while `close()` runs goes on to create its
  turn, which nobody cancels any more (`audio/pipeline.py:269`, `:184`); so does a text
  that comes to the closed pipeline during the reconnect window.
- `push_cards` iterates over `_workstreams` across awaits; a launch or an end in
  between raises RuntimeError, which ends `run()` (`server/workstreams.py:246`), and the
  cards stand still until a restart.
- Two planners (injectors) at once are two windows called `plan` (`inject`), which tmux
  cannot address: neither gets its text, and neither is killed
  (`server/workstreams.py:125`, `substrate.py:144`).
- A planner that times out, or dies with the server, has moved the marker already
  (`server/workstreams.py:119`); an injector that comes back after a Clear writes a
  marker into the old transcript (`server/workstreams.py:206`), and so does a boot that
  replaces a dead Codex conversation (`bootstrap.py:56`).  A crash between the two
  commits of a reset (`bootstrap.py:92`, `:83`) leaves the old marker against the new
  transcript.
- A plan or a directive that is sent to a window that is gone is told to nobody, and the
  marker is moved all the same (`server/workstreams.py:205-206`; tmux's exit codes are
  ignored).
- tmux takes the beginning of a window's name for the window: when `ws-a` is gone and
  `ws-ab` is there, the card of `ws-a` says it runs, its texts go to `ws-ab`, and ending
  it kills `ws-ab` (`substrate.py:96`, `:99`).
- A change of engine is stored before its session exists; a crash in between and a
  window that is gone leave a record that cannot be resumed, and the boot fails with
  ValueError (`bootstrap.py:65`, `substrate.py:178`).
- Two resets at once leave the session of one of them running (`bootstrap.py:72`); if
  both change the model (over two sockets), the choice of the one and the session of the
  other may remain, which is the record that cannot be resumed, without any crash.
- Overlapping sends swap texts (`substrate.py:82`); overlapping Codex spawns may claim
  one another's rollout, and any of them that of a child which a running Codex agent
  starts meanwhile (`substrate.py:218`, `rollout.py:114`).
- With an empty role skill a new workstream is never seen to be ready
  (`server/workstreams.py:330`).  The runs have `Greets = TRUE`.
- `splitlines` breaks a JSON line at U+2028, U+2029 and U+0085 (`transcript.py:146`),
  and a Codex child whose rollout is in another day's directory is not counted
  (`rollout.py:114`).
- An approval pushed to no phone is never pushed again, although `web/ui.js:627` says
  "A reconnect can replay a still-open gate": it times out in silence.  So does one of
  a workstream older than the server's run (`server/api.py:95`).  A slow send of the
  card is outside of the server's limit and inside of the hook's
  (`server/approvals.py:29`).  A verdict sent over a dead socket is lost, and its card
  is gone (`web/ui.js:669`).

## 6. What is not modelled, and the plan

Not modelled by choice: `protocol.py` (data), logging, configuration and the
keychain, ambient sounds, the audio round-trip script, styles and pages, the
deployment scripts and skills.  Pure text functions (echo similarity, titles, slugs,
per-line JSON) appear as what they decide.  The providers' adapters appear in
`AudioPipeline` by how they fail.

Composed so far: the workstreams over the bootstrap over tmux and the store; the
card's and the log's readers over a session's file and the socket; login, approvals
and the socket.  Not composed: the runtime with its pipeline (what the phone shows
when a pipeline is replaced, texts in the reconnect window), and the bridge with the
paste path of `Substrate`, of which it sees a send that begins, lands and returns.

Next, in this order:

1. **The runtime with its pipeline**, and an abstract specification of a voice session
   (a turn is begun, spoken or superseded, and over) that `AudioPipeline` implements as
   long as callers do not clash.
2. **The web client's reconnect loop**: two clients that take over from each other.
3. The **chunker**, as a function against a reference definition.
