# TLA+ models of the BPO platform

The repository is a small call-centre platform: agents take voice calls and web
chats, a worker turns every ended call into evidence (recording, transcript,
QA evaluation, predicted survey, costs), and a legacy pair of services taps
Asterisk calls, transcribes them live and scores them afterwards. The modules
here model the parts of it whose correctness depends on *order*: who acts
between a read and a write, what a crash or a failure leaves behind, and which
step a callback, a thread or a second process may slip into.

Everything below names source lines relative to the repository root;
`PROJECT.json` maps every definition that models code to its lines.

## Inventory

### Platform (`services/platform-api/app`, `apps/console`)

| part | state | operations | hard behaviour | what makes it correct |
|---|---|---|---|---|
| Conversation desk, `main.py` 96-283, 406-521 | `conversations`, `voice_sessions`, `agent_presence` | create, dial, simulate/register inbound, assign, claim, reject, control, wrap up, presence | supervisors and agents act on one conversation in any order; three tables that must agree | a conversation has an agent iff it is worked; a line stops once; a hang-up owes exactly one finalization |
| Durable jobs and worker, `jobs.py`, `worker.py` | `durable_jobs` | start, claim, complete, record failure, loop | crashes, a fifteen-minute lock, backoff, a bound on attempts, two workers | a job comes to rest; it is never lost nor done twice |
| Finalizers, `local_voice.py`, `external_voice.py`, `ai.py` | `recordings`, `transcript_segments`, `assist_events`, `qa_evaluations`, `survey_responses`, `cost_events` | read, insert recording, transcribe, analyze, commit | unique keys held across slow provider calls; rows written by others in between | evidence all or nothing, at most once, and no success without it |
| Recording upload, `main.py` 286-324 | a file and a `recordings` row | upload | runs in a thread beside hang-up and worker | one recording per call |
| Live chunks, `main.py` 327-403; `callCapture.ts` | live transcript; recorders in the browser | start and stop segments, ingest | a chunk is filed under what is selected when it ends; the hang-up waits only for the chunks it finds pending | a call's live transcript is of its own audio |
| Softphone, `App.tsx` 173-340, `sip.ts` | refs: session, pending inbound, capture, ending | ring, claim, reject, dial, control, remote end | callbacks interleave with awaits in every handler, and any request may fail | whoever talks has a live call; the end of a leg is heeded; audio is kept once and uploaded before the hang-up |
| Chat, widget and survey, `main.py` 579-677, `App.tsx` 370-390 | `messages`, `chat_sessions`, `survey_responses`; what the widget shows | start, send (agent, customer), poll, survey | `max(sequence) + 1` without a key; polls that overtake one another; the survey runs in a thread | numbers in commit order; no message from one who may not speak; the widget catches up |
| QA reviews, `main.py` 716-819, `QualityView` of `App.tsx` | `qa_evaluations`, `qa_reviews`; selection and detail of the console | evaluate, review, list, select, resolve | reviews overlap in threads; the selection and the detail are loaded apart | reviews lead from the automatic score to the verdict; a fatal finding changes explicitly |
| Realtime hub and console lists, `realtime.py`, `api.ts`, `AgentView` | connections per user; lists, selection and messages of each page | connect, disconnect, publish; refresh, select, claim, send, resolve | sockets that are lost, answers that overtake one another, an audience that misses someone | a page at rest that missed nothing shows what is |
| Coaching, `main.py` 820-870 | `coaching_actions` | create, update | none worth a model | - |
| Auth, configuration, reports, seed | rows read or written singly | login, CRUD, reads | none worth a model | - |

The console calls the API over HTTP and listens to the hub; the API and the
worker share Postgres and nothing else. There is one API process
(`services/platform-api/Dockerfile`) and its `async` handlers do all their
database work before their first `await`, so they do not interleave with one
another; the `def` handlers run in threads, and the worker is a process of its
own (`docker-compose.yml`). `ChatThread` and `QAReview` open up the two cases
in which that difference matters.

### Legacy listener (`services/realtime-assist`, `services/qa-scoring`)

| part | state | operations | hard behaviour | what makes it correct |
|---|---|---|---|---|
| ARI listener, `ari_listener.py` | `_active_calls`, `_channel_to_call`, `_free_ports`, `calls` | event loop, StasisStart, ChannelDestroyed | Asterisk goes on at every await; requests and statements raise; websocket drops; restart | ports conserved; callers handed back; calls marked ended when over |
| Audio tap, `chunker.py` and `_on_chunk_ready` | packet buffer, chunk index, `transcripts`, `realtime_prompts` | packet, flush, callback, stop | packets arrive during a flush; cancellation at any await; threads outlive it | every packet in at most one chunk, one row per index |
| QA scoring, `qa-scoring/worker.py` | `qa_scores` | poll, score | reads what the listener is still writing | every tapped call is scored or flagged |
| Broadcast and agent UI | connected clients | broadcast | best effort | - |

Remaining parts (Electron shell, dialplan, schema, dashboards, scripts, demo
data) are listed in `PROJECT.json` with the reason they are not modelled.

## Modules

| module | models | uses |
|---|---|---|
| `OneShotFinalization` | what finalization promises about a call: a verdict once, evidence with it | - |
| `FinalizeJobs` | job table, workers, finalizers, uploads, manual evaluations | refines `OneShotFinalization` |
| `CallLine` | what a voice line promises: it stops once, and owes a finalization in that step | - |
| `CallDesk` | the desk's handlers | refines `CallLine` |
| `Softphone` | the agent's console on the phone: refs, SIP legs, recorder, chunks, handlers with their awaits | `Desk == INSTANCE CallDesk` |
| `ChatThread` | messages, chat sessions, survey, the customer's widget | `Desk == INSTANCE CallDesk` |
| `LiveFloor` | the hub, what chat handlers publish, the lists and message panel of the pages | `Desk == INSTANCE CallDesk` |
| `QAReview` | evaluations, reviews, and the console they are filed at | - |
| `AssistListener` | the ARI event loop, its port pool and Asterisk's channels | - |
| `AudioTap` | one call's packets, flushes, callbacks, rows and score | - |
| `MC*` | model values and symmetry for TLC | one per component |
| `*Proofs` | TLAPS proofs | one per component |

`Softphone`, `ChatThread` and `LiveFloor` are compositions: they serve the
requests of consoles and widgets with `CallDesk`'s own actions on the same
variables. `LiveFloor` takes the sending of a message for one step, which
`ChatThread` opens up and shows to be harmless. Each of the three implements
`Desk!Spec`, for which there are proofs. The desk and the worker meet
at the job: `FinalizeJobs` names a job by its call, which is sound because
`CallDesk` implements `CallLine`. The two legacy modules meet at the tap:
`AssistListener` stops a tap and marks the call ended (`StopTap`, `MarkEnded`),
`AudioTap` opens up that stop.

Definitions called "Mutant" in a comment stand in front of the definition they
distort. They are not part of any specification; they record which slip of the
code each property would catch.

### CallDesk

One action per handler; a handler is atomic for the reason given above.
`kind`, `status`, `assignee`, `disposition`, `session`, `jobs`, `presence` and
`current` are the columns of the same meaning, `summary` only says who wrote
last. Guards are the handlers' 4xx tests. `Assign` has hardly any: the code
asks for nothing but a supervisor, an existing conversation and an agent.
`mute` and `transfer` set flags nothing depends on and are left out;
`WriteSummary` is the part of the worker's transaction that touches the desk.

### Softphone

The page is one thread: a handler runs to its next `await`, and a record in
`ops` stands for a handler waiting there. Serving a request and taking its
answer are two steps where another handler can slip between them to effect
(register, claim, the `voiceCall` fetch after a claim, dial, the upload and the
hang-up, wrap-up), one where it cannot. Any request may be refused, get lost on
its way, or be served and its answer lost (`Served`, `FetchFails`): the handler
then does what its `catch` does, or nothing. `selected`, `voice`, `pending`,
`alive`, `ending` and `capture` are the refs of `AgentView`, `phone` is
`SipPhone.session`, `leg` the SIP legs themselves, each under the name of the call
it carries. `OnEnded` is the callback of the phone; JsSIP runs it inside
`terminate`, so `Terminate` is part of the action that calls it. `capture`
remembers whose audio it holds, which the code does not. The desk has one agent
here; mute, hold, transfer, the other half of the page and a supervisor who
reassigns calls are left out. `MaxOps` bounds the handlers under way when
another is started.

The recorder belongs to no conversation, and neither do the segments it sends
while the call is up. A speaker's segment ends in two steps, as in
`callCapture.ts`: the timer stops the recorder (`SegmentEnds`), and its stop
event files the chunk under whatever is selected by then and puts it among the
pending (`SegmentStops`). A hang-up that falls in between finds the recorder
inactive and the chunk not pending: it does not wait for it, and the chunk comes
late. Otherwise `Finish` stops the speakers' recorders too and `CaptureStops`
waits for the chunks that were pending. That it waits for no other rests on the
browser, which fires the stop events of the recorders in the order in which they
were stopped. Chunks and segments of the two speakers are told apart (`by`).
`ChunkServed` ingests a chunk, or refuses or loses it, and reloads the panel.
`transcript` says whose audio the live transcript of a call holds; the finalizer
takes it for the call's own (`external_voice.py:80`). `MaxChunks` bounds the
chunks under way when a timer ends a segment; a speaker's next segment ends after
the chunk before it has been dealt with.

Failures leave the code in states that its promises do not survive, and four
history variables say which: `taped`, the legs that were recorded; `failed`, the
calls a request about which failed; `unheeded`, the legs that ended with nobody
to finish their call, because `endingRef` was set or the panel had no session;
`spoilt`, the legs whose audio met with an accident (its upload failed or had no
byte to send, it was stopped for another call, or the call was finished twice at
once). The properties say that nothing but these makes a difference:
`TapedIsRecorded` that there is no fifth way to lose a recording, `EndsAreHeeded`
that an end is overlooked only after a request has failed, `AudioIsOwn` that
audio goes to another call only after an end was overlooked, `GoneLegIsSettled`
that a call whose leg is gone is otherwise ended at the desk.

What the console promises also depends on who uses it, and `Trials` names what
is put to it:

| trial | what is put to the console | `TalkingCallIsLive` |
|---|---|---|
| `second_line` | a caller rings while another leg exists | lost |
| `hasty` | a caller or the agent acts before the desk has answered | lost |
| `swift` | a leg changes before the panel shows the call taken | kept |
| `impatient` | Hang up is pressed while a hang-up is under way | kept |
| `distracted` | other work is taken or selected during a call | kept |
| `legless` | a call without a leg is hung up | kept |

`TapedIsRecorded` and `AudioKeptOnce` hold under all of them. `AudioIsOwn`,
`EndsAreHeeded` and `GoneLegIsSettled` are checked with none: a distracted agent,
say, has audio filed under other work, and a chat selected at the far end's
hang-up leaves the call active.

### ChatThread

The handlers that write a chat are `async` and reach their commit without an
await, so the event loop serves one at a time. `SendBegins` (checks, and
`max(sequence) + 1`) and `SendEnds` (commit) are nevertheless two steps, and
`LoopIsFree` is what keeps the other async handlers out of the gap: the
properties rest on it, as the mutants `SendInThread` and `WrapUpInThread` show.
`create_conversation` and the survey are plain functions and run in threads:
`SurveyBegins` and `SurveyEnds` let a reopening slip in. The widget polls every
two seconds whether or not the last poll was answered; `polls` holds the
answers on their way, and `PollArrives` takes any of them. A widget sends one
survey at a time here. `Expire` stands for the 24 hours of a `ChatSession`.

### LiveFloor

`Publish` is part of the handler that calls it, after the commit, and sends to
the sockets of the audience that the hub holds. `ring` counts the events a page
has not handled; an event only starts another refresh (`Deliver`). `fetches`
are the requests of a page, served in order, whose answers arrive in any order
(`Arrive`). New lists replace the objects of the old, so that `AgentView`
loads its messages anew (`ListsArrive`); messages are shown when they arrive,
whatever is selected by then (`PanelArrives`). A reply is posted in one step
(`SayAtPage`) and the messages are asked for when that is answered (`Replied`),
by the `loadConversation` of the render in which it was sent: for the chat it was
written in, whatever is selected by then. A page that asked last for the messages
of a chat it had left is `astray` until lists or a selection load them anew.
A request may fail (`Fail`, `Unanswered`), and nothing repeats it; of a refresh
whose second read failed nothing is told apart, for the lists then count as
not renewed. The console never opens a lost socket again, so what is promised
concerns pages that heard everything: `missed` is a history variable of those
that did not, because an event met no socket, its refresh failed, or an older
answer was shown last. It is cleared when the lists are read anew. Calls are
chats; `create_conversation` publishes nothing, and the voice handlers publish
like the chat handlers, so both are left out. One request stands for
`list_conversations` and `queued_work` together. `Close` is a tab that is closed;
a logout, after which lists and refreshes under way stay in memory, is not
modelled.

### QAReview

`review_qa_evaluation` is a plain function and runs in a thread: `ReadEvaluation`
and `Saved` are two steps, and the commit writes only the columns whose value
differs from what was read (`Written`), as SQLAlchemy does. `overlapped` is a
history variable: evaluations that had two such requests in hand. At the
console, `selected` and `detail` are loaded apart: changing the filter or
saving a review may move the selection (`MayChoose`), a detail is shown whenever
it arrives, and `FileReview` files under the selection with the finding of the
detail. `raced` is a history variable: consoles on which a detail of something
else was awaited. `FileElsewhere` is a reviewer whose console shows what is
reviewed. The list is not cut at a hundred rows as `main.py:797` does.

### FinalizeJobs

A worker's run is cut where another session can get in between: the claim
(`ClaimRecoverableJob`), the reads at the head of `complete_job`
(`AlreadySucceeded`, `SkipFinalized`, `BeginFinalize`), the flush that takes
the unique key of the recording (`EnsureRecording`), each provider call, and
the commit (`CommitEvidence`, `CommitConflict`). `Raise` is any exception,
`RecordFailure` the handler for it, `Crash` the death of the process with its
transaction rolled back. The clock appears only as what the claim query
compares it with. A finalization's transcript, assists and costs are counted
(`written`), not spelled out. `CreateForm`, `CreateEvaluation` and
`FinishUpload` are what the API does to the same rows meanwhile.

### AssistListener

The listener handles one event at a time; an action ends at an `await`, and
`pc` says which. `lent` is `_active_calls` with `_channel_to_call` (they change
together, with no await between), `held` the handler's local `port`. Asterisk
is external: a channel is created, enters Stasis, continues in the dialplan,
is hung up, and the events of that reach `events` in order while the websocket
is up. `Faults` says what may fail in a run: requests to Asterisk, statements, the
websocket, the process. A request of the set-up that fails is caught there; a
statement, or `continue` itself, raises out of the handler, which the event loop
logs (`:115`) and forgets: `broken` is a history variable of the callers' events
whose handler broke off in this way. `HandedBack` and `TappedCallIsEnded` except
exactly the call whose own handler did. Bridges come and go with their two helper channels and
are left out.

### AudioTap

A packet is named by its place in what Asterisk sent; the wire loses and
reorders. `HandOver` is `_flush` up to the callback: the one place where the
buffer becomes a chunk. `Stop` cancels the flush task wherever it is, and the
task's `except CancelledError` flushes once more. `threads` are the executor's
inserts, which a cancelled `await` does not stop. Under `MayFail` a chunk may be
skipped before the callback (`byteswap` of half a sample), found silent, or lost
by its insert (`refused`); one that is being transcribed when the call is hung
up is abandoned (`cut`). With the rows and the threads these are the fates of
what was `heard`, the packets that came before the stop. `MarkEnded` is tried once
and may raise (`unmarked`). The insert of a prompt is one step with the advice; a
stop in the middle of it may or may not leave the prompt.

## Runs

Passing runs:

| run | bounds | shows |
|---|---|---|
| `FinalizeJobs_two_workers` | 1 call, 2 workers, 2 forms, 3 attempts | `EvidenceAtMostOnce`, `EvidenceIsWhole`, `SucceededHasEvidence`, the inductive invariant; `EveryJobComesToRest` |
| `FinalizeJobs_one_worker` | 2 calls, 1 worker, 1 form, 2 attempts | `OneShotSpec`: the deployed worker implements `OneShotFinalization` |
| `CallDesk_desk` | 2 conversations, 2 agents, one in the queue | `AssignedIffWorked`, `OneJobPerCall`, `LiveCallHasOwner`, the invariant; `CallLineSpec` |
| `Softphone_calm` | 2 conversations, no trial, 2 handlers under way, a timer ends a segment when no chunk is | `AudioIsOwn`, `EndsAreHeeded`; `GoneLegIsSettled` |
| `Softphone_tried` | the same with every trial but `hasty` and `second_line` | `TalkingCallIsLive`, `TapedIsRecorded`, `AudioKeptOnce`, the invariant |
| `ChatThread_thread` | 1 chat, 2 agents (one in the queue), 1 supervisor, 3 messages, 2 polls under way | `ThreadIsNumbered`, `RatedIsResolved`, `SpeakersMaySpeak`; `CustomerReadsAll` |
| `LiveFloor_floor` | 2 chats, an agent and a supervisor, a page, a second message in one chat, 1 request before another is made, 1 waiting event | `ListsAreCurrent`, `PanelIsCurrent`; `AgentReadsAll` |
| `QAReview_reviews` | 2 evaluations, 2 scores, a console and a reviewer elsewhere, 2 reviews | `HistoryIsAChain`, `VerdictWasGiven`, `UnracedIsInformed`, `FatalChangesExplicitly` |
| `AssistListener_faults` | 1 caller, helpers of helpers, 2 ports, 3 queued events, every fault | `EachPortInOnePlace`, the invariant; `EndedCallIsOver` |
| `AssistListener_calls` | 2 callers with helpers, 1 port, a queued event, requests and statements that fail | `HandedBack`, `TappedCallIsEnded` |
| `AudioTap_tap` | 4 packets, 4 sequence numbers | `AudioHeardOnce`, `OneRowPerIndex`, `AudioIsAccountedFor`, the invariant; `StoppedCallIsScored` |

Why the bounds suffice. Workers compete for one job at a time, so one call and
two workers show every race, and three attempts let a run fail, lose its lock,
be retried and be given up; two forms let the two runs read different rubrics.
Two calls with one worker show the order of jobs. The console's refs hold one
call, so one call leaves something behind and a second is mishandled for it; a
third, of a call mishandled for a second that was itself mishandled, is looked
for by `Softphone_three`. The speakers' chunks are awaited alike: one
may be pending or late when the hang-up stops the other's segment, or both. A chat has
its own thread, widget and session, and the event loop's other chats only delay
it, so one chat shows every order of its writers; three messages let one be in
hand when another has been numbered, and two polls overtake one another. A page
with one request under way makes a second by an event and a third when lists
arrive, which is enough for answers to pass each other; two chats are what a page
may confuse, and the second message is the one whose reload comes late. A chat
that leaves the agent for another and a second tab of one user, which multiply
the states of two chats by twenty, are checked with one (`LiveFloor_tabs`). The
view `Seen` leaves out columns of the desk that follow from the others or that no
step of the floor reads. Two reviews overlap or do not, and a second
evaluation is what the selection may move to. Two callers and one port make the second go without; with two ports
a confusion of ports is visible, and since a helper of a failed set-up is taken
for a call, one caller already keeps several calls and both ports busy; a
helper with helpers of its own is the deepest chain that differs, every further
level repeats it. Four packets allow a chunk in its callback, one in a thread,
one in the buffer and one on the wire at the same time. Asterisk is paced to
one to three waiting events, which only delays it. `CallDesk_desk` treats the
two conversations as interchangeable, and so does `Softphone_tried`, as the
handlers do; its view leaves out histories that none of its properties name. Most safety
properties of these runs are proved without the bounds ("Proofs" below).

One run refutes what a document says (the finding in `PROJECT.json`):

| run | says | does |
|---|---|---|
| `FinalizeJobs_abandoned` | README: abandoned jobs are retried | a worker that dies in the last attempt leaves the row RUNNING for ever |

Three configurations pass as the runs do, with other bounds: `Softphone_three`
(three conversations, no trial, requests about one call fail, no end is
overlooked; `AudioIsOwn`, `EndsAreHeeded`), `Softphone_tape` (a second line beside the other
trials but `hasty` and `legless`; `TapedIsRecorded`, `AudioKeptOnce`) and
`LiveFloor_tabs` (one chat, two agents, a supervisor, a second tab;
`ListsAreCurrent`, `PanelIsCurrent`).

More configurations stand beside them for whoever changes that code. They are not
among the runs of `PROJECT.json`; TLC refutes each:

| configuration | property | shows |
|---|---|---|
| `FinalizeJobs_no_transcript` | `SucceededWroteTranscript` | docs/PRODUCT_CONTRACT.md:77, a call produces a transcript: a strict-local call with an uploaded recording ends SUCCEEDED without one |
| `FinalizeJobs_cost` | `CostIsMeasured` | README.md:21 "measured per-call AI cost": cost rows are committed with the evidence, so an analysis whose run failed or crashed afterwards is missing from the ledger |
| `FinalizeJobs_reclaimed` | `HealthyJobNotReclaimed` | jobs.py:67 "Do not let another worker reclaim a healthy in-flight job": the lock is never renewed, a run over fifteen minutes is claimed again; its evidence still is not duplicated |
| `CallDesk_refused` | `RefusedControlHasEnded` | main.py:488 "Voice call has already ended": a ringing call that was assigned never started, and can no longer be answered, rejected or hung up |
| `AssistListener_stranded` | `CallersProceed` | ari_listener.py:14, the call proceeds "completely unaffected": an upsert (`:151`) that raises leaves the caller in Stasis |
| `AssistListener_helpers` | `HelpersAreSkipped` | ari_listener.py:141: the helper channel of a failed set-up is recorded as a call |
| `AssistListener_unreviewed` | `GoneCallIsEnded` | qa-scoring/worker.py:36, a call whose tap never attached "needs manual review": it is never marked ended, so never comes up |
| `AudioTap_wrap` | `ChunkIsInOrder` | chunker.py:59-60, packets are sorted correctly: a chunk over the wrap of the sequence number is not |
| `AudioTap_flagged` | `FlaggedCallIsSilent` | a transcript row can commit after the call was flagged as without audio |
| `Softphone_recording` | `RecordingIsComplete` | docs/DEPLOYMENT.md:22 "then uploads the complete recording before hangup": the recorder is given up before the upload (App.tsx:320); if that fails, the call stays up and the next Hang up ends it without a recording |
| `Softphone_second_line` | `TalkingCallIsLive` | a second caller's ring ends the first call at the desk, while its leg stays up with no reference left to hang it up by |
| `ChatThread_rating` | `OfferedRatingIsAccepted` | App.tsx:385 offers a rating on a chat that a supervisor has reopened since the last poll; it is refused |
| `LiveFloor_unseen_work` | `NewWorkAppears` | App.tsx:359 "New work will appear here.": a chat that is waiting is published to supervisors only |
| `LiveFloor_panel` | `PanelIsOfSelected` | a chat's panel shows the messages of another: until its own arrive, and, if a reply to the other was answered after the selection (App.tsx:315), until the next event |
| `QAReview_overlap` | `OneReviewGaveBoth` | of two overlapping reviews one leaves the score and the other the finding |
| `QAReview_unseen` | `FiledAsShown` | with the list filtered to fatal findings, clearing one moves the selection; the next review is filed under an evaluation that is not on the screen |

Found while modelling and not promised otherwise anywhere: an agent who loses a
chat to another by a reassignment is not told, and keeps it on the list; the
chunk in its callback at hang-up is dropped although nothing failed; the far
end's hang-up is swallowed after a call without a leg was hung up, or while a
chat is selected.

Every run switches the deadlock check off: each system may rightly stop, when
every call is over, every port back and nobody calls again.

## Fairness

* `FinalizeJobs!FairSpec`: the loop of a worker that is up (`while True`,
  `worker.py:9`), and the passage of time (locks grow old, backoffs elapse).
  A crash is never owed; it also does not prevent the restarted loop from
  going on, as `docker-compose.yml` says `restart: unless-stopped`.
* `AssistListener!FairSpec`: the event loop, whose awaits answer or raise.
* `Softphone!FairSpec`: a handler that waits goes on: requests are answered or
  fail, and recorders stop. In the calm run little new starts while one does, so
  one weak fairness for all of them suffices.
* `ChatThread!FairSpec`: the event loop commits the message it has in hand, the
  widget's interval ticks, and its oldest poll is answered.
* `LiveFloor!FairSpec`: a page handles its events, and its requests are answered
  or fail, and the answers arrive. Nobody owes it a click.
* `AudioTap!FairSpec`: the callback, the executor's threads, the rest of the
  hang-up handler, whose `mark_call_ended` is tried once, and the polling loop of the scoring worker.

All of it is weak fairness. Calls, hang-ups, uploads, forms, messages,
reviews, packets and flush ticks are owed by nobody. `CustomerReadsAll` excepts a
chat whose session expired, `AgentReadsAll` a page that missed an event or is
astray, `TappedCallIsEnded` and `StoppedCallIsScored` a call whose one attempt to
mark it raised, and `GoneLegIsSettled` a call a request about which failed or
whose end was overlooked.

## Proofs

Each `*Proofs` module proves `Init => IInv`, `IInv /\ [Next]_vars => IInv'` and
derives its theorems, for every value of the constants that satisfies the
module's assumption (the null values are not members of what they stand beside;
the pool has no port twice; a call fits one cycle of sequence numbers).

* `FinalizeJobsProofs`: the safety properties (also `OneRecordingKeyHolder`,
  which no run repeats), and that one worker
  implements `OneShotFinalization`. The properties are not inductive by
  themselves: `BusyHoldsJob` ties a running step to a created job,
  `SeenRecordingStays` makes what a transaction read at its head still true at
  its commit, and `UnopenedIsBlank` keeps rows off calls that have no job. The
  refinement needs, in addition, that a sole worker's job is RUNNING while it
  is at work. With two workers the refinement does not hold: a slower run's
  `record_failure` turns a SUCCEEDED job back to PENDING or FAILED.
* `CallDeskProofs`: the safety properties, the refinement of `CallLine`, and two
  that no run repeats: `DepartedIsDisposed`, and `NewOwnerIsOccupied` as a
  property of steps.
* `AssistListenerProofs`: `PortsExclusive` and `PortsConserved`, which together
  are `EachPortInOnePlace`. A port could
  be lost by registering a call over another registration of the same call;
  that this cannot happen rests on Asterisk announcing a channel's StasisStart
  once, and the invariant carries it (`StartedOnce`), together with who holds a
  port when (`HeldWhileWorking`) and that reported channels are gone
  (`DestroyedIsGone`). Lemmas about the queue and the pool (what an append, a
  pop and a tail keep) come first. `EndedCallIsOver` holds under every fault; it
  needs that whoever enters or is being set up has not ended, and that a call
  has no tap any more from the moment its teardown begins (`EndedOnce`).
  `HandedBack` is proved for every set of faults. Its step rests on the queue
  lemmas, and on the listener itself creating every channel that enters without a
  caller (`CreatedIsHelper`).
* `AudioTapProofs`: all safety properties. `IndicesAreFresh`,
  `PacketsAreInOnePlace`, `HeardIsFlushed` (what was heard is in the buffer, up to
  the stop, or in a chunk) and `ChunksHaveAFate` (a chunk is in a row, a thread,
  refused, cut or being transcribed) are the strengthening;
  `HandOverIInv` is proved once and serves both the periodic flush and the stop.

* `ChatThreadProofs`: `HandlerIsSole` (the loop has one message in hand) and
  `HandlerIsRight` (what it asked before still stands) carry numbering and
  speakers from `SendBegins` to `SendEnds`; every other action of the loop is
  excluded by `LoopIsFree`. `ClosedIsResolved` is what a survey under way was
  asked of. The proof uses `CallDesk`'s actions as they are.
* `LiveFloorProofs`: a page is at rest when no event and no request is left, and
  a single state in which that holds says nothing of how it came about. The
  invariant therefore speaks of pages that will hear nothing more: the last lists
  such a page awaits are current, or if it awaits none, those it shows
  (`ListsAreComing`); and lists bring the messages of the selection with them
  (`PanelIsComing`), unless the page has gone astray: what it asked for last is then of
  another chat. A request that fails makes its page `missed` or astray in the same
  step. Requests are answered in order (`PagesAreOrderly`), so a
  change at the desk either finds an unanswered request, rings, or leaves the
  page in `missed`. An agent who is not told of a change is no longer the
  assignee, by `Desk!AssignedIffWorked`.
* `QAReviewProofs`: `ReadIsGiven` says of a request in hand that it read what
  reviews gave and, if alone, what still stands; `ShownIsSelected` that a console
  on which nothing raced awaits its selection or shows it; `FiledIsInformed`
  carries that into the review.
* `SoftphoneProofs`: what the console remembers under every trial and whatever
  requests fail. The invariant falls into two parts. `RefInv` is about refs, legs
  and handlers: `RefsAreRight` and `GrantsStand`, and, for every set of trials
  without `second_line` and `hasty`, `TalkingCallIsLive` with what it needs. A leg
  ends, is placed or is answered by handlers that know the phone's session and
  not the call, so the invariant then says which call that is: a leg is the
  phone's session (`LineIsSole`), one call is taken at a time and none is dialled
  during a hang-up (`TakenInTurn`), a leg that rings is on offer or being
  registered, and while one is up no handler is past the point where it tells
  the desk (`LegIsKnown`). Four lemmas carry most actions: those that leave the
  line alone (`QuietKeeps`), that end a leg (`TerminateKeeps`), that start to take
  a call (`StartKeeps`) and that go on with it (`TakerKeeps`).

  `TapeInv` is about audio and holds under every trial: it is of a leg that was
  up (`AudioIsOfLegs`), in one place (`AudioKeptOnce`), and what is not spoilt is
  recorded, or with the recorder, or in the hand of the one handler that finishes
  its call, while the desk holds that up (`TapeIsComing`, of which
  `TapedIsRecorded` is the end). A leg gets its audio once because a call
  that is being dialled has no leg yet (`DialIsNew`). A step either leaves
  recorder and recordings alone (`TapeRests`), or starts to finish a call and
  takes what the recorder holds (`TapeFinishes`), or brings a handler further
  (`TapeGoes`).
* `ConsoleUsesDesk`, `ThreadUsesDesk` and `FloorUsesDesk`, at the end of the proofs
  of the three compositions: each implements `Desk!Spec`, under every trial and
  with any number of pages and tabs. So what `CallDeskProofs` proves of the desk
  alone holds of it among its clients; `ConsoleKeepsLines` draws the conclusion
  that matters most, from an instance of `CallDeskProofs`: pressed twice, or
  pressed as the caller hangs up, a call is still finalized once, and its line
  never comes back.

Only model-checked are the properties that something eventually happens
(`EveryJobComesToRest`, `CustomerReadsAll`, `AgentReadsAll`, `TappedCallIsEnded`,
`StoppedCallIsScored`, `GoneLegIsSettled`): reasoning about fairness is outside
the prover's reach; and, of the safety properties, `AudioIsOwn` and
`EndsAreHeeded`, whose invariant for an unhurried agent with failing requests is
not worked out. `TalkingCallIsLive` is proved as part of the console's `IInv`. Every
other invariant and property of steps that a passing run checks is a theorem.

## Plan

Done, in this order: finalization and its workers; the desk; the legacy
listener; the legacy tap with scoring; the agent's console with its live
chunks; chats; reviews; the hub with the pages. What could follow are the pure
functions, against reference definitions: costs and rate-limit waits of `ai.py`,
the report summary of `main.py`; and the invariant that carries `AudioIsOwn` and
`EndsAreHeeded` for any number of calls.

## Not modelled

* Authentication, roles and tenants: checks of a request that keep no state.
  Every module has one tenant, and a user's role is the set the user is in.
* Users, configuration, forms beyond their existence, coaching: rows that one
  request writes and nothing races with. Reports, dashboard and search: reads.
* Assist cards and costs of live chunks: rows of the transaction that writes the
  chunk's transcript. A chunk that is lost leaves a hole, which the finalizer
  does not see (`external_voice.py:80`); no document promises otherwise.
* `ingest_voice_chunk` is `async` but waits for the provider in a plain call
  (`main.py:353`), so it holds up the event loop; that only delays the handlers
  and is not a step of its own.
* What the voice handlers publish: it is heard like the chat handlers' events.
* The retry loop of `ai.py`: `FinalizeJobs` sees a call that answers, raises or
  outlasts the lock.
* Bridges, RTP sockets, audio and transcript contents, wording and layout.
* Seed and demo loaders, provisioning, the legacy agent page, the Electron
  shell, dialplan and schema; what the modules take from them (one API process,
  one worker, unique keys, UNIQUEID as the call's name) is said above.
