# A TLA+ model of the call centre

The repository is an AI call centre: a Bun/TypeScript backend that answers and
places telephone calls through Asterisk, lets a voice model talk to people, and
a React front end for operators and supervisors. These modules model the parts
of it that act on their own, without a person in front of a screen: the outbound
campaign dialer, whose mistakes ring somebody's phone; the orchestrator of one
call, whose mistakes cut somebody off or leave them in silence; the voice of a
call, whose mistakes talk over people or say nothing; and the small services
around a call in which several writers meet: who is calling, the rows of a call,
the settings' cache and the supervisor's live board. They are checked with TLC on
small instances, and the central promises are proved with TLAPS for all
instances. All paths below are relative to `apps/backend/src/` unless they say
otherwise.

## Inventory

| component | state it keeps | operations | what is hard | what makes it correct |
|---|---|---|---|---|
| campaign rules (`lib/campaigns/eligibility.ts`, `retry.ts`, `outcome-map.ts`, `transitions.ts`) | none | the tick's decision, the retry policy, the life cycle table | the order of early returns, off-by-one of attempts | the decision equals its declarative statement |
| campaign dialer (`lib/campaigns/dialer.ts`) | `inFlight` claims, `ticking`, timer; the queue in Postgres | tick, sweep, prune, claim, dial, hooks, stop | every await; crashes; two sources of truth about who is on the phone | one call per person, bounded attempts and concurrency, every claim resolves |
| outcome recording (`lib/campaigns/outcome.ts`) | `campaign_leads`, `call_campaigns` | read, list, one transaction | three callers at once, READ COMMITTED | a campaign finishes when, and only when, its queue is empty |
| do-not-call list (`lib/campaigns/do-not-call.ts`) | `do_not_call_list` | two gates, add, remove | listing races a dial under way | a listed phone stays silent |
| calling window (`lib/campaigns/window.ts`) | none | is it open, how long until it is | wrap at midnight, exclusive end | the wait is exact |
| campaign API (`routes/campaigns`) | the same tables | start, pause, cancel, PATCH of a lead, import, listing | read, then blind write | a person's decision is not undone by a timer |
| call orchestrator, outbound part (`lib/telephony/call-orchestrator.ts`, `outbound.ts`) | `pendingDials`, `calls` | place, settle, claim, report, finalise, stop | answer, hang-up, watchdog and stop race for one dial; an ambiguous originate | one verdict per dial |
| call orchestrator, inbound part and timers | `calls`, timers | greet, silence, limit, idle | timers that fire in the middle of an await | a call is finalised once |
| transfer (`lib/telephony/transfer.ts`) | the transfer on a call, ringing operators | start, complete, fail, operator events | the winner races the timeout and the caller's hang-up | one operator, or a call the agent resumes |
| voice provider (`lib/ai/openai-realtime.ts`; `gemini-live.ts` is the second one) | session, response gate, pending tool, five timers | start, reconnect, say, tool result, interrupt, stop | events that were sent before a cancellation and arrive after it; timers of up to three sockets; one response at a time | the contract of `contracts.ts`; what was interrupted stays silent; a turn that waits is not forgotten |
| AudioSocket (`lib/ai/audiosocket.ts`) | socket buffers, playout queue | parse, pace, flush, discard, wait for the queue to drain | a farewell that waits for a queue others empty | what plays is what was last asked for; the wait ends |
| contact matching (`lib/telephony/contact-matcher.ts`, `routes/contacts`) | `contacts` | look up, insert, revive; create, re-key, remove | two calls of one unknown caller, soft-deleted rows in a unique index | every caller gets a contact an operator can see |
| CRM writer (`lib/telephony/crm-writer.ts`, `routes/ai-analyses`, `routes/tickets`) | rows of `calls`, `ai_sessions`, `tickets`, `ai_analyses` | set-up, transfer, teardown, tools, analysis, correction | statements that arrive after the teardown; three tables without a transaction | an ended call is final; one ticket; the pages agree |
| settings (`lib/settings`) | a cache per tenant and the query that fills it | read, save, reset, refresh, invalidate | a load that began before a write | no stale value after a write |
| WebSocket registry and live board (`lib/ws`, front end `modules/calls/live`) | sockets; the board's rows | broadcast; poll, event, prune | a poll served before an event and applied after it; lost events | the end of a row is kept, a live call is shown |
| Asterisk clients (`lib/asterisk/*`) | sockets, pending actions | connect, back off, request | a request whose connection is gone | every request settles |
| authentication (`lib/auth`, `routes/auth`) | refresh tokens | log in, rotate, log out | two refreshes at once | one family, one successor |
| notifications (`lib/integrations/notifications`) | samples, cooldowns | tick, alert | a slow tick | one alert per incident |
| tenancy (`lib/tenancy`), CRUD routes, reports, phone and list parsing, prompts, codecs, cost tables, the rest of the front end, deployment | various | various | little concurrency of their own | see `PROJECT.json` |

How they meet: the dialer's timer calls `tickCampaign`, which claims leads in
Postgres, remembers them in `inFlight` and calls the orchestrator's
`placeOutboundCall`. Asterisk answers over the ARI WebSocket; the orchestrator
turns events into calls and calls the hooks of `outbound.ts` back, which the
dialer has registered: the do-not-call check, the opt-out and the outcome. All
outcomes, those of the sweep and those a supervisor types in included, go
through `recordDialOutcome`. The supervisor's API writes the same rows without
asking the dialer.

A call that has been set up has a voice provider, which calls the orchestrator's
handlers (`buildProviderHandlers`), and an AudioSocket session, into which the
orchestrator passes the provider's audio and which it empties when the caller
interrupts. On the way it asks the contact matcher who is calling, writes the
call's rows through the CRM writer, reads its limits from the settings' cache, and
broadcasts what changes to the boards.

## Modules

* `CampaignRules` holds the pure rules, as operators: `Allowed`,
  `CanTransition`, `RetryStatus`, `ToCampaignOutcome`, `PlanCampaignTick`.
* `CampaignPlan` is one decision of one tick: it gives `PlanCampaignTick` and
  `describeWindow` every input and states what they should have answered.
* `CampaignDialer` is the system: the dialer's loop, `recordDialOutcome`, the
  do-not-call list, the supervisor, the calls as the dialer sees them, the life
  of the process and time.
* `ActiveCall` is one call in `call-orchestrator.ts` and `transfer.ts`: the dial,
  the set-up of the voice session, the hand-over to the AudioSocket bridge, the
  agent's tools, the guard timers, a transfer, the teardown.
* `DialVerdict` is what the dialer may rely on: a dial gets one verdict.
  `ActiveCall` is shown to implement it (`VerdictSpec`), with `placed` the dial's
  having been parked and `told` the reports; `CampaignDialer`'s calls are written
  to the same promise.
* `RealtimeProvider` is the object `OpenAIRealtimeProvider`: its methods, handlers
  and timers as operators from one state of the object to the next.
* `PlayoutQueue` is the outgoing half of an AudioSocket session, in the same style.
* `VoiceLine` composes the two with the speech server and the part of the
  orchestrator between them. What `ActiveCall` sees of it (a session opens, closes,
  says goodbye, runs a tool) are the steps of `agent` and `setup` there.
* `VoiceProvider` is the contract the orchestrator is written against.
  `VoiceLine` is shown to implement it (`ContractSpec`): `phase` is what `start()`
  has come to, `announced` and `closings` count the calls of `onReady` and
  `onClose`, `stray` says that a handler was called when none may be.
* `ContactMatching`, `CallRecord`, `SettingsCache` and `LiveBoard` are the services
  around a call. They share no state with one another. `MCCallRecord` gives TLC the
  rows of a call; `MCServices` gives it the three others, and `CampaignPlan`, behind a
  variable `focus`: a behaviour is of one of them.
* `MCCampaignDialer`, `MCActiveCall`, `MCVoiceLine` give TLC the
  other small instances.
* `CampaignDialer_proofs`, `CampaignClaims_proofs`, `CampaignPlan_proofs`,
  `ActiveCall_proofs`, `VoiceLine_proofs`, `VoiceTurns_proofs` (also of `VoiceLine`),
  `CallRecord_proofs` and `Services_proofs` (of `ContactMatching`, `SettingsCache` and
  `LiveBoard`) hold the theorems.

### State of CampaignDialer and the code

| variable | code |
|---|---|
| `campaign`, `lead`, `dnc` | `call_campaigns.status`, the rows of `campaign_leads`, the source of the row in `do_not_call_list` |
| `lead[l].due`, `lead[l].stale` | `next_attempt_at` has passed; `last_attempt_at` is older than `STALE_CLAIM_MINUTES` |
| `inFlight`, `outlived` | `DialerState.inFlight` with `settled`; entries older than `pruneInFlight`'s horizon |
| `tick` | the position of `runDialerTick`/`tickCampaign`/`dialLead`/`placeOutboundCall`, with the rows and counts they hold in local variables |
| `call` | a dial or call: `parked` (in `pendingDials`, not ringing), `ringing`, `abandoned` (verdict being reported), `claiming` (between the two maps), `talking`, `ended` (line down, not noticed), `ending` (finalising), `orphan` (bridged by Asterisk after the process is gone); `told` is `reportedOutcome` |
| `writing` | the runs of `recordDialOutcome` under way, each with what it read |
| `op` | a PATCH of a lead between its read and its write |
| `listing` | a phone listed by hand whose queued leads are still to be skipped |
| `mode`, `stopping` | the signal handler's progress; the calls `stop()` found |
| `spoken`, `late`, `rings` | history, for the properties only |

A step is what runs between two awaits. The tick, every run of
`recordDialOutcome`, the calls, the PATCH and the listing are separate processes
that interleave at those points. `recordDialOutcome` is listing (two
statements), then a transaction of two steps: the update with the count, in
which the row is locked and the count sees committed rows only, and the commit.
Its two reads at the start are one step.

### State of ActiveCall and the code

| variable | code |
|---|---|
| `net` | not the program: where the caller's channel is (`stasis`, the AI `bridge` context, the `transfer` context), the operator's leg, the ARI events on their way, the AudioSocket connection |
| `dial` | `PendingOutboundDial` (`at`: in `pendingDials`, or settled), `placeOutboundCall` (`placing`), `abandonOutboundDial` (`leaving`, `cut`: by the watchdog) |
| `call` | `ActiveCall`: `known` (in `calls`), `handed` (`handedToDialplan`), `finalized`, `reported` (`outbound.reportedOutcome`), `phase` (`transfer.phase`); `transfers` counts for the bound |
| `agent` | `providerName`, the provider's session, `asks` (the script has yet to ask for an operator), `closed` (`aiPathClosed`), the armed guard timers |
| `setup` | the position of `claimOutboundDial`/`beginCall` and of `launchProvider`, `handToBridge`, `runFallbackPath` below them |
| `xfer` | the position of `startTransfer` and of the strategy of `transferToHuman` it awaits |
| `todo` | the short functions that are in an await, and `finalizeTimer` |
| `told`, `mishaps` | history of the reports; which mishaps this behaviour may meet |

Every function runs on its own and interleaves at its awaits, as the code's do:
`hangupCall` of a supervisor, a guard timer's goodbye, the tool that transfers,
the set-up that is still going on and the ARI events meet in every order.
Awaits that only write a transcript, a note or a broadcast once an outcome is
recorded are merged with the step before them.

A transfer takes one of two shapes, as `transferToHuman` decides by the channel:
a caller in Stasis (`ivr`) is put into an ARI bridge with an originated leg; a
caller in the dialplan is redirected to the dial or the queue of the tenant, and
the backend looks for the operator's leg in the list of channels.

### State of VoiceLine and the code

| variable | code |
|---|---|
| `p` | the fields of `OpenAIRealtimeProvider`: `promise` (what `start()` returned), `socket`, `pending`, `attempts`, `ready`, `active` (`activeResponseId`), `awaiting` and `queued` (the response gate), `cancelled`, `lastAudio`, `tool`, `lines` (`pendingSayLines`), `timers`; `out` and `calls` are what the step sends and whom it calls, and are empty between steps |
| `net` | not the program: the response the server is speaking, the requests it holds, its events on their way (`inbox`) |
| `line` | a `Session` of `audiosocket.ts`: `frames`, `tail`, `closed`, who waits for the queue to drain and what they were told |
| `call` | the fields of `ActiveCall` that concern its voice: the session is attached, `closing`, the position of the farewell, the tools that are running; `silenced`, `lines`, `noise`, `drops` are history and bounds |
| `told` | history: the calls of the handlers the contract is about |

A method or handler of the provider runs to completion; what it sends is taken by
the server, and the orchestrator's handlers it calls run, in the same step
(`Apply`), as they do in the code. A promise that settles is continued in that
step too: microtasks run before any other event.

### State of the services and the code

| module | variables | code |
|---|---|---|
| `ContactMatching` | `contact`; `caller`; `editor` | the rows of one person's two spellings; where each `findOrCreateContact` is; where each `POST /contacts` is |
| `CallRecord` | `row`, `session`, `ticket`, `analysis`; `setup`, `transfer`, `aiPath`, `teardown`, `ask`, `writer`; `answered`, `known` | the four rows; where `beginCall`/`launchProvider`, `startTransfer`, `endAiPath` (whoever called it first), `finalizeCall`, each `createTicketFromCall` and each `writeAiAnalysis` or correction is; `call.answered`, `call.aiSessionId` |
| `SettingsCache` | `stored`, `cache`, `query`, `client` | `system_settings`, `caches`, `inFlight`, the requests |
| `LiveBoard` | `server`; `wire`, `connected`; `answer`, `data`; `board` | the orchestrator's `calls`; the browser's socket; the poll and `query.data`; the rows of `liveCalls.store.ts`, each with the orchestrator's `status` and the store's own end (`ended` is `endedAtMs`) |

Their other variables are history: what the properties except (a removal after a
caller had looked, two asks for a ticket that overlapped, a session id that came
after its provider had stopped, a `finishAiSession` that failed, a query that a commit
overtook) is recorded at the step where it happens. Each step is one statement of
the database or one event of the browser.

### What is abstracted

In `ActiveCall`, audio, words and transcripts are left out, and so are the tools
that write CRM rows. A model that has gone deaf ends the call on the same path as
silence (`handleAgentStall`), so there is one guard for both. Requests to hang up
reach Asterisk. A redirect ends the AudioSocket connection, and that end is
handled within the time an operator's phone rings (`WaitForOperator`). The
refusals of `placeOutboundCall` before it parks the dial are in `CampaignDialer`,
as is `stop()`.

Phones, campaigns, leads and calls are model values. Minutes are replaced by
the comparisons the code makes with them: stale, due, outlived, window open.
`ClaimAges`, `ClaimOutlives` and `RetryFallsDue` say when a comparison may
change: minutes are longer than a ring, than a tick's hold on a lead and than a
run of `recordDialOutcome`, but not longer than a conversation. `busy` and
`failed` are retried as `no_answer` is, so the channel reports `no_answer` or
`invalid_number`. An entry imported into the list behaves as a manual one. The
attempt history is the counter `attempts`. One tenant is modelled.

In `VoiceLine` words, usage counters and the audio that goes to the model are
left out; audio that comes from it is the number of the response it belongs to.
The server is external. It takes what is sent at once and its events arrive in
order and arbitrarily late, which gives every order in which the provider can see
them; it refuses a `response.create` while it speaks and may begin responses of
its own. The provider's timers are names: a timer may fire whenever it is armed,
except where a comparison of two durations in the code excludes it, and then the
excluded case is a mishap of its own. The mishaps are: the account may not use the
API (`terminal`), a session field is refused (`complaint`), `session.updated` never
comes (`no_echo`), a response fails for the server's reasons (`refuse`), a handshake
hangs (`hang`), a grace timer outlives its socket (`late_grace`), the server is
slower than the timers (`slow`) or faster than its own `response.created` (`swift`),
fixed lines come from a cache (`vendor`), noise that outlasts the recovery
(`long_noise`), a farewell that outlasts its budget (`long_goodbye`), a guard timer
that ends the call (`guard`), a caller who hangs up (`caller`).

Left out, and what that costs: `tickCampaign` awaits the database's counts before it
takes the orchestrator's (`dialer.ts:996`), and `PlanCampaign` reads both in one step, so a call that
moves from one to the other while the query's answer is on its way is not seen to do so. `ActiveCall` does not
answer an outbound channel that enters Stasis before it is Up, which the code guards
against and calls abnormal (`call-orchestrator.ts:2184`), and `ari.getChannel` does not
fail inside a transfer. In `VoiceLine` the set `cancelled` has no limit
(`MAX_TRACKED_CANCELLED_RESPONSES` forgets the oldest; a response that is heard so much
later is not modelled), and a tool whose arguments cannot be parsed, which the provider
answers with an error itself, is not called.

In `LiveBoard` a tick of the clock is five seconds, and three comparisons of the
code are its guards: an event that is not lost arrives sooner, an answer within
`FRESH_ROW_GRACE_MS`, a tool that outlives its call is done within
`ENDED_RETENTION_MS`. TanStack Query's structural sharing is part of the model,
since the board is written by an effect on `query.data`: an answer equal to the
last one is the same object, and two lists with calls always differ in
`durationSeconds`. A row's `status` is "ended" or "open", which is all that is left of
"ringing", "live", "transferring" and "transferred". In `CallRecord` the statements that
the code runs through `quietly` (`markCallAnswered`, `updateAiSession`,
`finishAiSession`, `markCallEnded`) may fail without anybody noticing; the others fail
into their caller's `catch`. In `ContactMatching` a person's
number has two spellings, which a lookup matches and the unique index does not.

### Bounds

`Calls` bounds the calls that are out at once; it is at least the sum of the
concurrencies, so no dial waits for an identity. `MaxAttempts` is one or two.
`RequeueBound` stops a supervisor from requeueing a lead for ever. `rings`
stops one above the budget and `late` at two, enough to see a violation.
`ManualOutcomes` enumerates an outcome that goes by the attempts already spent
and the refusal. A person taken off the list is not asked about in the same call
again (`TellOptOut`).

`MaxTransfers` bounds the transfers asked for in a call; one is enough for a
transfer to race everything else, and a failed one to give the caller back. One
refusal of further calls is told in a call; a supervisor hangs up once, and
transfers only a call that is set up; a session that has outlived its call calls no
tool (`Conversing`).

In `VoiceLine`, `MaxNoise` bounds the times the caller is heard (two: the second
interruption meets what the first has left), `MaxDrops` the sockets lost,
`MaxDeltas` the audio events of a response, `MaxLines` the lines the platform
speaks before the farewell, `MaxInFlight` the events on their way when the server
adds another, `MaxExtras` the session fields that can be refused one after another;
`MaxReconnectAttempts`, `MaxPendingSayLines` and `MaxQueuedFrames` are the code's,
made small so that the limit is reached. `FrameUnits` is one: a frame holds audio
of one response.

In the services, `Callers`, `Editors`, `Asks`, `Retries`, `Corrections` and
`Clients` are the requests that meet, two of those that compete and one of the
others (for the tickets the two asks are interchangeable, and TLC takes them as
symmetric); `MaxRemovals`, `MaxRekeys`, `MaxDrops` and `MaxUpdates` bound what a person
or the network does: the board's connection is lost twice, a call is updated twice. `Grace` is `FRESH_ROW_GRACE_MS` in ticks; `Retention` is
`ENDED_RETENTION_MS` shortened from eighteen ticks to four, which is still longer
than an answer may be late.

## Runs

| run | instance | shows |
|---|---|---|
| `dialer_ceiling` | one campaign of concurrency one, two leads, crash, failing statements, refused originates; start, pause, cancel | one call at a time, whichever of the two counts a call has just left; a live call holds its claim; terminal is final |
| `dialer_claims` | concurrency two, two attempts, crash, refused originates | no lead on two calls; no more rings than attempts; finished means drained |
| `dialer_progress` | concurrency one, from a database with abandoned claims, fair | every claim resolves, the campaign ends |
| `dialer_faults` | one reachable and one unreachable lead, all faults, planned restart | a person who refused is rung at most once more |
| `dialer_supervisor` | one lead, all of the supervisor's operations | the same against a supervisor, with phones taken off the list again |
| `call_life` | one call, inbound or outbound, voice model or script, one transfer, a supervisor; either a set of failures (originate, session, database, no operator, leg refused) or lost events of a parked dial and a provider that closes | finalised only when over; connected means that an operator speaks; one verdict per dial; every record is closed; nobody stays in dead air. A call ends, hence `CHECK_DEADLOCK FALSE` here and below |
| `voice_line` | one healthy session, a caller heard twice, a tool with an acknowledgement, the agent's own end of the call | what was interrupted is not played again (`SilencedStaysSilent`); requests for a response do not cross (`OneRequestAtATime`); a turn that waits has a timer or a `response.done` that will send it (`QueuedTurnHasAKey`); hearing the caller empties the queue (`BargeInSilencesTheLine`) |
| `voice_link` | no tools and no noise; the session is refused, hangs, is never confirmed, is lost once; lines before it is ready; a guard's goodbye; the caller hangs up | the contract (`ContractSpec`); ready means connected; a lost session is restored or reported (`SessionSettles`); a goodbye ends in a hang-up (`ClosingEnds`) |
| `call_rows` | one call, a transfer, whoever ends the AI path, two asks for a ticket, a retry and a correction of the analysis; every statement that may fail does | an ended call is final; whoever ends the AI path closes the session; one ticket; pages that agree; no summary lost |
| `services` | two callers and an editor of one person; two requests to the settings; one call on a board whose connection is lost twice; the plan of a tick with counts 0..3, limits 1..2 and windows of a day of six steps | every caller gets a contact that can be seen; the cache is current and a skipped save stored; a row of the board keeps its end, and the board comes to show what is live; the plan is the greatest that is allowed, a halt is a stuck campaign, the wait is exact |
| `pruned_while_talking` | calls may outlast the prune horizon | violated: see below |
| `goodbye_to_the_handed_over` | an inbound call without mishaps | violated: see below |

A plan is made once and no more happens, hence `CHECK_DEADLOCK FALSE` in `services`.

The two sets of mishaps in `call_life` (`Survived`) are the ones under which all
of its promises are kept; the others are in the next section. They are two sets
because a provider that closes and a transfer that fails do not go together.

`voice_line` and `voice_link` divide the voice between them: a session that talks
and one that fails. The loss of a session in the middle of a turn is in
`voice_link`, where the platform's line is the turn.

Several properties of `call_rows` and `services` name the case in which the code does
not keep them (`late`, `failed`, `together`, `crossed`; `rekeyedSince`, `Excused`, `old`,
`drops`): without the exception each is violated. What such a property says is said of
everything else; the race of the exception itself is not caught by it but told below.

Two leads are enough for what concerns one lead against the rest of its
campaign; two calls for one lead against itself. Concurrency one makes the
ceiling a question (two leads compete for it), concurrency two lets a sweep run
beside a conversation.

Each property has a mutant in `PROJECT.json`: a plausible slip in a definition
(the sweep does not exclude the process's own claims, the lost attempt is not
counted, a request on its way does not count as busy, the cache is kept after a
save, the gate knows one kind of entry, ...) under which TLC finds the property
violated.

### Fairness

`FairSpec` and `RestartSpec` assume: the timer keeps ticking and its awaits
return (WF of `DialerStep`); the calling window opens again and again while a
plan is made (SF of `PlanCampaign(TRUE)`; it opens every day); every run of
`recordDialOutcome` goes on; a call stops ringing after `ringTimeoutSeconds` and
ends after `maxCallSeconds` (the dial watchdog and the call limit are timers of
the process); the clock goes on. No fairness is assumed of a supervisor, of a
crash or of any fault. The liveness run has no crash: after the last crash the
system is in a state that `RestartInit` covers (claims left in any subset of the
leads, an empty memory).

`ActiveCall`'s `FairSpec` assumes that what the process has begun goes on: some
step of `System` (a continuation, a timer of the process, an ARI event that is
waiting, Asterisk's own limits on ringing) is taken as long as there is one, and
an operator's conversation ends. Callers, the model, supervisors and mishaps owe
nothing. The silence guard owes nothing either, since a caller who keeps talking
re-arms it; that the call ends rests on the limit of the whole call. One fairness
condition on all of `System` is weaker than one on each action: no order between
functions in their awaits is assumed.

`VoiceLine`'s `FairSpec` assumes that the event loop runs the handlers whose event
has come and the timers that have passed, that settled promises are continued and
the pacer's slots come round; that the server reads what it is sent, finishes what
it says and answers a handshake (or the attempt's own timer fires); that tools
return, their statements having timeouts of their own; and that nobody speaks for
ever. It owes no loss, no noise, no hang-up. `LiveBoard`'s fairness is that of an
open page: it polls, its timers run, what is on the wire arrives, and of the polls
not every one fails (SF of `Hydrate`). In `MCServices` it is assumed of behaviours
whose focus is the board only; the other services have safety properties.

## Disagreements with the comments

Two runs are expected to fail.

* `pruned_while_talking`: "it MUST be longer than the longest call this platform
  allows" (`lib/campaigns/dialer.ts:614`). `completeTransfer` clears the timers
  of a call, so a transferred conversation has no limit; its claim is pruned, the
  sweep requeues the lead, and it is rung while its owner talks.
* `goodbye_to_the_handed_over`: "The AI is done, but the CALL is not: the human
  leg keeps talking" (`lib/telephony/call-orchestrator.ts:3837`).
  `startTransfer` leaves the guard timers armed, and neither `endForLimit` nor
  `toolEndCall` looks at the transfer again after the goodbye: if the operator
  answers during those seconds, both are hung up. With the script the default
  silence limit lies within the time the operator's phone rings.

Others were met while modelling; they have no run of their own. Each says how a
configuration reproduces it.

For `ActiveCall` it is enough to put the mishaps named into `Weather`:

* `colleague`: "a leg that is not the caller, is Up, and carries this tenant's
  prefix is the operator who took the call" (`lib/telephony/transfer.ts:577`). So
  does the leg of an operator who talks on another call. The transfer is recorded
  as connected and the guards are cleared while the caller waits in the queue
  (`ConnectedMeansSpeaking`).
* `early_hangup`: a hang-up handled while `claimOutboundDial` awaits
  `resolveTenantSlug` finds neither a dial nor a call. If the script then runs the
  call, nothing finalises it (`CallsAreClosed`) and the dialer is never told
  (`VerdictSpec`), although "The dialer has to be told"
  (`call-orchestrator.ts:4696`).
* `brief_operator`: an operator who leaves before `startTransfer` has recorded
  the leg leaves the caller alone in the bridge (`NoEndlessCall`); the event is
  compared with a `toChannelId` that is still null.
* `voice_drop` with `no_operator` or `leg`: the provider closes during a transfer
  that then fails. `failTransfer` arms guards that do nothing on a closed path,
  and the caller is left in silence (`NoEndlessCall`), although "The caller never
  gets dead air" (`docs/ARCHITECTURE.md:382`).
* `poll`: `waitForOperatorLegByName` gives a transfer up as soon as the list of
  channels cannot be read (`transfer.ts:544`). The AudioSocket connection that the
  redirect has just ended is then read as the caller's hang-up, and the call is
  finalised while the caller waits for an operator (`FinalizedMeansOver`), although
  "the call row is finalised when the channel is destroyed"
  (`call-orchestrator.ts:3838`).
* `lost_event`: a lost StasisEnd and ChannelDestroyed of a call that nobody hangs
  up leaves its record open (`CallsAreClosed`).
* A hang-up before `provider.start` ends the AI path first; the session opened
  afterwards is stopped by nobody.

For `CampaignDialer`, adding the formula and the constants to a configuration reproduces them.

* `RefusalIsKept` with `Operations = {"list", "unlist"}`: "A person's spoken refusal
  is not an administrative record somebody may tidy up later"
  (`lib/campaigns/do-not-call.ts:229`). If the phone was already listed by hand the
  insert does nothing and the source stays removable.
* `CampaignsFinish` with a concurrency of two: "the moment the last lead leaves the
  queue" (`lib/campaigns/outcome.ts:14`) the campaign is to be finished. Two
  transactions that close the last two leads each see the other's row open.
* A tick goes on dialling what it claimed after a pause has committed, although
  "a paused one places no NEW calls" (`eligibility.ts:115`):
  `[][\A l \in Leads : rings'[l] > rings[l] => campaign[CampaignOf[l]] = "running"]_vars`
  with `Operations = {"pause"}`.
* `CampaignCeiling` with a concurrency of two, three leads and three calls:
  "the budget is never overspent" (`dialer.ts:994`), but a told call has left one
  count and a call in `claimOutboundDial` the other.
* `NoDoubleDial` with `outlives_process` and `crash`: a transferred call that
  Asterisk goes on with after a crash is dialled again (`dialer.ts:36-41`).
* A PATCH requeues a lead of a finished campaign, which "never ticks again"
  (`dialer.ts:334`): `campaign[c] = "finished" => PendingOf(c) = {}` with
  `"requeue"`.
* A tick that is running when the process is told to stop goes on claiming and
  dialling (`index.ts:104`, `index.ts:175`):
  `[][(\E l \in Leads : rings'[l] > rings[l]) => mode = "up"]_vars` with `"shutdown"`.
* With `lost_hangup`, `ClaimsResolve` fails: `pruneInFlight` is reached only
  when some other claim is stale (`dialer.ts:576`).
* A mild outcome followed by an opt-out counts two attempts for one ring,
  although the hook "fires once per call" (`dialer.ts:278`):
  `lead[l].attempts <= rings[l]`.
* A PATCH overwrites a claim made after it read the row
  (`campaigns.routes.ts:368`).
* A tick planned inside the window may dial after it has closed: `now` is read
  once and the dials are 750 ms apart (`window.ts:39`, `dialer.ts:1062`).

For `VoiceLine`:

* `FarewellUninterrupted` in `voice_link`'s instance with `MaxNoise = 1`: "The farewell is not
  interruptible" (`call-orchestrator.ts:2924`, `openai-realtime.ts:2295`). The tool
  `end_call` announces itself first; `endForLimit` does not, so a caller who makes a
  sound during a guard timer's goodbye has the rest of it abandoned by the provider.
* `BargeInSilencesTheLine` in `voice_line` with `Mishaps = {"vendor"}` and `MaxLines = 1`: a fixed line that comes from
  the cache is no response of the model, the provider sees nothing to interrupt, and
  the line goes on over the caller. It also fails with `MaxDrops = 1`: `handleClose`
  clears `audible` (`playbackHorizonMs`) while frames of the lost session are still in
  the queue, so the next session's `speech_started` discards nothing.
* `ReadyMeansConnected` in `voice_link` with `late_grace`: `abandonSocket` leaves the
  grace timer armed, which marks a provider without a socket ready. It takes an
  attempt that times out after its `session.created`.
* `ResultsAreAnswered` in `voice_line` under `FairSpec`: a response that is created
  while the caller is heard is abandoned (`handleResponseCreated`), and with it the
  turn queued behind it for a tool's result; no recovery is armed there, as it is in
  `handleSpeechStarted`. If `semantic_vad` does not take the sound for a turn, nobody
  asks for an answer and the agent waits for the caller to speak.

For `CallRecord` and the services, leave out the exception named or check the formula:

* `TeardownClosesTheSession` with `Asks`, `Retries` and `Corrections` empty: "Teardown
  (any of StasisEnd / ChannelDestroyed / AudioSocket close / our own hangup — all four
  race, all are idempotent)" (`docs/ARCHITECTURE.md:130`), `finishAiSession()` included.
  `endAiPath` reads the session's id once, when the provider has stopped; a call that ends
  while `launchProvider` is still at `createAiSession` has none, so nobody closes the row
  (`late` in `SessionClosesWithTheCall`). An `updateAiSession` that arrives after the
  close relabels a finished session besides, being unguarded where `markCallAnswered` is
  guarded.
* `OneTicketPerCall` with two `Asks` (`together` in `OneTicketUnlessTogether`): "if the AI
  calls create_ticket twice (it does), the call already has a ticket and that one is
  returned instead of a duplicate" (`lib/telephony/crm-writer.ts:1162`). The look-up, the
  insert and the link are three statements, and the provider does not wait for one tool
  before it calls the next (`openai-realtime.ts:2090`); two asks that overlap, or one that
  fails before the link, make two tickets.
* `failed` in `SessionClosesWithTheCall`: `finishAiSession` is run quietly
  (`call-orchestrator.ts:4553`) and is tried once; if it fails, the call is marked ended
  and its session stays open. No sweep looks for such rows.
* `aiPath` in `SessionClosesWithTheCall`: whoever calls `endAiPath` second returns at
  once (`call-orchestrator.ts:4503`), so `finalizeCall` marks the call ended while a
  transfer or a hang-up is still stopping the provider. The session is closed a little
  later, but a process that stops in between leaves it open.
* `EndedRowSaysSo` (in `LiveBoard`): `applyEnded` sets a row's `status` and its
  `endedAtMs`; `rowFromSnapshot` and `rowFromItem` (`liveCalls.store.ts:103`, `:118`)
  spread what comes over the row and carry over only `endedAtMs` and `endReason`. An
  answer served before the end, or a transfer that returns after it, sets the status back
  to "live" or "transferred", and the card (`LiveCallCard.tsx:99`) and the panel
  (`LiveCallDetailPanel.tsx:171`) show that beside a call that is over.
  `EndedRowStaysEnded` is therefore about the end alone.
* `crossed` in `PagesAgree`: two analyses of one call that overlap overwrite each
  other's status, a retry that fails marks a completed analysis failed, and the catch
  around the post-call analysis writes "failed" over one that was stored before a later
  statement failed.
* `old` in `CacheIsCurrent`: "Drop a tenant's cache. The next read hits the database"
  (`lib/settings/store.ts:147`). `invalidateSettingsCache` drops the rows but not the
  query on its way; one that read before the commit fills the cache with the old rows
  until the next change, and saving the old value back is skipped as unchanged
  meanwhile.
* `rekeyedSince` in `CallerIsResolved`: a contact re-keyed between a call's lost insert
  and its second look leaves that call without a contact, and it is released.
* `BoardSettles`: "WebSocket bo'lmasa ham ma'lumot yangilanib turadi" (the data is
  refreshed even without the WebSocket; front end, `useLiveCalls.ts:5`). The store is
  written by an effect on `query.data`; if the last answer applied was an empty list,
  a row whose end was lost stays on the board as live for as long as the list stays
  empty.

Read but in no model: `AmiClient` schedules one attempt to reconnect after a close
and none after that attempt has been refused, until an action asks for a login
(`lib/asterisk/ami-client.ts:470`); a booking's overlap is checked before its insert,
so two overlapping bookings can pass together (`routes/bookings/bookings.handlers.ts:344`);
a draft that is started while it is deleted is deleted (`removeHandler`).

## Proofs

`CampaignDialer_proofs` proves of `Spec`, for all constants that satisfy
`ConstantsAssumption`:

* `TypeCorrect`/`TypesHold`: `[]Typed`, hence `[]TypeOK`. `TypeOK` alone is not
  inductive: that `PlaceCall` takes a lead and `Originate` a call out of the
  tick's record depends on the position of the tick, so `Typed` adds which of
  its fields are set at which `pc`. There is a lemma for each group of actions.
* `ListedPhonesStaySilent`: `[]AtMostOneLateRing`. The invariant `LateRings`
  adds that a phone that is about to be rung by a dial which has passed the
  second gate has not been rung late yet, and that a phone that is not listed
  has no late ring. Only a tick between `PlaceCall` and `Originate` can ring a
  listed phone, there is one tick, and it can enter that position only if the
  phone is not listed. `Quiet` collects what all other actions have in common.
  No assumption on faults or operations is made.
* `HistoryIsFinal`: `TerminalIsFinal`; every write of a campaign's status is
  guarded on a status that is not terminal at the time of the write.

`CampaignClaims_proofs` proves what nothing in the code locks: that one call at a
time is made for a lead, that it keeps its claim, and that attempts are counted. It
assumes `Calm`: of the faults it leaves out `lost_response`, `outlives_process` and
`outlives_horizon`, of the operations `skip`, `requeue`, `outcome` and `shutdown`.
Each of these, next to the allowed ones, breaks one of the three properties, as TLC finds when it is added
to a run. Crashes, failed statements, refused originates, lost hang-ups, overlapping
tools, imports, the do-not-call list and every change of a campaign are allowed.

* The invariant `ClaimInv` is `Steady`, about the process, and a `LeadInv(l)` for
  each lead, about its row, claim, calls, outcomes being recorded and place in the
  tick. None of the three properties is inductive: a lead is claimed because its row
  says pending and due, so what must hold is that nobody works on such a lead any more
  (`FreeIsUntouched`), and whoever works on one has told its outcome before the row
  can say so (`OwesAndHolds`, `WritesAreTheirs`, `AbandonedIsReported`). `Counted` and
  `WritesCount` relate the rings to the attempts on the row and to those an outcome
  under way is about to write; `DialerWritesInTurn`, `ChosenIsItsOwn` and
  `AtLeadIsItsOwn` say what the tick may assume of the leads in its local variables
  although it does not read them again.
* `OthersStay` is the frame: a step that touches neither a lead's row, claim, calls
  and outcomes nor its place in the tick keeps its `LeadInv`. Each action then has a
  lemma for the one lead it is about.
* `CallsHoldTheirClaims`, `OneCallAtATime`, `AttemptsAreCounted`: `LiveCallHoldsClaim`,
  `NoDoubleDial` and `AttemptBudget` follow from `ClaimInv`.
* `OneLineIsOneCall`: `CampaignCeiling`, when every concurrency is one. `OutIsCounted`
  says that a call that is out is in one of the two counts the plan takes the greater
  of, so a plan that dials has seen none (`PlanFits`); `OneLine` carries that from the
  plan over the claim to the parked call. With two lines it fails (Disagreements).

* `FinishedIsDrained`: `FinishedWhenDrained`, in an orderly deployment.
  `finishIfQueueEmpty` counts in one statement and updates in another, next to other
  outcomes and to a dialer that claims meanwhile. It is right because a lead that has
  closed stays closed. `Drain` says why: an outcome that would put a lead back is
  recorded while the lead is claimed and is the only one for it (`WritesClose`); a claim
  the process does not hold is nobody's but the sweep's (`UnheldIsUntouched`,
  `SweepsItsOwn`); a refused dial gives its own claim back (`AwaitedGivesBack`); and who
  counted an empty queue counted right (`LastIsLast`). `Orderly` is `Calm` without the
  fault `db`, the fault `overlapping_tools` and the operation `import`. TLC refutes the
  property when any one of `db`, `overlapping_tools`, `lost_response`, `import`, `skip`,
  `requeue`, `outcome` or `shutdown` is allowed. It finds no violation with
  `outlives_process` (and `crash`) or with `outlives_horizon`; they are left out because
  the proof rests on `ClaimInv`, which they break.

`CampaignPlan_proofs` proves `PlanIsGreatest`, `HaltIsStuck` and `WaitIsExact`
for any sets of counts and limits, any windows and any length of the day. The
refusals are a tuple whose first holding entry wins; `FirstIsLeast` and
`FirstExists` reason about that choice.

`ActiveCall_proofs` proves of `Spec`, for all constants that satisfy
`ConstantsAssumption`:

* `CallTypesHold`: `[]TypeOK`, which is inductive.
* `FinalisedWhenOver`: `[]FinalizedMeansOver`, if no behaviour meets the mishap
  `poll`. The invariant `Over` says that what a call is finalised on is true:
  `Heard` that a StasisEnd means a caller who is gone or has been handed over, and
  a destroyed channel one who is gone; `SocketEnds` that the AudioSocket ends with
  the call or by a transfer that is still recorded; `Hanging` that the safety timer
  runs only for a released channel; `Untaken`, `Unclaimed`, `HandedTo` and
  `Recorded` tie the caller's place to the positions of the set-up and of the
  transfer.
* `ConnectedIsSpeaking`: `[]ConnectedMeansSpeaking`, if no behaviour meets the
  mishap `colleague`; `Joined` adds the moment between the operator's answer and its
  being recorded.
* `OneVerdict`: every step is a step of `DialVerdict` or a stutter, under every
  mishap. `Answered` says which of the functions may still speak for the dial:
  before the claim, `abandonOutboundDial` and at most once; after it, never
  `missed`, and `answered` only while `reported` is none.

Of `VerdictSpec` the proof covers the steps; that a verdict is told in the end,
like `CallsAreClosed` and `NoEndlessCall`, is liveness and model-checked.

`CallRecord` and the services are proved about in the same way, each of its own
specification (`ContactSpec`, `RecordSpec`, `SettingsSpec`, `BoardSpec`), for any
number of requests, rows and calls:

* `CallersAreResolved`, `CallersAreVisible`: the invariant follows the statements.
  `WinnerIsThere` says that a caller who lost the insert has a row to find unless it
  was re-keyed; `CallerHasRow` and `EditorHasRow` that whoever acts upon a row by its
  id acts upon one that exists, and that it is live unless removed since.
* `TheEndedCallIsFinal`, `SessionsClose`, `OneTicket`, `SummariesStay`:
  `SetupInOrder` ties the rows to the statement the set-up is at, `SessionAtEnd` says
  where the end of the AI path, the teardown and the session can be at the same time: the
  teardown begins with that end or after it, the row is ended by the teardown alone, and
  an AI path that is over has ended its session, or came too early for its id, or failed
  to; `TicketsApart` that a second ask
  at work means that the first has linked its ticket or that they are together,
  `OnlyCorrectionsCopy` who may clear a summary, `EndedIsEnded` that an ended call has
  an end.
* `CacheStaysCurrent`, `SkippedSavesAreStored`: `ReadsAreCurrent` adds that rows read
  by a query on its way are the table's unless a commit has overtaken them.
* `TheEndedStayEnded`: `EndedRowStaysEnded`, that a row's end is neither withdrawn nor
  its retention begun anew. Every writer but `applyEnded` carries both over (`EndKept`);
  that one does not because the end of a call is broadcast once: `BoardInv` says that
  one event at most on the wire is an end (`OneEndOf`), and none before the call is over or after the row has
  had it. The row's `status` is not promised (Disagreements).

* `PagesTellOneStory`: `PagesAgree`. Two writers, a supervisor's correction and the
  retries of both write three tables in statements that interleave. `OneStory` says, for
  every place a writer can be at, which of the tables it has brought up to date
  (`HalfWay`) while nobody has crossed it; `AfterTheCall` that a writer at work means
  that the call has ended and its ticket will not change any more.

`VoiceLine_proofs` and `VoiceTurns_proofs` prove of `VoiceLine`'s `Spec`, for all
constants that satisfy the assumptions of its modules, that is for any number of
responses, pieces of audio, frames, tools, sockets, lines and interruptions. All of them
assume `Punctual`, that no grace timer outlives its socket (`late_grace`); TLC refutes
`ReadyMeansConnected` without it (Disagreements).

The provider is a record and its handlers are compositions of setters, so the proofs
first give each handler a contract (`Talks`, `Abandons`, `Yields`, `Begins`, `Ends`,
`Rejects`, `CloseLeaves`, `ReadyTells`, `Stops`, ...) that says what it keeps of the
connection (`SameLink`), of what is heard (`SameEar`) and of the response gate (`Gate`),
and what it sends and tells. Each property below is then proved from the contracts
and an invariant of its own. `Apply` folds over what was sent and told in a step; no
handler sends or tells more than two messages (`Settles`), and `ServerTakes` and
`CallHears` unroll the folds of two steps, for which no induction is needed.

* `ConnectionInvariant`, `ReadyIsConnected`: `[]LinkInv`, hence `[]ReadyMeansConnected`.
  `Sockets` says that at most one socket, the current one, belongs to an attempt;
  `Endings` that a provider which has told its end or was stopped has neither a socket
  nor a timer that would make one; `PromiseKept` what the promise of `start()` says of
  the session, and `Witnessed` what the call has been told.
* `ContractIsKept`: `ContractSpec`, the refinement of `VoiceProvider`. Next to the
  invariant each step shows `Agrees`: it is a step of the contract or leaves all of its
  variables alone.
* `SilencedIsSilent`: `[]SilencedStaysSilent`. A response silenced is cancelled, or has
  nothing more to say (`Hushed`); that needs the order of what is on its way (`InTurn`),
  what the provider knows of the responses it will hear of (`Heeded`: the
  `response.created` of a piece of audio was read, or will be before it), and that what
  plays is not later than `lastAudio`. `StaysSilent` is the conjunction, and the queue
  a queue of units that are not silenced (`Queue(S)`, with lemmas for every method of
  `PlayoutQueue` and any set `S`).
* `VoiceTypeCorrect`: `[]TypeOK`. That every event is about a response that was made
  follows from `StaysSilent`; that the queue keeps its limit from `EnqueueKeeps`.
* `OneRequestOnly`: `[]OneRequestAtATime`, if besides the server answers a request
  within `PENDING_RESPONSE_TIMEOUT_MS` and a response lasts longer than an event
  travels (`Timely`). TLC refutes it with `slow` or `swift` alone. `Polite` says that
  the server holds one request at most unless it met a response of the server's own,
  that a held request is one the provider still awaits, and that a `response.created`
  on its way means that a response runs.
* `WaitingTurnHasAKey`: `[]QueuedTurnHasAKey`. `Bound` says that a response the
  provider speaks runs at the server, or that its end is on its way; `Patient` that a
  turn which waits has a timer or such a response; `Due` that
  a response whose `response.created` is on its way runs, or has its end on its way
  too; `Vacant` that the server holds a request only while nothing is spoken; `Greeted`
  that nothing is heard on a socket before its `session.created`.
* `TheCallerIsHeard`: `BargeInSilencesTheLine`, in a call that speaks through the model
  alone and over one session (`Undisturbed`). `Attends` says that as long as the call is
  not closing, the provider knows of whatever is in the queue (`audible`), is not deaf,
  and the queue is empty while the caller speaks. That no audio is added then rests on
  `Heeded`: a piece that is read belongs to the response being spoken or to a
  cancelled one. Both exclusions are needed (Disagreements).

Not proved, and why:

* `CampaignCeiling` with more lines than one is not true of the code (Disagreements).
* The liveness properties `ClaimsResolve`, `CampaignsFinish`, `CallsAreClosed`,
  `NoEndlessCall`, `SessionSettles`, `ClosingEnds`, `BoardFollows`, and that a dial's
  verdict is told in the end (`VerdictSpec`): the prover has no rules for fairness.
  TLC checks them.

## Not modelled

* `gemini-live.ts` is the second implementation of `VoiceProvider`; its contract is
  `VoiceProvider.tla`, its own protocol is not written down.
* The incoming half of AudioSocket (framing of chunks) and the codec compute on
  bytes: a function of the input, without interleaving.
* The Asterisk clients' reconnection: what its failures do to a call or a dial is a
  mishap or a fault of the models.
* Transcript, recording, note, booking and follow-up rows are single inserts;
  reports, exports, dashboards and the remaining CRUD are request and response.
* Prompts, tool schemas, phone and list parsing, cost tables, generated Asterisk
  configuration: text and arithmetic that the models' values stand for.
* Authentication, notifications, tenant resolution and the query guard of tenancy:
  little state, and none that the modelled parts depend on. Every model is of one
  tenant.
* The front end apart from the live board, and deployment.
