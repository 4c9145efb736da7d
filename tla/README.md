# Smilodon: a formal model of its campaigns, its music and its chat

Smilodon is a Discord bot (TypeScript). It runs *campaigns* - tabletop adventures
in which players answer rounds, roll dice, fight and vote, an AI model plans and
narrates, timers close what nobody answers, and everything is stored in one
transaction per command - next to a *music* player with a panel that is edited
in place, and *chat* turns with memories of people. The parts modelled here are
those in which several actors meet: an event-sourced engine with background
workers, two documents without a common transaction, queues made of promises,
edit budgets, and work that goes on after somebody asked for it to be forgotten.

Paths are relative to the repository root (`src/...`); where only a file name is
given, the map in `PROJECT.json` has the path and the lines of every definition.

## 1. Inventory

For each part: the state it keeps, its operations, how it interacts, what is
hard, and what makes it correct.

### Campaign engine (`src/domain/campaign/engine`, `state`, `events`)

* **State** `CampaignState`: status (active, waiting for players), who paused,
  members with their heroes, presence and missed windows, the round
  (none, collecting, planning, resolving; participants, submissions, checks,
  plan), the last narrated round, the scene and the move being voted on, rests
  queued and taken, the opening; in a fight the turn order, conditions, the
  resolution of the action under way with its open window, and the pending move.
* **Operations** `decide(state, command)`: about forty command kinds; each
  yields events (`evolve` folds them), timers to schedule or cancel, outbox rows.
* **Interactions**: pure; called by the command bus for users' interactions and
  for the workers below.
* **Hard**: a handler is a chain (`markAway` may close the round, which may
  settle a scene move, mark idle members away, enter waiting, open the next
  round), and every step reads what the earlier ones emitted. Any user command
  may fall between any two of them that are separate commands. In a fight one
  roll may open a window, end a creature, provoke a retort and hand over the turn.
* **Correct when**: an active table has somebody at it and something that will
  end what it waits for; timers belong to open windows; a round never waits for
  somebody who left; a plan is applied to the answers it was written for; votes
  follow the players present; a fight waits for dice that are coming or for a
  player who is there, damage follows all of its checks, turns go round, heroes
  whose player is away take no part and come to no harm.

### Command bus and store (`campaign-command-bus.ts`, `infrastructure/persistence/campaign`)

* **State**: per campaign a revision, a snapshot and events; processed command
  ids; the outbox (pending, done, failed, attempts); saved rolls; timers.
* **Operations**: `execute` (look up the command id, load, decide, save with a
  compare-and-set on the revision, write requests, record the outcome, commit),
  one retry on a conflict; the outbox operations; `requeueFailedOutbox`.
* **Interactions**: a `KeyedSerialQueue` per process, the database between
  processes; PostgreSQL transactions at READ COMMITTED, SQLite transactions and
  the in-memory store one at a time.
* **Hard**: two processes (one shutting down, one starting) on one database,
  crashes between any two transactions, retries of what was already done.
* **Correct when**: a command id has its effect once and is always answered with
  that effect; nothing saved is rewritten; dice once rolled stand.

### Campaign workers and runtime (`application/campaign/workers`, `campaign-runtime.ts`)

* **State**: none of their own but what a pass has loaded (due timers, pending
  rows, the campaign shown to the model).
* **Operations**: `TimerWorker` (due timers become commands), `RollWorker` (roll,
  save the dice, record), `DmJobWorker` (plan, narrate, opening: model calls),
  `DeliveryWorker` (results to Discord, in order per campaign, with backoff and
  giving up), `ImageWorker`; the runtime polls, runs them in turn, and recovers
  at start.
* **Hard**: state read before a model call, a send or another command and used
  after it; a timer racing the click that answers it; a crash between an effect
  and its record; one broken channel among several campaigns.
* **Correct when**: no job or timer is lost or applied to what it was not meant
  for; tables see results in order, or know that one was given up.

### Campaign lobby (`campaign-lobby-service.ts`, `domain/campaign/lobby`)

* **State**: the lobby record (status, players, invitations, requests, queued
  joins, party size, visibility) and, once it is played, the engine's members.
* **Operations**: create, invite, accept, request, approve, join, leave, choose a
  hero, start, free a seat, resize, end, reopen; the worker's pass over queued
  joins and the recovery of starts.
* **Interactions**: a serial queue of operations, commands on the bus, requests
  that run out by the clock, fights that hold joins up.
* **Hard**: one operation writes both documents and may be cut off between them;
  a save may be refused because the record moved on.
* **Correct when**: no seat is promised twice, both documents name the same
  players, no hero is played twice, ended games take nobody and stand still, and
  what was queued or started happens.

### Concurrency helpers and the music panel (`application/concurrency`, `application/control-panel`)

* **State**: `KeyedSerialQueue` (the last promise of each key),
  `ChannelEditScheduler` (slots, pending writes, spent budget, a timer),
  `PanelRefreshCoordinator` (a debounce, a running refresh, a rerun), and the
  control channel service's locks, floors and progress tick.
* **Operations**: player events, clicks with a guess of the next state, lyric
  lines, progress ticks, `ensureGuild` and the removal of a guild.
* **Hard**: a click's guess against a render in flight; a write dropped because a
  newer one replaced it or because the guild is gone; a burst that puts a refresh
  off again and again; a queue blocked by a promise nobody settles.
* **Correct when**: one writer at a time, no request is lost, every call ends,
  and when all is quiet the panel shows the player as it is.

### Music playback (`infrastructure/lavalink`)

* **State**, per guild: the library's player (current track, queue, paused,
  autoqueue, 24/7), the vote on what plays next with its number of rerolls, the
  lyrics of the play with lookups out and a scheduled retry, the timer that ends
  an idle session and the one that pauses or ends a session nobody listens to.
* **Operations**: commands (play, skip, skip to, previous, seek, pause, the queue,
  autoqueue, 24/7, reroll, stop), the node's events (a track starts, ends, the
  queue ends, the player goes), people joining and leaving the voice channel.
* **Interactions**: Lavalink through its client library; searches, lookups and
  rerolls are promises that come back at any moment; every change is published to
  the panel.
* **Hard**: the maps are keyed by the guild alone, so what comes back late has to
  be recognised as late; the start of a track may be repeated; timers armed for
  one player meet the next one.
* **Correct when**: a vote is about what follows the track that plays and is
  rerolled within its limit, every started track's lyrics settle, and no timer
  ends a session in use.

### Chat (`chat-scheduler.ts`, `chat-conversation-service.ts`)

* **State**: pending turns per channel with a per-channel and a global bound,
  running channels; per person a serial queue of turns and memory extractions,
  a privacy version, tracked background work; the conversation kept.
* **Operations**: enqueue, the shedding of optional turns, `pump`, `stop`; a turn
  (admission, context, reply, storing, extraction) and forgetting a person.
* **Hard**: a turn that thinks while its person is forgotten; an extraction that
  has its place in a queue before it knows whether there will be a reply.
* **Correct when**: the books balance, questions are not shed for opportunities,
  nobody waits in a circle, what was forgotten stays forgotten.

### The rest

The memory engine and channel summaries (checkpoint after a model call), `ReminderScheduler` and
`BirthdayAnnouncer` (send, then mark), `LocalGuildSetupService` (roll back what a
failed setup made), polls, role menus, access rules, links, texts, adapters,
content. `PROJECT.json` lists each with the reason it is not modelled, and the
hazards of the modelled parts at their lines. Hazards outside them: a crash
between sending a reminder and marking it fired sends it twice
(`reminder-scheduler.ts:58`), and a guild setup that fails halfway has to remove
the Discord objects it made (`local-guild-setup-service.ts:91`).

## 2. Modules

| module | models |
|---|---|
| `CampaignEngine` | the exploration rules as operators on a decision `[state, timers, outbox]` |
| `Exploration` | a running table: commands, timers, dice, the Planner's call, narrations, crash and recovery |
| `Combat` | one fight: turns, actions, moves, windows, timers, the autopilot, away players |
| `TurnOrder` | what the turns of a fight promise; `Combat` implements it |
| `ExactlyOnce` | the abstract write path: every command once, in one order, a roll after its cause |
| `CommandBus` | `CampaignCommandBus`, the store, `RollWorker`, several processes, crashes; implements `ExactlyOnce` |
| `Delivery` | `DeliveryWorker` over the rows of several campaigns |
| `Lobby` | the lobby service, its record and the engine's members |
| `KeyedSerialQueue`, `ChannelEdits`, `PanelRefresh` | the three helpers, as operators on records |
| `MusicPanel` | the panel of one guild over those three |
| `Playback` | the player gateway of one guild |
| `ChatScheduler` | the scheduler as operators on a record |
| `ChatTurns` | turns, extractions and forgetting over `ChatScheduler` and `KeyedSerialQueue` |
| `MC...` | small instances for TLC |
| `...Proofs` | theorems and lemmas for every value of the constants |

How they fit: `Exploration` and `Combat` assume what `CommandBus` shows, that a
command's decision is committed as a whole and once. So there a handler, with
the timer or job it completes, is one decision, and `CommandBus` keeps the
decision abstract (accepted or rejected, with the roll it asks for) and opens up
that one step. `Delivery` takes the rows other commands write as given, `Lobby`
takes the engine's answers to its commands as accepted or refused by the rules it
models. `MusicPanel` and `ChatTurns` compose the helpers themselves: the same
`KeyedSerialQueue` is instantiated with the panel's two queues and with one queue
per person.

### CampaignEngine and Exploration

One operator per function of `engine/*.ts`, with the same name: `EnterWaiting`,
`PauseCampaign`, `OpenRound`, `BeginRound`, `CloseRound`,
`CloseIfEveryoneResponded`, `SettleDueMove`, `ApplyRoundPlan`, `StartRolls`,
`RecordCheckRoll`, `FinishRoundIfResolved`, `MarkAway`, `RetireMember`,
`PickUpHeldWork`, `FinishReadyCheck`; the smaller ones (`RoundClosed`,
`MemberRetired`, `SceneTransitioned`, ...) are the events of `evolve.ts`. A
decision is threaded through them as the `Decision` class threads its state, so a
step sees the members the step before sent away. `HeldTimers(c)` are the timers
of the window the table is in.

`Exploration` has `campaign` (the stored state), `timers` and `outbox` (pending
rows), `draft` (the plan being written, with the heroes acting when it was
asked for), `due` (the rows `TimerWorker` has loaded and not handled yet) and
`handled` (the one whose command ran and which it has yet to mark); one action per
command kind, per worker step and for `CrashAndRecover`. `CampaignRuntime.work`
runs the workers of a process one after the other, so while a model call is out, or
between the three transactions of the timer worker (`LoadTimers`, `RoundTimerFires` or
`RollTimerFires`, `MarkTimerFired`), only users act. They may cancel a loaded timer
and arm it again under its id; marking goes by the id, so the fresh timer is then
marked fired. `lost`, a history variable, has those whose window is still open
(`StillLost`). A rejected command
changes nothing and is no step. `Commands` is the slice of command kinds an
instance's users issue.

Abstractions: texts, roll results, difficulty and damage do not appear; a roll
resolves its check or is rolled once more. A timer is its id and may be due
whenever it is pending. `tooSoon` is the outcome of `longRestTooSoon`, `fired`
whether a mover or a condition of the adventure takes effect; both are free. A
plan is the heroes it calls checks for and at most one scene change.

### Combat and TurnOrder

A command, a saved roll or a timer is one decision: a chain of calls that runs
until the fight waits. The chain is the variable `call`, the function to run
next; one action runs one function (`BeginTurn`, `AdvanceTurn`, `Declare`,
`Resolve`, `Damage`, `FinishAction`, `PlayFoe`, ...), and nothing else moves
before it is done. `cond` is what each creature is (active, unconscious, stable,
dead, fled), `resolution` the action under way with its targets and its window,
`move` the pending move with those who may still strike, `pendingRolls` the dice
the fight waits for and `jobs` those in the outbox, `timers` the pending ones,
`due` what `TimerWorker` has loaded, so a timer may be cancelled or armed again
between being loaded and being fired.

Hit points, zones, slots and ranges are data: a blow does any of what it could,
a creature in reach is any of the other side. What a creature can do are its
traits (`smite`, `shield`, `counterspell`, `legendary`, `deathBurst`, ...).
Left out: readied actions, summons, wild shape, items, blocking conditions,
rerolls (lucky, indomitable), truces, proxies, the count of death-save successes,
end-of-turn triggers, round numbers, `retryEncounter`, narration; a turn and a
plan have one move; rolls of a fight that has ended are dropped with it.

Two decisions of the code leave a roll behind that belongs to nothing: a turn timer
ends the turn of a hero whose death save is out (`TurnTimerExpired`), and an effect
at the start of a turn hurts a hero who concentrates (`RecordTrigger`; section 6).
Both are steps of the model, in every fight whose timers and traits allow them. What
comes after is not followed: `astray`, a history variable, says that it happened, the
decision is taken to its end, and nothing from outside comes in any more (`Free`).

`TurnOrder` knows an order, an index and who is out. The mapping takes them from
the fight; damage, windows and pauses are stutters.

### CommandBus and ExactlyOnce

Variables: `saved` (the campaign as the commands it is made of: its length is the
revision), `processed`, `outbox`, `dice` (the store), per process `queue` (calls
waiting for the campaign's key), `tx` (the statements of the running transaction),
`worker` (what `RollWorker` is doing), and `answers` (what callers were told).
`Look` and `Load` are separate statements and other processes may commit in
between (`Serial = FALSE`) or not (`Serial = TRUE`); `Save` with its
compare-and-set, the requests, the outcome and the commit is one step, because
the row lock of the update is held to the commit and a crash before it is a
rollback. `Handles[p]` are the command ids process `p` may be asked for. At most
one roll per command, one campaign; timer rows, library and settings left out.

### Delivery

A row is `none`, `pending`, `done` or `failed`, with its `attempts` and whether
its `notBefore` lies ahead. A pass loads the due rows (`pass`), remembers which
rows were still backing off (`held`), leaves a campaign alone once one of its rows
failed or backs off (`blocked`), and between loading and marking a row it presents
and records (`sending`), where the process may die. Channels break and mend.
`seen` is what each table was shown. Texts and staged reveals are left out.

### Lobby

`record` and `game` are the two documents (the lobby's record, and what the
engine's campaign says of the players), `op` the operation under way with the
step it is at, `listed` whom the pass over queued joins has still to look at,
`ended` that the bus has an outcome for the command id of an end. An operation of
`CampaignLobbyService` that writes both documents is a first step that checks and
later ones that write. Between them the engine plays on, requests run out, a save
may be refused, and the process may die (`MaxFaults`, in the operations of
`CutOff`). `torn` is a history variable: the people an operation was cut off for.
A player who left before the start is one without a seat whose hero is
remembered. `game.status` is the engine's status with `pausedBy`: active, active in
a rest taken before the game began, waiting because nobody is present, or paused.
Freeing a seat, leaving for a while and the fall of the party end in waiting, a new
hero takes a fallen party's table up again, and the recovery begins a game only
where the engine is active.

### KeyedSerialQueue, ChannelEdits, PanelRefresh, MusicPanel

The queue is the promise chain as it is: each caller waits for the caller that
was last when it came (`prev`), and the map holds the last (`tail`); there is no
list. `ChannelEdits` is one channel: slots, pending writes, the running one, the
time each edit still counts, the budget timer and the queued microtask.
`PanelRefresh` is one guild's debounce, running refresh and rerun.

`MusicPanel` has the calls under way (`jobs`, at most one per element of `Jobs`),
each at a step of `withGuildLock` or of the panel's write queue; `player` and
`shown` say whether each message shows the player as it is; `floor` is the least
time between two edits of a message, `tick` the progress tick, and time passes
only when no microtask is due. A guild may be removed and come back at any
moment. `missed` is a history variable: a write failed and nobody asked for a
refresh since. Left out: the creation, moving and sweeping of the messages, the
vote message, `stop` of the helpers, and that a channel's spent budget is
forgotten when its last slot goes away.

### Playback

`player` is what the gateway reads of the library's player; `starting` is the time
from a track's being current to its `trackStart` event. `left` is how much of the
track is to come, in the three parts the vote tells apart: enough for a vote, too
little to begin one, locked. `vote` is the entry of `autoQueueVotes`, `rerolls` the
searches of rerolls, `search`, `skipping` and `ending` the searches of `/play`, of a
skip and of the library's callback at the end of the queue; `lyrics` is the two
lyrics maps, `lookups` what is out, `retryTimer` the retry that is scheduled,
`idleTimer` and `aloneTimer` the two timers, `occupied` whether somebody listens.

The gateway compares objects to find out whether what comes back is still wanted.
An object has no identity in the model: work is for the entry in the map, or in
vain (`own`, "this" against "gone"), and whatever replaces the entry makes the
rest vain (`TakeVote`, `InVain`). `Publish` is the vote part of
`publishStateChange`; the panel it refreshes is `MusicPanel`, and the two are not
composed: the panel reads whatever the player is when it renders. The library and
the node are external. `discarded` is a history variable of the entry: an answer
or a retry came while nothing played, or while another track was current and had not
started yet.

Left out: repeat modes, shuffling and moving tracks, volume and filters, the lines
of the node's lyrics plugin, the tally of the vote, the rate limiter, and who may
give a command.

### ChatScheduler, ChatTurns

`ChatScheduler` is the record of the class: `order` (keys of the map in insertion
order), `waiting` per channel, `running`, the counter `queued`, `closed`; each
handler returns the turns it started and dropped. The pump is a recursive
function over the order. `ChatTurns` gives every turn a phase (`waiting`, `opening`,
`opened`, `lined`, `checking`, `thinking`, `sending`, `committing`, `leaving`) and
two places in its person's queue, its own and its extraction's (`Extraction(t)`);
`told` are the turns whose extraction knows the reply, or that there is none,
`background` those whose extraction is tracked, `version` the privacy version,
`seen` the version a turn started from. Forgetting raises the version, waits for
what is tracked, and clears; `old` (history) are the turns that had begun then.

Left out: texts, tools, memories the turn itself writes, shadow turns, the
consolidation of dropped exchanges, the episode store, the clock-driven limits on
optional turns and `bufferOpportunity`. The deadline of the wait (40 s) is
`impatient`, a history of forgettings that did not wait to the end.

## 3. Runs

| run | instance | states | shows |
|---|---|---|---|
| `tables` | 2 players, timed rounds and rolls, 2 rounds, 15 command kinds, a timer worker in three transactions, crashes, fair workers | 685,280 | the inductive invariant `TableInOrder`; no timer through a pause, timers and dice match the open window, nothing waits without a waker, but for a window whose fresh timer was marked fired; rounds wait for players present only; closed answers stand; a waiting table stays still; every round of an active table ends |
| `moves` | 3 players, two alike by symmetry, 2 scenes, untimed dice, votes by players and by the plan, getting ready, seats freed, changes of mind | 2,260,626 | half against is enough to stay; nobody is missed while voting; types |
| `bus` | 2 processes on PostgreSQL, 4 commands (one asks for a roll), 2 faces, 2 attempts, 2 crashes | 44,860 | `BusInOrder`, settled rolls, refinement of `ExactlyOnce` |
| `combat` | 4 fights of 2 heroes and a foe, two with turn timers, one of these with spirits and a hero who concentrates | 2.0 million | until a roll is left behind a fight never stalls; dice, timers and questions belong to what is in flight; damage after all checks; away heroes are safe; refinement of `TurnOrder`; windows and foes' turns end |
| `lobby` | an organizer and 2 users, one of whom applies, sizes 1 and 2, both visibilities, 2 heroes, tables that wait, rest and are paused, one fault, fairness | 548,586 | no seat and no hero twice; both documents name the same players; queued joins are made; started games begin or wait for a continue |
| `delivery` | 2 campaigns, 3 rows, 2 attempts, a repair, a crash, fairness | 456,812 | order of results; done means seen; results arrive although another channel is broken |
| `panel` | 2 messages, 2 calls at a time, two edits in one tick, fairness | 240,289 | one writer at a time, nothing stranded, no starving batch, every call ends, the queue message catches up |
| `playback` | a guild, 2 listeners, 2 tracks, one queued, one reroll, one retry, leaving when alone | 1.9 million | votes stay with their track and rerolls within the limit; lyrics settle; timers never end a session in use |
| `chat` | 4 turns of 2 people in 2 channels, bounds 1, a forgetting, a stop | 3.4 million | the books balance, questions are kept, nobody is stuck and no turn that may start waits, what is forgotten stays forgotten |
| `claim_death_save`, `claim_end`, `claim_reserve` | a fight with turn timers and spirits; a small lobby; the same chat without forgetting | - | three sentences of the repository the code does not keep (section 6) |

### Bounds, and why they are enough

* **Tables.** `MaxRounds = 2`: a handler sees the current round and the one that
  follows, and no state older than the last round is kept; the second round shows
  what the first left behind, and `AwayAfterMisses = 2` is reached. Two players
  are enough for "the last one to answer", "one left" and "nobody left", for a seat
  that is freed and taken again, and for a timer armed again while the worker has
  it: that takes one who pauses and continues. Three are for a vote: one against two, and a tie when one
  of them leaves. In `moves` two of the three are alike, the organizer is not.
* **Bus.** Two processes are the shutdown overlap the store is built for, two
  crashes let one fall on each side of a commit and one on the recovery,
  `MaxAttempts = 2` (5 in the code) reaches "try again" and "given up".
* **Combat.** Two heroes and a foe: an action of one hero waits for the other's
  window, one hero stands while the other is down, a move has one striker on
  either side. The four fights have between them every trait. The fourth has turn
  timers, a foe with spirits and a hero who concentrates, so both ways to leave a roll
  behind are met; to keep it small its table is `steady`: nobody leaves and nobody
  pauses (a bound of the instance; the theorems are about any fight).
* **Lobby.** One seat too few for those who want it, one fault: the hazards are
  one operation cut off and what everybody does after it. Game timers only
  shorten the life of a fight and are off (`Timed = FALSE`).
* **Delivery.** Two rows of one campaign around one of the other: order within,
  independence across. The first repair and the first crash each fall anywhere.
* **Panel.** The queue message with priority and the lyrics message with a floor
  are the two kinds; one call holds the writes while another waits. A budget of
  two edits in one tick is reached at once, and may have one free; the debounce, the longest wait and
  the tick are one tick, so each may fall before or after the others.
* **Playback.** Two tracks are this one and another; one queued track is full and
  its removal is empty. Two listeners are two rerolls at once, and with a limit of
  one the second must fail. One retry (two in the code) is a first answer and a
  last one. `EmptyChannelAction` "leave" ends the session; "pause" only pauses.
  Listeners and tracks are symmetric: no invariant tells one from another.
* **Chat.** Bounds of one are full with one waiting turn; two questions of one
  person in two channels are what a serial queue per person is for; the
  opportunities are what may be shed.

`CHECK_DEADLOCK FALSE` stands where the system really stops: a table at
`MaxRounds` or whose players all left, a chat in which every turn was taken.
Deadlock is checked in the other runs; an ended fight may stutter.

### Fairness, and why the code justifies it

* `Exploration`: the runtime polls for ever, each worker's run ends, a model call
  answers or times out, a pending timer is due some day: weak fairness of every
  kind of background step. Users, crashes and the organizer's retries owe
  nothing, so `TableMovesOn` excepts resting, waiting and a reported failure, and
  a window whose fresh timer the worker marked fired.
* `CommandBus`: promises of a running call resolve (weak fairness of a process'
  call); the store's lock and `KeyedSerialQueue` serve in order, so a worker that
  finds the store free again and again gets it (strong fairness).
* `Combat`: a decision runs to its end (weak); rolls and timers come in through
  the campaign's queue, first come first served, so players cannot keep them out
  (strong). Players owe nothing.
* `Lobby`: an operation under way, the recovery and the listing of queued joins
  go on (weak), the pass' turn in the service's queue comes (strong); guests,
  fights and clocks owe nothing.
* `Delivery`: the worker's steps and the end of a backoff (weak). Channels owe
  nothing: `ResultsArrive` supposes that the row's own channel works in the end.
* `MusicPanel`: calls go on and Discord answers each edit one way or the other
  (weak); timers fire and time passes (strong, since a flood of microtasks
  disables them for moments only; so does the end of a queued drain that finds
  nothing to write, a microtask, or calls could keep the clock still). Users and players owe nothing: `QueueCatchesUp`
  supposes that the disturbance ends.
* `Playback`: none; its properties are invariants, and `LyricsSettle` says that
  something which ends the search is always under way.
* `ChatTurns`: none. `NobodyIsStuck` (unless some turn or extraction can go on,
  nothing is left) and `TurnsOnlyAdvance` (each has at most 21 steps and none is
  taken back) stand for liveness, whose only other condition is that steps which
  can be taken are. `CanGoOn` writes the guards out as a state predicate, so that
  it can be proved about; on the instance of `chat` TLC found it equivalent to
  `ENABLED (TurnStep(t) \/ Extract(t))` in every state.

**Mutants.** Each property has a plausible bug (an operator beside the one it
replaces, marked MUTANT) that makes the same run fail: dice that keep their timers
through a pause, a queue entry removed although somebody lined up behind, a
failing row that does not block its campaign, an extraction that is not tracked.

## 4. Proofs

Each theorem holds for every value of the constants under the assumptions the
modules name on them. The pattern is the same: an invariant is not inductive as it
stands, `Inv` is its strengthening (checked by TLC first), lemmas say what the
operators do to it, one lemma per action shows the step, and the theorem puts
them together.

* **Tables** (`ExplorationProofs`): `TableStaysInOrder`, `TypeCorrect`, `NeverPlaysEmpty`, `TimersBelongToWindows`
  (`TimersInOrder`: none through a pause, none without its window),
  `NobodyGoneIsWaitedFor`. `NoOrphanTimer` alone is not
  inductive: a waiting table must have no timer, a pending check must belong to a
  resolving round, heroes must have one player, a collecting round may sit in a
  waiting table only under a pause. `InOrder` is that strengthening. A decision is
  `Sound` when it is well typed and in order; a `...Sound` lemma per operator of
  the engine, an `...Inv` lemma per action, which commits a sound decision.
  `WaitingTablesStayWhereTheyAre`, `AnswersStandOnceClosed` and `MissesAreReal`
  prove the action properties `NoRoundStartsWhileWaiting`,
  `ClosedRoundKeepsItsAnswers` and `OnlyRealMissesCount`: every operator is
  `Gentle` (a waiting table waits on in its round, closed answers stand, nobody
  misses anything) but a continue and the round's timer, which are treated alone;
  `Lawful` is what all steps share. That a missed answer was owed by somebody at
  the table comes from `InOrder`.
  `WaitsHaveWakers` proves `EveryWaitHasItsWaker` from two parts. `Fits` holds even
  between a handler's steps: the dice in the outbox are exactly the ones rolling,
  no job is of a later round, the opening comes before the first round, no round in
  progress is narrated. `Woken` is what a handler has to leave behind: under an
  active table the timer, job or failure that ends its wait, where a timer counts that
  is in `lost`: between the worker's transactions that is all that can be said, and
  `lost` has only timers that `MarkTimerFired` took from an open window. One `...Awake` lemma
  per operator and per group of actions; `InOrder` lends that a table with a pause
  does not play and that a table in play has somebody present.
  `HalfTheTableStays` proves `TableStaysWhenHalfSaySo`. Between steps
  `VotesFit`: nobody is counted both for staying and for going, and nobody present
  has missed so many rounds as to be marked away. Every operator of the engine is `Fair` to the vote (or `Settled`, where a round
  closes: only the table moves the table), `StepFair` sums up a step, and the
  organizer's word and a change of mind are treated alone. It counts players, so
  `UsersAssumption` has finitely many. The first form of the property was false: it
  counted as an objector a player who changes their mind in the very step that
  settles the vote, which the small instance had not shown; hence three players.
* **Bus** (`CommandBusProofs`), under `Arbitrated` - the store's transactions
  exclude each other, or a command id reaches one process: `BusStaysInOrder`,
  `BusTypeCorrect`, `CommandsNeverRunTwice`, `AnswersAreTrue`,
  `DiceAreNeverRolledAgain`, and the refinement `BusKeepsItsPromise`: a save is
  `Run` of its command, every other step a stutter. Once-only needs that
  `processed` and `saved` name each other and that a command being decided was
  not accepted meanwhile, which is where `Arbitrated` enters; the refinement needs
  that a roll's call has a request, and a request an accepted cause. Under the
  stronger `OneHandler`, a command reaches one process, `RollsSettleAsRecorded`: the
  row a worker has in hand is pending, and it knows whether its dice are recorded
  (`RollsFit`); with two workers at the same row the worker's reading could be stale.
  `RollsNeverWaitInACircle` is the safety half of `RollsAreSettled`: while a request
  is pending its process' worker or calls can go on, or another transaction holds the
  store and can go on itself; a worker that executes has its call in the queue
  (`WorkersWaitForCalls`). `CanDecide` and `CanWork` are state predicates; on the
  instance of the run, with transactions that exclude each other and without, TLC
  found them equivalent to `ENABLED` of the call's and the worker's steps.
* **Combat** (`CombatProofs`): `FightStaysInOrder`, `FightNeverStalls`,
  `DamageWaitsForDice`, and the refinement `FightsImplementTurnOrder`, for every
  fight. A decision is a chain of functions, each
  naming the next in `call`, and `FightInOrder` speaks of the fight between
  decisions only, so it says nothing of what a function in the middle may rely on.
  `InPlace` does: either one function is to run next and the fight is as that
  function finds it (`finishResolution` finds an action in flight whose dice and
  answers are in, `nextOpportunityAttack` a move with strikers left, `endTurn` no
  action at all), or the decision is done and the fight is in one of its waits:
  for dice, for a window, for an offer, for a hero's turn, for the table. One
  lemma per function and per player's, timer's or worker's action shows that it
  leaves the fight in place for what comes next; `StepKeeps` and `NextKeeps` put
  them together. Every conjunct of `FightInOrder`, and `NeverStalls` and
  `DiceBeforeDamage`, is then read off the waits. The refinement maps a step to
  `Advance` where `beginTurn` finds the next place, to `Leave` where somebody falls,
  flees or dies, to `SetOrder` where initiative is complete, and else to a stutter.
  `AwayHeroesStaySafe` needs no hypothesis: of the functions that lower a hero's
  condition only `RecordDeathSave` and `applyDamage` reach "dead", and the latter
  spares who is not at the table.
  Timers and effects may meet in any fight, so `Inv` holds until a roll is left
  behind: `NextKeeps` shows `~astray => Inv` for a step that leaves none,
  `OthersLeaveNothing` that only two decisions do, and no theorem needs a hypothesis on
  the fights. What the first three state ends there too, since in the code it
  ends there (section 6). The refinement does not: a decision that leaves a roll behind
  still ends as `TurnOrder` says, which takes an invariant of its own, `Winds`: it
  knows the function to run next and that the order has not been lost.
* **Delivery** (`LobbyAndDeliveryProofs`): `DeliveryInvariance`, `TablesSeeResultsInOrder`,
  `RowsStayInOrder`. Order needs that whatever a pass may still send has nothing
  unsettled before it but rows of the same pass (`PassInOrder`); that is what
  `blocked` and the order of the query are for. `OtherCampaignsAreUnaffected` reads
  the safety half of `ResultsArrive` off every step: a row leaves the pass to be
  sent, or because its own backoff, an earlier unsettled row *of its own campaign*,
  or the death of the process holds it up. It needs that a campaign the pass leaves
  alone has a row the pass came to and could not settle (`BlockedByOwn`).
* **Lobby** (`LobbyAndDeliveryProofs`): `LobbyInvariance`, `NoSeatTooMany` (nor a
  hero twice), `DocumentsNameTheSamePlayers`. An operation acts on what it looked up earlier, so
  `OpFits` says that it is still so - only requests that run out, the table and a
  fault may move between its steps - and seats, promises *and the seat of the
  operation under way* together fit the game. `StartedGamesHaveAStarter`, the safety
  half of `StartedGamesBegin`, needs that a game made, active and not begun
  is about to begin or be paused, or was cut off and waits for the recovery
  (`BeginsFit`), whoever leaves meanwhile: a table nobody is at waits, and the
  continue that ends this begins the game. It holds up to one fault only, since with two it is false
  (section 6); so the liveness property says that too. `QueuedJoinsAreNeverLeftAlone`
  is the safety half of `QueuedJoinsAreMade`: an operation that has its turn is always
  at a step that can be taken (`CanGoOn`, which TLC found equivalent to `ENABLED` of
  `OperationStep` on the instance of `lobby`), a turn of the pass at a safe break
  takes its user's join up, and the pass's operation ends with the join settled.
* **Queue and panel** (`QueueProofs`, `MusicPanelProofs`): the promises each
  caller waits for form a line per key (`Orderly`: a sequence, its tail in the map,
  each caller waiting for the one before), which entering and leaving keep; so one
  caller has its turn (`OneTurn`), where anybody is lined up somebody has it
  (`SomebodysTurn`), and the next one gets it (`LeftOrderly`). On the
  panel every call is lined up where its step says (`PanelInvariance`), hence
  `PanelStaysInOrder`; `BatchesAreInTime` needs only the coordinator.
  `NothingStaysStranded` proves `NothingIsStranded` from `AttendedInv`: what a
  call awaits is pending or running, whatever is pending has a slot and a queued
  drain, a timer, or a running write whose end drains, and a write runs only while
  the budget has a place for it. `CallsNeverWaitInACircle` and `CallsOnlyAdvance`
  are the safety half of `EveryCallEnds`: whoever is under way has somebody with
  the turn in the queue it waits in who can go on or awaits edits that are being
  worked at, and no call has more than five steps of its own, none of which is
  taken back. They need that no call's step belongs to another kind of call
  (`Sensible`). Where a call `CanGoOn` is written out as a state predicate; on the
  instance of `panel` TLC found it equivalent to `ENABLED` of the call's steps.
  `NoChangeIsForgotten` is that of `QueueCatchesUp`, for a queue message without a
  floor (`QueueIsPlain`): as long as no step failed since the last change, the
  message shows the player or somebody will write it. A call under way catches the
  change as long as it has yet to render, or its write is pending, or is in flight
  and rendered the player as it still is (`Catches`). That stays so because every
  pending or running write is awaited by the one turn that is editing
  (`WritesAwaited`), so a new turn finds nothing of another's; and because the click a
  guess was made for lines up behind it (`GuessesFollowed`). That order is not in
  the promises themselves, so `Ahead` says it as a closed part of the line,
  one that waits for nobody outside of it: whoever has the turn has none such before
  it (`FirstAhead`), and every step of the queue keeps it (`ClosedStays`).
* **Playback** (`PlaybackProofs`): `PlaybackInvariance`, `VotesStayInOrder`,
  `LyricsAlwaysSettle`, `SessionsEndIdle`. The limit of rerolls is looked at before
  the search and counted after it, so it needs that one reroll is out at a time and
  that it was within the limit when it began (`RerollsFit`). Lyrics need that what
  is out for the entry is of its track, and that the entry is of the track that
  started (`LyricsFit`); nothing is said of a track between its being current and
  its `trackStart`, because that event puts vote, lyrics and timer right.
* **Chat** (`ChatTurnsProofs`): `ChatInvariance`, `ForgettingIsComplete`. The
  extraction has its place behind its turn in the same line, so it cannot end, and
  the wait for it cannot, before the turn; a turn that is stale does not reply. Here
  it is enough that the scheduler only starts or drops turns that wait.
  `BooksAlwaysBalance` and `NoQuestionIsShed` open it: `Agrees` says that
  counter, queues, order and running channels name the same turns, and
  each push, splice, removal and start keeps it. `pump()` is a loop, in the
  model a recursive function of the number of rounds; one round keeps what a handler
  owes (`DispatchedKept`), that the function exists is a lemma (`Recursion`), and the
  least number of rounds after which something is wrong would have one before it.
  `NobodyIsEverStuck` adds to it that the pump goes on until nobody may start: each
  round takes a turn off the queue, so its rounds are no more than the counter,
  and what is left waits in channels with a turn running (`AllBusy`). Then
  (`ServiceInv`) an extraction whose turn is over has been told; so whoever is
  lined up waits, by `SomebodysTurn`, for one who can go on, a turn at work or an
  extraction that was told, and a channel that is busy has a turn which is either
  on its way or lined up. `TurnsOnlyAdvance` measures a turn by its stage and those
  of its extraction; `PeopleAreServedInTurn` is `OneTurn` read off `ChatInvariance`.

**Only model-checked.** Liveness under fairness (`TableMovesOn`, `RollsAreSettled`,
`WindowsClose`, `FoesPlayTheirTurns`, `QueuedJoinsAreMade`, `StartedGamesBegin`,
`ResultsArrive`, `EveryCallEnds`, `QueueCatchesUp`) is beyond the prover; the
core of the safety half of each is proved, that whoever waits has somebody who can
go on, or is passed over only for a reason the property allows:
`WaitsHaveWakers` for the first, `RollsNeverWaitInACircle`, `FightStaysInOrder` with
`FightNeverStalls` for the two of combat, `QueuedJoinsAreNeverLeftAlone`,
`StartedGamesHaveAStarter`, `OtherCampaignsAreUnaffected`, `CallsNeverWaitInACircle`
and `NoChangeIsForgotten`. That these steps are then taken, and that there are only
finitely many of them before the goal, stays with TLC. Every other property of the
passing runs is a theorem.

## 5. What is not modelled

* **Campaigns**: shops, dialogue, travel, magic and gear between fights; story
  effects other than a scene change; the world clock and rest votes; reminders and
  images; proxies and renarration; what a rest restores; content and dice. In
  `Exploration` several plan attempts within one job are one draft per attempt, and
  a job completes with its command: that running it twice is harmless is what
  `CommandBus` shows for rolls.
* **Lobby**: house rules, saved characters, listings; which of the players is away
  (only whether anybody is present), rests of a game that has begun.
* **Music**: of playback what section 2 names; the vote message, moving and
  sweeping the panel; playback and panel together.
* **Chat**: what section 2 names; the memory engine's summaries and checkpoints.
* **The rest**: user reminders and birthdays (two persistence calls around a
  send), guild setup (a rollback of Discord objects), polls, role menus; access,
  links, texts, logging, adapters, views, scripts and the generated content, most
  of the repository's lines, which keep no state with a protocol.

## 6. Findings

* `claim_death_save`: a fight has turn timers, and spirits down a hero as their turn
  starts. The death save is asked for, the timer keeps running, and when it expires
  the turn ends under the save: `turn-flow.ts:296` looks at the action, the move and
  the triggers only, although "A hero whose death save is still to be rolled keeps
  their turn until it is" (`combat-flow.ts:188`). The save then ends whoever's turn
  it is, also in the middle of an action whose dice now belong to nothing.
* `claim_end`: `end` pauses the engine with the command id `end:<campaignId>`, the
  same for every end. A game that was ended, reopened, continued and ended again
  stays running, since the bus takes the second for a repetition of the first,
  although "the engine is paused so no timer or DM job runs on it"
  (`campaign-lobby-service.ts:657`).
* `claim_reserve`: a turn awaits `canContinue` before it reserves the place of its
  extraction; a follow-up of the same person may line up in between, which
  "closes that window entirely" (`chat-conversation-service.ts:831`) denies.

### Met, and not given a run

Disagreements and surprises seen while modelling, each as the model has it.

* *Tables.* A short rest queued before a pause makes the organizer's continue
  refuse (`rounds.ts:27` against `pause.ts:8`). A continue between the end of a
  round and its narration opens the next round and the narration is dropped
  (`members.ts:208`). Retiring a player with a check pending leaves the check, and
  with untimed rolls the round waits (`members.ts:108`, `checks.ts:37`). After a
  quiet round the next one opens past a queued rest. A timer that is due is loaded, the
  table is paused (the timer is cancelled and its command finds the table stopped) and
  continued (it is armed again under its id); then the worker marks it fired, by its
  id and because it is pending (`timer-worker.ts:30`, `sqlite-campaign-store.ts:273`,
  `postgres-campaign-store.ts:222`). A collecting round or an open check of an active
  table has no timer then, and unless a player acts nothing ends it.
  `EveryWaitHasItsWaker` and `TableMovesOn` except exactly this (`lost`). Retiring the last player who
  was not ready does not open the first round (`members.ts:112`).
* *Bus.* On PostgreSQL the lookup of a command id and the load are two READ
  COMMITTED statements, so one id in two processes may run twice
  (`campaign-command-bus.ts:60` against `:17`); `Arbitrated` excludes it.
* *Combat.* A pause leaves the timers of windows (`pause.ts:8`). Actions may begin
  at a table that is stopped. A hero who is away still makes a death save that was
  asked for before, and may die of it. A concentration save asked for by a
  start-of-turn effect belongs to no action: it is refused as long as none is in flight
  (`resolution.ts:160`), tried again and in the end given up. It stays on the list of
  pending rolls, and the next action that applies its effects waits for it (`:513`). A timer armed again
  under its id while the worker holds it may be marked fired, so a turn or an offer
  has none. A late window timer may close a newer window of the same action.
* *Lobby.* The pass over queued joins looks at a game's life when it lists, so a
  hero may join an archived game. A crash between archiving and pausing leaves the
  engine running. A crash while a seat is freed leaves it reserved. A game that was
  cut off in its start, ended, cut off again in the end and reopened is played,
  neither begun nor paused, and nothing begins it: the recovery goes over games
  being played and leaves an archived one alone. The run has one fault, so it does
  not meet this; `StartedGamesBegin` excepts it.
* *Delivery.* A repaired row comes after later ones, as the exception in
  `ResultsInOrder` says.
* *Panel.* Unregistering the last slot forgets the channel's spent budget
  (`channel-edit-scheduler.ts:138`).
* *Playback.* An answer or a retry of a lyrics lookup that comes while nothing
  plays, or before the next track starts, is dropped; if the same track is played next, its entry is taken for
  current (`lavalink-player-gateway.ts:296`) and the panel says "Looking for
  lyrics..." for good, which `LyricsSettle` excepts. Switching 24/7 mode on leaves
  the timer of the empty channel (`:1100`, against `docs/user-guide.md:113`). A
  `/play` that finds nothing ends an idle player, even in 24/7 mode (`:562`). A
  search that throws, or a queue cleared while paused, leaves an idle player
  without a timer, so the session stays; on the other side the idle timer may fire
  while a search of `/play` is out. A skip's lookup that comes after its track ended
  skips the one that has just begun; a skip that finds nothing has closed the vote,
  and the track has none until the next change. A reroll begun before the vote was
  locked changes it after. A player paused because nobody listened and resumed by
  hand keeps `autoPaused`, so the next listener resumes a later pause.
* *Chat.* Where no durable memory is written nothing tracks a turn, so forgetting
  may finish before a turn in flight keeps its exchange. A turn that waits in the
  scheduler takes the version after the forgetting.

## 7. Plan

Done, in this order: tables, bus and their proofs; the panel with its three
helpers; combat; the lobby, with its liveness in one run; delivery; chat; the
proofs of the last five; playback and its proofs; the proofs of combat, of the
scheduler's books, of the pending writes, of the vote, and of who can go on in chat, panel, bus, lobby and delivery.
Next:

1. `Playback`: repeat modes; its composition with `MusicPanel`.
2. The other protocols beside the round (travel, dialogue, gear), each a request, a
   roll and a narration, as actions of `Exploration`.
3. `MemoryCheckpoints`, `Reminders`, `GuildSetup`: a crash between two writes.
