----------------------------- MODULE MusicPanel -----------------------------
(***************************************************************************)
(* control-panel/control-channel-service.ts: the music panel of one guild. *)
(* Player events, button clicks, lyric lines and a progress tick all want  *)
(* the panel's messages rendered; a debounce (PanelRefresh), two serial    *)
(* queues (KeyedSerialQueue) and the channel's edit budget (ChannelEdits)  *)
(* stand between them and Discord.                                         *)
(***************************************************************************)
EXTENDS Integers, Sequences, FiniteSets

CONSTANTS Messages,   \* the messages of the panel, among "queue", "lyrics", "nowPlaying"
          Jobs,       \* at most this many calls under way: 1..n
          Priority, MaxEdits, Window,     \* see ChannelEdits
          Debounce, MaxWait,              \* see PanelRefresh
          Floor,      \* [Messages -> Nat]: least time between two edits of a message
          Interval,   \* the progress tick (masterPanelRefreshIntervalMs)
          None, Out

ASSUME JobsAssumption ==
    /\ None \notin Jobs /\ Out \notin Jobs /\ None # Out
    /\ None \notin {"actions", "writes"} /\ None \notin Messages
ASSUME EditsAssumption ==
    /\ MaxEdits \in Nat \ {0} /\ Window \in Nat \ {0} /\ Priority \in [Messages -> Nat]
ASSUME TimesAssumption ==
    /\ Debounce \in Nat /\ MaxWait \in Nat /\ Floor \in [Messages -> Nat] /\ Interval \in Nat

VARIABLES
    player,    \* "playing" a track, or "still": idle or paused
    joined,    \* the bot is a member of the guild
    shown,     \* the messages that show the player as it is
    reading,   \* the write in flight rendered the player as it still is
    sched,     \* the guild's GuildRefreshScheduler
    lines,     \* guildLocks ("actions") and panelWriteQueue ("writes")
    jobs,      \* the calls under way
    edits,     \* the control channel in the edit scheduler
    floor,     \* time until each message may be edited again
    tick,      \* time until the progress tick, or NoTimer
    missed     \* history: a step failed, and nobody asked for a refresh since

vars == <<player, joined, shown, reading, missed, sched, lines, jobs, edits, floor, tick>>

Queue == INSTANCE KeyedSerialQueue WITH Callers <- Jobs, Keys <- {"actions", "writes"}
Edits == INSTANCE ChannelEdits WITH Slots <- Messages
Refresh == INSTANCE PanelRefresh

NoTimer == -1
Playing == {"still", "playing"}

(***************************************************************************)
(* A call under way.  at: "actions" waiting for its action turn, "acting"  *)
(* in it, "writes" waiting for its write turn, "hinting" its optimistic    *)
(* edit is on its way, "editing" the turn awaits the writes of `todo`.     *)
(* mine: the scheduler that started this refresh is still the guild's.     *)
(***************************************************************************)
NoJob == [kind |-> "none", at |-> "none", todo |-> {}, mine |-> FALSE]
JobRecords ==
    [kind : {"none", "refresh", "tick", "lyrics", "click", "hint"},
     at : {"none", "ack", "actions", "acting", "writes", "hinting", "editing"},
     todo : SUBSET Messages, mine : BOOLEAN]

Free == {j \in Jobs : jobs[j].kind = "none"}
NewJob == CHOOSE j \in Free : TRUE

TypeOK ==
    /\ player \in Playing /\ joined \in BOOLEAN
    /\ shown \subseteq Messages /\ reading \in BOOLEAN
    /\ sched \in Refresh!Schedulers
    /\ lines \in Queue!Lines
    /\ jobs \in [Jobs -> JobRecords]
    /\ edits \in Edits!EditStates
    /\ floor \in [Messages -> Nat]
    /\ tick \in {NoTimer} \cup 0..Interval
    /\ missed \in BOOLEAN

Init ==
    /\ player = "still" /\ joined = TRUE
    /\ shown = Messages /\ reading = FALSE
    /\ sched = Refresh!NewScheduler
    /\ lines = Queue!NobodyInLine
    /\ jobs = [j \in Jobs |-> NoJob]
    /\ edits = Edits!NoEdits
    /\ floor = [m \in Messages |-> 0]
    /\ tick = NoTimer
    /\ missed = FALSE

-----------------------------------------------------------------------------
(* The player *)

\* The player becomes p: no message shows it any more, nor does what is being sent.
PlayerIs(p) ==
    /\ player' = p
    /\ shown' = {}
    /\ reading' = FALSE
    /\ missed' = FALSE

PlayerStays == UNCHANGED <<player, shown, reading>>

\* The gateway publishes a state change, and the panel asks for a refresh.
PlayerEvent(p) ==
    /\ PlayerIs(p)
    /\ sched' = Refresh!Requested(sched, FALSE)
    /\ UNCHANGED <<joined, lines, jobs, edits, floor, tick>>

\* settings-update-service: the language, the idle image or the progress bar changed: refresh at once.
SettingsChanged ==
    /\ PlayerIs(player)
    /\ sched' = Refresh!Requested(sched, TRUE)
    /\ UNCHANGED <<joined, lines, jobs, edits, floor, tick>>

\* lyrics_loaded: the next line is due, and only the lyrics message shows it.
LyricLine ==
    /\ "lyrics" \in Messages /\ player = "playing" /\ Free # {}
    /\ shown' = shown \ {"lyrics"}
    /\ reading' = (reading /\ edits.running # "lyrics")
    /\ jobs' = [jobs EXCEPT ![NewJob] = [NoJob EXCEPT !.kind = "lyrics", !.at = "writes"]]
    /\ lines' = Queue!Joined(lines, "writes", NewJob)
    /\ UNCHANGED <<missed, player, joined, sched, edits, floor, tick>>

-----------------------------------------------------------------------------
(* Calls: taking turns *)

\* resetProgressRefreshTimer: only a running track needs a tick.
ResetTick == tick' = IF player' = "playing" THEN Interval ELSE NoTimer

LineUp(j, queue) == lines' = Queue!Joined(lines, queue, j)

\* The job leaves its queue and lines up in the next one.
MoveOn(j, queue) == lines' = Queue!Joined(Queue!Left(lines, j), queue, j)

\* The call ends; if it was the scheduler's refresh, a rerun may begin.
EndJob(j) ==
    /\ lines' = Queue!Left(lines, j)
    /\ jobs' = [jobs EXCEPT ![j] = NoJob]

MyTurn(j, at) == jobs[j].at = at /\ Queue!HasTurn(lines, j)

-----------------------------------------------------------------------------
(* Button clicks *)

\* handleButton, the fast path: nobody is queued, the answer to the click
\* shows the guessed state, in a write turn of its own.
ClickFast ==
    /\ Free # {}
    /\ ~Queue!isBusy(lines, "actions") /\ ~Queue!isBusy(lines, "writes")
    /\ jobs' = [jobs EXCEPT ![NewJob] = [NoJob EXCEPT !.kind = "click", !.at = "ack"]]
    /\ LineUp(NewJob, "writes")
    /\ PlayerStays
    /\ UNCHANGED <<missed, joined, sched, edits, floor, tick>>

\* The guess is shown, or the click's answer failed; the click goes on
\* through the action queue and takes the next render upon itself.
Acknowledged(j) ==
    /\ MyTurn(j, "ack")
    /\ \E ok \in BOOLEAN : shown' = IF ok THEN shown \ {"queue"} ELSE shown
    /\ jobs' = [jobs EXCEPT ![j].at = "actions"]
    /\ MoveOn(j, "actions")
    /\ tick' = NoTimer
    /\ UNCHANGED <<missed, player, joined, reading, sched, edits, floor>>

\* The slow path: the click is only acknowledged.
ClickSlow ==
    /\ Free # {}
    /\ jobs' = [jobs EXCEPT ![NewJob] = [NoJob EXCEPT !.kind = "click", !.at = "actions"]]
    /\ LineUp(NewJob, "actions")
    /\ tick' = NoTimer
    /\ PlayerStays
    /\ UNCHANGED <<missed, joined, sched, edits, floor>>

\* In its action turn the click may send a guess of its own, which it does
\* not wait for, and then executes.
BeginAction(j) ==
    /\ MyTurn(j, "actions") /\ jobs[j].kind = "click"
    /\ \/ /\ Free # {}
          /\ jobs' = [jobs EXCEPT ![j].at = "acting",
                                  ![NewJob] = [NoJob EXCEPT !.kind = "hint", !.at = "writes"]]
          /\ LineUp(NewJob, "writes")
       \/ /\ jobs' = [jobs EXCEPT ![j].at = "acting"]
          /\ UNCHANGED lines
    /\ PlayerStays
    /\ UNCHANGED <<missed, joined, sched, edits, floor, tick>>

\* control.execute, or a stale player destroyed, or a failure: the panel is
\* written whatever came of it.
EndAction(j) ==
    /\ jobs[j].at = "acting"
    /\ \/ PlayerStays /\ UNCHANGED <<sched, missed>>
       \/ \E p \in Playing : PlayerIs(p) /\ sched' = Refresh!Requested(sched, FALSE)
    /\ jobs' = [jobs EXCEPT ![j].at = "writes"]
    /\ MoveOn(j, "writes")
    /\ UNCHANGED <<joined, edits, floor, tick>>

\* The guess leaves for Discord in its write turn ...
SendHint(j) ==
    /\ MyTurn(j, "writes") /\ jobs[j].kind = "hint"
    /\ jobs' = [jobs EXCEPT ![j].at = "hinting"]
    /\ PlayerStays
    /\ UNCHANGED <<missed, joined, sched, lines, edits, floor, tick>>

\* ... and arrives, or fails.
HintArrives(j) ==
    /\ jobs[j].at = "hinting"
    /\ \E ok \in BOOLEAN : shown' = IF ok THEN shown \ {"queue"} ELSE shown
    /\ EndJob(j)
    /\ UNCHANGED <<missed, player, joined, reading, sched, edits, floor, tick>>
-----------------------------------------------------------------------------
(* Refreshes and ticks *)

\* The debounce timer fires: performPanelRefresh lines up for the action queue.
FireRefresh ==
    /\ sched.timer = 0 /\ Free # {}
    /\ sched' = Refresh!Fired(sched)
    /\ jobs' = [jobs EXCEPT ![NewJob] =
                   [NoJob EXCEPT !.kind = "refresh", !.at = "actions", !.mine = TRUE]]
    /\ LineUp(NewJob, "actions")
    /\ PlayerStays
    /\ UNCHANGED <<missed, joined, edits, floor, tick>>

\* The progress timer fires: writeTimedPanels.
FireTick ==
    /\ tick = 0 /\ Free # {}
    /\ tick' = NoTimer
    /\ jobs' = [jobs EXCEPT ![NewJob] = [NoJob EXCEPT !.kind = "tick", !.at = "actions"]]
    /\ LineUp(NewJob, "actions")
    /\ PlayerStays
    /\ UNCHANGED <<missed, joined, sched, edits, floor>>

\* reconcileVoiceState: all is well, or a stale player was destroyed.
Reconcile(j) ==
    /\ MyTurn(j, "actions") /\ jobs[j].kind \in {"refresh", "tick"}
    /\ \/ PlayerStays /\ UNCHANGED <<sched, missed>>
       \/ player # "still" /\ PlayerIs("still") /\ sched' = Refresh!Requested(sched, FALSE)
    /\ jobs' = [jobs EXCEPT ![j].at = "writes"]
    /\ MoveOn(j, "writes")
    /\ UNCHANGED <<joined, edits, floor, tick>>

\* The refresh is over for its waiters, and for its scheduler unless that was stopped.
RefreshOver(j) == sched' = IF jobs[j].mine THEN Refresh!RefreshEnded(sched) ELSE sched

\* reconcileVoiceState throws: the refresh fails, the tick arms the next one.
ReconcileFails(j) ==
    /\ MyTurn(j, "actions") /\ jobs[j].kind \in {"refresh", "tick"}
    /\ EndJob(j)
    /\ RefreshOver(j)
    /\ PlayerStays
    /\ IF jobs[j].kind = "tick" THEN ResetTick ELSE UNCHANGED tick
    /\ UNCHANGED <<joined, edits, floor>>
    /\ missed' = TRUE

\* Which messages a write turn renders.
RendersOf(kind) == CASE kind = "tick" -> Messages \ {"queue"}
                     [] kind = "lyrics" -> {"lyrics"}
                     [] OTHER -> Messages

\* The write turn: ensurePanelMessages found the messages, and their edits
\* are scheduled together.
WritePanel(j) ==
    /\ MyTurn(j, "writes") /\ jobs[j].kind # "hint" /\ joined
    /\ jobs' = [jobs EXCEPT ![j].at = "editing", ![j].todo = RendersOf(jobs[j].kind)]
    /\ edits' = Edits!Scheduled(edits, RendersOf(jobs[j].kind))
    /\ PlayerStays
    /\ UNCHANGED <<missed, joined, sched, lines, floor, tick>>

\* The messages could not be fetched or created: nothing is written.
WritePanelFails(j) ==
    /\ MyTurn(j, "writes") /\ jobs[j].kind # "hint"
    /\ EndJob(j)
    /\ RefreshOver(j)
    /\ PlayerStays
    /\ IF jobs[j].kind = "lyrics" THEN UNCHANGED tick ELSE ResetTick
    /\ UNCHANGED <<joined, edits, floor>>
    /\ missed' = TRUE

\* Every write of the turn was answered: the next tick counts from here.
TurnEnds(j) ==
    /\ jobs[j].at = "editing" /\ jobs[j].todo = {}
    /\ EndJob(j)
    /\ RefreshOver(j)
    /\ PlayerStays
    /\ ResetTick
    /\ UNCHANGED <<missed, joined, edits, floor>>

-----------------------------------------------------------------------------
(* The edit scheduler at work *)

\* The write of message m is over for the turn that awaits it.
Answered(m) == jobs' = [j \in Jobs |-> [jobs[j] EXCEPT !.todo = @ \ {m}]]

\* drain() finds the budget spent and waits for the oldest edit to grow old.
DrainWaits ==
    /\ edits.drain /\ Edits!CanWrite(edits) /\ Edits!BudgetSpent(edits)
    /\ edits' = Edits!AwaitBudget(edits)
    /\ PlayerStays
    /\ UNCHANGED <<missed, joined, sched, lines, jobs, floor, tick>>

\* drain() has nothing to do, or something is on its way already.
DrainIdles ==
    /\ edits.drain /\ ~Edits!CanWrite(edits)
    /\ edits' = [edits EXCEPT !.drain = FALSE]
    /\ PlayerStays
    /\ UNCHANGED <<missed, joined, sched, lines, jobs, floor, tick>>

\* The floor of the progress bar and of the lyrics.
TooSoon(m) == floor[m] > 0

\* drain() runs the first pending write, which renders the player as it is:
\* nothing to edit, or too soon after the last edit, and it is over at once.
DrainSkips ==
    /\ edits.drain /\ Edits!CanWrite(edits) /\ ~Edits!BudgetSpent(edits)
    /\ LET m == Edits!nextPending(edits)
       IN  /\ TooSoon(m) \/ m \in shown
           /\ edits' = Edits!WriteEnded(Edits!WriteStarted(edits, m), FALSE)
           /\ Answered(m)
    /\ PlayerStays
    /\ UNCHANGED <<missed, joined, sched, lines, floor, tick>>

\* Otherwise the edit leaves for Discord.
DrainEdits ==
    /\ edits.drain /\ Edits!CanWrite(edits) /\ ~Edits!BudgetSpent(edits)
    /\ LET m == Edits!nextPending(edits)
       IN  /\ ~TooSoon(m) /\ m \notin shown
           /\ edits' = Edits!WriteStarted(edits, m)
           /\ floor' = [floor EXCEPT ![m] = Floor[m]]
    /\ reading' = TRUE
    /\ UNCHANGED <<missed, player, joined, shown, sched, lines, jobs, tick>>

\* The edit arrives.
EditArrives ==
    /\ edits.running # None
    /\ shown' = IF reading THEN shown \cup {edits.running} ELSE shown \ {edits.running}
    /\ edits' = Edits!WriteEnded(edits, TRUE)
    /\ Answered(edits.running)
    /\ reading' = FALSE
    /\ UNCHANGED <<missed, player, joined, sched, lines, floor, tick>>

\* The edit fails: the error is logged, and it counts all the same.
EditFails ==
    /\ edits.running # None
    /\ edits' = Edits!WriteEnded(edits, TRUE)
    /\ Answered(edits.running)
    /\ reading' = FALSE
    /\ UNCHANGED <<player, joined, shown, sched, lines, floor, tick>>
    /\ missed' = TRUE

BudgetTimer ==
    /\ edits.timer = 0
    /\ edits' = Edits!BudgetTimerFired(edits)
    /\ PlayerStays
    /\ UNCHANGED <<missed, joined, sched, lines, jobs, floor, tick>>

-----------------------------------------------------------------------------
(* The guild and the clock *)

\* MUTANT of GuildRemoved: nobody tells the turn that its writes were dropped.
GuildRemovedSilently ==
    /\ joined
    /\ joined' = FALSE
    /\ tick' = NoTimer
    /\ floor' = [m \in Messages |-> 0]
    /\ edits' = Edits!Unregistered(edits)
    /\ sched' = Refresh!NewScheduler
    /\ jobs' = [j \in Jobs |-> [jobs[j] EXCEPT !.mine = FALSE]]
    /\ PlayerStays
    /\ UNCHANGED lines
    /\ missed' = TRUE

\* handleGuildRemoved: pending writes are dropped and answered, the slots and
\* the scheduler go; a refresh in flight goes on without them.
GuildRemoved ==
    /\ joined
    /\ joined' = FALSE
    /\ tick' = NoTimer
    /\ floor' = [m \in Messages |-> 0]
    /\ edits' = Edits!Unregistered(edits)
    /\ sched' = Refresh!NewScheduler
    /\ jobs' = [j \in Jobs |-> [jobs[j] EXCEPT !.todo = @ \cap {edits.running}, !.mine = FALSE]]
    /\ PlayerStays
    /\ UNCHANGED lines
    /\ missed' = TRUE

\* The bot is invited back.  Nothing refreshes the panel until somebody does something.
GuildRejoined ==
    /\ ~joined
    /\ joined' = TRUE
    /\ PlayerStays
    /\ UNCHANGED <<missed, sched, lines, jobs, edits, floor, tick>>

\* A tick of the clock: no timer that could fire is passed over.
TimePasses ==
    /\ edits.timer # 0 /\ ~edits.drain
    /\ Free # {} => sched.timer # 0 /\ tick # 0
    /\ edits' = Edits!Older(edits)
    /\ sched' = Refresh!Waited(sched)
    /\ floor' = [m \in Messages |-> IF floor[m] > 0 THEN floor[m] - 1 ELSE 0]
    /\ tick' = IF tick > 0 THEN tick - 1 ELSE tick
    /\ PlayerStays
    /\ UNCHANGED <<missed, joined, lines, jobs>>

-----------------------------------------------------------------------------
JobSteps(j) ==
    \/ Acknowledged(j) \/ BeginAction(j) \/ EndAction(j) \/ SendHint(j) \/ HintArrives(j)
    \/ Reconcile(j) \/ ReconcileFails(j) \/ WritePanel(j) \/ WritePanelFails(j) \/ TurnEnds(j)

EditSteps == \/ DrainWaits \/ DrainIdles \/ DrainSkips \/ DrainEdits
             \/ EditArrives \/ EditFails \/ BudgetTimer

Timers == FireRefresh \/ FireTick

Next == \/ \E p \in Playing : PlayerEvent(p)
        \/ SettingsChanged \/ LyricLine \/ ClickFast \/ ClickSlow
        \/ \E j \in Jobs : JobSteps(j)
        \/ Timers \/ EditSteps
        \/ GuildRemoved \/ GuildRejoined \/ TimePasses

Spec == Init /\ [][Next]_vars

\* Calls go on, Discord answers every edit one way or the other, timers fire
\* and time passes; a queued drain with nothing to do comes to an end (it is a
\* microtask), so that calls cannot keep the clock still.  Users, players and
\* guilds owe nothing.
Fairness == /\ \A j \in Jobs : WF_vars(JobSteps(j))
            /\ WF_vars(EditSteps) /\ SF_vars(DrainIdles)
            /\ SF_vars(FireRefresh) /\ SF_vars(FireTick) /\ SF_vars(TimePasses)

FairSpec == Spec /\ Fairness

-----------------------------------------------------------------------------
(* Properties *)

\* One write turn at a time: a click's guess and a scheduled edit never fly
\* to the queue message together, where the older could land last, and no
\* turn renders while another one still waits for its edits.
OneWriterAtATime ==
    Cardinality({j \in Jobs : \/ jobs[j].at \in {"hinting", "editing"}
                              \/ jobs[j].at = "ack" /\ Queue!HasTurn(lines, j)}) <= 1

\* Nobody who lined up is forgotten: whoever waits for a turn waits for a
\* call that is itself still lined up in the same queue.
WaitsForSomebody ==
    \A j \in Jobs : lines.prev[j] \in Jobs =>
        lines.prev[lines.prev[j]] # Out /\ lines.key[lines.prev[j]] = lines.key[j]

\* A request for a refresh is never lost: while somebody awaits a batch its
\* timer is set, and while somebody awaits the batch after it a refresh of
\* this scheduler is in flight that will begin it.
EveryRequestHasItsRefresh ==
    /\ sched.waiters => sched.timer # NoTimer
    /\ sched.rerun # "no" => sched.running
    /\ sched.running => \E j \in Jobs : jobs[j].kind = "refresh" /\ jobs[j].mine

\* PanelInOrder: the write turns of a guild's messages (control-channel-service.ts)
\* exclude each other, the queues behind them lose nobody and the coordinator
\* loses no request, whatever was cancelled, dropped or stopped meanwhile.
PanelInOrder == OneWriterAtATime /\ WaitsForSomebody /\ EveryRequestHasItsRefresh

\* NoBatchStarves: however often refreshes are asked for, a batch is put off no further
\* than MaxWait (panel-refresh-coordinator.ts).
NoBatchStarves == sched.timer # NoTimer => sched.age + sched.timer <= MaxWait

\* NothingIsStranded: the edit scheduler (channel-edit-scheduler.ts) never has a
\* pending write and no drain, timer or running write that will come to it, and a
\* turn awaits only writes that are pending or running; and a write runs only while
\* fewer edits than the window allows still count.
NothingIsStranded ==
    /\ TypeOK
    /\ edits.pending # {} => edits.drain \/ edits.timer # NoTimer \/ edits.running # None
    /\ \A j \in Jobs : jobs[j].todo \subseteq edits.pending \cup {edits.running}
    /\ edits.running # None => ~Edits!BudgetSpent(edits)

\* Every call ends: the queues never block, whatever fails or is dropped.
EveryCallEnds == \A j \in Jobs : jobs[j].kind # "none" ~> jobs[j].kind = "none"

\* What keeps the panel from catching up: a player or settings that change,
\* a click.
Disturbance ==
    \/ player' # player \/ SettingsChanged
    \/ ClickFast \/ ClickSlow
    \/ \E p \in Playing : PlayerEvent(p)
    \/ \E j \in Jobs : EndAction(j)

Undisturbed == <>[][~Disturbance]_vars

\* Once nothing disturbs the panel, no step fails any more and the bot stays,
\* its queue message and buttons show the player as it is, for good, whatever
\* was in flight, guessed, dropped or put off.
QueueCatchesUp == Undisturbed /\ <>[](joined /\ ~missed) => <>[]("queue" \in shown)

=============================================================================
