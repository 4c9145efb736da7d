---------------------------- MODULE Exploration ----------------------------
(***************************************************************************)
(* A running campaign between fights: the users' commands, the timers, the *)
(* dice and the DM's model calls, each committed by the command bus in one *)
(* transaction with the timers and the outbox it asks for.                 *)
(*                                                                         *)
(* The background workers of one process take turns (CampaignRuntime.work),*)
(* so while the Planner's model call is out only users can act: `draft` is *)
(* that call, made from the state as it was loaded.  In the same way only  *)
(* users act between the three transactions of the TimerWorker: the load   *)
(* of the due rows (`due`), each row's command, and marking the row fired  *)
(* (`handled`).  A crash loses the draft and the worker's list.            *)
(***************************************************************************)
EXTENDS CampaignEngine

CONSTANTS
  Seats,       \* the seat each starting player took: [Users -> Heroes \cup {NoHero}]
  StartScene,  \* bible.startScene
  Commands,    \* the kinds of command users may issue (a slice of them all)
  MaxRounds    \* bound: no round after this one opens

ASSUME SeatsAssumption ==
  /\ Seats \in [Users -> Heroes \cup {NoHero}]
  /\ \E u \in Users : Seats[u] # NoHero
  /\ \A u, v \in Users : Seats[u] = Seats[v] /\ Seats[u] # NoHero => u = v
  /\ StartScene \in Scenes
ASSUME BoundAssumption == MaxRounds \in Nat

VARIABLES
  campaign,  \* the stored CampaignState
  timers,    \* timer rows that are pending, their command not run yet
  outbox,    \* outbox rows that are pending; equal ones count once (the second does nothing)
  draft,     \* the plan the model is writing, from the state it was shown
  due,       \* the rows the TimerWorker found due and has still to handle
  handled,   \* the row whose command ran and that it has still to mark fired
  lost       \* history: timers of open windows marked fired though armed afresh

hand == <<draft, due, handled>>  \* what the worker at work holds in memory
vars == <<campaign, timers, outbox, hand, lost>>

Drafts == [round : Nat, acting : SUBSET Heroes, called : SUBSET Heroes, move : PlannedMoves]
NoDraft == [round |-> 0, acting |-> {}, called |-> {}, move |-> NoPlannedMove]

Acting(c) == {h \in Heroes : c.submissions[h] = "action"}

Stored == [state |-> campaign, timers |-> timers, outbox |-> outbox]

\* A window that closes, or is armed again, has no lost timer any more.
StillLost(d) == (lost \ d.timers) \cap HeldTimers(d.state)

\* The command bus saves the decision: state, timers and outbox together.
Commit(d) ==
  /\ d.state.lastRound <= MaxRounds
  /\ campaign' = d.state
  /\ timers' = d.timers
  /\ outbox' = d.outbox
  /\ lost' = StillLost(d)

\* A pause stops every user command but continue and pauseCampaign (decide).
UserMay(command) == command \in Commands /\ campaign.pausedBy = "nobody"

Active == campaign.status = "active"
WorkerIdle == draft = NoDraft /\ due = {} /\ handled = {}

Init ==
  /\ campaign = StartingState(Seats, StartScene)
  /\ timers = {}
  /\ outbox = {}
  /\ draft = NoDraft
  /\ due = {}
  /\ handled = {}
  /\ lost = {}

-----------------------------------------------------------------------------
(* Rounds.                                                                 *)

\* Mutant: an answer is taken as long as the round is in progress.
MayRespondUntilResolved(u, h) ==
  /\ Owns(campaign, u, h)
  /\ u \notin campaign.away
  /\ Active
  /\ campaign.pendingMove.to = NoScene
  /\ h \in campaign.participants

\* roundAcceptingResponse: the player is at the table and may answer now.
MayRespond(u, h) ==
  /\ Owns(campaign, u, h)
  /\ u \notin campaign.away
  /\ Active
  /\ campaign.phase = "collecting"
  /\ campaign.pendingMove.to = NoScene
  /\ h \in campaign.participants

Respond(u, h, submission) ==
  /\ MayRespond(u, h)
  /\ Commit(CloseIfEveryoneResponded(
       [Stored EXCEPT !.state = Responded(@, u, h, submission)]))
  /\ UNCHANGED hand

SubmitAction(u, h) == UserMay("submitAction") /\ Respond(u, h, "action")
Pass(u, h) == UserMay("pass") /\ Respond(u, h, "pass")

CloseRoundByOrganizer ==
  /\ UserMay("closeRound")
  /\ Active
  /\ campaign.phase = "collecting"
  /\ Commit(CloseRound(Stored, FALSE))
  /\ UNCHANGED hand

RequestRoll(u, h) ==
  /\ UserMay("requestRoll")
  /\ Owns(campaign, u, h)
  /\ Active
  /\ campaign.checks[h] = "pending"
  /\ Commit(StartRolls(Stored, {h}, FALSE))
  /\ UNCHANGED hand

RetryPlan ==
  /\ UserMay("retryPlan")
  /\ Active
  /\ campaign.phase = "planning"
  /\ Commit(Request([Stored EXCEPT !.state.plannerFailed = FALSE],
                    JobFor("plan", campaign.lastRound)))
  /\ UNCHANGED hand

-----------------------------------------------------------------------------
(* Members, pause and continue.                                            *)

\* A player for themselves, or the organizer for anyone (checkSelfOrOrganizer).
MarkMemberAway(u, tooSoon) ==
  /\ UserMay("markAway")
  /\ u \in Present(campaign)
  /\ Commit(MarkAway(Stored, u, tooSoon))
  /\ UNCHANGED hand

MarkMemberReturned(u) ==
  /\ UserMay("markReturned")
  /\ u \in campaign.away
  /\ Commit([Stored EXCEPT !.state = MemberReturned(@, u)])
  /\ UNCHANGED hand

Retire(u) ==
  /\ UserMay("retireMember")
  /\ u \in Members(campaign) \ {Organizer}
  /\ Commit(RetireMember(Stored, u))
  /\ UNCHANGED hand

\* Mutant: a hero somebody plays already may be taken.
JoinTakenHero(u, h) ==
  /\ UserMay("joinHero")
  /\ campaign.hero[u] = NoHero
  /\ Commit([Stored EXCEPT !.state.hero[u] = h])
  /\ UNCHANGED hand

\* A free hero joins: nobody's hero is fallen, so none is ever replaced.
JoinHero(u, h) ==
  /\ UserMay("joinHero")
  /\ campaign.hero[u] = NoHero
  /\ \A v \in Users : campaign.hero[v] # h
  /\ Commit([Stored EXCEPT !.state.hero[u] = h])
  /\ UNCHANGED hand

\* Mutant: the rest ends and no round follows.
EndRestOnly(tooSoon) ==
  /\ "continue" \in Commands
  /\ campaign.resting # "none"
  /\ Active
  /\ Commit([Stored EXCEPT !.state.resting = "none"])
  /\ UNCHANGED hand

EndRest(tooSoon) ==
  LET ended == [Stored EXCEPT !.state.resting = "none"] IN
  /\ "continue" \in Commands
  /\ campaign.resting # "none"
  /\ Active
  /\ ~OpenRoundRefused(ended.state, tooSoon)
  /\ Commit(OpenRound(ended, FALSE, tooSoon))
  /\ UNCHANGED hand

\* Why a continue by u, who may lift the pause, would be refused.
ContinueRefused(u, tooSoon) ==
  LET resumed == Resumed(Stored, u).state IN
  \/ Present(resumed) = {}
  \/ /\ resumed.phase = "none" /\ resumed.resting = "none"
     /\ OpenRoundRefused(resumed, tooSoon)

Continue(u, tooSoon, fired) ==
  /\ "continue" \in Commands
  /\ campaign.status = "waitingForPlayers"
  /\ u = Organizer \/ (u \in Members(campaign) /\ campaign.pausedBy = "nobody")
  /\ ~ContinueRefused(u, tooSoon)
  /\ Commit(PickUpHeldWork(Resumed(Stored, u), tooSoon, fired))
  /\ UNCHANGED hand

\* The organizer's pause, or a member's call for safety.
Pause(reason) ==
  /\ "pauseCampaign" \in Commands
  /\ reason = "safety" => Members(campaign) # {}
  /\ campaign.pausedBy = "nobody"
  /\ Commit(PauseCampaign(Stored, reason))
  /\ UNCHANGED hand

-----------------------------------------------------------------------------
(* Scene moves.                                                            *)

MayVote(u) == u \in Present(campaign) /\ campaign.pendingMove.to # NoScene

\* Mutant: every proposal is dated back.
RoundBefore(c) == c.lastRound - 1

\* A player's proposal made during a round is due when that same round closes.
ProposalRound(c) == IF c.phase = "none" THEN c.lastRound ELSE c.lastRound - 1

ProposeMoveByPlayer(u, scene) ==
  /\ UserMay("proposeMove")
  /\ u \in Present(campaign)
  /\ Active
  /\ scene \notin {campaign.scene, campaign.pendingMove.to}
  /\ Commit([Stored EXCEPT !.state = MoveProposed(@, scene, ProposalRound(@))])
  /\ UNCHANGED hand

Objected(c, u) ==
  [c EXCEPT !.pendingMove.objectors = @ \cup {u}, !.pendingMove.supporters = @ \ {u}]

Supported(c, u) ==
  [c EXCEPT !.pendingMove.supporters = @ \cup {u}, !.pendingMove.objectors = @ \ {u}]

\* Pressing Stay; once staying has won, waiting cannot change the answer.
ObjectToMove(u) ==
  LET c == Objected(campaign, u) IN
  /\ UserMay("objectToMove")
  /\ MayVote(u)
  /\ Commit([Stored EXCEPT !.state =
       IF Stays(Present(c), c.pendingMove.objectors) THEN Settle(c, "stay") ELSE c])
  /\ UNCHANGED hand

\* Pressing Go; an explicit Go from everyone present settles at once.
SupportMove(u) ==
  LET c == Supported(campaign, u) IN
  /\ UserMay("supportMove")
  /\ MayVote(u)
  /\ Commit([Stored EXCEPT !.state =
       IF Present(c) \subseteq c.pendingMove.supporters THEN Settle(c, "go") ELSE c])
  /\ UNCHANGED hand

WithdrawMoveSupport(u) ==
  /\ UserMay("withdrawMoveSupport")
  /\ MayVote(u)
  /\ Commit([Stored EXCEPT !.state.pendingMove.supporters = @ \ {u}])
  /\ UNCHANGED hand

WithdrawObjection(u) ==
  /\ UserMay("withdrawObjection")
  /\ MayVote(u)
  /\ Commit([Stored EXCEPT !.state.pendingMove.objectors = @ \ {u}])
  /\ UNCHANGED hand

SettleMoveByOrganizer(outcome) ==
  /\ UserMay("settleMove")
  /\ campaign.pendingMove.to # NoScene
  /\ Commit([Stored EXCEPT !.state = Settle(@, outcome)])
  /\ UNCHANGED hand

-----------------------------------------------------------------------------
(* Rests, and getting ready for the first round.                           *)

\* Taken now when nothing is going on, otherwise kept for the next openRound.
QueueRest(rest) ==
  /\ UserMay("queueRest")
  /\ campaign.resting = "none"
  /\ Commit([Stored EXCEPT !.state =
       IF campaign.phase = "none" THEN RestTaken(@, rest)
       ELSE [@ EXCEPT !.pendingRest = rest]])
  /\ UNCHANGED hand

CancelQueuedRest ==
  /\ UserMay("queueRest")
  /\ campaign.pendingRest # "none"
  /\ Commit([Stored EXCEPT !.state.pendingRest = "none"])
  /\ UNCHANGED hand

TakeRest(rest) ==
  /\ UserMay("takeRest")
  /\ campaign.phase = "none"
  /\ Commit([Stored EXCEPT !.state = RestTaken(@, rest)])
  /\ UNCHANGED hand

MarkReady(u, tooSoon) ==
  /\ UserMay("ready")
  /\ u \in Present(campaign)
  /\ Active
  /\ campaign.opening = "waiting"
  /\ Commit(FinishReadyCheck([Stored EXCEPT !.state.ready = @ \cup {u}], FALSE, tooSoon))
  /\ UNCHANGED hand

BeginPlay(tooSoon) ==
  /\ UserMay("beginPlay")
  /\ Active
  /\ campaign.opening = "waiting"
  /\ Commit(OpenRound([Stored EXCEPT !.state.opening = "done"], FALSE, tooSoon))
  /\ UNCHANGED hand

-----------------------------------------------------------------------------
(* The background work: timers, dice and the DM's model calls.             *)

\* TimerWorker.runOnce begins: the rows that are due are loaded.
LoadTimers ==
  /\ WorkerIdle
  /\ timers # {}
  /\ due' \in SUBSET timers \ {{}}
  /\ UNCHANGED <<campaign, timers, outbox, draft, handled, lost>>

\* The worker takes the next row of its list, which may have been cancelled, or
\* armed afresh, since it was loaded.
TakesUp(t) ==
  /\ t \in due /\ handled = {}
  /\ due' = due \ {t}
  /\ handled' = {t}
  /\ UNCHANGED draft

\* The row's command.  One that finds its window closed changes nothing.
RoundTimerFires(t) ==
  LET fired == [Stored EXCEPT !.timers = @ \ {t}] IN
  /\ t.kind = "round" /\ TakesUp(t)
  /\ Commit(IF Active /\ campaign.phase = "collecting" /\ campaign.lastRound = t.round
            THEN CloseRound(fired, TRUE) ELSE fired)

RollTimerFires(t) ==
  LET fired == [Stored EXCEPT !.timers = @ \ {t}] IN
  /\ t.kind = "roll" /\ TakesUp(t)
  /\ Commit(IF Active /\ campaign.lastRound = t.round /\ campaign.checks[t.hero] = "pending"
            THEN StartRolls(fired, {t.hero}, TRUE) ELSE fired)

\* markTimerFired goes by the row's id and its being pending: a window that was
\* armed afresh under the same id since the command ran loses its timer.
MarkTimerFired ==
  /\ handled # {}
  /\ timers' = timers \ handled
  /\ lost' = lost \cup (timers \cap handled)
  /\ handled' = {}
  /\ UNCHANGED <<campaign, outbox, draft, due>>

\* RollWorker and recordRoll: the check that waits for this roll gets its result.
RunRoll(job, rerolled, fired) ==
  /\ WorkerIdle
  /\ job \in outbox /\ job.kind = "roll"
  /\ job.lucky => ~rerolled
  /\ job.round = campaign.lastRound
  /\ campaign.checks[job.hero] = IF job.lucky THEN "lucky" ELSE "rolling"
  /\ Commit(RecordCheckRoll([Stored EXCEPT !.outbox = @ \ {job}], job.hero, rerolled, fired))
  /\ UNCHANGED hand

\* DmJobWorker.plan begins: the state is loaded and the model is asked.
DraftPlan(job, called, move) ==
  /\ WorkerIdle
  /\ job \in outbox /\ job.kind = "plan"
  /\ campaign.phase = "planning" /\ campaign.lastRound = job.round
  /\ called \subseteq Acting(campaign)
  /\ move.to # campaign.scene
  /\ draft' = [round |-> job.round, acting |-> Acting(campaign),
               called |-> called, move |-> move]
  /\ UNCHANGED <<campaign, timers, outbox, due, handled, lost>>

\* The model answered.  The engine takes a plan only for the round it is
\* planning and only when it plans exactly the heroes acting by now; a stale
\* plan ends the job, an invalid one is tried again from a fresh load.
ApplyDraft(fired) ==
  LET done == [Stored EXCEPT !.outbox = @ \ {JobFor("plan", draft.round)}]
      fresh == Active /\ campaign.phase = "planning" /\ campaign.lastRound = draft.round
  IN /\ draft # NoDraft
     /\ draft' = NoDraft
     /\ UNCHANGED <<due, handled>>
     /\ Commit(IF ~fresh THEN done
               ELSE IF draft.acting # Acting(campaign) THEN Stored
               ELSE ApplyRoundPlan(done, draft.called, draft.move, fired))

\* The last attempt failed, the plain fallback plan too: the round is held.
ReportPlannerFailure ==
  LET done == [Stored EXCEPT !.outbox = @ \ {JobFor("plan", draft.round)}] IN
  /\ draft # NoDraft
  /\ draft' = NoDraft
  /\ UNCHANGED <<due, handled>>
  /\ Commit(IF campaign.phase = "planning" /\ campaign.lastRound = draft.round
            THEN [done EXCEPT !.state.plannerFailed = TRUE] ELSE done)

\* Whether recordNarration still takes the narration of round n.
NarrationWanted(n) ==
  /\ campaign.phase = "none"
  /\ campaign.lastRound = n
  /\ campaign.lastNarrated < n

\* DmJobWorker.narrate and recordNarration: a refusal also ends the job.
RunNarrate(job, tooSoon) ==
  LET done == [Stored EXCEPT !.outbox = @ \ {job}]
      kept == [done EXCEPT !.state.lastNarrated = job.round]
  IN /\ WorkerIdle
     /\ job \in outbox /\ job.kind = "narrate"
     /\ Commit(IF ~NarrationWanted(job.round) THEN done
               ELSE IF Active THEN OpenRound(kept, TRUE, tooSoon)
               ELSE kept)
     /\ UNCHANGED hand

\* CampaignRuntime.recover and the lobby's start: the opening is asked for once.
MayBegin == /\ Active
            /\ campaign.opening = "undefined"
            /\ campaign.lastRound = 0
            /\ campaign.phase = "none"
Begun == Request([Stored EXCEPT !.state.opening = "pending"], JobFor("narrateOpening", 0))

BeginAdventure ==
  /\ MayBegin
  /\ Commit(Begun)
  /\ UNCHANGED hand

RunOpening(job, tooSoon) ==
  LET told == [Stored EXCEPT !.outbox = @ \ {job}, !.state.opening = "waiting",
                             !.state.ready = {}]
  IN /\ WorkerIdle
     /\ job \in outbox /\ job.kind = "narrateOpening"
     /\ campaign.opening = "pending"
     /\ Commit(FinishReadyCheck(told, TRUE, tooSoon))
     /\ UNCHANGED hand

\* The process dies and starts again: the model call and the list of due rows are
\* lost (an unmarked row whose command ran does nothing again), an adventure that
\* had not begun begins, and a table with any timer is paused before a deadline
\* can fire unattended.
CrashAndRecover ==
  LET begun == IF MayBegin THEN Begun ELSE Stored IN
  /\ "crash" \in Commands
  /\ Commit(IF (RoundTimed \/ RollTimed) /\ campaign.pausedBy = "nobody"
            THEN PauseCampaign(begun, "recovery") ELSE begun)
  /\ draft' = NoDraft
  /\ due' = {}
  /\ handled' = {}

-----------------------------------------------------------------------------
UserStep ==
  \/ \E u \in Users, h \in Heroes :
        SubmitAction(u, h) \/ Pass(u, h) \/ RequestRoll(u, h) \/ JoinHero(u, h)
  \/ CloseRoundByOrganizer
  \/ RetryPlan
  \/ \E u \in Users : MarkMemberReturned(u) \/ Retire(u)
  \/ \E u \in Users, tooSoon \in BOOLEAN :
        MarkMemberAway(u, tooSoon) \/ MarkReady(u, tooSoon)
  \/ \E tooSoon \in BOOLEAN : EndRest(tooSoon) \/ BeginPlay(tooSoon)
  \/ \E u \in Users, tooSoon, fired \in BOOLEAN : Continue(u, tooSoon, fired)
  \/ \E reason \in {"organizer", "safety"} : Pause(reason)
  \/ \E u \in Users, scene \in Scenes : ProposeMoveByPlayer(u, scene)
  \/ \E u \in Users : ObjectToMove(u) \/ SupportMove(u)
                      \/ WithdrawMoveSupport(u) \/ WithdrawObjection(u)
  \/ \E outcome \in {"go", "stay"} : SettleMoveByOrganizer(outcome)
  \/ \E rest \in {"short", "long"} : QueueRest(rest) \/ TakeRest(rest)
  \/ CancelQueuedRest

TimerStep == \/ LoadTimers
             \/ \E t \in due : RoundTimerFires(t) \/ RollTimerFires(t)
             \/ MarkTimerFired
RollStep == \E job \in outbox, rerolled, fired \in BOOLEAN : RunRoll(job, rerolled, fired)
DraftStep == \E job \in outbox, called \in SUBSET Heroes, move \in PlannedMoves :
                DraftPlan(job, called, move)
AnswerStep == (\E fired \in BOOLEAN : ApplyDraft(fired)) \/ ReportPlannerFailure
NarrateStep == \E job \in outbox, tooSoon \in BOOLEAN :
                  RunNarrate(job, tooSoon) \/ RunOpening(job, tooSoon)

Next ==
  \/ UserStep
  \/ TimerStep
  \/ RollStep
  \/ DraftStep
  \/ AnswerStep
  \/ NarrateStep
  \/ BeginAdventure
  \/ CrashAndRecover

Spec == Init /\ [][Next]_vars

\* The runtime polls for ever (schedule), each worker's run ends, a model call
\* answers or times out, and a pending timer is due some day.  Users, crashes
\* and the organizer's retries owe nothing.
Fairness ==
  /\ WF_vars(TimerStep)
  /\ WF_vars(RollStep)
  /\ WF_vars(DraftStep)
  /\ WF_vars(AnswerStep)
  /\ WF_vars(NarrateStep)

LiveSpec == Spec /\ Fairness

-----------------------------------------------------------------------------
(* What a table relies on.                                                 *)

\* Everything stored has its shape, and nothing counts past its bound.
TypeOK ==
  /\ campaign \in CampaignStates
  /\ timers \subseteq Timers
  /\ outbox \subseteq Jobs
  /\ draft \in Drafts
  /\ due \subseteq Timers /\ handled \subseteq Timers /\ lost \subseteq Timers
  /\ campaign.lastRound <= MaxRounds

\* The table is in order between any two commands, timers and model calls: the
\* inductive invariant behind the five properties that follow.
TableInOrder == InOrder(campaign, timers)

\* A table plays only while someone is at it (closeRound, markAway and
\* retireMember enter waiting; continue refuses when nobody is present).
ActiveMeansSomeonePresent == Active => Present(campaign) # {}

\* While the table is paused nothing can expire (pauseCampaign, enterWaiting).
PausedMeansStill ==
  campaign.pausedBy # "nobody" => timers = {} /\ campaign.status = "waitingForPlayers"

\* A pending timer always belongs to a window that is still open: whatever
\* ended the window early (answers, the organizer, a leaving player, a click
\* on Roll) also cancelled its timer.
NoOrphanTimer ==
  \A t \in timers :
    /\ t.round = campaign.lastRound
    /\ IF t.kind = "round" THEN campaign.phase = "collecting"
       ELSE campaign.checks[t.hero] = "pending"

\* Timers run for open windows of a table that plays, and for nothing else
\* (pauseCampaign, enterWaiting, closeRound, startRoll, retireMember).
TimersInOrder == PausedMeansStill /\ NoOrphanTimer

\* A round that collects answers still misses one, and every answer it misses
\* is owed by a player who is at the table: nobody who left, was marked away
\* or lost the seat is waited for (slotExcused, closeIfEveryoneResponded).
SlotsWaitOnThePresent ==
  campaign.phase = "collecting" =>
    LET open == {h \in campaign.participants : campaign.submissions[h] = "none"}
    IN open # {} /\ open \subseteq {campaign.hero[u] : u \in Present(campaign)}

\* What an active table's round, opening and windows wait for is under way: a
\* timer, a job in the outbox, or the planner's reported failure.  A window loses
\* its timer in one way only: the worker marks the row fired after its command ran
\* for a paused table and the table, continued meanwhile, had armed it afresh.
WindowsHaveTheirWaker ==
  LET n == campaign.lastRound
      armed == timers \cup lost
  IN
  Active =>
    /\ campaign.phase = "collecting" /\ RoundTimed => RoundTimer(n) \in armed
    /\ campaign.phase = "planning" =>
         JobFor("plan", n) \in outbox \/ campaign.plannerFailed
    /\ campaign.phase = "resolving" =>
         \E h \in Heroes : campaign.checks[h] \notin {"none", "resolved"}
    /\ campaign.phase = "resolving" /\ RollTimed =>
         \A h \in Heroes : campaign.checks[h] = "pending" => RollTimer(n, h) \in armed
    /\ campaign.phase = "none" /\ n > 0 /\ campaign.resting = "none" =>
         JobFor("narrate", n) \in outbox /\ campaign.lastNarrated < n
    /\ campaign.opening = "pending" => JobFor("narrateOpening", 0) \in outbox

\* Dice and checks agree: a roll in the outbox is exactly the one its check is
\* rolling, so the roll worker's result is never refused (recordCheckRoll).
RollJobsMatchChecks ==
  \A h \in Heroes, lucky \in BOOLEAN :
    LET rolling == campaign.checks[h] = IF lucky THEN "lucky" ELSE "rolling"
    IN rolling <=> \E n \in 0..campaign.lastRound :
                      RollJob(n, h, lucky) \in outbox /\ n = campaign.lastRound

\* Whatever a table waits for, dice included, something is under way that will end
\* the wait (pause.ts continueCampaign, checks.ts startRoll, rests.ts).
EveryWaitHasItsWaker == WindowsHaveTheirWaker /\ RollJobsMatchChecks

\* A table that waits stays still until a player continues: a narration, a seat
\* that is freed, a late result open no round (enterWaiting, holdWhenWaiting).
NoRoundStartsWhileWaiting ==
  [][~Active /\ campaign'.status = campaign.status =>
       campaign'.lastRound = campaign.lastRound]_vars

\* What the planner was asked about stays what it was asked about: after the
\* round closed an answer disappears only with its hero's seat.
ClosedRoundKeepsItsAnswers ==
  [][campaign.phase \in {"planning", "resolving"} /\ campaign'.phase = campaign.phase =>
       \A h \in Heroes :
         campaign'.submissions[h] = campaign.submissions[h]
           \/ h \notin {campaign'.hero[u] : u \in Users}]_vars

\* Nobody is counted as having missed a round in which they had answered, or
\* could not answer because the table was voting on a scene move (closeRound).
OnlyRealMissesCount ==
  [][\A u \in Users : campaign'.misses[u] > campaign.misses[u] =>
       /\ campaign.pendingMove.to = NoScene
       /\ campaign.phase = "collecting"
       /\ campaign.submissions[campaign.hero[u]] = "none"
       /\ u \notin campaign.away]_vars

\* The table never goes where half of those present said to stay and stand by it:
\* only the organizer overrides the vote (a move the story forces leaves it open).
TableStaysWhenHalfSaySo ==
  [][LET convinced == {u \in Users : SupportMove(u)}
         against == (campaign.pendingMove.objectors \ convinced) \cap Present(campaign')
     IN \/ campaign'.scene = campaign.scene
        \/ campaign'.pendingMove = campaign.pendingMove
        \/ SettleMoveByOrganizer("go") /\ convinced = {}
        \/ against = {}
        \/ Cardinality(against) * 2 < Cardinality(Present(campaign'))]_vars

\* With timed windows no round holds an active table for ever, whatever its
\* players do or leave undone: the next round opens, or the table rests, waits
\* for players, is paused, or the organizer holds a planner failure -- unless the
\* worker marked the fresh timer of one of its windows fired.
TableMovesOn ==
  \A n \in 1..MaxRounds - 1 :
    (Active /\ campaign.lastRound = n)
      ~> \/ campaign.lastRound > n
         \/ ~Active
         \/ campaign.resting # "none"
         \/ campaign.plannerFailed
         \/ \E t \in lost : t.round = n

=============================================================================
