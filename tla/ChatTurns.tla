----------------------------- MODULE ChatTurns -----------------------------
(***************************************************************************)
(* application/chat/chat-conversation-service.ts: how a turn of a chat     *)
(* goes from a message to its reply and what is kept of it, next to other  *)
(* turns, the extraction of personal memories behind each reply, and the   *)
(* command that makes the bot forget a person.                             *)
(*                                                                         *)
(* A turn holds its channel in the scheduler, then lines up for its person *)
(* in a serial queue, where the extraction of what it learns has a place   *)
(* of its own, reserved before the reply exists.  Forgetting makes every   *)
(* turn under way stale, waits for the extractions, and then clears what   *)
(* is kept.  The model has one guild's worth of privacy versions.          *)
(*                                                                         *)
(* Left out: what prompts, replies and memories say, memories written by   *)
(* the turn itself, the summary of exchanges that no longer fit, shadow    *)
(* turns, and the store of short-lived episodes.  Whether an unsolicited   *)
(* reply is still wanted when it is ready is a choice of SaysNothing.      *)
(***************************************************************************)
EXTENDS ChatScheduler, Integers

CONSTANTS
  Users, UserOf,   \* people; whose turn it is
  Durable,         \* channels in which durable memories may be written
  None, Out,       \* as in KeyedSerialQueue
  MaxForgets,      \* bound: how often somebody is forgotten
  MaxStops         \* bound: how often the scheduler is stopped, 0 or 1

ASSUME TurnsAssumption ==
  /\ Turns \subseteq Nat \ {0} /\ UserOf \in [Turns -> Users] /\ Durable \subseteq Channels
  /\ MaxForgets \in Nat /\ MaxStops \in 0..1
  /\ None \notin Int /\ Out \notin Int /\ None # Out /\ None \notin Users

\* The two callers of a turn: the turn itself, and its extraction.
Extraction(t) == -t
Queue == INSTANCE KeyedSerialQueue
           WITH Callers <- Turns \cup {Extraction(t) : t \in Turns}, Keys <- Users

VARIABLES
  sched,      \* the scheduler
  phase,      \* where each turn is
  line,       \* the serial queue of each person
  version,    \* the privacy version, raised by every forgetting
  seen,       \* the version each turn started from
  told,       \* turns whose extraction knows the reply, or that there is none
  background, \* turns whose extraction is tracked as background work
  history,    \* turns whose exchange is kept
  forget,     \* the forgetting under way, and whom it is about
  old,        \* history: turns that had begun when their person was forgotten
  impatient   \* history: a forgetting went on although work was in flight

vars == <<sched, phase, line, version, seen, told, background, history,
          forget, old, impatient>>
forgetting == <<version, forget, old, impatient>>

Nobody == [user |-> None, step |-> "idle"]

Init ==
  /\ sched = NothingPending /\ phase = [t \in Turns |-> "new"]
  /\ line = Queue!NobodyInLine
  /\ version = 0 /\ seen = [t \in Turns |-> 0]
  /\ told = {} /\ background = {} /\ history = {}
  /\ forget = Nobody /\ old = {} /\ impatient = FALSE

Waiting == {t \in Turns : phase[t] = "waiting"}
\* A turn in the hands of runTurn.
Underway == {"checking", "thinking", "sending", "committing"}

---------------------------------------------------------------------------
(* Turns and the scheduler *)

\* What a handler of the scheduler did: of the turns that wait it started some
\* and dropped others.
Scheduled(r, now) ==
  /\ sched' = r.s
  /\ phase' = [t \in Turns |-> IF now[t] # "waiting" THEN now[t]
                               ELSE IF t \in r.started THEN "opening"
                               ELSE IF t \in r.dropped THEN "ended" ELSE "waiting"]

\* A message, a reaction or an opportunity asks for a turn.
Ask(t) ==
  /\ phase[t] = "new"
  /\ \E r \in Ran(sched, t) : Scheduled(r, [phase EXCEPT ![t] = "waiting"])
  /\ UNCHANGED <<line, seen, told, background, history, forgetting>>

\* The turn is over, whatever became of it: the channel is free.
Close(t) ==
  /\ phase[t] = "leaving"
  /\ \E r \in Finished(sched, ChannelOf[t]) : Scheduled(r, [phase EXCEPT ![t] = "ended"])
  /\ UNCHANGED <<line, seen, told, background, history, forgetting>>

Stop ==
  /\ MaxStops = 1 /\ ~sched.closed
  /\ Scheduled(Stopped(sched), phase)
  /\ UNCHANGED <<line, seen, told, background, history, forgetting>>

---------------------------------------------------------------------------
(* A turn *)

Goes(t, to) == phase' = [phase EXCEPT ![t] = to]

\* Not eligible any more, declined by a limit, or an error.
Decline(t) ==
  /\ phase[t] \in {"opening", "opened"} /\ Goes(t, "leaving")
  /\ UNCHANGED <<sched, line, seen, told, background, history, forgetting>>

\* The turn takes its snapshot of the conversation, and the privacy version.
Open(t) ==
  /\ phase[t] = "opening" /\ Goes(t, "opened")
  /\ seen' = [seen EXCEPT ![t] = version]
  /\ UNCHANGED <<sched, line, told, background, history, forgetting>>

\* queue.run: behind whatever this person has under way.
LineUp(t) ==
  /\ phase[t] = "opened" /\ Goes(t, "lined")
  /\ line' = Queue!Joined(line, UserOf[t], t)
  /\ UNCHANGED <<sched, seen, told, background, history, forgetting>>

\* MUTANT of TurnOver: only a turn that sent its reply tells its extraction.
TurnOverSilently(t) ==
  /\ Goes(t, "leaving")
  /\ told' = told
  /\ line' = Queue!Left(line, t)

\* runTurn is left: its extraction is told there is nothing, unless it was told,
\* and the person's next caller has its turn.
TurnOver(t) ==
  /\ Goes(t, "leaving")
  /\ told' = told \cup {t}
  /\ line' = Queue!Left(line, t)

\* canContinue: nobody of the guild was forgotten since the turn began.
CanContinue(t) == seen[t] = version

\* The turn has its person for itself, and asks whether it may still go on.
TakeTurn(t) ==
  /\ phase[t] = "lined" /\ Queue!HasTurn(line, t)
  /\ \/ CanContinue(t) /\ Goes(t, "checking") /\ UNCHANGED <<line, told>>
     \/ TurnOver(t)
  /\ UNCHANGED <<sched, seen, background, history, forgetting>>

\* MUTANT of Reserve: the extraction is not tracked.
ReserveUntracked(t) ==
  /\ phase[t] = "checking" /\ Goes(t, "thinking")
  /\ line' = IF ChannelOf[t] \in Durable
             THEN Queue!Joined(line, UserOf[t], Extraction(t)) ELSE line
  /\ UNCHANGED <<sched, seen, told, background, history, forgetting>>

\* The answer arrived: the turn reserves the place of its extraction, and calls
\* the model.
Reserve(t) ==
  /\ phase[t] = "checking" /\ Goes(t, "thinking")
  /\ IF ChannelOf[t] \in Durable
     THEN /\ line' = Queue!Joined(line, UserOf[t], Extraction(t))
          /\ background' = background \cup {t}
     ELSE UNCHANGED <<line, background>>
  /\ UNCHANGED <<sched, seen, told, history, forgetting>>

\* The model chose to be silent, the turn is stale or unwanted, or a call failed.
SaysNothing(t) ==
  /\ phase[t] = "thinking" /\ TurnOver(t)
  /\ UNCHANGED <<sched, seen, background, history, forgetting>>

\* The reply is ready and the turn not stale: it is being sent.
Replies(t) ==
  /\ phase[t] = "thinking" /\ CanContinue(t) /\ Goes(t, "sending")
  /\ UNCHANGED <<sched, line, seen, told, background, history, forgetting>>

\* The message could not be sent, or the turn is of a kind that keeps nothing.
SentOnly(t) ==
  /\ phase[t] = "sending" /\ TurnOver(t)
  /\ UNCHANGED <<sched, seen, background, history, forgetting>>

\* The message was sent, and the extraction may go on from it.
Sent(t) ==
  /\ phase[t] = "sending" /\ Goes(t, "committing")
  /\ told' = told \cup {t}
  /\ UNCHANGED <<sched, line, seen, background, history, forgetting>>

\* The exchange is kept, or could not be.
Commit(t) ==
  /\ phase[t] = "committing"
  /\ history' \in {history, history \cup {t}}
  /\ TurnOver(t)
  /\ UNCHANGED <<sched, seen, background, forgetting>>

\* The extraction has its place in the queue and was told: it runs, well or
\* badly, and ends.
Extract(t) ==
  /\ t \in background /\ Queue!HasTurn(line, Extraction(t)) /\ t \in told
  /\ line' = Queue!Left(line, Extraction(t))
  /\ background' = background \ {t}
  /\ UNCHANGED <<sched, phase, seen, told, history, forgetting>>

---------------------------------------------------------------------------
(* Forgetting a person *)

\* forgetConversation: whatever is under way in the guild is stale from now on.
Forget(u) ==
  /\ version < MaxForgets /\ forget.step = "idle"
  /\ version' = version + 1
  /\ forget' = [user |-> u, step |-> "draining"]
  /\ old' = old \cup {t \in Turns : UserOf[t] = u /\
                        (t \in history \/ phase[t] \in Underway \cup {"opened", "lined"})}
  /\ UNCHANGED <<sched, phase, line, seen, told, background, history, impatient>>

\* drain(): all background work has ended.
Drained ==
  /\ forget.step = "draining" /\ background = {}
  /\ forget' = [forget EXCEPT !.step = "clearing"]
  /\ UNCHANGED <<sched, phase, line, version, seen, told, background, history,
                 old, impatient>>

\* drain(): the work in flight takes longer than the deadline.
DrainTimesOut ==
  /\ forget.step = "draining" /\ background # {}
  /\ forget' = [forget EXCEPT !.step = "clearing"] /\ impatient' = TRUE
  /\ UNCHANGED <<sched, phase, line, version, seen, told, background, history,
                 old>>

\* clearRecentHistory.
Clear ==
  /\ forget.step = "clearing" /\ forget' = Nobody
  /\ history' = {t \in history : UserOf[t] # forget.user}
  /\ UNCHANGED <<sched, phase, line, version, seen, told, background,
                 old, impatient>>

---------------------------------------------------------------------------

TurnStep(t) ==
  \/ Decline(t) \/ Open(t) \/ LineUp(t) \/ TakeTurn(t) \/ Reserve(t)
  \/ SaysNothing(t) \/ Replies(t) \/ SentOnly(t) \/ Sent(t) \/ Commit(t) \/ Close(t)

Next ==
  \/ \E t \in Turns : Ask(t) \/ TurnStep(t) \/ Extract(t)
  \/ \E u \in Users : Forget(u)
  \/ Drained \/ DrainTimesOut \/ Clear \/ Stop

Spec == Init /\ [][Next]_vars

---------------------------------------------------------------------------
(* Properties *)

Phases == {"new", "waiting", "opening", "opened", "lined", "leaving", "ended"} \cup Underway

TypeOK ==
  /\ sched \in [order : Seq(Channels), waiting : [Channels -> Seq(Turns)],
                running : SUBSET Channels, queued : Nat, closed : BOOLEAN]
  /\ phase \in [Turns -> Phases] /\ line \in Queue!Lines
  /\ version \in 0..MaxForgets /\ seen \in [Turns -> 0..MaxForgets]
  /\ told \subseteq Turns
  /\ background \subseteq Turns /\ history \subseteq Turns /\ old \subseteq Turns
  /\ forget \in [user : Users \cup {None}, step : {"idle", "draining", "clearing"}]
  /\ impatient \in BOOLEAN

\* The scheduler's books agree with each other and with the turns: the counter
\* behind the global bound counts the turns that wait, no channel and no bound is
\* exceeded, a turn that waits is in its channel's queue once, and a channel runs
\* exactly while one of its turns does (the splices and counters of run and pump).
BooksBalance ==
  LET lengths == [c \in Channels |-> Len(sched.waiting[c])]
      runs(t) == phase[t] \notin {"new", "waiting", "ended"}
  IN /\ TypeOK
     /\ sched.queued = Cardinality(Waiting)
     /\ sched.queued <= MaxPendingGlobal
     /\ \A c \in Channels :
          /\ lengths[c] <= MaxPendingPerChannel
          /\ lengths[c] > 0 => Contains(sched.order, c)
          /\ Cardinality(Range(sched.waiting[c])) = lengths[c]
          /\ Range(sched.waiting[c]) = {t \in Waiting : ChannelOf[t] = c}
          /\ Cardinality({t \in Turns : ChannelOf[t] = c /\ runs(t)})
               = IF c \in sched.running THEN 1 ELSE 0

\* A question that was accepted is not shed: it leaves the queue when it starts
\* or when the scheduler stops, however full the queue gets.
QuestionsAreKept ==
  [][\A t \in Turns \ Optional :
       phase[t] = "waiting" /\ phase'[t] # "waiting" => phase'[t] = "opening" \/ sched'.closed]_vars

\* Where durable memories are written, forgetting is complete: once it is done,
\* nothing is kept of a turn that had begun before, unless the wait for work in
\* flight ran into its deadline.  It holds because the tracked extraction of a
\* turn lines up behind the turn itself.
ForgottenStaysForgotten ==
  forget.step = "idle" /\ ~impatient => \A t \in history \cap old : ChannelOf[t] \notin Durable

\* A turn or its extraction can take its next step: it need not wait, or its turn
\* has come, or the pump answers.
CanGoOn(t) ==
  \/ phase[t] \in Underway \cup {"opening", "opened"}
  \/ phase[t] = "lined" /\ Queue!HasTurn(line, t)
  \/ phase[t] = "leaving" /\ Finished(sched, ChannelOf[t]) # {}
  \/ t \in background \cap told /\ Queue!HasTurn(line, Extraction(t))

\* No turn that may start waits; and the scheduler, the queue of each person and
\* the extractions never wait for each other in a circle: unless some turn or some
\* extraction can go on, everybody who got a place has been served or told, and no
\* background work is left.
NobodyIsStuck ==
  /\ Available(sched) = {}
  /\ \/ \E t \in Turns : CanGoOn(t)
     \/ background = {} /\ \A t \in Turns : phase[t] \in {"new", "ended"}

\* "A second queue.run call made from inside this callback only takes effect if it
\* runs before some other run() call for the same key [...] Firing it immediately,
\* synchronously, before the first await, closes that window entirely"
\* (chat-conversation-service.ts:831): nobody lines up behind a turn under way
\* whose extraction has no place yet.
ReservedInTime ==
  [][\A t, u \in Turns :
       /\ phase[t] \in Underway /\ ChannelOf[t] \in Durable /\ UserOf[t] = UserOf[u]
       /\ phase[u] = "opened" /\ phase'[u] = "lined"
       => t \in background]_vars

=============================================================================
