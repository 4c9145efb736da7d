-------------------------- MODULE MusicPanelProofs --------------------------
(***************************************************************************)
(* Why one write turn of the panel runs at a time and no request for a     *)
(* refresh is lost or put off for ever, for any number of calls and any    *)
(* times: every call is lined up where its step says it is (Inv).  And why *)
(* no write is left behind, for any messages, budget and window: whatever  *)
(* is pending has a writer, a drain or a timer (AttendedInv).  From both,  *)
(* that calls never wait in a circle, and that no change of the player is  *)
(* forgotten (CatchUpInv).                                                 *)
(***************************************************************************)
EXTENDS MusicPanel, FiniteSetTheorems, WellFoundedInduction, TLAPS

Serial == INSTANCE QueueProofs WITH Callers <- Jobs, Keys <- {"actions", "writes"}

\* Where a call is lined up, and whether it has its turn.
Placed(l, job, j) ==
  /\ job.kind = "none" => l.prev[j] = Out
  /\ job.at \in {"actions", "acting"} => l.prev[j] # Out /\ l.key[j] = "actions"
  /\ job.at \in {"ack", "writes", "hinting", "editing"} => l.prev[j] # Out /\ l.key[j] = "writes"
  /\ job.at \in {"acting", "hinting", "editing"} => l.prev[j] = None
  /\ job.at = "hinting" => job.kind = "hint"

Calls == [kind : {"none", "refresh", "tick", "lyrics", "click", "hint"},
          at : {"none", "ack", "actions", "acting", "writes", "hinting", "editing"},
          todo : SUBSET (Messages \cup {"lyrics"}), mine : BOOLEAN]

LinesFit ==
  /\ Serial!Orderly(lines) /\ jobs \in [Jobs -> Calls]
  /\ \A j \in Jobs : Placed(lines, jobs[j], j)

\* A batch is put off within bounds, and a running refresh is some call's.
BatchFits ==
  /\ sched \in Refresh!Schedulers
  /\ NoBatchStarves /\ EveryRequestHasItsRefresh

Inv == LinesFit /\ BatchFits

-----------------------------------------------------------------------------
(* The queues.                                                             *)

LEMMA ApartIs == Serial!Apart
  BY JobsAssumption DEF Serial!Apart

\* A call lines up that was not lined up.
LEMMA LinesUp ==
  ASSUME NEW l, Serial!Orderly(l), NEW j \in Jobs, l.prev[j] = Out,
         NEW k \in {"actions", "writes"}
  PROVE  /\ Serial!Orderly(Queue!Joined(l, k, j))
         /\ Queue!Joined(l, k, j).key[j] = k /\ Queue!Joined(l, k, j).prev[j] # Out
         /\ \A i \in Jobs \ {j} : /\ Queue!Joined(l, k, j).prev[i] = l.prev[i]
                                  /\ Queue!Joined(l, k, j).key[i] = l.key[i]
<1>1. Queue!Joined(l, k, j) = Serial!Joined(l, k, j)
  BY DEF Queue!Joined, Serial!Joined
<1> QED
  BY <1>1, ApartIs, Serial!JoinedOrderly

\* A call that has its turn leaves.
LEMMA Leaves ==
  ASSUME NEW l, Serial!Orderly(l), NEW j \in Jobs, l.prev[j] = None
  PROVE  /\ Serial!Orderly(Queue!Left(l, j)) /\ Queue!Left(l, j).prev[j] = Out
         /\ \A i \in Jobs \ {j} :
              /\ Queue!Left(l, j).key[i] = l.key[i]
              /\ Queue!Left(l, j).prev[i] = IF l.prev[i] = j THEN None ELSE l.prev[i]
<1>1. Queue!Left(l, j) = Serial!Left(l, j)
  BY DEF Queue!Left, Serial!Left
<1>2. Serial!HasTurn(l, j)
  BY DEF Serial!HasTurn
<1> QED
  BY <1>1, <1>2, ApartIs, Serial!LeftOrderly

\* What happens to other calls when one leaves keeps them where they are.
LEMMA StaysPlaced ==
  ASSUME NEW l, NEW m, NEW i \in Jobs, NEW j \in Jobs, NEW job \in Calls, NEW now \in Calls,
         Placed(l, job, i), m.key[i] = l.key[i],
         m.prev[i] = l.prev[i] \/ m.prev[i] = IF l.prev[i] = j THEN None ELSE l.prev[i],
         now.kind = job.kind, now.at = job.at
  PROVE  Placed(m, now, i)
  BY JobsAssumption DEF Placed

\* Calls change in what Placed does not look at.
LEMMA SameLines ==
  ASSUME LinesFit, UNCHANGED lines, jobs' \in [Jobs -> Calls],
         \A j \in Jobs : jobs'[j].kind = jobs[j].kind /\ jobs'[j].at = jobs[j].at
  PROVE  LinesFit'
  BY DEF LinesFit, Placed

\* A new call lines up.
LEMMA NewCall ==
  ASSUME LinesFit, NEW j \in Free, NEW job \in Calls, NEW k \in {"actions", "writes"},
         jobs' = [jobs EXCEPT ![j] = job], LineUp(j, k),
         k = "actions" => job.at = "actions", k = "writes" => job.at \in {"ack", "writes"},
         job.kind # "none"
  PROVE  LinesFit'
<1>1. j \in Jobs /\ lines.prev[j] = Out /\ Serial!Orderly(lines)
  BY DEF LinesFit, Placed, Free
<1> DEFINE m == Queue!Joined(lines, k, j)
<1>2. lines' = m
  BY DEF LineUp
<1>3. /\ Serial!Orderly(m) /\ m.key[j] = k /\ m.prev[j] # Out
      /\ \A i \in Jobs \ {j} : m.prev[i] = lines.prev[i] /\ m.key[i] = lines.key[i]
  BY <1>1, LinesUp
<1> HIDE DEF m
<1>4. jobs' \in [Jobs -> Calls] /\ jobs'[j] = job /\ \A i \in Jobs \ {j} : jobs'[i] = jobs[i]
  BY <1>1 DEF LinesFit
<1>5. Placed(m, job, j)
  BY <1>3 DEF Placed
<1>6. \A i \in Jobs \ {j} : Placed(m, jobs[i], i)
  BY <1>3 DEF LinesFit, Placed
<1> QED
  BY <1>2, <1>3, <1>4, <1>5, <1>6 DEF LinesFit

\* A call with its turn goes on to a queue.
LEMMA NextQueue ==
  ASSUME LinesFit, NEW j \in Jobs, lines.prev[j] = None, NEW k \in {"actions", "writes"},
         jobs[j].kind # "none", jobs' = [jobs EXCEPT ![j].at = k], MoveOn(j, k)
  PROVE  LinesFit'
<1> DEFINE l == Queue!Left(lines, j)
           m == Queue!Joined(l, k, j)
<1>1. lines' = m
  BY DEF MoveOn
<1>2. /\ Serial!Orderly(l) /\ l.prev[j] = Out
      /\ \A i \in Jobs \ {j} :
           /\ l.key[i] = lines.key[i]
           /\ l.prev[i] = IF lines.prev[i] = j THEN None ELSE lines.prev[i]
  BY Leaves DEF LinesFit
<1> HIDE DEF l
<1>3. /\ Serial!Orderly(m) /\ m.key[j] = k /\ m.prev[j] # Out
      /\ \A i \in Jobs \ {j} : m.prev[i] = l.prev[i] /\ m.key[i] = l.key[i]
  BY <1>2, LinesUp
<1> HIDE DEF m
<1>4. /\ jobs' \in [Jobs -> Calls] /\ jobs'[j].at = k /\ jobs'[j].kind = jobs[j].kind
      /\ \A i \in Jobs \ {j} : jobs'[i] = jobs[i]
  BY DEF LinesFit, Calls
<1>5. Placed(m, jobs'[j], j)
  BY <1>3, <1>4 DEF Placed
<1>6. \A i \in Jobs \ {j} : Placed(m, jobs[i], i)
  BY <1>2, <1>3, StaysPlaced, ZenonT(60) DEF LinesFit
<1> QED
  BY <1>1, <1>3, <1>4, <1>5, <1>6 DEF LinesFit

\* A call with its turn ends.
LEMMA CallEnds ==
  ASSUME LinesFit, NEW j \in Jobs, lines.prev[j] = None, EndJob(j)
  PROVE  LinesFit'
<1> DEFINE m == Queue!Left(lines, j)
<1>1. lines' = m /\ jobs' = [jobs EXCEPT ![j] = NoJob]
  BY DEF EndJob
<1>2. /\ Serial!Orderly(m) /\ m.prev[j] = Out
      /\ \A i \in Jobs \ {j} :
           /\ m.key[i] = lines.key[i]
           /\ m.prev[i] = IF lines.prev[i] = j THEN None ELSE lines.prev[i]
  BY Leaves DEF LinesFit
<1> HIDE DEF m
<1>3. NoJob \in Calls /\ NoJob.kind = "none" /\ NoJob.at = "none"
  BY DEF NoJob, Calls
<1>4. jobs' \in [Jobs -> Calls] /\ jobs'[j] = NoJob /\ \A i \in Jobs \ {j} : jobs'[i] = jobs[i]
  BY <1>1, <1>3 DEF LinesFit
<1>5. Placed(m, NoJob, j)
  BY <1>2, <1>3 DEF Placed
<1>6. \A i \in Jobs \ {j} : Placed(m, jobs[i], i)
  BY <1>2, StaysPlaced DEF LinesFit
<1> QED
  BY <1>1, <1>2, <1>4, <1>5, <1>6 DEF LinesFit

\* A call with its turn goes on within it.
LEMMA InTurnStep ==
  ASSUME LinesFit, NEW j \in Jobs, lines.prev[j] = None, UNCHANGED lines,
         NEW at \in {"acting", "hinting", "editing"},
         jobs' \in [Jobs -> Calls], jobs'[j].at = at, jobs'[j].kind = jobs[j].kind,
         \A i \in Jobs \ {j} : jobs'[i] = jobs[i], jobs[j].kind # "none",
         at = "acting" => jobs[j].at = "actions",
         at \in {"hinting", "editing"} => jobs[j].at = "writes",
         at = "hinting" => jobs[j].kind = "hint"
  PROVE  LinesFit'
<1>1. Placed(lines, jobs'[j], j)
  BY JobsAssumption DEF LinesFit, Placed
<1> QED
  BY <1>1 DEF LinesFit, Placed

-----------------------------------------------------------------------------
(* The steps of the calls.                                                 *)

LEMMA FreshCall ==
  ASSUME Free # {}
  PROVE  NewJob \in Free /\ NewJob \in Jobs
  BY DEF NewJob, Free

LEMMA NewCallStep ==
  ASSUME LinesFit, LyricLine \/ ClickFast \/ ClickSlow \/ FireRefresh \/ FireTick
  PROVE  LinesFit'
<1>1. PICK kind \in {"refresh", "tick", "lyrics", "click", "hint"}, at \in {"ack", "actions", "writes"},
           k \in {"actions", "writes"}, job \in Calls :
        /\ Free # {} /\ jobs' = [jobs EXCEPT ![NewJob] = job] /\ LineUp(NewJob, k)
        /\ job.kind = kind /\ job.at = at
        /\ k = "actions" => at = "actions"
        /\ k = "writes" => at \in {"ack", "writes"}
  <2>1. CASE LyricLine
    <3> DEFINE job == [NoJob EXCEPT !.kind = "lyrics", !.at = "writes"]
    <3>1. job \in Calls /\ job.kind = "lyrics" /\ job.at = "writes"
      BY DEF NoJob, Calls
    <3>2. Free # {} /\ jobs' = [jobs EXCEPT ![NewJob] = job] /\ LineUp(NewJob, "writes")
      BY <2>1 DEF LyricLine, LineUp
    <3> QED
      BY <3>1, <3>2
  <2>2. CASE ClickFast
    <3> DEFINE job == [NoJob EXCEPT !.kind = "click", !.at = "ack"]
    <3>1. job \in Calls /\ job.kind = "click" /\ job.at = "ack"
      BY DEF NoJob, Calls
    <3>2. Free # {} /\ jobs' = [jobs EXCEPT ![NewJob] = job] /\ LineUp(NewJob, "writes")
      BY <2>2 DEF ClickFast
    <3> QED
      BY <3>1, <3>2
  <2>3. CASE ClickSlow
    <3> DEFINE job == [NoJob EXCEPT !.kind = "click", !.at = "actions"]
    <3>1. job \in Calls /\ job.kind = "click" /\ job.at = "actions"
      BY DEF NoJob, Calls
    <3>2. Free # {} /\ jobs' = [jobs EXCEPT ![NewJob] = job] /\ LineUp(NewJob, "actions")
      BY <2>3 DEF ClickSlow
    <3> QED
      BY <3>1, <3>2
  <2>4. CASE FireRefresh
    <3> DEFINE job == [NoJob EXCEPT !.kind = "refresh", !.at = "actions", !.mine = TRUE]
    <3>1. job \in Calls /\ job.kind = "refresh" /\ job.at = "actions"
      BY DEF NoJob, Calls
    <3>2. Free # {} /\ jobs' = [jobs EXCEPT ![NewJob] = job] /\ LineUp(NewJob, "actions")
      BY <2>4 DEF FireRefresh
    <3> QED
      BY <3>1, <3>2
  <2>5. CASE FireTick
    <3> DEFINE job == [NoJob EXCEPT !.kind = "tick", !.at = "actions"]
    <3>1. job \in Calls /\ job.kind = "tick" /\ job.at = "actions"
      BY DEF NoJob, Calls
    <3>2. Free # {} /\ jobs' = [jobs EXCEPT ![NewJob] = job] /\ LineUp(NewJob, "actions")
      BY <2>5 DEF FireTick
    <3> QED
      BY <3>1, <3>2
  <2> QED
    BY <2>1, <2>2, <2>3, <2>4, <2>5
<1> QED
  BY <1>1, FreshCall, NewCall

\* Whose turn it is.
LEMMA TurnFacts ==
  ASSUME LinesFit, NEW j \in Jobs
  PROVE  /\ jobs[j].at \in {"acting", "hinting", "editing"} => lines.prev[j] = None
         /\ \A at : MyTurn(j, at) => lines.prev[j] = None /\ jobs[j].at = at
         /\ lines.prev[j] = None => jobs[j].kind # "none"
         /\ jobs \in [Jobs -> Calls]
  BY JobsAssumption DEF LinesFit, Placed, MyTurn, Queue!HasTurn

LEMMA BeginActionStep ==
  ASSUME LinesFit, NEW j \in Jobs, BeginAction(j)
  PROVE  LinesFit'
<1>1. lines.prev[j] = None /\ jobs[j].at = "actions" /\ jobs[j].kind = "click"
      /\ jobs \in [Jobs -> Calls]
  BY TurnFacts DEF BeginAction
<1> DEFINE acting == [jobs EXCEPT ![j].at = "acting"]
<1>2. /\ acting \in [Jobs -> Calls] /\ acting[j].at = "acting" /\ acting[j].kind = "click"
      /\ \A i \in Jobs \ {j} : acting[i] = jobs[i]
  BY <1>1 DEF Calls
<1>3. CASE jobs' = acting /\ UNCHANGED lines
  BY <1>1, <1>2, <1>3, InTurnStep
<1>4. ASSUME Free # {}, LineUp(NewJob, "writes"),
             jobs' = [jobs EXCEPT ![j].at = "acting",
                                  ![NewJob] = [NoJob EXCEPT !.kind = "hint", !.at = "writes"]]
      PROVE  LinesFit'
  <2> DEFINE n == NewJob
             job == [NoJob EXCEPT !.kind = "hint", !.at = "writes"]
             m == Queue!Joined(lines, "writes", n)
  <2>1. n \in Jobs /\ jobs[n].kind = "none" /\ n # j /\ lines.prev[n] = Out
    BY <1>1, <1>4, FreshCall DEF Free, LinesFit, Placed
  <2>2. job \in Calls /\ job.kind = "hint" /\ job.at = "writes"
    BY DEF NoJob, Calls
  <2>3. lines' = m
    BY <1>4 DEF LineUp
  <2> HIDE DEF n, job
  <2>4. /\ Serial!Orderly(m) /\ m.key[n] = "writes" /\ m.prev[n] # Out
        /\ \A i \in Jobs \ {n} : m.prev[i] = lines.prev[i] /\ m.key[i] = lines.key[i]
    BY <2>1, LinesUp DEF LinesFit
  <2>5. jobs' = [acting EXCEPT ![n] = job]
    BY <1>1, <1>4, <2>1 DEF n, job
  <2> HIDE DEF m, acting
  <2>6. jobs' \in [Jobs -> Calls] /\ jobs'[n] = job /\ \A i \in Jobs \ {n} : jobs'[i] = acting[i]
    BY <1>2, <2>1, <2>2, <2>5
  <2>7. Placed(m, job, n)
    BY <2>2, <2>4 DEF Placed
  <2>8. Placed(m, acting[j], j)
    BY <1>1, <1>2, <2>1, <2>4 DEF LinesFit, Placed
  <2>9. \A i \in Jobs \ {j, n} : Placed(m, jobs[i], i)
    BY <2>4 DEF LinesFit, Placed
  <2> QED
    BY <1>2, <2>3, <2>4, <2>6, <2>7, <2>8, <2>9 DEF LinesFit
<1> QED
  BY <1>3, <1>4 DEF BeginAction

LEMMA CallStep ==
  ASSUME LinesFit, NEW j \in Jobs, JobSteps(j)
  PROVE  LinesFit'
<1> USE TurnFacts
<1>1. CASE Acknowledged(j)
  BY <1>1, NextQueue DEF Acknowledged
<1>2. CASE BeginAction(j)
  BY <1>2, BeginActionStep
<1>3. CASE EndAction(j)
  BY <1>3, NextQueue DEF EndAction
<1>4. CASE Reconcile(j)
  BY <1>4, NextQueue DEF Reconcile
<1>5. CASE SendHint(j)
  <2>1. /\ jobs' \in [Jobs -> Calls] /\ jobs'[j].at = "hinting" /\ jobs'[j].kind = jobs[j].kind
        /\ \A i \in Jobs \ {j} : jobs'[i] = jobs[i]
    BY <1>5 DEF SendHint, Calls
  <2>2. lines.prev[j] = None /\ jobs[j].at = "writes" /\ jobs[j].kind = "hint" /\ UNCHANGED lines
    BY <1>5 DEF SendHint
  <2> QED
    BY <2>1, <2>2, InTurnStep
<1>6. CASE WritePanel(j)
  <2>1. RendersOf(jobs[j].kind) \subseteq Messages \cup {"lyrics"}
    BY DEF RendersOf
  <2>2. /\ jobs' \in [Jobs -> Calls] /\ jobs'[j].at = "editing" /\ jobs'[j].kind = jobs[j].kind
        /\ \A i \in Jobs \ {j} : jobs'[i] = jobs[i]
    BY <1>6, <2>1 DEF WritePanel, Calls
  <2>3. lines.prev[j] = None /\ jobs[j].at = "writes" /\ UNCHANGED lines
    BY <1>6 DEF WritePanel
  <2> QED
    BY <2>2, <2>3, InTurnStep
<1>7. CASE HintArrives(j) \/ ReconcileFails(j) \/ WritePanelFails(j) \/ TurnEnds(j)
  <2>1. EndJob(j) /\ lines.prev[j] = None
    BY <1>7 DEF HintArrives, ReconcileFails, WritePanelFails, TurnEnds
  <2> QED
    BY <2>1, CallEnds
<1> QED
  BY <1>1, <1>2, <1>3, <1>4, <1>5, <1>6, <1>7 DEF JobSteps

\* Steps of the edit scheduler, the guild, the player and the clock only touch
\* what calls await.
LEMMA OtherStep ==
  ASSUME LinesFit, \/ EditSteps \/ GuildRemoved \/ GuildRejoined \/ TimePasses
                   \/ SettingsChanged \/ \E p \in Playing : PlayerEvent(p)
  PROVE  LinesFit'
<1>1. jobs \in [Jobs -> Calls]
  BY DEF LinesFit
<1>2. CASE UNCHANGED <<lines, jobs>>
  BY <1>2 DEF LinesFit, Placed
<1>3. CASE UNCHANGED lines /\ \E m : Answered(m)
  <2>1. PICK m : jobs' = [j \in Jobs |-> [jobs[j] EXCEPT !.todo = @ \ {m}]]
    BY <1>3 DEF Answered
  <2>2. jobs' \in [Jobs -> Calls]
        /\ \A j \in Jobs : jobs'[j].kind = jobs[j].kind /\ jobs'[j].at = jobs[j].at
    BY <1>1, <2>1 DEF Calls
  <2> QED
    BY <1>3, <2>2, SameLines
<1>4. CASE GuildRemoved
  <2>1. jobs' \in [Jobs -> Calls]
        /\ \A j \in Jobs : jobs'[j].kind = jobs[j].kind /\ jobs'[j].at = jobs[j].at
    BY <1>1, <1>4 DEF Calls, GuildRemoved
  <2>2. UNCHANGED lines
    BY <1>4 DEF GuildRemoved
  <2> QED
    BY <2>1, <2>2, SameLines
<1>5. EditSteps => UNCHANGED lines /\ (UNCHANGED jobs \/ \E m : Answered(m))
  BY DEF EditSteps, DrainWaits, DrainIdles, DrainSkips, DrainEdits, EditArrives, EditFails, BudgetTimer
<1>6. GuildRejoined \/ TimePasses \/ SettingsChanged \/ (\E p \in Playing : PlayerEvent(p))
        => UNCHANGED <<lines, jobs>>
  BY DEF GuildRejoined, TimePasses, SettingsChanged, PlayerEvent
<1> QED
  BY <1>2, <1>3, <1>4, <1>5, <1>6

-----------------------------------------------------------------------------
(* The coordinator of the refreshes.                                       *)

\* A scheduler by itself, its running refresh aside.
Batch(sc) ==
  /\ sc \in Refresh!Schedulers
  /\ sc.timer # NoTimer => sc.age + sc.timer <= MaxWait
  /\ sc.waiters => sc.timer # NoTimer
  /\ sc.rerun # "no" => sc.running

\* The calls that run a refresh for the scheduler.
Refreshing == {j \in Jobs : jobs[j].kind = "refresh" /\ jobs[j].mine}

LEMMA BatchIs == BatchFits <=> Batch(sched) /\ (sched.running => Refreshing # {})
  BY DEF BatchFits, Batch, Refreshing, NoBatchStarves, EveryRequestHasItsRefresh

LEMMA TimerIs ==
  ASSUME NEW now \in BOOLEAN, NEW age \in 0..MaxWait
  PROVE  /\ Refresh!TimerFor(now, age) \in 0..Debounce
         /\ age + Refresh!TimerFor(now, age) <= MaxWait
  BY TimesAssumption DEF Refresh!TimerFor

LEMMA OneNoTimer == Refresh!NoTimer = NoTimer /\ NoTimer \notin 0..Debounce
  BY TimesAssumption DEF NoTimer, Refresh!NoTimer

LEMMA RequestedBatch ==
  ASSUME NEW sc, Batch(sc), NEW now \in BOOLEAN
  PROVE  /\ Batch(Refresh!Requested(sc, now))
         /\ Refresh!Requested(sc, now).running = sc.running
<1> DEFINE new == Refresh!Requested(sc, now)
<1>1. CASE sc.running
  <2>1. sc \in Refresh!Schedulers
    BY DEF Batch
  <2>2. \/ new = [sc EXCEPT !.rerun = "yes"]
        \/ new = [sc EXCEPT !.rerun = "now"]
    BY <1>1 DEF Refresh!Requested
  <2>3. new \in Refresh!Schedulers
    BY <2>1, <2>2 DEF Refresh!Schedulers
  <2>4. /\ new.timer = sc.timer /\ new.age = sc.age
        /\ new.running = sc.running /\ new.waiters = sc.waiters
    BY <2>1, <2>2 DEF Refresh!Schedulers
  <2> HIDE DEF new
  <2> QED
    BY <1>1, <2>3, <2>4 DEF Batch, new
<1>2. CASE ~sc.running
  <2>1. sc \in Refresh!Schedulers /\ sc.now \in BOOLEAN /\ sc.age \in 0..MaxWait
    BY DEF Batch, Refresh!Schedulers
  <2> DEFINE later == Refresh!TimerFor(sc.now \/ now, sc.age)
  <2>2. later \in 0..Debounce /\ sc.age + later <= MaxWait
    BY <2>1, TimerIs
  <2> HIDE DEF later
  <2>3. new = [sc EXCEPT !.waiters = TRUE, !.now = @ \/ now, !.timer = later]
    BY <1>2 DEF Refresh!Requested, later
  <2>4. new \in Refresh!Schedulers
    BY <2>1, <2>2, <2>3 DEF Refresh!Schedulers
  <2>5. /\ new.timer = later /\ new.age = sc.age
        /\ new.running = sc.running /\ new.rerun = sc.rerun
    BY <2>1, <2>3 DEF Refresh!Schedulers
  <2> HIDE DEF new
  <2> QED
    BY <2>2, <2>4, <2>5, OneNoTimer DEF Batch, new
<1> QED
  BY <1>1, <1>2

LEMMA FiredBatch ==
  ASSUME NEW sc, Batch(sc)
  PROVE  Batch(Refresh!Fired(sc)) /\ Refresh!Fired(sc).running
<1>1. sc \in Refresh!Schedulers /\ 0 \in 0..MaxWait
  BY TimesAssumption DEF Batch
<1>2. Refresh!Fired(sc) \in Refresh!Schedulers
  BY <1>1, TimesAssumption DEF Refresh!Fired, Refresh!Schedulers, NoTimer, Refresh!NoTimer
<1>3. /\ Refresh!Fired(sc).timer = NoTimer
      /\ ~Refresh!Fired(sc).waiters /\ Refresh!Fired(sc).running
  BY <1>1, OneNoTimer DEF Refresh!Fired, Refresh!Schedulers
<1> QED
  BY <1>2, <1>3 DEF Batch

LEMMA EndedBatch ==
  ASSUME NEW sc, Batch(sc)
  PROVE  Batch(Refresh!RefreshEnded(sc)) /\ ~Refresh!RefreshEnded(sc).running
<1> DEFINE new == Refresh!RefreshEnded(sc)
<1>1. CASE sc.rerun = "no"
  BY <1>1 DEF Batch, Refresh!RefreshEnded, Refresh!Schedulers
<1>2. CASE sc.rerun # "no"
  <2> DEFINE at_once == sc.rerun = "now"
             later == Refresh!TimerFor(at_once, 0)
  <2>1. at_once \in BOOLEAN /\ 0 \in 0..MaxWait
    BY TimesAssumption
  <2> HIDE DEF at_once
  <2>2. later \in 0..Debounce /\ 0 + later <= MaxWait
    BY <2>1, TimerIs
  <2> HIDE DEF later
  <2>3. new = [sc EXCEPT !.running = FALSE, !.rerun = "no", !.waiters = TRUE, !.age = 0,
                         !.now = at_once, !.timer = later]
    BY <1>2 DEF Refresh!RefreshEnded, later, at_once
  <2>4. sc \in Refresh!Schedulers
    BY DEF Batch
  <2>5. new \in Refresh!Schedulers
    BY <2>1, <2>2, <2>3, <2>4 DEF Refresh!Schedulers
  <2>6. new.timer = later /\ new.age = 0 /\ ~new.running /\ new.rerun = "no"
    BY <2>3, <2>4 DEF Refresh!Schedulers
  <2> HIDE DEF new
  <2> QED
    BY <2>2, <2>5, <2>6, OneNoTimer DEF Batch, new
<1> QED
  BY <1>1, <1>2

LEMMA WaitedBatch ==
  ASSUME NEW sc, Batch(sc)
  PROVE  Batch(Refresh!Waited(sc)) /\ Refresh!Waited(sc).running = sc.running
<1>1. sc.timer \in {NoTimer} \cup 0..Debounce /\ sc.age \in 0..MaxWait
  BY DEF Batch, Refresh!Schedulers, NoTimer, Refresh!NoTimer
<1> DEFINE t == IF sc.timer > 0 THEN sc.timer - 1 ELSE sc.timer
           a == IF sc.timer # NoTimer /\ sc.age < MaxWait THEN sc.age + 1 ELSE sc.age
<1>2. /\ t \in {NoTimer} \cup 0..Debounce /\ a \in 0..MaxWait
      /\ t = NoTimer <=> sc.timer = NoTimer
      /\ t # NoTimer => a + t <= MaxWait
  BY <1>1, TimesAssumption DEF Batch, NoTimer
<1> HIDE DEF t, a
<1>3. Refresh!Waited(sc) = [sc EXCEPT !.timer = t, !.age = a]
  BY DEF Refresh!Waited, Refresh!NoTimer, NoTimer, Batch, Refresh!Schedulers, t, a
<1> QED
  BY <1>2, <1>3 DEF Batch, Refresh!Schedulers, NoTimer, Refresh!NoTimer

\* Who asks for a refresh, and who runs one on.
LEMMA BatchGoesOn ==
  ASSUME BatchFits, Refreshing \subseteq Refreshing',
         \/ UNCHANGED sched
         \/ \E now \in BOOLEAN : sched' = Refresh!Requested(sched, now)
         \/ sched' = Refresh!Waited(sched)
  PROVE  BatchFits'
<1>1. Batch(sched) /\ (sched.running => Refreshing # {})
  BY BatchIs
<1>2. Batch(sched') /\ sched'.running = sched.running
  BY <1>1, RequestedBatch, WaitedBatch
<1>3. (sched.running => Refreshing # {})' /\ Batch(sched)'
  BY <1>1, <1>2
<1> QED
  BY <1>3, BatchIs DEF BatchFits, Batch, Refreshing, NoBatchStarves, EveryRequestHasItsRefresh

\* A call ends that may have been the refresh.
LEMMA BatchEnds ==
  ASSUME BatchFits, LinesFit, NEW j \in Jobs, EndJob(j),
         \/ RefreshOver(j)
         \/ UNCHANGED sched /\ jobs[j].kind # "refresh"
  PROVE  BatchFits'
<1>1. Batch(sched) /\ (sched.running => Refreshing # {})
  BY BatchIs
<1>2. Refreshing \ {j} \subseteq Refreshing'
  BY DEF EndJob, Refreshing, LinesFit
<1>3. CASE UNCHANGED sched /\ j \notin Refreshing
  BY <1>2, <1>3, BatchGoesOn
<1>4. CASE sched' = Refresh!RefreshEnded(sched)
  <2>1. Batch(sched') /\ ~sched'.running
    BY <1>1, <1>4, EndedBatch
  <2>2. (Batch(sched) /\ (sched.running => Refreshing # {}))'
    BY <2>1
  <2> QED
    BY <2>2 DEF BatchFits, Batch, Refreshing, NoBatchStarves, EveryRequestHasItsRefresh
<1> QED
  BY <1>3, <1>4 DEF RefreshOver, Refreshing

LEMMA BatchStep ==
  ASSUME Inv, Next
  PROVE  BatchFits'
<1> USE DEF Inv
<1>1. jobs \in [Jobs -> Calls]
  BY DEF LinesFit
<1>2. CASE \/ SettingsChanged \/ GuildRejoined \/ TimePasses \/ \E p \in Playing : PlayerEvent(p)
  <2>1. Refreshing = Refreshing'
    BY <1>2 DEF SettingsChanged, GuildRejoined, TimePasses, PlayerEvent, Refreshing
  <2> QED
    BY <1>2, <2>1, BatchGoesOn DEF SettingsChanged, GuildRejoined, TimePasses, PlayerEvent
<1>3. CASE LyricLine \/ ClickFast \/ ClickSlow \/ FireTick
  <2>1. UNCHANGED sched /\ Free # {} /\ \E job : jobs' = [jobs EXCEPT ![NewJob] = job]
    BY <1>3 DEF LyricLine, ClickFast, ClickSlow, FireTick
  <2>2. Refreshing \subseteq Refreshing'
    BY <1>1, <2>1, FreshCall DEF Refreshing, Free
  <2> QED
    BY <2>1, <2>2, BatchGoesOn
<1>4. CASE FireRefresh
  <2> DEFINE job == [NoJob EXCEPT !.kind = "refresh", !.at = "actions", !.mine = TRUE]
  <2>1. job.kind = "refresh" /\ job.mine
    BY DEF NoJob
  <2>2. NewJob \in Jobs /\ jobs' = [jobs EXCEPT ![NewJob] = job] /\ sched' = Refresh!Fired(sched)
    BY <1>4, FreshCall DEF FireRefresh
  <2>3. NewJob \in Refreshing'
    BY <1>1, <2>1, <2>2 DEF Refreshing
  <2>4. Batch(sched') /\ sched'.running
    BY <2>2, BatchIs, FiredBatch
  <2>5. (Batch(sched) /\ (sched.running => Refreshing # {}))'
    BY <2>3, <2>4
  <2> QED
    BY <2>5 DEF BatchFits, Batch, Refreshing, NoBatchStarves, EveryRequestHasItsRefresh
<1>5. ASSUME NEW j \in Jobs, JobSteps(j) PROVE BatchFits'
  <2>1. CASE HintArrives(j)
    <3>1. EndJob(j) /\ UNCHANGED sched /\ jobs[j].kind = "hint"
      BY <2>1 DEF HintArrives, LinesFit, Placed
    <3> QED
      BY <3>1, BatchEnds
  <2>2. CASE ReconcileFails(j) \/ WritePanelFails(j) \/ TurnEnds(j)
    <3>1. EndJob(j) /\ RefreshOver(j)
      <4>1. CASE ReconcileFails(j)
        BY <4>1 DEF ReconcileFails
      <4>2. CASE WritePanelFails(j)
        BY <4>2 DEF WritePanelFails
      <4>3. CASE TurnEnds(j)
        BY <4>3 DEF TurnEnds
      <4> QED
        BY <2>2, <4>1, <4>2, <4>3
    <3> QED
      BY <3>1, BatchEnds
  <2>3. CASE \/ Acknowledged(j) \/ EndAction(j) \/ SendHint(j) \/ Reconcile(j) \/ WritePanel(j)
    <3>1. \A i \in Jobs : jobs'[i].kind = jobs[i].kind /\ jobs'[i].mine = jobs[i].mine
      <4>1. \/ \E at : jobs' = [jobs EXCEPT ![j].at = at]
            \/ \E at, todo : jobs' = [jobs EXCEPT ![j].at = at, ![j].todo = todo]
        <5>1. CASE Acknowledged(j) \/ EndAction(j)
          BY <5>1 DEF Acknowledged, EndAction
        <5>2. CASE SendHint(j) \/ Reconcile(j)
          BY <5>2 DEF SendHint, Reconcile
        <5>3. CASE WritePanel(j)
          BY <5>3 DEF WritePanel
        <5> QED
          BY <2>3, <5>1, <5>2, <5>3
      <4>2. ASSUME NEW at, jobs' = [jobs EXCEPT ![j].at = at]
            PROVE  \A i \in Jobs : jobs'[i].kind = jobs[i].kind /\ jobs'[i].mine = jobs[i].mine
        BY <1>1, <4>2 DEF Calls
      <4>3. ASSUME NEW at, NEW todo, jobs' = [jobs EXCEPT ![j].at = at, ![j].todo = todo]
            PROVE  \A i \in Jobs : jobs'[i].kind = jobs[i].kind /\ jobs'[i].mine = jobs[i].mine
        BY <1>1, <4>3 DEF Calls
      <4> QED
        BY <4>1, <4>2, <4>3
    <3>2. Refreshing \subseteq Refreshing'
      BY <3>1 DEF Refreshing
    <3>3. UNCHANGED sched \/ sched' = Refresh!Requested(sched, FALSE)
      <4>1. CASE Acknowledged(j) \/ SendHint(j) \/ WritePanel(j)
        BY <4>1 DEF Acknowledged, SendHint, WritePanel
      <4>2. CASE EndAction(j) \/ Reconcile(j)
        BY <4>2 DEF EndAction, Reconcile
      <4> QED
        BY <2>3, <4>1, <4>2
    <3> QED
      BY <3>2, <3>3, BatchGoesOn
  <2>4. CASE BeginAction(j)
    <3>1. UNCHANGED sched
      BY <2>4 DEF BeginAction
    <3>2. \A i \in Refreshing : jobs'[i].kind = jobs[i].kind /\ jobs'[i].mine = jobs[i].mine
      BY <1>1, <2>4, FreshCall DEF BeginAction, Refreshing, Calls, Free
    <3>3. Refreshing \subseteq Refreshing'
      BY <3>2 DEF Refreshing
    <3> QED
      BY <3>1, <3>3, BatchGoesOn
  <2> QED
    BY <1>5, <2>1, <2>2, <2>3, <2>4 DEF JobSteps
<1>6. CASE EditSteps
  <2>1. UNCHANGED sched /\ (UNCHANGED jobs \/ \E m : Answered(m))
    BY <1>6 DEF EditSteps, DrainWaits, DrainIdles, DrainSkips, DrainEdits, EditArrives,
                EditFails, BudgetTimer
  <2>2. \A i \in Jobs : jobs'[i].kind = jobs[i].kind /\ jobs'[i].mine = jobs[i].mine
    BY <1>1, <2>1 DEF Answered, Calls
  <2>3. Refreshing \subseteq Refreshing'
    BY <2>2 DEF Refreshing
  <2> QED
    BY <2>1, <2>3, BatchGoesOn
<1>7. CASE GuildRemoved
  <2>1. Batch(sched') /\ ~sched'.running
    <3>1. sched' = Refresh!NewScheduler
      BY <1>7 DEF GuildRemoved
    <3> QED
      BY <3>1, TimesAssumption
         DEF Batch, Refresh!NewScheduler, Refresh!Schedulers, NoTimer, Refresh!NoTimer
  <2>2. (Batch(sched) /\ (sched.running => Refreshing # {}))'
    BY <2>1
  <2> QED
    BY <2>2 DEF BatchFits, Batch, Refreshing, NoBatchStarves, EveryRequestHasItsRefresh
<1> QED
  BY <1>2, <1>3, <1>4, <1>5, <1>6, <1>7 DEF Next, Timers

-----------------------------------------------------------------------------
(* The edit scheduler: no write is left behind.                            *)

\* A pending write has a slot and something that will come to it, and the
\* running one its place in the budget.
Attended(e) ==
  /\ e \in Edits!EditStates /\ e.pending \subseteq e.slots
  /\ e.pending # {} => e.drain \/ e.timer # NoTimer \/ e.running # None
  /\ e.running # None => ~Edits!BudgetSpent(e)

LEMMA EditFacts ==
  /\ None \notin Messages /\ MaxEdits \in Nat \ {0} /\ Window \in Nat \ {0}
  /\ Priority \in [Messages -> Nat] /\ Edits!NoTimer = NoTimer
  /\ 1 \in 1..MaxEdits /\ 0 \in 0..Window
  BY JobsAssumption, EditsAssumption DEF NoTimer, Edits!NoTimer

LEMMA NoEditsAttended ==
  /\ Attended(Edits!NoEdits) /\ Edits!NoEdits.pending = {} /\ Edits!NoEdits.running = None
<1> DEFINE e == Edits!NoEdits
<1>1. e = [slots |-> {}, pending |-> {}, running |-> None, started |-> 0,
           sent |-> [i \in 1..MaxEdits |-> 0], timer |-> NoTimer, drain |-> FALSE]
  BY EditFacts DEF Edits!NoEdits
<1>2. [i \in 1..MaxEdits |-> 0] \in [1..MaxEdits -> 0..Window]
  BY EditFacts
<1> QED
  BY <1>1, <1>2, EditFacts DEF Attended, Edits!EditStates

LEMMA ScheduledAttended ==
  ASSUME NEW e, Attended(e), NEW S \in SUBSET Messages
  PROVE  /\ Attended(Edits!Scheduled(e, S))
         /\ Edits!Scheduled(e, S).pending = e.pending \cup S
         /\ Edits!Scheduled(e, S).running = e.running
  BY DEF Attended, Edits!EditStates, Edits!Scheduled, Edits!BudgetSpent

LEMMA UnregisteredAttended ==
  ASSUME NEW e, Attended(e)
  PROVE  /\ Attended(Edits!Unregistered(e))
         /\ Edits!Unregistered(e).pending = {}
         /\ Edits!Unregistered(e).running = e.running
<1>1. CASE e.running = None
  BY <1>1, NoEditsAttended DEF Edits!Unregistered
<1>2. CASE e.running # None
  BY <1>2 DEF Attended, Edits!EditStates, Edits!Unregistered, Edits!BudgetSpent
<1> QED
  BY <1>1, <1>2

\* A set of numbers that is not empty has a least one.
Less == {p \in Nat \X Nat : p[1] < p[2]}

LEMMA Smallest ==
  ASSUME NEW S \in SUBSET Nat, S # {}
  PROVE  \E k \in S : \A m \in S : k <= m
<1>1. Less = OpToRel(<, Nat)
  BY DEF OpToRel, Less
<1>2. PICK k \in S : \A y \in S : ~(<<y, k>> \in Less)
  BY <1>1, NatLessThanWellFounded, WFMin
<1>3. ASSUME NEW m \in S PROVE k <= m
  <2>1. k \in Nat /\ m \in Nat
    OBVIOUS
  <2>2. m < k => <<m, k>> \in Less
    BY <2>1 DEF Less
  <2> QED
    BY <1>2, <2>1, <2>2
<1> QED
  BY <1>2, <1>3

\* The next write is one that is pending.
LEMMA NextIsPending ==
  ASSUME NEW e, Attended(e), e.pending # {}
  PROVE  Edits!nextPending(e) \in e.pending
<1> DEFINE ranks == {Priority[s] : s \in e.pending}
<1>1. e.pending \subseteq Messages
  BY DEF Attended, Edits!EditStates
<1>2. ranks \in SUBSET Nat /\ ranks # {}
  BY <1>1, EditFacts
<1>3. PICK k \in ranks : \A m \in ranks : k <= m
  BY <1>2, Smallest
<1>4. \E s \in e.pending : \A t \in e.pending : Priority[s] <= Priority[t]
  BY <1>3
<1> QED
  BY <1>4 DEF Edits!nextPending

LEMMA StartedAttended ==
  ASSUME NEW e, Attended(e), NEW m \in e.pending, ~Edits!BudgetSpent(e)
  PROVE  /\ Attended(Edits!WriteStarted(e, m))
         /\ Edits!WriteStarted(e, m).pending = e.pending \ {m}
         /\ Edits!WriteStarted(e, m).running = m
<1>1. e \in Edits!EditStates /\ m \in Messages /\ e.pending \subseteq e.slots
  BY DEF Attended, Edits!EditStates
<1> DEFINE new == Edits!WriteStarted(e, m)
<1>2. new = [e EXCEPT !.pending = @ \ {m}, !.running = m, !.started = Window, !.drain = FALSE]
  BY DEF Edits!WriteStarted
<1>3. Window \in 0..Window
  BY EditFacts
<1>4. new \in Edits!EditStates
  BY <1>1, <1>2, <1>3 DEF Edits!EditStates
<1>5. /\ new.pending = e.pending \ {m} /\ new.running = m
      /\ new.slots = e.slots /\ new.sent = e.sent
  BY <1>1, <1>2 DEF Edits!EditStates
<1> HIDE DEF new
<1>6. new.running # None
  BY <1>1, <1>5, EditFacts
<1>7. new.pending \subseteq new.slots /\ ~Edits!BudgetSpent(new)
  BY <1>1, <1>5 DEF Edits!BudgetSpent
<1>8. Attended(new)
  BY <1>4, <1>6, <1>7 DEF Attended
<1> QED
  BY <1>5, <1>8 DEF new

LEMMA EndedAttended ==
  ASSUME NEW e, Attended(e), NEW counts \in BOOLEAN
  PROVE  /\ Attended(Edits!WriteEnded(e, counts))
         /\ Edits!WriteEnded(e, counts).pending = e.pending
         /\ Edits!WriteEnded(e, counts).running = None
<1>1. CASE e.slots = {}
  BY <1>1, NoEditsAttended DEF Edits!WriteEnded, Attended
<1>2. CASE e.slots # {}
  <2> DEFINE sent == IF counts /\ e.started > 0 THEN Edits!Counted(e) ELSE e.sent
  <2>1. e.started \in 0..Window /\ e.sent \in [1..MaxEdits -> 0..Window]
    BY DEF Attended, Edits!EditStates
  <2>2. Edits!Counted(e) \in [1..MaxEdits -> 0..Window]
    BY <2>1, EditFacts DEF Edits!Counted
  <2>3. sent \in [1..MaxEdits -> 0..Window]
    BY <2>1, <2>2
  <2>4. Edits!WriteEnded(e, counts) =
          [e EXCEPT !.running = None, !.started = 0, !.drain = TRUE, !.sent = sent]
    BY <1>2 DEF Edits!WriteEnded, Attended, Edits!EditStates
  <2> HIDE DEF sent
  <2> QED
    BY <2>3, <2>4, EditFacts DEF Attended, Edits!EditStates
<1> QED
  BY <1>1, <1>2

LEMMA AwaitAttended ==
  ASSUME NEW e, Attended(e), Edits!BudgetSpent(e)
  PROVE  /\ Attended(Edits!AwaitBudget(e))
         /\ Edits!AwaitBudget(e).pending = e.pending
         /\ Edits!AwaitBudget(e).running = e.running
<1>1. e.sent[1] \in 0..Window /\ e.sent[1] # NoTimer
  BY EditFacts DEF Attended, Edits!EditStates, NoTimer
<1> QED
  BY <1>1, EditFacts DEF Attended, Edits!EditStates, Edits!AwaitBudget, Edits!BudgetSpent

LEMMA IdleAttended ==
  ASSUME NEW e, Attended(e), ~Edits!CanWrite(e)
  PROVE  Attended([e EXCEPT !.drain = FALSE])
  BY EditFacts DEF Attended, Edits!EditStates, Edits!CanWrite, Edits!BudgetSpent

LEMMA TimerFiredAttended ==
  ASSUME NEW e, Attended(e)
  PROVE  /\ Attended(Edits!BudgetTimerFired(e))
         /\ Edits!BudgetTimerFired(e).pending = e.pending
         /\ Edits!BudgetTimerFired(e).running = e.running
  BY EditFacts DEF Attended, Edits!EditStates, Edits!BudgetTimerFired, Edits!BudgetSpent

LEMMA OlderAttended ==
  ASSUME NEW e, Attended(e)
  PROVE  /\ Attended(Edits!Older(e))
         /\ Edits!Older(e).pending = e.pending
         /\ Edits!Older(e).running = e.running
<1> DEFINE sent == [i \in 1..MaxEdits |-> IF e.sent[i] > 0 THEN e.sent[i] - 1 ELSE 0]
           started == IF e.started > 0 THEN e.started - 1 ELSE 0
           timer == IF e.timer > 0 THEN e.timer - 1 ELSE e.timer
<1>1. /\ e.started \in 0..Window /\ e.sent \in [1..MaxEdits -> 0..Window]
      /\ e.timer \in {NoTimer} \cup 0..Window
  BY EditFacts DEF Attended, Edits!EditStates
<1>2. sent \in [1..MaxEdits -> 0..Window]
  BY <1>1, EditFacts
<1>3. ~(e.sent[1] > 0) => ~(sent[1] > 0)
  BY EditFacts
<1>4. /\ started \in 0..Window /\ timer \in {NoTimer} \cup 0..Window
      /\ e.timer # NoTimer => timer # NoTimer
  BY <1>1, EditFacts DEF NoTimer
<1>5. Edits!Older(e) = [e EXCEPT !.sent = sent, !.started = started, !.timer = timer]
  BY DEF Edits!Older, Attended, Edits!EditStates
<1> HIDE DEF sent, started, timer
<1> DEFINE new == Edits!Older(e)
<1>6. new \in Edits!EditStates
  BY <1>2, <1>4, <1>5, EditFacts DEF Attended, Edits!EditStates
<1>7. /\ new.slots = e.slots /\ new.pending = e.pending /\ new.running = e.running
      /\ new.drain = e.drain /\ new.timer = timer /\ new.sent = sent
  BY <1>5 DEF Attended, Edits!EditStates
<1> HIDE DEF new
<1>8. Attended(new)
  BY <1>3, <1>4, <1>6, <1>7 DEF Attended, Edits!BudgetSpent
<1> QED
  BY <1>7, <1>8 DEF new

\* Every call awaits only writes that are pending or running.
CallsAttended ==
  /\ jobs \in [Jobs -> JobRecords]
  /\ \A j \in Jobs : /\ jobs[j].kind = "lyrics" => "lyrics" \in Messages
                     /\ jobs[j].todo \subseteq edits.pending \cup {edits.running}

\* What the panel keeps next to its calls, the queues and the schedulers.
RestShaped ==
  /\ player \in Playing /\ joined \in BOOLEAN
  /\ shown \subseteq Messages /\ reading \in BOOLEAN
  /\ floor \in [Messages -> Nat]
  /\ tick \in {NoTimer} \cup 0..Interval
  /\ missed \in BOOLEAN

AttendedInv == RestShaped /\ CallsAttended /\ Attended(edits)

LEMMA NoJobIs ==
  NoJob \in JobRecords /\ NoJob.kind = "none" /\ NoJob.todo = {}
  BY DEF NoJob, JobRecords

\* Calls go on and begin, and the writes they await do not become more.
LEMMA CallsGoOn ==
  ASSUME CallsAttended, jobs' \in [Jobs -> JobRecords],
         edits.pending \cup {edits.running} \subseteq edits'.pending \cup {edits'.running},
         \A j \in Jobs : /\ jobs'[j].kind = "lyrics" => jobs[j].kind = "lyrics" \/ "lyrics" \in Messages
                         /\ jobs'[j].todo \subseteq jobs[j].todo
  PROVE  CallsAttended'
  BY DEF CallsAttended

\* A call begins.
LEMMA CallBegins ==
  ASSUME CallsAttended, UNCHANGED edits, NEW j \in Jobs, NEW job \in JobRecords,
         job.todo = {}, job.kind = "lyrics" => "lyrics" \in Messages,
         jobs' = [jobs EXCEPT ![j] = job]
  PROVE  CallsAttended'
<1>1. jobs' \in [Jobs -> JobRecords] /\ \A i \in Jobs : jobs'[i] = IF i = j THEN job ELSE jobs[i]
  BY DEF CallsAttended
<1> QED
  BY <1>1, CallsGoOn

LEMMA NewCallAttended ==
  ASSUME CallsAttended, LyricLine \/ ClickFast \/ ClickSlow \/ FireRefresh \/ FireTick
  PROVE  CallsAttended'
<1>1. Free # {} /\ UNCHANGED edits
  BY DEF LyricLine, ClickFast, ClickSlow, FireRefresh, FireTick
<1>2. NewJob \in Jobs
  BY <1>1, FreshCall
<1>3. PICK job \in JobRecords : /\ jobs' = [jobs EXCEPT ![NewJob] = job] /\ job.todo = {}
                                /\ job.kind = "lyrics" => "lyrics" \in Messages
  <2>1. CASE LyricLine
    <3> DEFINE job == [NoJob EXCEPT !.kind = "lyrics", !.at = "writes"]
    <3>1. job \in JobRecords /\ job.todo = {}
      BY DEF NoJob, JobRecords
    <3>2. jobs' = [jobs EXCEPT ![NewJob] = job] /\ "lyrics" \in Messages
      BY <2>1 DEF LyricLine
    <3> QED
      BY <3>1, <3>2
  <2>2. CASE ClickFast
    <3> DEFINE job == [NoJob EXCEPT !.kind = "click", !.at = "ack"]
    <3>1. job \in JobRecords /\ job.todo = {} /\ job.kind = "click"
      BY DEF NoJob, JobRecords
    <3>2. jobs' = [jobs EXCEPT ![NewJob] = job]
      BY <2>2 DEF ClickFast
    <3> QED
      BY <3>1, <3>2
  <2>3. CASE ClickSlow
    <3> DEFINE job == [NoJob EXCEPT !.kind = "click", !.at = "actions"]
    <3>1. job \in JobRecords /\ job.todo = {} /\ job.kind = "click"
      BY DEF NoJob, JobRecords
    <3>2. jobs' = [jobs EXCEPT ![NewJob] = job]
      BY <2>3 DEF ClickSlow
    <3> QED
      BY <3>1, <3>2
  <2>4. CASE FireRefresh
    <3> DEFINE job == [NoJob EXCEPT !.kind = "refresh", !.at = "actions", !.mine = TRUE]
    <3>1. job \in JobRecords /\ job.todo = {} /\ job.kind = "refresh"
      BY DEF NoJob, JobRecords
    <3>2. jobs' = [jobs EXCEPT ![NewJob] = job]
      BY <2>4 DEF FireRefresh
    <3> QED
      BY <3>1, <3>2
  <2>5. CASE FireTick
    <3> DEFINE job == [NoJob EXCEPT !.kind = "tick", !.at = "actions"]
    <3>1. job \in JobRecords /\ job.todo = {} /\ job.kind = "tick"
      BY DEF NoJob, JobRecords
    <3>2. jobs' = [jobs EXCEPT ![NewJob] = job]
      BY <2>5 DEF FireTick
    <3> QED
      BY <3>1, <3>2
  <2> QED
    BY <2>1, <2>2, <2>3, <2>4, <2>5
<1> QED
  BY <1>1, <1>2, <1>3, CallBegins

\* A call goes on to another place.
LEMMA CallMoves ==
  ASSUME CallsAttended, UNCHANGED edits, NEW j \in Jobs,
         NEW at \in {"none", "ack", "actions", "acting", "writes", "hinting", "editing"},
         jobs' = [jobs EXCEPT ![j].at = at]
  PROVE  CallsAttended'
<1>1. /\ jobs' \in [Jobs -> JobRecords]
      /\ \A i \in Jobs : jobs'[i].kind = jobs[i].kind /\ jobs'[i].todo = jobs[i].todo
  BY DEF CallsAttended, JobRecords
<1> QED
  BY <1>1, CallsGoOn

LEMMA CallOver ==
  ASSUME CallsAttended, UNCHANGED edits, NEW j \in Jobs, EndJob(j)
  PROVE  CallsAttended'
  BY NoJobIs, CallBegins DEF EndJob

\* A write turn begins: its edits are scheduled together.
LEMMA WritesAttended ==
  ASSUME AttendedInv, NEW j \in Jobs, WritePanel(j)
  PROVE  CallsAttended' /\ Attended(edits')
<1> DEFINE renders == RendersOf(jobs[j].kind)
<1>1. renders \in SUBSET Messages
  BY DEF RendersOf, AttendedInv, CallsAttended
<1>2. /\ edits' = Edits!Scheduled(edits, renders)
      /\ jobs' = [jobs EXCEPT ![j].at = "editing", ![j].todo = renders]
  BY DEF WritePanel
<1> HIDE DEF renders
<1>3. /\ Attended(edits') /\ edits'.pending = edits.pending \cup renders
      /\ edits'.running = edits.running
  BY <1>1, <1>2, ScheduledAttended DEF AttendedInv
<1>4. /\ jobs' \in [Jobs -> JobRecords]
      /\ \A i \in Jobs : /\ jobs'[i].kind = jobs[i].kind
                         /\ jobs'[i].todo = IF i = j THEN renders ELSE jobs[i].todo
  BY <1>1, <1>2 DEF AttendedInv, CallsAttended, JobRecords
<1> QED
  BY <1>3, <1>4 DEF AttendedInv, CallsAttended

LEMMA ActionAttended ==
  ASSUME CallsAttended, UNCHANGED edits, NEW j \in Jobs, BeginAction(j)
  PROVE  CallsAttended'
<1>1. CASE jobs' = [jobs EXCEPT ![j].at = "acting"]
  BY <1>1, CallMoves
<1>2. ASSUME Free # {},
             jobs' = [jobs EXCEPT ![j].at = "acting",
                                  ![NewJob] = [NoJob EXCEPT !.kind = "hint", !.at = "writes"]]
      PROVE  CallsAttended'
  <2> DEFINE job == [NoJob EXCEPT !.kind = "hint", !.at = "writes"]
             acting == [jobs EXCEPT ![j].at = "acting"]
  <2>1. job \in JobRecords /\ job.todo = {} /\ job.kind = "hint"
    BY DEF NoJob, JobRecords
  <2>2. /\ acting \in [Jobs -> JobRecords]
        /\ \A i \in Jobs : acting[i].kind = jobs[i].kind /\ acting[i].todo = jobs[i].todo
    BY DEF CallsAttended, JobRecords
  <2>3. NewJob \in Jobs /\ jobs' = [acting EXCEPT ![NewJob] = job]
    BY <1>2, FreshCall
  <2> HIDE DEF job, acting
  <2>4. /\ jobs' \in [Jobs -> JobRecords]
        /\ \A i \in Jobs : jobs'[i] = IF i = NewJob THEN job ELSE acting[i]
    BY <2>1, <2>2, <2>3
  <2> QED
    BY <2>1, <2>2, <2>4, CallsGoOn
<1> QED
  BY <1>1, <1>2 DEF BeginAction

LEMMA CallStepAttended ==
  ASSUME AttendedInv, NEW j \in Jobs, JobSteps(j)
  PROVE  CallsAttended' /\ Attended(edits')
<1>1. CASE WritePanel(j)
  BY <1>1, WritesAttended
<1>2. ASSUME UNCHANGED edits,
             \/ EndJob(j)
             \/ \E at \in {"actions", "writes", "hinting"} : jobs' = [jobs EXCEPT ![j].at = at]
             \/ BeginAction(j)
      PROVE  CallsAttended' /\ Attended(edits')
  BY <1>2, CallMoves, CallOver, ActionAttended DEF AttendedInv
<1>3. Acknowledged(j) => UNCHANGED edits /\ jobs' = [jobs EXCEPT ![j].at = "actions"]
  BY DEF Acknowledged
<1>4. BeginAction(j) => UNCHANGED edits
  BY DEF BeginAction
<1>5. EndAction(j) \/ Reconcile(j) => UNCHANGED edits /\ jobs' = [jobs EXCEPT ![j].at = "writes"]
  BY DEF EndAction, Reconcile
<1>6. SendHint(j) => UNCHANGED edits /\ jobs' = [jobs EXCEPT ![j].at = "hinting"]
  BY DEF SendHint
<1>7. HintArrives(j) \/ ReconcileFails(j) \/ WritePanelFails(j) \/ TurnEnds(j)
        => UNCHANGED edits /\ EndJob(j)
  BY DEF HintArrives, ReconcileFails, WritePanelFails, TurnEnds
<1> QED
  BY <1>1, <1>2, <1>3, <1>4, <1>5, <1>6, <1>7 DEF JobSteps

\* The write of m is over, for everybody who awaits it.
LEMMA AnswerAttended ==
  ASSUME CallsAttended, NEW m, Answered(m),
         edits.pending \cup {edits.running} \subseteq edits'.pending \cup {m, None}
  PROVE  CallsAttended'
<1>1. /\ jobs' \in [Jobs -> JobRecords]
      /\ \A i \in Jobs : jobs'[i].kind = jobs[i].kind /\ jobs'[i].todo = jobs[i].todo \ {m}
  BY DEF CallsAttended, JobRecords, Answered
<1>2. \A i \in Jobs : None \notin jobs[i].todo
  BY EditFacts DEF CallsAttended, JobRecords
<1> QED
  BY <1>1, <1>2 DEF CallsAttended

LEMMA EditStepAttended ==
  ASSUME AttendedInv, EditSteps
  PROVE  CallsAttended' /\ Attended(edits')
<1> USE DEF AttendedInv
<1>1. CASE DrainWaits
  <2>1. Edits!BudgetSpent(edits) /\ edits' = Edits!AwaitBudget(edits) /\ UNCHANGED jobs
    BY <1>1 DEF DrainWaits
  <2>2. Attended(edits') /\ edits'.pending = edits.pending /\ edits'.running = edits.running
    BY <2>1, AwaitAttended
  <2> QED
    BY <2>1, <2>2 DEF CallsAttended
<1>2. CASE DrainIdles
  <2>1. ~Edits!CanWrite(edits) /\ edits' = [edits EXCEPT !.drain = FALSE] /\ UNCHANGED jobs
    BY <1>2 DEF DrainIdles
  <2>2. Attended(edits') /\ edits'.pending = edits.pending /\ edits'.running = edits.running
    BY <2>1, IdleAttended DEF Attended, Edits!EditStates
  <2> QED
    BY <2>1, <2>2 DEF CallsAttended
<1>3. CASE DrainSkips
  <2> DEFINE m == Edits!nextPending(edits)
             started == Edits!WriteStarted(edits, m)
  <2>1. /\ Edits!CanWrite(edits) /\ ~Edits!BudgetSpent(edits) /\ Answered(m)
        /\ edits' = Edits!WriteEnded(started, FALSE)
    BY <1>3 DEF DrainSkips
  <2>2. m \in edits.pending /\ edits.running = None
    BY <2>1, NextIsPending DEF Edits!CanWrite
  <2> HIDE DEF m
  <2>3. Attended(started) /\ started.pending = edits.pending \ {m}
    BY <2>1, <2>2, StartedAttended
  <2> HIDE DEF started
  <2>4. Attended(edits') /\ edits'.pending = edits.pending \ {m}
    BY <2>1, <2>3, EndedAttended
  <2> QED
    BY <2>1, <2>2, <2>4, AnswerAttended
<1>4. CASE DrainEdits
  <2> DEFINE m == Edits!nextPending(edits)
  <2>1. /\ Edits!CanWrite(edits) /\ ~Edits!BudgetSpent(edits) /\ UNCHANGED jobs
        /\ edits' = Edits!WriteStarted(edits, m)
    BY <1>4 DEF DrainEdits
  <2>2. m \in edits.pending /\ edits.running = None
    BY <2>1, NextIsPending DEF Edits!CanWrite
  <2> HIDE DEF m
  <2>3. Attended(edits') /\ edits'.pending = edits.pending \ {m} /\ edits'.running = m
    BY <2>1, <2>2, StartedAttended
  <2>4. \A i \in Jobs : None \notin jobs[i].todo
    BY EditFacts DEF CallsAttended, JobRecords
  <2> QED
    BY <2>1, <2>2, <2>3, <2>4 DEF CallsAttended
<1>5. CASE EditArrives \/ EditFails
  <2>1. edits' = Edits!WriteEnded(edits, TRUE) /\ Answered(edits.running)
    BY <1>5 DEF EditArrives, EditFails
  <2>2. Attended(edits') /\ edits'.pending = edits.pending
    BY <2>1, EndedAttended
  <2> QED
    BY <2>1, <2>2, AnswerAttended
<1>6. CASE BudgetTimer
  <2>1. edits' = Edits!BudgetTimerFired(edits) /\ UNCHANGED jobs
    BY <1>6 DEF BudgetTimer
  <2>2. Attended(edits') /\ edits'.pending = edits.pending /\ edits'.running = edits.running
    BY <2>1, TimerFiredAttended
  <2> QED
    BY <2>1, <2>2 DEF CallsAttended
<1> QED
  BY <1>1, <1>2, <1>3, <1>4, <1>5, <1>6 DEF EditSteps

LEMMA OtherStepAttended ==
  ASSUME AttendedInv, \/ GuildRemoved \/ GuildRejoined \/ TimePasses
                      \/ SettingsChanged \/ \E p \in Playing : PlayerEvent(p)
  PROVE  CallsAttended' /\ Attended(edits')
<1> USE DEF AttendedInv
<1>1. CASE GuildRemoved
  <2>1. /\ edits' = Edits!Unregistered(edits)
        /\ jobs' = [j \in Jobs |-> [jobs[j] EXCEPT !.todo = @ \cap {edits.running}, !.mine = FALSE]]
    BY <1>1 DEF GuildRemoved
  <2>2. Attended(edits') /\ edits'.running = edits.running
    BY <2>1, UnregisteredAttended
  <2>3. /\ jobs' \in [Jobs -> JobRecords]
        /\ \A j \in Jobs : /\ jobs'[j].kind = jobs[j].kind
                           /\ jobs'[j].todo = jobs[j].todo \cap {edits.running}
    BY <2>1 DEF CallsAttended, JobRecords
  <2> QED
    BY <2>2, <2>3 DEF CallsAttended
<1>2. CASE TimePasses
  <2>1. edits' = Edits!Older(edits) /\ UNCHANGED jobs
    BY <1>2 DEF TimePasses
  <2>2. Attended(edits') /\ edits'.pending = edits.pending /\ edits'.running = edits.running
    BY <2>1, OlderAttended
  <2> QED
    BY <2>1, <2>2 DEF CallsAttended
<1>3. CASE UNCHANGED <<jobs, edits>>
  BY <1>3 DEF CallsAttended
<1>4. GuildRejoined \/ SettingsChanged \/ (\E p \in Playing : PlayerEvent(p))
        => UNCHANGED <<jobs, edits>>
  BY DEF GuildRejoined, SettingsChanged, PlayerEvent
<1> QED
  BY <1>1, <1>2, <1>3, <1>4

\* What else a step leaves behind keeps its shape.
LEMMA RestStep ==
  ASSUME AttendedInv, Next
  PROVE  RestShaped'
<1> USE DEF AttendedInv
<1>1. PlayerStays => player' \in Playing /\ shown' \subseteq Messages /\ reading' \in BOOLEAN
  BY DEF PlayerStays, RestShaped
<1>2. \A p \in Playing : PlayerIs(p) =>
        player' \in Playing /\ shown' \subseteq Messages /\ reading' \in BOOLEAN
  BY DEF PlayerIs
<1>3. ResetTick => tick' \in {NoTimer} \cup 0..Interval
  BY TimesAssumption DEF ResetTick, NoTimer
<1>4. "still" \in Playing /\ player \in Playing
  BY DEF Playing, RestShaped
<1>5. player' \in Playing /\ shown' \subseteq Messages /\ reading' \in BOOLEAN
  <2>1. CASE \/ \E p \in Playing : PlayerEvent(p)
             \/ SettingsChanged \/ ClickFast \/ ClickSlow \/ Timers
             \/ GuildRemoved \/ GuildRejoined \/ TimePasses
    BY <2>1, <1>1, <1>2, <1>4 DEF PlayerEvent, SettingsChanged, ClickFast, ClickSlow, Timers,
         FireRefresh, FireTick, GuildRemoved, GuildRejoined, TimePasses
  <2>2. CASE LyricLine
    BY <2>2 DEF LyricLine, RestShaped
  <2>3. ASSUME NEW j \in Jobs, JobSteps(j)
        PROVE  player' \in Playing /\ shown' \subseteq Messages /\ reading' \in BOOLEAN
    <3>1. CASE Acknowledged(j)
      BY <3>1 DEF Acknowledged, RestShaped
    <3>2. CASE HintArrives(j)
      BY <3>2 DEF HintArrives, RestShaped
    <3> QED
      BY <2>3, <3>1, <3>2, <1>1, <1>2, <1>4 DEF JobSteps, BeginAction, EndAction, SendHint, Reconcile,
           ReconcileFails, WritePanel, WritePanelFails, TurnEnds
  <2>4. CASE EditSteps
    <3>1. CASE DrainEdits \/ EditFails
      BY <3>1 DEF DrainEdits, EditFails, RestShaped
    <3>2. CASE EditArrives
      <4>1. edits.running \in Messages
        BY <3>2 DEF EditArrives, Attended, Edits!EditStates
      <4> QED
        BY <3>2, <4>1 DEF EditArrives, RestShaped
    <3> QED
      BY <2>4, <3>1, <3>2, <1>1 DEF EditSteps, DrainWaits, DrainIdles, DrainSkips, BudgetTimer
  <2> QED
    BY <2>1, <2>2, <2>3, <2>4 DEF Next
<1>6. tick' \in {NoTimer} \cup 0..Interval
  <2>1. CASE TimePasses
    <3>1. tick' = IF tick > 0 THEN tick - 1 ELSE tick
      BY <2>1 DEF TimePasses
    <3> QED
      BY <3>1, TimesAssumption DEF RestShaped, NoTimer
  <2>2. UNCHANGED tick \/ tick' = NoTimer \/ ResetTick \/ TimePasses
    <3>1. ASSUME NEW j \in Jobs, JobSteps(j) PROVE UNCHANGED tick \/ tick' = NoTimer \/ ResetTick
      BY <3>1 DEF JobSteps, Acknowledged, BeginAction, EndAction, SendHint, HintArrives, Reconcile,
           ReconcileFails, WritePanel, WritePanelFails, TurnEnds
    <3>2. EditSteps => UNCHANGED tick
      BY DEF EditSteps, DrainWaits, DrainIdles, DrainSkips, DrainEdits, EditArrives, EditFails, BudgetTimer
    <3>3. \/ \E p \in Playing : PlayerEvent(p)
          \/ SettingsChanged \/ LyricLine \/ ClickFast \/ ClickSlow \/ Timers
          \/ GuildRemoved \/ GuildRejoined
          => UNCHANGED tick \/ tick' = NoTimer
      BY DEF PlayerEvent, SettingsChanged, LyricLine, ClickFast, ClickSlow, Timers, FireRefresh, FireTick,
             GuildRemoved, GuildRejoined
    <3> QED
      BY <3>1, <3>2, <3>3 DEF Next
  <2> QED
    BY <2>1, <2>2, <1>3 DEF RestShaped
<1>7. floor' \in [Messages -> Nat]
  <2>1. CASE TimePasses
    <3>1. floor' = [m \in Messages |-> IF floor[m] > 0 THEN floor[m] - 1 ELSE 0]
      BY <2>1 DEF TimePasses
    <3> QED
      BY <3>1 DEF RestShaped
  <2>2. CASE GuildRemoved
    BY <2>2 DEF GuildRemoved
  <2>3. CASE DrainEdits
    <3>1. PICK m : floor' = [floor EXCEPT ![m] = Floor[m]]
      BY <2>3 DEF DrainEdits
    <3> QED
      BY <3>1, TimesAssumption DEF RestShaped
  <2>4. UNCHANGED floor \/ TimePasses \/ GuildRemoved \/ DrainEdits
    <3>1. ASSUME NEW j \in Jobs, JobSteps(j) PROVE UNCHANGED floor
      BY <3>1 DEF JobSteps, Acknowledged, BeginAction, EndAction, SendHint, HintArrives, Reconcile,
           ReconcileFails, WritePanel, WritePanelFails, TurnEnds
    <3>2. EditSteps => UNCHANGED floor \/ DrainEdits
      BY DEF EditSteps, DrainWaits, DrainIdles, DrainSkips, EditArrives, EditFails, BudgetTimer
    <3>3. \/ \E p \in Playing : PlayerEvent(p)
          \/ SettingsChanged \/ LyricLine \/ ClickFast \/ ClickSlow \/ Timers
          \/ GuildRejoined
          => UNCHANGED floor
      BY DEF PlayerEvent, SettingsChanged, LyricLine, ClickFast, ClickSlow, Timers, FireRefresh, FireTick,
             GuildRejoined
    <3> QED
      BY <3>1, <3>2, <3>3 DEF Next
  <2> QED
    BY <2>1, <2>2, <2>3, <2>4 DEF RestShaped
<1>8. joined' \in BOOLEAN /\ missed' \in BOOLEAN
  <2>1. ASSUME NEW j \in Jobs, JobSteps(j) PROVE UNCHANGED joined /\ missed' \in {missed, TRUE, FALSE}
    BY <2>1 DEF JobSteps, Acknowledged, BeginAction, EndAction, SendHint, HintArrives, Reconcile,
         ReconcileFails, WritePanel, WritePanelFails, TurnEnds, PlayerIs
  <2>2. EditSteps => UNCHANGED joined /\ missed' \in {missed, TRUE}
    BY DEF EditSteps, DrainWaits, DrainIdles, DrainSkips, DrainEdits, EditArrives, EditFails, BudgetTimer
  <2>3. \/ \E p \in Playing : PlayerEvent(p)
        \/ SettingsChanged \/ LyricLine \/ ClickFast \/ ClickSlow \/ Timers
        \/ GuildRemoved \/ GuildRejoined \/ TimePasses
        => joined' \in {joined, TRUE, FALSE} /\ missed' \in {missed, TRUE, FALSE}
    BY DEF PlayerEvent, SettingsChanged, LyricLine, ClickFast, ClickSlow, Timers, FireRefresh, FireTick,
           GuildRemoved, GuildRejoined, TimePasses, PlayerIs
  <2> QED
    BY <2>1, <2>2, <2>3 DEF Next, RestShaped
<1> QED
  BY <1>5, <1>6, <1>7, <1>8 DEF RestShaped

LEMMA InitAttended == Init => AttendedInv
<1> SUFFICES ASSUME Init PROVE AttendedInv
  OBVIOUS
<1>1. RestShaped
  BY TimesAssumption DEF Init, RestShaped, Playing
<1>2. CallsAttended
  BY NoJobIs DEF Init, CallsAttended
<1> QED
  BY <1>1, <1>2, NoEditsAttended DEF Init, AttendedInv

LEMMA NextKeepsAttended == AttendedInv /\ [Next]_vars => AttendedInv'
<1> SUFFICES ASSUME AttendedInv, [Next]_vars PROVE AttendedInv'
  OBVIOUS
<1>1. CASE Next
  <2>1. CASE LyricLine \/ ClickFast \/ ClickSlow \/ Timers
    <3>1. UNCHANGED edits
      BY <2>1 DEF LyricLine, ClickFast, ClickSlow, Timers, FireRefresh, FireTick
    <3> QED
      BY <1>1, <2>1, <3>1, NewCallAttended, RestStep DEF AttendedInv, Timers
  <2>2. CASE ~(LyricLine \/ ClickFast \/ ClickSlow \/ Timers)
    <3>1. CallsAttended' /\ Attended(edits')
      BY <1>1, <2>2, CallStepAttended, EditStepAttended, OtherStepAttended DEF Next
    <3> QED
      BY <1>1, <3>1, RestStep DEF AttendedInv
  <2> QED
    BY <2>1, <2>2
<1>2. CASE UNCHANGED vars
  BY <1>2 DEF vars, AttendedInv, RestShaped, CallsAttended
<1> QED
  BY <1>1, <1>2

-----------------------------------------------------------------------------
(* The invariant, and what it says of the properties.                      *)

LEMMA InitHolds == Init => Inv
<1> SUFFICES ASSUME Init PROVE Inv
  OBVIOUS
<1>1. lines = Queue!NobodyInLine /\ jobs = [j \in Jobs |-> NoJob] /\ sched = Refresh!NewScheduler
  BY DEF Init
<1>2. NoJob \in Calls /\ NoJob.kind = "none" /\ NoJob.at = "none"
  BY DEF NoJob, Calls
<1>3. lines = Serial!NobodyInLine /\ \A j \in Jobs : lines.prev[j] = Out
  BY <1>1 DEF Queue!NobodyInLine, Serial!NobodyInLine
<1>4. Serial!Orderly(lines)
  BY <1>3, Serial!EmptyOrderly
<1>5. LinesFit
  BY <1>1, <1>2, <1>3, <1>4 DEF LinesFit, Placed
<1>6. BatchFits
  BY <1>1, TimesAssumption DEF BatchFits, NoBatchStarves, EveryRequestHasItsRefresh, NoTimer,
                               Refresh!NoTimer, Refresh!NewScheduler, Refresh!Schedulers
<1> QED
  BY <1>5, <1>6 DEF Inv

LEMMA NextKeepsInv == Inv /\ [Next]_vars => Inv'
<1> SUFFICES ASSUME Inv, [Next]_vars PROVE Inv'
  OBVIOUS
<1>1. CASE Next
  <2>1. LinesFit'
    BY <1>1, NewCallStep, CallStep, OtherStep DEF Inv, Next, Timers
  <2> QED
    BY <1>1, <2>1, BatchStep DEF Inv
<1>2. CASE UNCHANGED vars
  <2>1. UNCHANGED <<lines, jobs, sched>>
    BY <1>2 DEF vars
  <2> QED
    BY <2>1 DEF Inv, LinesFit, Placed, BatchFits, NoBatchStarves, EveryRequestHasItsRefresh
<1> QED
  BY <1>1, <1>2

\* Calls are lined up where they say they are, and the batches of refreshes are
\* in bounds, whatever is asked, fails or is dropped (control-channel-service.ts).
THEOREM PanelInvariance == Spec => []Inv
  BY InitHolds, NextKeepsInv, PTL DEF Spec

\* One write turn of the panel's messages runs at a time, nobody who lined up is
\* forgotten, and no request for a refresh is lost (keyed-serial-queue.ts,
\* panel-refresh-coordinator.ts).
THEOREM PanelStaysInOrder == Spec => []PanelInOrder
<1>1. Inv => PanelInOrder
  <2> SUFFICES ASSUME Inv PROVE PanelInOrder
    OBVIOUS
  <2> DEFINE W == {j \in Jobs : \/ jobs[j].at \in {"hinting", "editing"}
                                \/ jobs[j].at = "ack" /\ Queue!HasTurn(lines, j)}
  <2>1. \A i, j \in W : i = j
    <3> SUFFICES ASSUME NEW i \in W, NEW j \in W PROVE i = j
      OBVIOUS
    <3>1. /\ i \in Jobs /\ j \in Jobs /\ lines.key[i] = lines.key[j]
          /\ lines.prev[i] = None /\ lines.prev[j] = None
      BY DEF Inv, LinesFit, Placed, Queue!HasTurn
    <3> QED
      BY <3>1, ApartIs, Serial!OneTurn DEF Inv, LinesFit, Serial!HasTurn
  <2>2. Cardinality(W) <= 1
    <3>1. CASE W = {}
      BY <3>1, FS_EmptySet
    <3>2. CASE W # {}
      <4>1. PICK j : W = {j}
        BY <2>1, <3>2
      <4> HIDE DEF W
      <4>2. Cardinality(W) = 1
        BY <4>1, FS_Singleton
      <4> QED
        BY <4>2
    <3> QED
      BY <3>1, <3>2
  <2>3. OneWriterAtATime
    BY <2>2 DEF OneWriterAtATime
  <2>4. WaitsForSomebody
    BY ApartIs, Serial!WaitsBehind DEF Inv, LinesFit, WaitsForSomebody
  <2> QED
    BY <2>3, <2>4 DEF Inv, BatchFits, PanelInOrder
<1> QED
  BY PanelInvariance, <1>1, PTL

\* A batch of refreshes is put off no further than MaxWait, however often
\* refreshes are asked for (panel-refresh-coordinator.ts).
THEOREM BatchesAreInTime == Spec => []NoBatchStarves
<1>1. Inv => NoBatchStarves
  BY DEF Inv, BatchFits
<1> QED
  BY PanelInvariance, <1>1, PTL

\* Everything has its shape, and the edit scheduler never has a pending write that
\* nothing will come to, a turn that awaits a write that is neither pending nor
\* running, or a running write too many for the budget (channel-edit-scheduler.ts).
THEOREM NothingStaysStranded == Spec => []NothingIsStranded
<1>1. Spec => []AttendedInv
  BY InitAttended, NextKeepsAttended, PTL DEF Spec
<1>2. Inv /\ AttendedInv => NothingIsStranded
  <2> SUFFICES ASSUME Inv, AttendedInv PROVE NothingIsStranded
    OBVIOUS
  <2>1. lines \in Queue!Lines
    BY DEF Inv, LinesFit, Serial!Orderly, Serial!Lines, Queue!Lines
  <2>2. TypeOK
    BY <2>1 DEF TypeOK, Inv, BatchFits, AttendedInv, RestShaped, CallsAttended, Attended
  <2> QED
    BY <2>2 DEF NothingIsStranded, AttendedInv, CallsAttended, Attended
<1> QED
  BY PanelInvariance, <1>1, <1>2, PTL

-----------------------------------------------------------------------------
(* Why calls go on.                                                        *)

\* Which calls stand where.
Sensible(job) ==
  /\ job.kind = "none" <=> job.at = "none"
  /\ job.at \in {"ack", "acting"} => job.kind = "click"
  /\ job.at = "actions" => job.kind \in {"click", "refresh", "tick"}
  /\ job.at = "hinting" => job.kind = "hint"
  /\ job.at = "editing" => job.kind # "hint"

\* How far a call has come: from the answer to a click over its action to the write.
Stage(at) == CASE at = "ack" -> 1 [] at = "actions" -> 2 [] at = "acting" -> 3
               [] at = "writes" -> 4 [] at \in {"hinting", "editing"} -> 5 [] OTHER -> 6

\* A call begins, stays where it is while it awaits no more than before, or goes on.
Begins(job, now) ==
  /\ job.kind = "none"
  /\ <<now.kind, now.at>> \in {<<"lyrics", "writes">>, <<"click", "ack">>, <<"click", "actions">>,
                               <<"hint", "writes">>, <<"refresh", "actions">>, <<"tick", "actions">>}
Stays(job, now) == now.kind = job.kind /\ now.at = job.at /\ now.todo \subseteq job.todo
GoesFurther(job, now) ==
  \/ now = NoJob
  \/ now.kind = job.kind /\ \/ job.at = "ack" /\ now.at = "actions"
                            \/ job.at = "actions" /\ job.kind = "click" /\ now.at = "acting"
                            \/ job.at = "actions" /\ job.kind \in {"refresh", "tick"} /\ now.at = "writes"
                            \/ job.at = "acting" /\ now.at = "writes"
                            \/ job.at = "writes" /\ job.kind = "hint" /\ now.at = "hinting"
                            \/ job.at = "writes" /\ job.kind # "hint" /\ now.at = "editing"

LEMMA OneCallMoves ==
  ASSUME jobs \in [Jobs -> JobRecords], NEW j \in Jobs, JobSteps(j), jobs[j].kind # "none"
  PROVE  /\ GoesFurther(jobs[j], jobs'[j])
         /\ \A i \in Jobs \ {j} : Begins(jobs[i], jobs'[i]) \/ Stays(jobs[i], jobs'[i])
<1> USE DEF GoesFurther, Begins, Stays
<1>1. CASE Acknowledged(j)
  BY <1>1 DEF Acknowledged, MyTurn, JobRecords
<1>2. CASE BeginAction(j)
  <2>1. jobs[j].at = "actions" /\ jobs[j].kind = "click"
    BY <1>2 DEF BeginAction, MyTurn
  <2>2. CASE jobs' = [jobs EXCEPT ![j].at = "acting"]
    BY <2>1, <2>2 DEF JobRecords
  <2>3. CASE /\ Free # {}
             /\ jobs' = [jobs EXCEPT ![j].at = "acting",
                                     ![NewJob] = [NoJob EXCEPT !.kind = "hint", !.at = "writes"]]
    <3> DEFINE n == NewJob
    <3>1. n \in Jobs /\ jobs[n].kind = "none" /\ n # j
      BY <2>1, <2>3, FreshCall DEF Free
    <3>2. jobs' = [jobs EXCEPT ![j].at = "acting", ![n] = [NoJob EXCEPT !.kind = "hint", !.at = "writes"]]
      BY <2>3
    <3> HIDE DEF n
    <3>3. /\ jobs'[j] = [jobs[j] EXCEPT !.at = "acting"]
          /\ jobs'[n] = [NoJob EXCEPT !.kind = "hint", !.at = "writes"]
          /\ \A i \in Jobs \ {j, n} : jobs'[i] = jobs[i]
      BY <3>1, <3>2
    <3> QED
      BY <2>1, <3>1, <3>3 DEF JobRecords, NoJob
  <2> QED
    BY <1>2, <2>2, <2>3 DEF BeginAction
<1>3. CASE EndAction(j)
  BY <1>3 DEF EndAction, JobRecords
<1>4. CASE SendHint(j)
  BY <1>4 DEF SendHint, MyTurn, JobRecords
<1>5. CASE Reconcile(j)
  BY <1>5 DEF Reconcile, MyTurn, JobRecords
<1>6. CASE WritePanel(j)
  <2> DEFINE renders == RendersOf(jobs[j].kind)
  <2>1. /\ jobs[j].at = "writes" /\ jobs[j].kind # "hint"
        /\ jobs' = [jobs EXCEPT ![j].at = "editing", ![j].todo = renders]
    BY <1>6 DEF WritePanel, MyTurn
  <2> HIDE DEF renders
  <2> QED
    BY <2>1 DEF JobRecords
<1>7. CASE HintArrives(j) \/ ReconcileFails(j) \/ WritePanelFails(j) \/ TurnEnds(j)
  <2>1. jobs' = [jobs EXCEPT ![j] = NoJob]
    BY <1>7 DEF HintArrives, ReconcileFails, WritePanelFails, TurnEnds, EndJob
  <2> QED
    BY <2>1
<1> QED
  BY <1>1, <1>2, <1>3, <1>4, <1>5, <1>6, <1>7 DEF JobSteps

LEMMA CallsMove ==
  ASSUME LinesFit, AttendedInv, Next, NEW i \in Jobs
  PROVE  /\ \/ Begins(jobs[i], jobs'[i]) \/ Stays(jobs[i], jobs'[i])
            \/ jobs[i].kind # "none" /\ GoesFurther(jobs[i], jobs'[i])
         /\ JobSteps(i) => jobs[i].kind # "none" /\ GoesFurther(jobs[i], jobs'[i])
<1>0. jobs \in [Jobs -> JobRecords]
  BY DEF AttendedInv, CallsAttended
<1>1. ASSUME NEW j \in Jobs, JobSteps(j) PROVE jobs[j].kind # "none"
  <2>1. lines.prev[j] = None
    BY <1>1, TurnFacts DEF JobSteps, Acknowledged, BeginAction, EndAction, SendHint, HintArrives,
         Reconcile, ReconcileFails, WritePanel, WritePanelFails, TurnEnds
  <2> QED
    BY <2>1, TurnFacts
<1>2. JobSteps(i) => jobs[i].kind # "none" /\ GoesFurther(jobs[i], jobs'[i])
  BY <1>0, <1>1, OneCallMoves
<1> DEFINE Moves == \/ Begins(jobs[i], jobs'[i]) \/ Stays(jobs[i], jobs'[i])
                    \/ jobs[i].kind # "none" /\ GoesFurther(jobs[i], jobs'[i])
<1>3. CASE \E j \in Jobs : JobSteps(j)
  BY <1>0, <1>1, <1>3, OneCallMoves
<1>4. ASSUME LyricLine \/ ClickFast \/ ClickSlow \/ FireRefresh \/ FireTick
      PROVE  Moves
  <2> DEFINE n == NewJob
  <2>1. n \in Jobs /\ jobs[n].kind = "none"
    BY <1>4, FreshCall DEF LyricLine, ClickFast, ClickSlow, FireRefresh, FireTick, Free
  <2>2. PICK job : /\ jobs' = [jobs EXCEPT ![n] = job]
                   /\ <<job.kind, job.at>> \in
                        {<<"lyrics", "writes">>, <<"click", "ack">>, <<"click", "actions">>,
                         <<"refresh", "actions">>, <<"tick", "actions">>}
    <3> DEFINE lyric == [NoJob EXCEPT !.kind = "lyrics", !.at = "writes"]
               fast == [NoJob EXCEPT !.kind = "click", !.at = "ack"]
               slow == [NoJob EXCEPT !.kind = "click", !.at = "actions"]
               refresh == [NoJob EXCEPT !.kind = "refresh", !.at = "actions", !.mine = TRUE]
               ticked == [NoJob EXCEPT !.kind = "tick", !.at = "actions"]
    <3>1. /\ lyric.kind = "lyrics" /\ lyric.at = "writes"
          /\ fast.kind = "click" /\ fast.at = "ack"
          /\ slow.kind = "click" /\ slow.at = "actions"
          /\ refresh.kind = "refresh" /\ refresh.at = "actions"
          /\ ticked.kind = "tick" /\ ticked.at = "actions"
      BY DEF NoJob
    <3>2. \E job \in {lyric, fast, slow, refresh, ticked} : jobs' = [jobs EXCEPT ![n] = job]
      BY <1>4 DEF LyricLine, ClickFast, ClickSlow, FireRefresh, FireTick
    <3> HIDE DEF lyric, fast, slow, refresh, ticked, n
    <3> QED
      BY <3>1, <3>2
  <2> HIDE DEF n
  <2>3. jobs'[n] = job /\ \A k \in Jobs \ {n} : jobs'[k] = jobs[k]
    BY <1>0, <2>1, <2>2
  <2>4. Begins(jobs[n], jobs'[n]) /\ \A k \in Jobs \ {n} : Stays(jobs[k], jobs'[k])
    BY <2>1, <2>2, <2>3 DEF Begins, Stays
  <2> QED
    BY <2>4
<1>5. ASSUME \/ EditSteps \/ GuildRemoved \/ GuildRejoined \/ TimePasses
             \/ SettingsChanged \/ \E p \in Playing : PlayerEvent(p)
      PROVE  Stays(jobs[i], jobs'[i])
  <2>1. \/ UNCHANGED jobs
        \/ \E m : Answered(m)
        \/ jobs' = [j \in Jobs |-> [jobs[j] EXCEPT !.todo = @ \cap {edits.running}, !.mine = FALSE]]
    BY <1>5 DEF EditSteps, DrainWaits, DrainIdles, DrainSkips, DrainEdits, EditArrives, EditFails,
         BudgetTimer, GuildRemoved, GuildRejoined, TimePasses, SettingsChanged, PlayerEvent
  <2>2. CASE UNCHANGED jobs
    BY <2>2 DEF Stays
  <2>3. CASE \E m : Answered(m)
    BY <1>0, <2>3 DEF Stays, Answered, JobRecords
  <2>4. CASE jobs' = [j \in Jobs |-> [jobs[j] EXCEPT !.todo = @ \cap {edits.running}, !.mine = FALSE]]
    BY <1>0, <2>4 DEF Stays, JobRecords
  <2> QED
    BY <2>1, <2>2, <2>3, <2>4
<1>6. Moves
  BY <1>3, <1>4, <1>5 DEF Next, Timers
<1> QED
  BY <1>2, <1>6

CallsSensible == \A j \in Jobs : Sensible(jobs[j])

LEMMA NextKeepsSensible ==
  ASSUME LinesFit, AttendedInv, CallsSensible, [Next]_vars PROVE CallsSensible'
<1>1. CASE Next
  <2> SUFFICES ASSUME NEW j \in Jobs PROVE Sensible(jobs'[j])
    BY DEF CallsSensible
  <2>1. Sensible(jobs[j])
    BY DEF CallsSensible
  <2>2. CASE Begins(jobs[j], jobs'[j])
    BY <2>2 DEF Begins, Sensible
  <2>3. CASE Stays(jobs[j], jobs'[j])
    BY <2>1, <2>3 DEF Stays, Sensible
  <2>4. CASE jobs[j].kind # "none" /\ GoesFurther(jobs[j], jobs'[j])
    BY <2>1, <2>4 DEF GoesFurther, Sensible, NoJob
  <2> QED
    BY <1>1, <2>2, <2>3, <2>4, CallsMove
<1>2. CASE UNCHANGED vars
  BY <1>2 DEF vars, CallsSensible
<1> QED
  BY <1>1, <1>2

LEMMA AlwaysSensible == Spec => [](Inv /\ AttendedInv /\ CallsSensible)
<1>1. Init => Inv /\ AttendedInv /\ CallsSensible
  BY InitHolds, InitAttended DEF Init, CallsSensible, Sensible, NoJob
<1>2. Inv /\ AttendedInv /\ CallsSensible /\ [Next]_vars => (Inv /\ AttendedInv /\ CallsSensible)'
  BY NextKeepsInv, NextKeepsAttended, NextKeepsSensible DEF Inv
<1> QED
  BY <1>1, <1>2, PTL DEF Spec

\* A call can take its next step: its turn has come, or what it waited for has.
CanGoOn(j) ==
  \/ jobs[j].at \in {"acting", "hinting"}
  \/ jobs[j].at \in {"ack", "actions", "writes"} /\ Queue!HasTurn(lines, j)
  \/ jobs[j].at = "editing" /\ jobs[j].todo = {}

\* A drain is queued, a write is on its way, or the budget's timer runs.
EditsGoOn == edits.drain \/ edits.running # None \/ edits.timer # NoTimer

\* Calls never wait for each other in a circle: whoever is under way waits in one
\* queue, and somebody in that same queue has the turn and can go on, or awaits
\* edits that are being worked at (guildLocks and panelWriteQueue of
\* control-channel-service.ts, drain of channel-edit-scheduler.ts).
THEOREM CallsNeverWaitInACircle ==
  Spec => [](\A j \in Jobs : jobs[j].kind # "none" =>
               \E i \in Jobs : /\ lines.key[i] = lines.key[j] /\ Queue!HasTurn(lines, i)
                               /\ CanGoOn(i) \/ (jobs[i].at = "editing" /\ EditsGoOn))
<1> DEFINE Served(j) ==
             \E i \in Jobs : /\ lines.key[i] = lines.key[j] /\ Queue!HasTurn(lines, i)
                             /\ CanGoOn(i) \/ (jobs[i].at = "editing" /\ EditsGoOn)
<1>1. Inv /\ AttendedInv /\ CallsSensible => \A j \in Jobs : jobs[j].kind # "none" => Served(j)
  <2> SUFFICES ASSUME Inv, AttendedInv, CallsSensible, NEW j \in Jobs, jobs[j].kind # "none"
               PROVE  Served(j)
    OBVIOUS
  <2>0. /\ Serial!Orderly(lines) /\ \A i \in Jobs : Placed(lines, jobs[i], i) /\ Sensible(jobs[i])
        /\ jobs \in [Jobs -> JobRecords]
    BY DEF Inv, LinesFit, CallsSensible, AttendedInv, CallsAttended
  <2>1. lines.prev[j] # Out
    BY <2>0 DEF Placed, Sensible, JobRecords
  <2>2. PICK i \in Jobs : Serial!HasTurn(lines, i) /\ lines.key[i] = lines.key[j]
    BY <2>0, <2>1, ApartIs, Serial!SomebodysTurn
  <2>3. Queue!HasTurn(lines, i) /\ jobs[i].kind # "none"
    BY <2>0, <2>2, JobsAssumption DEF Queue!HasTurn, Serial!HasTurn, Placed
  <2>4. jobs[i].at # "none" /\ jobs[i] \in JobRecords
    BY <2>0, <2>3 DEF Sensible
  <2>5. ASSUME jobs[i].at = "editing", jobs[i].todo # {} PROVE EditsGoOn
    <3>1. edits.pending # {} \/ edits.running # None
      BY <2>4, <2>5, EditFacts DEF AttendedInv, CallsAttended, JobRecords
    <3> QED
      BY <3>1 DEF AttendedInv, Attended, EditsGoOn
  <2> QED
    BY <2>2, <2>3, <2>4, <2>5 DEF CanGoOn, JobRecords
<1> HIDE DEF Served
<1>2. Spec => [](\A j \in Jobs : jobs[j].kind # "none" => Served(j))
  BY <1>1, AlwaysSensible, PTL
<1> QED
  BY <1>2 DEF Served

\* A call takes at most five steps of its own and then is over: each takes it
\* further, nobody takes it back, and a write turn never comes to await more edits
\* than it scheduled (control-channel-service.ts).
THEOREM CallsOnlyAdvance ==
  Spec => [][\A j \in Jobs : jobs[j].kind # "none" =>
               \/ jobs'[j].kind = "none"
               \/ /\ jobs'[j].kind = jobs[j].kind
                  /\ Stage(jobs'[j].at) >= Stage(jobs[j].at) /\ Stage(jobs'[j].at) \in 1..5
                  /\ JobSteps(j) => Stage(jobs'[j].at) > Stage(jobs[j].at)
                  /\ jobs[j].at = "editing" => jobs'[j].todo \subseteq jobs[j].todo]_vars
<1> DEFINE Goes(j) ==
               \/ jobs'[j].kind = "none"
               \/ /\ jobs'[j].kind = jobs[j].kind
                  /\ Stage(jobs'[j].at) >= Stage(jobs[j].at) /\ Stage(jobs'[j].at) \in 1..5
                  /\ JobSteps(j) => Stage(jobs'[j].at) > Stage(jobs[j].at)
                  /\ jobs[j].at = "editing" => jobs'[j].todo \subseteq jobs[j].todo
           Step == \A j \in Jobs : jobs[j].kind # "none" => Goes(j)
<1>1. Inv /\ AttendedInv /\ CallsSensible /\ [Next]_vars => [Step]_vars
  <2> SUFFICES ASSUME Inv, AttendedInv, CallsSensible, Next, NEW j \in Jobs, jobs[j].kind # "none"
               PROVE  Goes(j)
    OBVIOUS
  <2>1. Sensible(jobs[j]) /\ jobs[j] \in JobRecords /\ LinesFit
    BY DEF Inv, CallsSensible, AttendedInv, CallsAttended
  <2>2. ASSUME GoesFurther(jobs[j], jobs'[j]) PROVE Goes(j)
    BY <2>1, <2>2 DEF GoesFurther, Sensible, Stage, NoJob
  <2>3. ASSUME Stays(jobs[j], jobs'[j]), ~JobSteps(j) PROVE Goes(j)
    BY <2>1, <2>3 DEF Stays, Sensible, Stage, JobRecords
  <2>4. ~Begins(jobs[j], jobs'[j])
    BY DEF Begins
  <2> QED
    BY <2>1, <2>2, <2>3, <2>4, CallsMove
<1> HIDE DEF Step
<1>2. Spec => [][Step]_vars
  BY <1>1, AlwaysSensible, PTL DEF Spec
<1> QED
  BY <1>2 DEF Step
-----------------------------------------------------------------------------
(* Why no change of the player is forgotten.                               *)

\* The queue message is a message of the panel, and has no floor: it is edited
\* whenever it shows something else (control-channel-service.ts).
QueueIsPlain == "queue" \in Messages /\ Floor["queue"] = 0

\* A call that will write the queue message as the player is then.
Catches(j) ==
  /\ jobs[j].kind \in {"refresh", "click"}
  /\ \/ jobs[j].at \in {"ack", "actions", "acting", "writes"}
     \/ /\ jobs[j].at = "editing" /\ "queue" \in jobs[j].todo
        /\ "queue" \in edits.pending \/ (edits.running = "queue" /\ reading)

Coming == sched.waiters \/ sched.rerun # "no" \/ \E j \in Jobs : Catches(j)

\* Every write is some turn's, which is still there for the answer; what is being
\* written is neither asked for again meanwhile nor up to date.
WritesAwaited ==
  /\ \A m \in edits.pending \cup ({edits.running} \ {None}) :
       \E j \in Jobs : jobs[j].at = "editing" /\ m \in jobs[j].todo
  /\ edits.running \notin edits.pending /\ edits.running \notin shown
  /\ floor["queue"] = 0

\* One call stands before another: it is in a part of the line that waits for
\* nobody outside of it.
Closed(l, S) == \A c \in S : l.prev[c] \in S \cup {None}
Ahead(l, i, j) == \E S \in SUBSET Jobs : i \in S /\ j \notin S /\ Closed(l, S)

\* A guess is followed by the write of the click it was made for.
GuessesFollowed ==
  \A h \in Jobs : jobs[h].kind = "hint" =>
    \E j \in Jobs : /\ jobs[j].kind = "click"
                    /\ \/ jobs[j].at = "acting"
                       \/ jobs[j].at = "writes" /\ Ahead(lines, h, j)

CatchUpInv ==
  /\ WritesAwaited /\ GuessesFollowed
  /\ ~missed /\ "queue" \notin shown => Coming

\* The first of those in a part of the line that is closed has the turn.
LEMMA FirstAhead ==
  ASSUME LinesFit, NEW S \in SUBSET Jobs, Closed(lines, S), NEW c \in S
  PROVE  \E d \in S : lines.prev[d] = None /\ lines.key[d] = lines.key[c]
<1> DEFINE k == lines.key[c]
<1>1. lines.prev[c] # Out
  BY JobsAssumption DEF Closed
<1>2. c \in Serial!LinedUp(lines, k) /\ k \in {"actions", "writes"}
  BY <1>1 DEF LinesFit, Serial!Orderly, Serial!LinedUp
<1>3. PICK s \in Seq(Jobs) : Serial!Shape(lines, k, s)
  BY <1>2 DEF LinesFit, Serial!Orderly
<1> HIDE DEF k
<1> DEFINE places == {n \in 1..Len(s) : s[n] \in S}
<1>4. places \in SUBSET Nat /\ places # {}
  BY <1>2, <1>3 DEF Serial!Shape
<1> HIDE DEF places
<1>5. PICK n \in places : \A m \in places : n <= m
  BY <1>4, Smallest
<1>6. n \in 1..Len(s) /\ s[n] \in S
  BY DEF places
<1>7. n = 1
  <2> SUFFICES ASSUME n # 1 PROVE FALSE
    OBVIOUS
  <2>1. n - 1 \in 1..Len(s) /\ lines.prev[s[n]] = s[n - 1]
    BY <1>3, <1>6 DEF Serial!Shape
  <2>2. s[n - 1] \in Jobs
    BY <2>1
  <2>3. s[n - 1] \in S
    BY <1>6, <2>1, <2>2, JobsAssumption DEF Closed
  <2>4. n - 1 \in places
    BY <2>1, <2>3 DEF places
  <2> QED
    BY <1>5, <1>6, <2>4
<1>8. lines.prev[s[n]] = None
  BY <1>3, <1>6, <1>7 DEF Serial!Shape
<1>9. s[n] \in Serial!LinedUp(lines, k)
  BY <1>3, <1>6 DEF Serial!Shape
<1> QED
  BY <1>6, <1>8, <1>9 DEF Serial!LinedUp, k

\* So nobody stands before one who has the turn.
LEMMA NobodyAhead ==
  ASSUME LinesFit, NEW i \in Jobs, NEW j \in Jobs, lines.prev[j] = None,
         lines.key[i] = lines.key[j]
  PROVE  ~Ahead(lines, i, j)
<1> SUFFICES ASSUME NEW S \in SUBSET Jobs, i \in S, j \notin S, Closed(lines, S)
             PROVE  FALSE
  BY DEF Ahead
<1>1. PICK d \in S : lines.prev[d] = None /\ lines.key[d] = lines.key[i]
  BY FirstAhead
<1>2. d = j
  BY <1>1, ApartIs, Serial!OneTurn DEF LinesFit, Serial!HasTurn
<1> QED
  BY <1>2

\* Everybody lined up for a queue, together.
LEMMA LineIsClosed ==
  ASSUME LinesFit, NEW k
  PROVE  Closed(lines, {c \in Jobs : lines.prev[c] # Out /\ lines.key[c] = k})
<1> SUFFICES ASSUME NEW c \in Jobs, lines.prev[c] # Out, lines.prev[c] # None
             PROVE  /\ lines.prev[c] \in Jobs /\ lines.prev[lines.prev[c]] # Out
                    /\ lines.key[lines.prev[c]] = lines.key[c]
  BY DEF Closed
<1>1. lines.prev[c] \in Jobs
  BY DEF LinesFit, Serial!Orderly, Serial!Lines
<1> QED
  BY <1>1, ApartIs, Serial!WaitsBehind DEF LinesFit

\* A step moves one caller at most: to the end of a line, or out of it.
Moved(i) == \A c \in Jobs \ {i} :
              lines'.prev[c] = IF lines.prev[i] # Out /\ lines.prev[c] = i THEN None ELSE lines.prev[c]

LEMMA ClosedStays ==
  ASSUME NEW i \in Jobs, Moved(i), NEW S \in SUBSET Jobs, Closed(lines, S)
  PROVE  Closed(lines', S \ {i})
  BY JobsAssumption DEF Moved, Closed

LEMMA LineUpMoves ==
  ASSUME LinesFit, NEW i \in Jobs, lines.prev[i] = Out, NEW k \in {"actions", "writes"}, LineUp(i, k)
  PROVE  Moved(i)
  BY LinesUp DEF LinesFit, LineUp, Moved

LEMMA MoveOnMoves ==
  ASSUME LinesFit, NEW i \in Jobs, lines.prev[i] = None, NEW k \in {"actions", "writes"}, MoveOn(i, k)
  PROVE  Moved(i)
<1> DEFINE l == Queue!Left(lines, i)
           m == Queue!Joined(l, k, i)
<1>1. lines' = m
  BY DEF MoveOn
<1>2. /\ Serial!Orderly(l) /\ l.prev[i] = Out
      /\ \A c \in Jobs \ {i} : l.prev[c] = IF lines.prev[c] = i THEN None ELSE lines.prev[c]
  BY Leaves DEF LinesFit
<1> HIDE DEF l
<1>3. \A c \in Jobs \ {i} : m.prev[c] = l.prev[c]
  BY <1>2, LinesUp
<1> HIDE DEF m
<1> QED
  BY <1>1, <1>2, <1>3, JobsAssumption DEF Moved

LEMMA EndMoves ==
  ASSUME LinesFit, NEW i \in Jobs, lines.prev[i] = None, EndJob(i)
  PROVE  Moved(i)
  BY Leaves, JobsAssumption DEF LinesFit, EndJob, Moved

\* Whoever is moved begins or ends, or is no guess.
LEMMA LinesMove ==
  ASSUME LinesFit, CallsSensible, Next
  PROVE  \/ UNCHANGED lines
         \/ \E i \in Jobs : /\ Moved(i)
                            /\ jobs[i].kind # "hint" \/ jobs'[i].kind # "hint"
<1>1. CASE LyricLine \/ ClickFast \/ ClickSlow \/ Timers
  <2>1. Free # {} /\ \E k \in {"actions", "writes"} : LineUp(NewJob, k)
    BY <1>1 DEF LyricLine, ClickFast, ClickSlow, Timers, FireRefresh, FireTick, LineUp
  <2>2. NewJob \in Jobs /\ jobs[NewJob].kind = "none"
    BY <2>1, FreshCall DEF Free
  <2>3. lines.prev[NewJob] = Out
    BY <2>2 DEF LinesFit, Placed
  <2> QED
    BY <2>1, <2>2, <2>3, LineUpMoves
<1>2. ASSUME NEW j \in Jobs, JobSteps(j)
      PROVE  \/ UNCHANGED lines
             \/ \E i \in Jobs : Moved(i) /\ (jobs[i].kind # "hint" \/ jobs'[i].kind # "hint")
  <2> USE TurnFacts
  <2>1. CASE Acknowledged(j) \/ EndAction(j) \/ Reconcile(j)
    <3>1. lines.prev[j] = None /\ \E k \in {"actions", "writes"} : MoveOn(j, k)
      BY <2>1 DEF Acknowledged, EndAction, Reconcile
    <3>2. jobs[j].kind # "hint"
      <4>1. jobs[j].at \in {"ack", "acting"} \/ jobs[j].kind \in {"refresh", "tick"}
        BY <2>1 DEF Acknowledged, EndAction, Reconcile, MyTurn
      <4> QED
        BY <4>1 DEF CallsSensible, Sensible
    <3> QED
      BY <3>1, <3>2, MoveOnMoves
  <2>2. CASE BeginAction(j)
    <3>1. CASE UNCHANGED lines
      BY <3>1
    <3>2. CASE Free # {} /\ LineUp(NewJob, "writes")
      <4>1. NewJob \in Jobs /\ jobs[NewJob].kind = "none"
        BY <3>2, FreshCall DEF Free
      <4>2. lines.prev[NewJob] = Out
        BY <4>1 DEF LinesFit, Placed
      <4> QED
        BY <3>2, <4>1, <4>2, LineUpMoves
    <3> QED
      BY <2>2, <3>1, <3>2 DEF BeginAction
  <2>3. CASE SendHint(j) \/ WritePanel(j)
    BY <2>3 DEF SendHint, WritePanel
  <2>4. CASE HintArrives(j) \/ ReconcileFails(j) \/ WritePanelFails(j) \/ TurnEnds(j)
    <3>1. EndJob(j) /\ lines.prev[j] = None
      BY <2>4 DEF HintArrives, ReconcileFails, WritePanelFails, TurnEnds
    <3>2. jobs'[j] = NoJob
      BY <3>1 DEF EndJob
    <3> QED
      BY <3>1, <3>2, NoJobIs, EndMoves
  <2> QED
    BY <1>2, <2>1, <2>2, <2>3, <2>4 DEF JobSteps
<1>3. CASE ~(LyricLine \/ ClickFast \/ ClickSlow \/ Timers \/ \E j \in Jobs : JobSteps(j))
  BY <1>3 DEF Next, EditSteps, DrainWaits, DrainIdles, DrainSkips, DrainEdits, EditArrives, EditFails,
     BudgetTimer, GuildRemoved, GuildRejoined, TimePasses, SettingsChanged, PlayerEvent
<1> QED
  BY <1>1, <1>2, <1>3

\* A guess stays before whoever it was before.
LEMMA AheadStays ==
  ASSUME LinesFit, CallsSensible, Next, NEW h \in Jobs, jobs[h].kind = "hint", jobs'[h].kind = "hint",
         NEW j \in Jobs, NEW S \in SUBSET Jobs, h \in S, j \notin S, Closed(lines, S)
  PROVE  Ahead(lines', h, j)
<1>1. CASE UNCHANGED lines
  BY <1>1 DEF Ahead
<1>2. ASSUME NEW i \in Jobs, Moved(i), i # h PROVE Ahead(lines', h, j)
  <2>1. Closed(lines', S \ {i})
    BY <1>2, ClosedStays
  <2> QED
    BY <1>2, <2>1 DEF Ahead
<1> QED
  BY <1>1, <1>2, LinesMove

\* The steps that touch what is pending or running.
WriteSteps == \/ \E j \in Jobs : WritePanel(j)
              \/ DrainSkips \/ DrainEdits \/ EditArrives \/ EditFails \/ GuildRemoved

\* A call goes on by its own steps only.
LEMMA OthersStay ==
  ASSUME LinesFit, AttendedInv, Next, NEW i \in Jobs, jobs[i].kind # "none", ~JobSteps(i)
  PROVE  /\ jobs'[i].kind = jobs[i].kind /\ jobs'[i].at = jobs[i].at
         /\ ~(DrainSkips \/ EditArrives \/ EditFails \/ GuildRemoved) => jobs'[i] = jobs[i]
<1>0. jobs \in [Jobs -> JobRecords]
  BY DEF AttendedInv, CallsAttended
<1>1. CASE LyricLine \/ ClickFast \/ ClickSlow \/ Timers
  <2>1. Free # {} /\ \E job : jobs' = [jobs EXCEPT ![NewJob] = job]
    BY <1>1 DEF LyricLine, ClickFast, ClickSlow, Timers, FireRefresh, FireTick
  <2>2. NewJob # i
    BY <2>1, FreshCall DEF Free
  <2> QED
    BY <1>0, <2>1, <2>2
<1>2. ASSUME NEW j \in Jobs, JobSteps(j) PROVE jobs'[i] = jobs[i]
  <2>1. CASE BeginAction(j)
    <3>1. CASE jobs' = [jobs EXCEPT ![j].at = "acting"]
      BY <1>0, <1>2, <3>1
    <3>2. CASE /\ Free # {}
               /\ jobs' = [jobs EXCEPT ![j].at = "acting",
                                       ![NewJob] = [NoJob EXCEPT !.kind = "hint", !.at = "writes"]]
      <4>1. NewJob # i
        BY <3>2, FreshCall DEF Free
      <4> QED
        BY <1>0, <1>2, <3>2, <4>1
    <3> QED
      BY <2>1, <3>1, <3>2 DEF BeginAction
  <2>2. CASE ~BeginAction(j)
    <3>1. \E job : jobs' = [jobs EXCEPT ![j] = job]
      BY <1>0, <1>2, <2>2 DEF JobSteps, Acknowledged, EndAction, SendHint, HintArrives,
         Reconcile, ReconcileFails, WritePanel, WritePanelFails, TurnEnds, EndJob
    <3> QED
      BY <1>0, <1>2, <3>1
  <2> QED
    BY <2>1, <2>2
<1>3. CASE \/ EditSteps \/ GuildRemoved \/ GuildRejoined \/ TimePasses
           \/ SettingsChanged \/ \E p \in Playing : PlayerEvent(p)
  <2>1. CASE UNCHANGED jobs
    BY <2>1
  <2>2. CASE DrainSkips \/ EditArrives \/ EditFails
    BY <1>0, <2>2 DEF DrainSkips, EditArrives, EditFails, Answered, JobRecords
  <2>3. CASE GuildRemoved
    BY <1>0, <2>3 DEF GuildRemoved, JobRecords
  <2> QED
    BY <1>3, <2>1, <2>2, <2>3 DEF EditSteps, DrainWaits, DrainIdles, DrainEdits, BudgetTimer,
       GuildRejoined, TimePasses, SettingsChanged, PlayerEvent
<1> QED
  BY <1>1, <1>2, <1>3 DEF Next

\* A guess begins with a click that begins to act.
LEMMA GuessBegins ==
  ASSUME LinesFit, AttendedInv, Next, NEW h \in Jobs, jobs[h].kind # "hint", jobs'[h].kind = "hint"
  PROVE  \E j \in Jobs : jobs'[j].kind = "click" /\ jobs'[j].at = "acting"
<1>0. jobs \in [Jobs -> JobRecords]
  BY DEF AttendedInv, CallsAttended
<1>1. PICK j \in Jobs : JobSteps(j)
  <2>1. CASE jobs[h].kind # "none"
    BY <2>1, OthersStay
  <2>2. CASE LyricLine \/ ClickFast \/ ClickSlow \/ Timers
    <3> DEFINE lyric == [NoJob EXCEPT !.kind = "lyrics", !.at = "writes"]
               fast == [NoJob EXCEPT !.kind = "click", !.at = "ack"]
               slow == [NoJob EXCEPT !.kind = "click", !.at = "actions"]
               refresh == [NoJob EXCEPT !.kind = "refresh", !.at = "actions", !.mine = TRUE]
               ticked == [NoJob EXCEPT !.kind = "tick", !.at = "actions"]
    <3>1. \A job \in {lyric, fast, slow, refresh, ticked} : job.kind # "hint"
      BY DEF NoJob
    <3>2. \E job \in {lyric, fast, slow, refresh, ticked} : jobs' = [jobs EXCEPT ![NewJob] = job]
      BY <2>2 DEF LyricLine, ClickFast, ClickSlow, Timers, FireRefresh, FireTick
    <3> HIDE DEF lyric, fast, slow, refresh, ticked
    <3>3. PICK job : job.kind # "hint" /\ jobs' = [jobs EXCEPT ![NewJob] = job]
      BY <3>1, <3>2
    <3> QED
      BY <1>0, <3>3
  <2>3. CASE \/ EditSteps \/ GuildRemoved \/ GuildRejoined \/ TimePasses
             \/ SettingsChanged \/ \E p \in Playing : PlayerEvent(p)
    <3>1. CASE UNCHANGED jobs
      BY <3>1
    <3>2. CASE DrainSkips \/ EditArrives \/ EditFails
      <4>1. PICK m : Answered(m)
        BY <3>2 DEF DrainSkips, EditArrives, EditFails
      <4> QED
        BY <1>0, <4>1 DEF Answered, JobRecords
    <3>3. CASE GuildRemoved
      BY <1>0, <3>3 DEF GuildRemoved, JobRecords
    <3> QED
      BY <2>3, <3>1, <3>2, <3>3 DEF EditSteps, DrainWaits, DrainIdles, DrainEdits, BudgetTimer,
         GuildRejoined, TimePasses, SettingsChanged, PlayerEvent
  <2> QED
    BY <2>2, <2>3 DEF Next
<1>2. CASE BeginAction(j)
  <2>1. jobs[j].kind = "click" /\ jobs[j].at = "actions"
    BY <1>2 DEF BeginAction, MyTurn
  <2>2. CASE jobs' = [jobs EXCEPT ![j].at = "acting"]
    BY <1>0, <2>1, <2>2 DEF JobRecords
  <2>3. CASE /\ Free # {}
             /\ jobs' = [jobs EXCEPT ![j].at = "acting",
                                     ![NewJob] = [NoJob EXCEPT !.kind = "hint", !.at = "writes"]]
    <3>1. NewJob # j
      BY <2>1, <2>3, FreshCall DEF Free
    <3> QED
      BY <1>0, <2>1, <2>3, <3>1 DEF JobRecords
  <2> QED
    BY <1>2, <2>2, <2>3 DEF BeginAction
<1>3. CASE ~BeginAction(j)
  <2>1. /\ \A i \in Jobs \ {j} : jobs'[i] = jobs[i]
        /\ jobs'[j] = NoJob \/ jobs'[j].kind = jobs[j].kind
    BY <1>0, <1>1, <1>3 DEF JobSteps, Acknowledged, EndAction, SendHint, HintArrives, JobRecords,
       Reconcile, ReconcileFails, WritePanel, WritePanelFails, TurnEnds, EndJob
  <2> QED
    BY <2>1, NoJobIs
<1> QED
  BY <1>2, <1>3

LEMMA NextKeepsGuesses ==
  ASSUME LinesFit, AttendedInv, CallsSensible, GuessesFollowed, Next
  PROVE  GuessesFollowed'
<1> SUFFICES ASSUME NEW h \in Jobs, jobs'[h].kind = "hint"
             PROVE  \E j \in Jobs : /\ jobs'[j].kind = "click"
                                    /\ \/ jobs'[j].at = "acting"
                                       \/ jobs'[j].at = "writes" /\ Ahead(lines', h, j)
  BY DEF GuessesFollowed
<1>1. CASE jobs[h].kind # "hint"
  BY <1>1, GuessBegins
<1>2. CASE jobs[h].kind = "hint"
  <2>1. PICK j \in Jobs : /\ jobs[j].kind = "click"
                          /\ jobs[j].at = "acting" \/ (jobs[j].at = "writes" /\ Ahead(lines, h, j))
    BY <1>2 DEF GuessesFollowed
  <2>2. /\ jobs[h].at \in {"writes", "hinting"}
        /\ lines.prev[h] # Out /\ lines.key[h] = "writes"
    BY <1>2 DEF CallsSensible, Sensible, LinesFit, Placed, Calls
  <2>3. CASE jobs[j].at = "acting"
    <3> DEFINE S == {c \in Jobs : lines.prev[c] # Out /\ lines.key[c] = "writes"}
    <3>1. h \in S /\ j \notin S /\ S \in SUBSET Jobs /\ Closed(lines, S)
      BY <2>2, <2>3, LineIsClosed DEF LinesFit, Placed
    <3> HIDE DEF S
    <3>2. Ahead(lines', h, j)
      BY <1>2, <3>1, AheadStays
    <3>3. CASE ~JobSteps(j)
      BY <2>1, <2>3, <3>3, OthersStay
    <3>4. CASE JobSteps(j)
      <4>1. GoesFurther(jobs[j], jobs'[j]) /\ jobs'[j] # NoJob
        <5>1. EndAction(j)
          BY <2>1, <2>3, <3>4 DEF JobSteps, Acknowledged, BeginAction, EndAction, SendHint, HintArrives,
             Reconcile, ReconcileFails, WritePanel, WritePanelFails, TurnEnds, MyTurn
        <5>2. jobs'[j].kind = "click"
          BY <2>1, <5>1 DEF EndAction, AttendedInv, CallsAttended, JobRecords
        <5> QED
          BY <3>4, <5>2, CallsMove, NoJobIs
      <4>2. jobs'[j].kind = "click" /\ jobs'[j].at = "writes"
        BY <2>1, <2>3, <4>1 DEF GoesFurther
      <4> QED
        BY <3>2, <4>2
    <3> QED
      BY <3>3, <3>4
  <2>4. CASE jobs[j].at = "writes"
    <3>1. PICK S \in SUBSET Jobs : h \in S /\ j \notin S /\ Closed(lines, S)
      BY <2>1, <2>4 DEF Ahead
    <3>2. Ahead(lines', h, j)
      BY <1>2, <3>1, AheadStays
    <3>3. ~JobSteps(j)
      <4> SUFFICES ASSUME JobSteps(j) PROVE FALSE
        OBVIOUS
      <4>1. MyTurn(j, "writes")
        BY <2>1, <2>4 DEF JobSteps, Acknowledged, BeginAction, EndAction, SendHint, HintArrives,
           Reconcile, ReconcileFails, WritePanel, WritePanelFails, TurnEnds, MyTurn
      <4>2. lines.prev[j] = None /\ lines.key[j] = "writes"
        BY <2>4, <4>1, TurnFacts DEF LinesFit, Placed
      <4> QED
        BY <2>1, <2>2, <2>4, <4>2, NobodyAhead
    <3> QED
      BY <2>1, <2>4, <3>2, <3>3, OthersStay
  <2> QED
    BY <2>1, <2>3, <2>4
<1> QED
  BY <1>1, <1>2

-----------------------------------------------------------------------------
(* What is written, and for whom.                                          *)

\* What a step does to the writes of the edit scheduler and who awaits them.
WriteBegins(j) ==
  /\ edits.pending = {} /\ edits.running = None
  /\ edits'.pending = RendersOf(jobs[j].kind) /\ edits'.running = None
  /\ jobs[j].at = "writes" /\ jobs[j].kind # "hint"
  /\ jobs'[j] = [jobs[j] EXCEPT !.at = "editing", !.todo = RendersOf(jobs[j].kind)]

WriteAnswered(m) ==
  /\ jobs' = [j \in Jobs |-> [jobs[j] EXCEPT !.todo = @ \ {m}]]
  /\ edits'.pending = edits.pending \ {m} /\ edits'.running = None

LEMMA WritesBegin ==
  ASSUME LinesFit, AttendedInv, WritesAwaited, NEW j \in Jobs, WritePanel(j)
  PROVE  WriteBegins(j) /\ UNCHANGED <<shown, reading, floor, sched, missed>>
<1> DEFINE renders == RendersOf(jobs[j].kind)
<1>1. /\ MyTurn(j, "writes") /\ jobs[j].kind # "hint"
      /\ jobs' = [jobs EXCEPT ![j].at = "editing", ![j].todo = renders]
      /\ edits' = Edits!Scheduled(edits, renders)
      /\ UNCHANGED <<shown, reading, floor, sched, missed>>
  BY DEF WritePanel, PlayerStays
<1>2. renders \in SUBSET Messages
  BY DEF RendersOf, AttendedInv, CallsAttended
<1> HIDE DEF renders
<1>3. edits'.pending = edits.pending \cup renders /\ edits'.running = edits.running
  BY <1>1, <1>2, ScheduledAttended DEF AttendedInv
<1>4. jobs[j].at = "writes" /\ lines.prev[j] = None /\ lines.key[j] = "writes"
  BY <1>1, TurnFacts DEF LinesFit, Placed
<1>5. \A w \in Jobs : jobs[w].at # "editing"
  <2> SUFFICES ASSUME NEW w \in Jobs, jobs[w].at = "editing" PROVE FALSE
    OBVIOUS
  <2>1. lines.prev[w] = None /\ lines.key[w] = "writes"
    BY DEF LinesFit, Placed
  <2>2. w = j
    BY <1>4, <2>1, ApartIs, Serial!OneTurn DEF LinesFit, Serial!HasTurn
  <2> QED
    BY <1>4, <2>2
<1>6. edits.pending = {} /\ edits.running = None
  BY <1>5 DEF WritesAwaited
<1>7. jobs'[j] = [jobs[j] EXCEPT !.at = "editing", !.todo = renders]
  BY <1>1 DEF AttendedInv, CallsAttended, JobRecords
<1> QED
  BY <1>1, <1>3, <1>4, <1>6, <1>7 DEF WriteBegins, renders

\* The next write is over at once, ...
LEMMA WritesSkip ==
  ASSUME AttendedInv, DrainSkips
  PROVE  /\ edits.running = None
         /\ \E m \in edits.pending : WriteAnswered(m) /\ (TooSoon(m) \/ m \in shown)
         /\ UNCHANGED <<shown, reading, floor, sched, missed>>
<1> DEFINE m == Edits!nextPending(edits)
           started == Edits!WriteStarted(edits, m)
<1>1. /\ Edits!CanWrite(edits) /\ ~Edits!BudgetSpent(edits) /\ Answered(m)
      /\ edits' = Edits!WriteEnded(started, FALSE) /\ (TooSoon(m) \/ m \in shown)
      /\ UNCHANGED <<shown, reading, floor, sched, missed>>
  BY DEF DrainSkips, PlayerStays
<1>2. m \in edits.pending /\ edits.running = None
  BY <1>1, NextIsPending DEF Edits!CanWrite, AttendedInv
<1> HIDE DEF m
<1>3. Attended(started) /\ started.pending = edits.pending \ {m}
  BY <1>1, <1>2, StartedAttended DEF AttendedInv
<1> HIDE DEF started
<1>4. edits'.pending = edits.pending \ {m} /\ edits'.running = None
  BY <1>1, <1>3, EndedAttended
<1> QED
  BY <1>1, <1>2, <1>4 DEF WriteAnswered, Answered

\* ... or leaves, ...
LEMMA WritesLeave ==
  ASSUME AttendedInv, DrainEdits
  PROVE  \E m \in edits.pending :
           /\ edits.running = None /\ edits'.running = m /\ m \notin shown
           /\ edits'.pending = edits.pending \ {m} /\ floor' = [floor EXCEPT ![m] = Floor[m]]
           /\ reading' = TRUE /\ UNCHANGED <<shown, jobs, sched, missed>>
<1> DEFINE m == Edits!nextPending(edits)
<1>1. /\ Edits!CanWrite(edits) /\ ~Edits!BudgetSpent(edits) /\ m \notin shown
      /\ edits' = Edits!WriteStarted(edits, m) /\ floor' = [floor EXCEPT ![m] = Floor[m]]
      /\ reading' = TRUE /\ UNCHANGED <<shown, jobs, sched, missed>>
  BY DEF DrainEdits
<1>2. m \in edits.pending /\ edits.running = None
  BY <1>1, NextIsPending DEF Edits!CanWrite, AttendedInv
<1> HIDE DEF m
<1>3. edits'.pending = edits.pending \ {m} /\ edits'.running = m
  BY <1>1, <1>2, StartedAttended DEF AttendedInv
<1> QED
  BY <1>1, <1>2, <1>3

\* ... and is over when it was answered.
LEMMA WritesEnd ==
  ASSUME AttendedInv, WritesAwaited, EditArrives \/ EditFails
  PROVE  /\ edits.running \in Messages /\ WriteAnswered(edits.running)
         /\ UNCHANGED <<floor, sched>>
<1>1. /\ edits.running # None /\ edits' = Edits!WriteEnded(edits, TRUE)
      /\ Answered(edits.running) /\ UNCHANGED <<floor, sched>>
  BY DEF EditArrives, EditFails
<1>2. edits'.pending = edits.pending /\ edits'.running = None
  BY <1>1, EndedAttended DEF AttendedInv
<1>3. edits.running \in Messages /\ edits.pending \ {edits.running} = edits.pending
  BY <1>1 DEF AttendedInv, Attended, Edits!EditStates, WritesAwaited
<1> QED
  BY <1>1, <1>2, <1>3 DEF WriteAnswered, Answered

LEMMA WritesDropped ==
  ASSUME AttendedInv, GuildRemoved
  PROVE  /\ edits'.pending = {} /\ edits'.running = edits.running
         /\ \A j \in Jobs : /\ jobs'[j].kind = jobs[j].kind /\ jobs'[j].at = jobs[j].at
                            /\ jobs'[j].todo = jobs[j].todo \cap {edits.running}
         /\ floor' = [m \in Messages |-> 0] /\ UNCHANGED shown /\ missed'
<1>1. /\ edits' = Edits!Unregistered(edits)
      /\ jobs' = [j \in Jobs |-> [jobs[j] EXCEPT !.todo = @ \cap {edits.running}, !.mine = FALSE]]
      /\ floor' = [m \in Messages |-> 0] /\ UNCHANGED shown /\ missed'
  BY DEF GuildRemoved, PlayerStays
<1>2. edits'.pending = {} /\ edits'.running = edits.running
  BY <1>1, UnregisteredAttended DEF AttendedInv
<1> QED
  BY <1>1, <1>2 DEF AttendedInv, CallsAttended, JobRecords

\* Every other step leaves the writes alone, and messages only go stale in it.
LEMMA WritesRest ==
  ASSUME AttendedInv, Next, ~WriteSteps
  PROVE  /\ edits'.pending = edits.pending /\ edits'.running = edits.running
         /\ shown' \subseteq shown
         /\ UNCHANGED floor \/ TimePasses
<1>1. CASE \/ LyricLine \/ ClickFast \/ ClickSlow \/ Timers \/ GuildRejoined
           \/ SettingsChanged \/ \E p \in Playing : PlayerEvent(p)
  BY <1>1 DEF LyricLine, ClickFast, ClickSlow, Timers, FireRefresh, FireTick, GuildRejoined,
     SettingsChanged, PlayerEvent, PlayerIs, PlayerStays
<1>2. ASSUME NEW j \in Jobs, JobSteps(j)
      PROVE  UNCHANGED <<edits, floor>> /\ shown' \subseteq shown
  <2>1. CASE Acknowledged(j) \/ HintArrives(j)
    BY <2>1 DEF Acknowledged, HintArrives
  <2> QED
    BY <1>2, <2>1 DEF JobSteps, BeginAction, EndAction, SendHint, Reconcile, ReconcileFails,
       WritePanelFails, TurnEnds, PlayerIs, PlayerStays, WriteSteps
<1>3. CASE EditSteps
  <2>1. CASE DrainWaits
    BY <2>1, AwaitAttended DEF DrainWaits, PlayerStays, AttendedInv
  <2>2. CASE DrainIdles
    BY <2>2 DEF DrainIdles, PlayerStays, AttendedInv, Attended, Edits!EditStates
  <2>3. CASE BudgetTimer
    BY <2>3, TimerFiredAttended DEF BudgetTimer, PlayerStays, AttendedInv
  <2> QED
    BY <1>3, <2>1, <2>2, <2>3 DEF EditSteps, WriteSteps
<1>4. CASE TimePasses
  BY <1>4, OlderAttended DEF TimePasses, PlayerStays, AttendedInv
<1> QED
  BY <1>1, <1>2, <1>3, <1>4 DEF Next, WriteSteps

LEMMA NextKeepsWrites ==
  ASSUME QueueIsPlain, LinesFit, AttendedInv, CallsSensible, WritesAwaited, Next
  PROVE  WritesAwaited'
<1> DEFINE Wanted == edits.pending \cup ({edits.running} \ {None})
           HasTurnFor(m) == \E w \in Jobs : jobs[w].at = "editing" /\ m \in jobs[w].todo
<1>1. /\ edits.pending \subseteq Messages /\ edits.running \in Messages \cup {None}
      /\ None \notin Messages /\ shown \subseteq Messages /\ shown' \subseteq Messages
      /\ floor \in [Messages -> Nat]
  BY EditFacts, RestStep DEF AttendedInv, RestShaped, Attended, Edits!EditStates
<1>2. CASE \E j \in Jobs : WritePanel(j)
  <2>1. PICK j \in Jobs : WriteBegins(j) /\ UNCHANGED <<shown, reading, floor, sched, missed>>
    BY <1>2, WritesBegin
  <2>2. edits'.pending \subseteq Messages
    BY <2>1 DEF WriteBegins, RendersOf, AttendedInv, CallsAttended
  <2>3. jobs'[j].at = "editing" /\ jobs'[j].todo = edits'.pending
    BY <2>1 DEF WriteBegins, AttendedInv, CallsAttended, JobRecords
  <2> QED
    BY <1>1, <2>1, <2>2, <2>3 DEF WriteBegins, WritesAwaited
<1>3. ASSUME NEW m \in Messages, WriteAnswered(m), UNCHANGED floor, edits.running \in {m, None}
      PROVE  WritesAwaited'
  <2>1. \A w \in Jobs : jobs'[w].at = jobs[w].at /\ jobs'[w].todo = jobs[w].todo \ {m}
    BY <1>3 DEF WriteAnswered, AttendedInv, CallsAttended, JobRecords
  <2>2. edits'.pending = edits.pending \ {m} /\ edits'.running = None
    BY <1>3 DEF WriteAnswered
  <2> QED
    BY <1>1, <1>3, <2>1, <2>2 DEF WritesAwaited
<1>4. CASE DrainSkips
  BY <1>1, <1>3, <1>4, WritesSkip
<1>5. CASE EditArrives \/ EditFails
  BY <1>3, <1>5, WritesEnd
<1>6. CASE DrainEdits
  <2>1. PICK m \in edits.pending :
          /\ edits.running = None /\ edits'.running = m /\ m \notin shown
          /\ edits'.pending = edits.pending \ {m} /\ floor' = [floor EXCEPT ![m] = Floor[m]]
          /\ UNCHANGED <<shown, jobs>>
    BY <1>6, WritesLeave
  <2>2. floor'["queue"] = 0
    BY <1>1, <2>1 DEF QueueIsPlain, WritesAwaited
  <2> QED
    BY <1>1, <2>1, <2>2 DEF WritesAwaited
<1>7. CASE GuildRemoved
  <2>1. /\ edits'.pending = {} /\ edits'.running = edits.running
        /\ \A j \in Jobs : jobs'[j].at = jobs[j].at /\ jobs'[j].todo = jobs[j].todo \cap {edits.running}
        /\ floor' = [m \in Messages |-> 0] /\ UNCHANGED shown
    BY <1>7, WritesDropped
  <2> QED
    BY <1>1, <2>1 DEF WritesAwaited, QueueIsPlain
<1>8. CASE ~WriteSteps
  <2>1. /\ edits'.pending = edits.pending /\ edits'.running = edits.running
        /\ shown' \subseteq shown /\ (UNCHANGED floor \/ TimePasses)
    BY <1>8, WritesRest
  <2>2. floor'["queue"] = 0
    BY <1>1, <2>1 DEF TimePasses, WritesAwaited, QueueIsPlain
  <2>3. ASSUME NEW m \in Wanted
        PROVE  \E w \in Jobs : jobs'[w].at = "editing" /\ m \in jobs'[w].todo
    <3>1. PICK w \in Jobs : jobs[w].at = "editing" /\ m \in jobs[w].todo
      BY DEF WritesAwaited
    <3>2. jobs[w].kind # "none"
      BY <3>1 DEF CallsSensible, Sensible
    <3>3. ~JobSteps(w)
      BY <3>1 DEF JobSteps, Acknowledged, BeginAction, EndAction, SendHint, HintArrives,
         Reconcile, ReconcileFails, WritePanel, WritePanelFails, TurnEnds, MyTurn
    <3> QED
      BY <1>8, <3>1, <3>2, <3>3, OthersStay DEF WriteSteps
  <2> QED
    BY <2>1, <2>2, <2>3 DEF WritesAwaited
<1> QED
  BY <1>2, <1>4, <1>5, <1>6, <1>7, <1>8 DEF WriteSteps

\* Whoever will write the queue message still will, unless the message shows the
\* player by now or a step failed.
LEMMA CatchGoesOn ==
  ASSUME QueueIsPlain, LinesFit, AttendedInv, WritesAwaited, Next,
         ~missed', missed' = missed, "queue" \notin shown, "queue" \notin shown',
         LyricLine \/ DrainEdits \/ EditArrives \/ UNCHANGED reading,
         NEW j \in Jobs, Catches(j)
  PROVE  Catches(j)'
<1>0. jobs \in [Jobs -> JobRecords] /\ None \notin Messages /\ "queue" \in Messages
  BY EditFacts DEF AttendedInv, CallsAttended, QueueIsPlain
<1>1. CASE JobSteps(j)
  <2>1. CASE WritePanel(j)
    <3>1. WriteBegins(j)
      BY <2>1, WritesBegin
    <3>2. RendersOf(jobs[j].kind) = Messages
      BY DEF Catches, RendersOf
    <3> QED
      BY <1>0, <3>1, <3>2 DEF WriteBegins, Catches, JobRecords
  <2>2. CASE Acknowledged(j) \/ EndAction(j) \/ Reconcile(j)
    BY <1>0, <2>2 DEF Acknowledged, EndAction, Reconcile, Catches, JobRecords
  <2>3. CASE BeginAction(j)
    <3>1. jobs'[j].kind = jobs[j].kind /\ jobs'[j].at = "acting"
      <4>1. jobs[j].kind = "click" /\ jobs[j].at = "actions"
        BY <2>3 DEF BeginAction, MyTurn
      <4>2. CASE jobs' = [jobs EXCEPT ![j].at = "acting"]
        BY <1>0, <4>2 DEF JobRecords
      <4>3. CASE /\ Free # {}
                 /\ jobs' = [jobs EXCEPT ![j].at = "acting",
                                         ![NewJob] = [NoJob EXCEPT !.kind = "hint", !.at = "writes"]]
        <5>1. NewJob # j
          BY <4>1, <4>3, FreshCall DEF Free
        <5> QED
          BY <1>0, <4>3, <5>1 DEF JobRecords
      <4> QED
        BY <2>3, <4>2, <4>3 DEF BeginAction
    <3> QED
      BY <3>1 DEF Catches
  <2>4. ~(SendHint(j) \/ HintArrives(j) \/ ReconcileFails(j) \/ WritePanelFails(j) \/ TurnEnds(j))
    BY DEF SendHint, HintArrives, ReconcileFails, WritePanelFails, TurnEnds, Catches
  <2> QED
    BY <1>1, <2>1, <2>2, <2>3, <2>4 DEF JobSteps
<1>2. CASE ~JobSteps(j)
  <2>1. /\ jobs'[j].kind = jobs[j].kind /\ jobs'[j].at = jobs[j].at
        /\ ~(DrainSkips \/ EditArrives \/ EditFails \/ GuildRemoved) => jobs'[j] = jobs[j]
    BY <1>2, OthersStay DEF Catches
  <2>2. CASE jobs[j].at # "editing"
    BY <2>1, <2>2 DEF Catches
  <2>3. CASE jobs[j].at = "editing"
    <3>1. /\ "queue" \in jobs[j].todo
          /\ "queue" \in edits.pending \/ (edits.running = "queue" /\ reading)
      BY <2>3 DEF Catches
    <3>2. ASSUME NEW m \in Messages, WriteAnswered(m), m # "queue", "queue" \in edits.pending
          PROVE  Catches(j)'
      <4>1. jobs'[j].todo = jobs[j].todo \ {m}
        BY <1>0, <3>2 DEF WriteAnswered, JobRecords
      <4> QED
        BY <2>1, <3>1, <3>2, <4>1 DEF WriteAnswered, Catches
    <3>3. CASE DrainSkips
      <4>1. edits.running = None
        BY <3>3, WritesSkip
      <4>2. PICK m \in edits.pending : WriteAnswered(m) /\ (TooSoon(m) \/ m \in shown)
        BY <3>3, WritesSkip
      <4>3. m # "queue" /\ m \in Messages
        BY <4>2 DEF TooSoon, WritesAwaited, AttendedInv, Attended, Edits!EditStates
      <4> QED
        BY <1>0, <3>1, <3>2, <4>1, <4>2, <4>3
    <3>4. CASE DrainEdits
      <4>1. PICK m \in edits.pending :
              /\ edits.running = None /\ edits'.running = m
              /\ edits'.pending = edits.pending \ {m} /\ reading' = TRUE /\ UNCHANGED jobs
        BY <3>4, WritesLeave
      <4> QED
        BY <1>0, <3>1, <4>1 DEF Catches
    <3>5. CASE EditArrives
      <4>1. edits.running \in Messages /\ WriteAnswered(edits.running)
        BY <3>5, WritesEnd
      <4>2. ~(edits.running = "queue" /\ reading)
        BY <3>5 DEF EditArrives
      <4> QED
        BY <3>1, <3>2, <4>1, <4>2 DEF WritesAwaited
    <3>6. CASE EditFails \/ GuildRemoved
      BY <3>6 DEF EditFails, GuildRemoved
    <3>7. CASE \E i \in Jobs : WritePanel(i)
      <4>1. PICK i \in Jobs : WriteBegins(i)
        BY <3>7, WritesBegin
      <4> QED
        BY <1>0, <3>1, <4>1 DEF WriteBegins
    <3>8. CASE ~WriteSteps
      <4>1. edits'.pending = edits.pending /\ edits'.running = edits.running /\ jobs'[j] = jobs[j]
        BY <2>1, <3>8, WritesRest DEF WriteSteps
      <4>2. edits.running = "queue" /\ reading => reading'
        BY <3>8 DEF LyricLine, WriteSteps
      <4> QED
        BY <3>1, <4>1, <4>2 DEF Catches
    <3> QED
      BY <3>3, <3>4, <3>5, <3>6, <3>7, <3>8 DEF WriteSteps
  <2> QED
    BY <2>2, <2>3
<1> QED
  BY <1>1, <1>2

\* What was asked of the coordinator stays asked, until its refresh begins.
LEMMA AskedGoesOn ==
  ASSUME AttendedInv, BatchFits, Next, ~missed', sched.waiters \/ sched.rerun # "no"
  PROVE  sched'.waiters \/ sched'.rerun # "no" \/ FireRefresh
<1>0. sched \in Refresh!Schedulers
  BY DEF BatchFits
<1>1. ASSUME NEW now \in BOOLEAN, sched' = Refresh!Requested(sched, now)
      PROVE  sched'.waiters \/ sched'.rerun # "no"
  BY <1>0, <1>1 DEF Refresh!Requested, Refresh!Schedulers
<1>2. CASE UNCHANGED sched
  BY <1>2
<1>3. CASE TimePasses
  BY <1>0, <1>3 DEF TimePasses, Refresh!Waited, Refresh!Schedulers
<1>4. ASSUME NEW j \in Jobs, RefreshOver(j) PROVE sched'.waiters \/ sched'.rerun # "no"
  BY <1>0, <1>4 DEF RefreshOver, Refresh!RefreshEnded, Refresh!Schedulers
<1>5. ~GuildRemoved
  BY DEF GuildRemoved
<1>6. ASSUME NEW j \in Jobs, JobSteps(j)
      PROVE  UNCHANGED sched \/ RefreshOver(j) \/ sched' = Refresh!Requested(sched, FALSE)
  BY <1>6 DEF JobSteps, Acknowledged, BeginAction, EndAction, SendHint, HintArrives, Reconcile,
     ReconcileFails, WritePanel, WritePanelFails, TurnEnds
<1>7. EditSteps \/ GuildRejoined \/ LyricLine \/ ClickFast \/ ClickSlow \/ FireTick => UNCHANGED sched
  BY DEF EditSteps, DrainWaits, DrainIdles, DrainSkips, DrainEdits, EditArrives, EditFails, BudgetTimer,
     GuildRejoined, LyricLine, ClickFast, ClickSlow, FireTick
<1>8. SettingsChanged \/ (\E p \in Playing : PlayerEvent(p)) =>
        \E now \in BOOLEAN : sched' = Refresh!Requested(sched, now)
  BY DEF SettingsChanged, PlayerEvent
<1> QED
  BY <1>1, <1>2, <1>3, <1>4, <1>5, <1>6, <1>7, <1>8 DEF Next, Timers

\* A step that changes what the panel has to show asks for a refresh; the others
\* forget no failure, and only answers end the write in flight.
LEMMA ChangesAsk ==
  ASSUME Next, ~missed'
  PROVE  \/ \E now \in BOOLEAN : sched' = Refresh!Requested(sched, now)
         \/ /\ missed' = missed
            /\ LyricLine \/ DrainEdits \/ EditArrives \/ UNCHANGED reading
<1>1. ASSUME NEW j \in Jobs, JobSteps(j)
      PROVE  \/ sched' = Refresh!Requested(sched, FALSE)
             \/ missed' = missed /\ UNCHANGED reading
  BY <1>1 DEF JobSteps, Acknowledged, BeginAction, EndAction, SendHint, HintArrives, Reconcile,
     ReconcileFails, WritePanel, WritePanelFails, TurnEnds, PlayerStays
<1>2. EditSteps => missed' = missed /\ (DrainEdits \/ EditArrives \/ UNCHANGED reading)
  BY DEF EditSteps, DrainWaits, DrainIdles, DrainSkips, DrainEdits, EditArrives, EditFails, BudgetTimer,
     PlayerStays
<1>3. ~GuildRemoved
  BY DEF GuildRemoved
<1>4. LyricLine \/ ClickFast \/ ClickSlow \/ Timers \/ GuildRejoined \/ TimePasses
        => missed' = missed /\ (LyricLine \/ UNCHANGED reading)
  BY DEF LyricLine, ClickFast, ClickSlow, Timers, FireRefresh, FireTick, GuildRejoined, TimePasses,
     PlayerStays
<1>5. SettingsChanged \/ (\E p \in Playing : PlayerEvent(p)) =>
        \E now \in BOOLEAN : sched' = Refresh!Requested(sched, now)
  BY DEF SettingsChanged, PlayerEvent
<1> QED
  BY <1>1, <1>2, <1>3, <1>4, <1>5 DEF Next

\* When the queue message goes stale otherwise, somebody guessed: the click will
\* write it.
LEMMA GuessesAreMended ==
  ASSUME QueueIsPlain, LinesFit, AttendedInv, CallsSensible, WritesAwaited, GuessesFollowed, Next,
         "queue" \in shown, "queue" \notin shown',
         ~\E now \in BOOLEAN : sched' = Refresh!Requested(sched, now)
  PROVE  \E j \in Jobs : Catches(j)'
<1>0. jobs \in [Jobs -> JobRecords]
  BY DEF AttendedInv, CallsAttended
<1>1. PICK i \in Jobs : Acknowledged(i) \/ HintArrives(i)
  <2>1. ASSUME NEW j \in Jobs, JobSteps(j), ~Acknowledged(j), ~HintArrives(j) PROVE FALSE
    BY <2>1 DEF JobSteps, BeginAction, EndAction, SendHint, Reconcile,
       ReconcileFails, WritePanel, WritePanelFails, TurnEnds, PlayerStays
  <2>2. ~(LyricLine \/ ClickFast \/ ClickSlow \/ Timers \/ GuildRejoined \/ TimePasses \/ GuildRemoved)
    BY DEF LyricLine, ClickFast, ClickSlow, Timers, FireRefresh, FireTick, GuildRejoined, TimePasses,
       GuildRemoved, PlayerStays
  <2>3. ~(SettingsChanged \/ \E p \in Playing : PlayerEvent(p))
    BY DEF SettingsChanged, PlayerEvent
  <2>4. ~EditSteps
    BY DEF EditSteps, DrainWaits, DrainIdles, DrainSkips, DrainEdits, EditArrives, EditFails, BudgetTimer,
       PlayerStays, WritesAwaited
  <2> QED
    BY <2>1, <2>2, <2>3, <2>4 DEF Next
<1>2. CASE Acknowledged(i)
  <2>1. jobs[i].kind = "click"
    BY <1>2 DEF Acknowledged, MyTurn, CallsSensible, Sensible
  <2>2. jobs'[i].kind = "click" /\ jobs'[i].at = "actions"
    BY <1>0, <1>2, <2>1 DEF Acknowledged, JobRecords
  <2> QED
    BY <2>2 DEF Catches
<1>3. CASE HintArrives(i)
  <2>1. jobs[i].kind = "hint" /\ jobs' = [jobs EXCEPT ![i] = NoJob]
    BY <1>3 DEF HintArrives, EndJob, CallsSensible, Sensible
  <2>2. PICK j \in Jobs : jobs[j].kind = "click" /\ jobs[j].at \in {"acting", "writes"}
    BY <2>1 DEF GuessesFollowed
  <2>3. jobs'[j] = jobs[j]
    BY <1>0, <2>1, <2>2
  <2> QED
    BY <2>2, <2>3 DEF Catches
<1> QED
  BY <1>1, <1>2, <1>3

LEMMA NextKeepsCatchUp ==
  ASSUME QueueIsPlain, Inv, AttendedInv, CallsSensible, CatchUpInv, [Next]_vars
  PROVE  CatchUpInv'
<1> USE DEF Inv
<1>1. CASE UNCHANGED vars
  BY <1>1 DEF vars, CatchUpInv, WritesAwaited, GuessesFollowed, Coming, Catches
<1>2. CASE Next
  <2>1. WritesAwaited' /\ GuessesFollowed'
    BY <1>2, NextKeepsWrites, NextKeepsGuesses DEF CatchUpInv
  <2>2. ASSUME ~missed', "queue" \notin shown' PROVE Coming'
    <3>1. CASE \E now \in BOOLEAN : sched' = Refresh!Requested(sched, now)
      <4>1. sched \in Refresh!Schedulers
        BY DEF BatchFits
      <4> QED
        BY <3>1, <4>1 DEF Coming, Refresh!Requested, Refresh!Schedulers
    <3>2. CASE "queue" \in shown /\ ~\E now \in BOOLEAN : sched' = Refresh!Requested(sched, now)
      BY <1>2, <2>2, <3>2, GuessesAreMended DEF CatchUpInv, Coming
    <3>3. CASE "queue" \notin shown /\ ~\E now \in BOOLEAN : sched' = Refresh!Requested(sched, now)
      <4>1. /\ missed' = missed
            /\ LyricLine \/ DrainEdits \/ EditArrives \/ UNCHANGED reading
        BY <1>2, <2>2, <3>3, ChangesAsk
      <4>2. Coming
        BY <2>2, <3>3, <4>1 DEF CatchUpInv
      <4>3. CASE \E j \in Jobs : Catches(j)
        BY <1>2, <2>2, <3>3, <4>1, <4>3, CatchGoesOn DEF CatchUpInv, Coming
      <4>4. CASE FireRefresh
        <5> DEFINE job == [NoJob EXCEPT !.kind = "refresh", !.at = "actions", !.mine = TRUE]
        <5>1. NewJob \in Jobs /\ jobs' = [jobs EXCEPT ![NewJob] = job]
          BY <4>4, FreshCall DEF FireRefresh
        <5>2. job.kind = "refresh" /\ job.at = "actions"
          BY DEF NoJob
        <5> HIDE DEF job
        <5>3. jobs'[NewJob] = job
          BY <5>1 DEF AttendedInv, CallsAttended
        <5>4. \E j \in Jobs : jobs'[j].kind = "refresh" /\ jobs'[j].at = "actions"
          BY <5>1, <5>2, <5>3
        <5> QED
          BY <5>4 DEF Coming, Catches
      <4>5. CASE (sched.waiters \/ sched.rerun # "no") /\ ~FireRefresh
        BY <1>2, <2>2, <4>5, AskedGoesOn DEF Coming
      <4> QED
        BY <4>2, <4>3, <4>4, <4>5 DEF Coming
    <3> QED
      BY <3>1, <3>2, <3>3
  <2> QED
    BY <2>1, <2>2 DEF CatchUpInv
<1> QED
  BY <1>1, <1>2

LEMMA InitCatchesUp ==
  ASSUME QueueIsPlain, Init PROVE CatchUpInv
<1>1. \A j \in Jobs : jobs[j].kind = "none"
  BY NoJobIs DEF Init
<1>2. /\ edits.pending = {} /\ edits.running = None /\ shown = Messages /\ None \notin Messages
      /\ floor["queue"] = 0
  BY EditFacts, NoEditsAttended DEF Init, QueueIsPlain
<1> QED
  BY <1>1, <1>2 DEF CatchUpInv, WritesAwaited, GuessesFollowed, QueueIsPlain

\* Somebody will write the queue message: its refresh is due, a refresh or a click
\* under way has yet to write it or is writing it as the player is, or a refresh
\* that was asked for during another begins when that one is over.
IsNoticed ==
  \/ sched.waiters /\ sched.timer # NoTimer
  \/ \E j \in Jobs : Catches(j)
  \/ sched.rerun # "no" /\ \E j \in Jobs : jobs[j].kind = "refresh" /\ jobs[j].mine

\* No change of the player is forgotten: as long as no step failed since, the queue
\* message shows the player as it is, or somebody will write it, whatever was guessed,
\* put off, skipped or cancelled meanwhile (control-channel-service.ts,
\* panel-refresh-coordinator.ts, channel-edit-scheduler.ts).
THEOREM NoChangeIsForgotten ==
  ASSUME QueueIsPlain
  PROVE  Spec => [](~missed => "queue" \in shown \/ IsNoticed)
<1>1. Init => CatchUpInv
  BY InitCatchesUp
<1>2. Inv /\ AttendedInv /\ CallsSensible /\ CatchUpInv /\ [Next]_vars => CatchUpInv'
  BY NextKeepsCatchUp
<1>3. Inv /\ CatchUpInv => (~missed => "queue" \in shown \/ IsNoticed)
  BY DEF Inv, BatchFits, EveryRequestHasItsRefresh, CatchUpInv, Coming, IsNoticed
<1> QED
  BY <1>1, <1>2, <1>3, AlwaysSensible, PTL DEF Spec

=============================================================================
