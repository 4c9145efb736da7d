---------------------------- MODULE PanelRefresh ----------------------------
(***************************************************************************)
(* control-panel/panel-refresh-coordinator.ts for one guild: a burst of    *)
(* requests becomes one refresh, at most MaxWait after the first of them;  *)
(* a request during a refresh becomes one more refresh after it.  The      *)
(* record `sched` is a GuildRefreshScheduler                               *)
(*   timer   : ticks until fire(), or NoTimer                              *)
(*   age     : ticks since the batch began, capped at MaxWait              *)
(*   now     : somebody asked for this batch at once (immediate)           *)
(*   waiters : somebody awaits this batch                                  *)
(*   running : a refresh of this scheduler is in flight                    *)
(*   rerun   : what was asked during it: "no", "yes" or "now"              *)
(***************************************************************************)
EXTENDS Integers

CONSTANTS Debounce,   \* the trailing debounce in ticks
          MaxWait     \* the longest a burst may put a refresh off

NoTimer == -1

Schedulers == [timer : {NoTimer} \cup 0..Debounce, age : 0..MaxWait, now : BOOLEAN,
               waiters : BOOLEAN, running : BOOLEAN, rerun : {"no", "yes", "now"}]

NewScheduler == [timer |-> NoTimer, age |-> 0, now |-> FALSE, waiters |-> FALSE,
                 running |-> FALSE, rerun |-> "no"]

\* MUTANT of TimerFor: a burst of requests can put the refresh off for ever.
TimerForAlways(now, age) == IF now THEN 0 ELSE Debounce

\* scheduleTimer(): every request puts the refresh off again, but no
\* further than MaxWait after the batch began, and not at all once somebody
\* asked for it at once.
TimerFor(now, age) ==
    IF now THEN 0 ELSE IF Debounce < MaxWait - age THEN Debounce ELSE MaxWait - age

\* request()
Requested(sc, now) ==
    IF sc.running
    THEN [sc EXCEPT !.rerun = IF now \/ @ = "now" THEN "now" ELSE "yes"]
    ELSE [sc EXCEPT !.waiters = TRUE, !.now = @ \/ now,
                    !.timer = TimerFor(sc.now \/ now, sc.age)]

\* fire(): the batch is taken and its refresh begins.
Fired(sc) == [sc EXCEPT !.timer = NoTimer, !.age = 0, !.now = FALSE,
                        !.waiters = FALSE, !.running = TRUE]

\* MUTANT of RefreshEnded: what was asked during the refresh is forgotten.
RefreshEndedOnce(sc) == [sc EXCEPT !.running = FALSE, !.rerun = "no"]

\* The refresh ended, well or badly: a rerun starts a batch of its own.
RefreshEnded(sc) ==
    IF sc.rerun = "no" THEN [sc EXCEPT !.running = FALSE]
    ELSE [sc EXCEPT !.running = FALSE, !.rerun = "no", !.waiters = TRUE, !.age = 0,
                    !.now = sc.rerun = "now", !.timer = TimerFor(sc.rerun = "now", 0)]

\* A tick.
Waited(sc) ==
    [sc EXCEPT !.timer = IF @ > 0 THEN @ - 1 ELSE @,
               !.age = IF sc.timer # NoTimer /\ @ < MaxWait THEN @ + 1 ELSE @]
=============================================================================
