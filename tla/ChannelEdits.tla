---------------------------- MODULE ChannelEdits ----------------------------
(***************************************************************************)
(* concurrency/channel-edit-scheduler.ts for one channel: every message    *)
(* that is edited again and again has a slot, one write runs at a time,    *)
(* and at most MaxEdits edits start within any Window.  Time is counted in *)
(* ticks; what the code keeps as the start of an edit (sentAt) is kept     *)
(* here as the time that edit still counts against the budget, and more    *)
(* than MaxEdits of them never do.  The record `edits` is                  *)
(*   slots   : the registered slots                                        *)
(*   pending : those with a write waiting for its turn                     *)
(*   running : the slot whose write is running, or None                    *)
(*   started : the time the running write would still count                *)
(*   sent    : the time each of the last MaxEdits edits still counts,      *)
(*             oldest first, 0 when it does not count any more             *)
(*   timer   : the time until the budget timer fires, or NoTimer           *)
(*   drain   : a drain() is queued as a microtask                          *)
(* The order of equal priorities is left out: the only feature with slots, *)
(* the music panel, gives each of its messages a priority of its own.      *)
(***************************************************************************)
EXTENDS Integers

CONSTANTS Slots,      \* the message slots of the channel
          Priority,   \* [Slots -> Nat]: lower goes first
          MaxEdits,   \* edits a window allows
          Window,     \* its length in ticks
          None

NoTimer == -1

EditStates == [slots : SUBSET Slots, pending : SUBSET Slots,
               running : Slots \cup {None}, started : 0..Window,
               sent : [1..MaxEdits -> 0..Window],
               timer : {NoTimer} \cup 0..Window, drain : BOOLEAN]

NoEdits == [slots |-> {}, pending |-> {}, running |-> None, started |-> 0,
            sent |-> [i \in 1..MaxEdits |-> 0], timer |-> NoTimer, drain |-> FALSE]

\* register() when needed, then schedule() of each slot of S.
Scheduled(e, S) == [e EXCEPT !.slots = @ \cup S, !.pending = @ \cup S, !.drain = TRUE]

\* unregister() of every slot: pending writes are dropped, and the channel
\* with its spent budget is forgotten unless a write is running.
Unregistered(e) ==
    IF e.running = None THEN NoEdits
    ELSE [e EXCEPT !.slots = {}, !.pending = {}]

\* nextPending(): the pending slot of the lowest priority.
nextPending(e) == CHOOSE s \in e.pending : \A t \in e.pending : Priority[s] <= Priority[t]

\* drain() does nothing while a write runs or the budget timer is set.
CanWrite(e) == e.running = None /\ e.timer = NoTimer /\ e.pending # {}

\* As many edits count as a window allows: the oldest of them does.
BudgetSpent(e) == e.sent[1] > 0

AwaitBudget(e) == [e EXCEPT !.timer = e.sent[1], !.drain = FALSE]
WriteStarted(e, s) == [e EXCEPT !.pending = @ \ {s}, !.running = s,
                                !.started = Window, !.drain = FALSE]

\* An edit that still counts joins the ones sent before it.
Counted(e) == [i \in 1..MaxEdits |-> IF i = MaxEdits THEN e.started ELSE e.sent[i + 1]]

\* MUTANT of WriteEnded: nobody looks for the next write.
WriteEndedUndrained(e, counts) ==
    IF e.slots = {} THEN NoEdits
    ELSE [e EXCEPT !.running = None, !.started = 0,
                   !.sent = IF counts /\ e.started > 0 THEN Counted(e) ELSE @]

\* The write ended.  An edit, or a failure that may have been one, counts
\* from its start; without slots left the channel is forgotten.
WriteEnded(e, counts) ==
    IF e.slots = {} THEN NoEdits
    ELSE [e EXCEPT !.running = None, !.started = 0, !.drain = TRUE,
                   !.sent = IF counts /\ e.started > 0 THEN Counted(e) ELSE @]

\* The budget timer fires and drains.
BudgetTimerFired(e) == [e EXCEPT !.timer = NoTimer, !.drain = TRUE]

\* A tick: what was sent grows old.
Older(e) ==
    [e EXCEPT !.sent = [i \in 1..MaxEdits |-> IF @[i] > 0 THEN @[i] - 1 ELSE 0],
              !.started = IF @ > 0 THEN @ - 1 ELSE 0,
              !.timer = IF @ > 0 THEN @ - 1 ELSE @]
=============================================================================
