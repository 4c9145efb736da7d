--------------------------- MODULE ChatScheduler ---------------------------
(***************************************************************************)
(* application/chat/chat-scheduler.ts: which conversational turn runs next.*)
(* One turn runs per channel, a few per guild, and a bounded number waits; *)
(* turns somebody asked for go first, and turns the bot would take on its  *)
(* own account (Optional) are shed first.  A scheduler is the record       *)
(*   order   : the keys of the map `pending`, in the order of insertion    *)
(*   waiting : the turns that wait in each channel, oldest first           *)
(*   running : the channels with a running turn                            *)
(*   queued  : the counter held against the global bound                   *)
(*   closed  : stop() was called                                           *)
(* A handler's result adds the turns it started, and those it dropped.     *)
(*                                                                         *)
(* Left out: the evaluation cooldown and the windows on optional turns and *)
(* unsolicited messages (they decide by the clock alone), and the debounce *)
(* of bufferOpportunity, from which optional turns come.                   *)
(***************************************************************************)
EXTENDS Naturals, Sequences, SequencesExt, FiniteSets

CONSTANTS
  Turns,                 \* the turns that are ever asked for
  Channels,
  ChannelOf, GuildOf,    \* of each turn; of each channel
  Optional,              \* turns nobody asked for
  Concurrency,           \* limits.concurrency of each turn
  MaxPendingPerChannel, MaxPendingGlobal

ASSUME SchedulerAssumption ==
  /\ IsFiniteSet(Turns)
  /\ ChannelOf \in [Turns -> Channels] /\ Optional \subseteq Turns
  /\ Concurrency \in [Turns -> Nat \ {0}] /\ DOMAIN GuildOf = Channels
  /\ MaxPendingPerChannel \in Nat \ {0} /\ MaxPendingGlobal \in Nat \ {0}

IsOptional(t) == t \in Optional
IsDirect(t) == t \notin Optional

NothingPending == [order |-> <<>>, waiting |-> [c \in Channels |-> <<>>],
                   running |-> {}, queued |-> 0, closed |-> FALSE]

Result(s) == [s |-> s, started |-> {}, dropped |-> {}]

---------------------------------------------------------------------------
(* run() *)

WithEntry(s, c) == IF Contains(s.order, c) THEN s ELSE [s EXCEPT !.order = Append(@, c)]

Full(s, c) == Len(s.waiting[c]) >= MaxPendingPerChannel \/ s.queued >= MaxPendingGlobal

\* MUTANT of Shed: the turn goes, and the counter keeps it.
ShedUncounted(r, c) ==
    LET i == SelectInSeq(r.s.waiting[c], IsOptional)
    IN IF i = 0 THEN r
       ELSE [r EXCEPT !.s.waiting[c] = RemoveAt(@, i),
                      !.dropped = @ \cup {r.s.waiting[c][i]}]

\* MUTANT of Shed: whichever waits longest makes room.
ShedAnybody(r, c) ==
    IF r.s.waiting[c] = <<>> THEN r
    ELSE [r EXCEPT !.s.waiting[c] = Tail(@), !.s.queued = @ - 1,
                   !.dropped = @ \cup {Head(r.s.waiting[c])}]

\* The first optional turn of the channel, if there is one, gives up its place.
Shed(r, c) ==
    LET i == SelectInSeq(r.s.waiting[c], IsOptional)
    IN IF i = 0 THEN r
       ELSE [r EXCEPT !.s.waiting[c] = RemoveAt(@, i), !.s.queued = @ - 1,
                      !.dropped = @ \cup {r.s.waiting[c][i]}]

Push(r, t) == [r EXCEPT !.s.waiting[ChannelOf[t]] = Append(@, t), !.s.queued = @ + 1]

\* A new optional turn replaces the one that waits.  In a full queue a direct
\* turn takes the place of an optional one, and any other is turned away.
Submitted(s, t) ==
    LET c == ChannelOf[t]
        entered == Result(WithEntry(s, c))
        fresh == IF IsOptional(t) THEN Shed(entered, c) ELSE entered
        room == Shed(fresh, c)
    IN IF ~Full(fresh.s, c) THEN Push(fresh, t)
       ELSE IF IsDirect(t) /\ room # fresh THEN Push(room, t)
       ELSE [fresh EXCEPT !.dropped = @ \cup {t}]

---------------------------------------------------------------------------
(* pump() *)

RunningIn(s, g) == Cardinality({c \in s.running : GuildOf[c] = g})

\* The channels whose next turn may start.  The limit is that of the turn that
\* has waited longest, whichever turn is then taken.
Available(s) ==
    {c \in Channels :
        /\ Contains(s.order, c) /\ c \notin s.running /\ s.waiting[c] # <<>>
        /\ RunningIn(s, GuildOf[c]) < Concurrency[Head(s.waiting[c])]}

HasDirect(s, c) == SelectInSeq(s.waiting[c], IsDirect) # 0

\* The first available channel somebody waits in, or else the first.
NextChannel(s) ==
    LET asked == {c \in Available(s) : HasDirect(s, c)}
        among == IF asked # {} THEN asked ELSE Available(s)
    IN s.order[SelectInSeq(s.order, LAMBDA c : c \in among)]

\* One round of the loop: a turn leaves the queue and starts, or, if nobody asked
\* for it, is dropped when its time has passed.  The result is the set of outcomes.
Dispatched(r) ==
    LET s == r.s
        c == NextChannel(s)
        direct == SelectInSeq(s.waiting[c], IsDirect)
        i == IF direct # 0 THEN direct ELSE 1
        t == s.waiting[c][i]
        left == [s EXCEPT !.waiting[c] = RemoveAt(@, i), !.queued = @ - 1,
                          !.order = IF Len(s.waiting[c]) = 1
                                    THEN RemoveFirst(@, c) ELSE @]
        started == [r EXCEPT !.s = [left EXCEPT !.running = @ \cup {c}],
                             !.started = @ \cup {t}]
        expired == [r EXCEPT !.s = left, !.dropped = @ \cup {t}]
    IN IF IsOptional(t) THEN {started, expired} ELSE {started}

\* The loop runs until no channel is available.
Pumped(r) ==
    LET rounds[n \in 0..Cardinality(Turns)] ==
            IF n = 0 THEN {r}
            ELSE UNION {IF Available(before.s) = {} THEN {before} ELSE Dispatched(before)
                          : before \in rounds[n - 1]}
    IN IF r.s.closed THEN {r} ELSE rounds[Cardinality(Turns)]

\* run(): the turn is turned away, or waits and the loop runs.
Ran(s, t) ==
    IF s.closed THEN {[Result(s) EXCEPT !.dropped = {t}]}
    ELSE LET r == Submitted(s, t) IN IF t \in r.dropped THEN {r} ELSE Pumped(r)

\* The turn that ran in a channel has ended.
Finished(s, c) == Pumped(Result([s EXCEPT !.running = @ \ {c}]))

\* stop(): whatever waits is turned away.
Stopped(s) ==
    [Result([s EXCEPT !.closed = TRUE, !.order = <<>>, !.queued = 0,
                      !.waiting = [c \in Channels |-> <<>>]])
     EXCEPT !.dropped = UNION {Range(s.waiting[c]) : c \in Channels}]
=============================================================================
