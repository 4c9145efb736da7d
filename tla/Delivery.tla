------------------------------ MODULE Delivery ------------------------------
(***************************************************************************)
(* application/campaign/workers/delivery-worker.ts and the outbox rows it  *)
(* works off: what the engine decided is shown to the tables of several    *)
(* campaigns, in the order it was queued, over a channel that fails.  A    *)
(* pass of the worker loads the pending rows once and handles one after    *)
(* the other; meanwhile commands queue more rows, organizers repair their  *)
(* games, and the process may die.                                         *)
(*                                                                         *)
(* A row is its number in the order of queueing.  The text of a message    *)
(* and the messages of one delivery are left out; a post that is repeated  *)
(* carries the same nonce, so what counts is when it was first seen.       *)
(*                                                                         *)
(* What every specification has (DeliveryInit, DeliveryNext, ...) is named *)
(* for the module, so that Lobby can stand beside it where both are proved *)
(* about.                                                                  *)
(***************************************************************************)
EXTENDS Naturals, Sequences, SequencesExt

CONSTANTS
  Campaigns,
  Rows,          \* bound: 1..n, the deliveries that are ever queued
  CampaignOf,    \* whose deliveries they are
  MaxAttempts,   \* deliveryMaxAttempts
  MaxRepairs,    \* bound: how often failed rows are put back
  MaxCrashes     \* bound: how often the process dies

ASSUME DeliveryAssumption ==
  /\ Rows \subseteq Nat /\ CampaignOf \in [Rows -> Campaigns]
  /\ MaxAttempts \in Nat \ {0} /\ MaxRepairs \in Nat /\ MaxCrashes \in Nat

VARIABLES
  status,      \* of each row; "none" before it is queued
  attempts,    \* failed attempts of each row
  waiting,     \* rows whose notBefore lies in the future
  pass,        \* rows the pass has loaded and not handled
  held,        \* rows that were waiting when the pass began
  blocked,     \* campaigns whose rows this pass leaves alone from now on
  sending,     \* the row being presented or recorded, and the step
  broken,      \* campaigns whose channel cannot be written to
  seen,        \* the rows each table has seen, in the order of their first showing
  repairs, crashes,
  givenUp      \* history: rows that used up their attempts at some time

deliveryVars == <<status, attempts, waiting, pass, held, blocked, sending, broken, seen,
                  repairs, crashes, givenUp>>
worker == <<pass, held, blocked, sending>>
outside == <<broken, repairs, crashes>>

Nothing == [row |-> 0, step |-> "none"]
Pending == {i \in Rows : status[i] = "pending"}

DeliveryInit ==
  /\ status = [i \in Rows |-> "none"] /\ attempts = [i \in Rows |-> 0]
  /\ waiting = {} /\ pass = {} /\ held = {} /\ blocked = {} /\ sending = Nothing
  /\ broken = {} /\ seen = [c \in Campaigns |-> <<>>]
  /\ repairs = 0 /\ crashes = 0 /\ givenUp = {}

\* A command commits with a delivery among its requests.
Queue ==
  /\ \E i \in Rows : /\ status[i] = "none" /\ \A j \in Rows : j < i => status[j] # "none"
                     /\ status' = [status EXCEPT ![i] = "pending"]
  /\ UNCHANGED <<attempts, waiting, worker, outside, seen, givenUp>>

\* MUTANT of BlockedAtFirst: the campaigns of the last pass stay blocked.
BlockedFromBefore == blocked

BlockedAtFirst == {}

\* runOnce loads every pending row by position and looks at the clock once.
Load ==
  /\ pass = {} /\ sending = Nothing /\ Pending # {}
  /\ pass' = Pending
  /\ held' = waiting /\ blocked' = BlockedAtFirst
  /\ UNCHANGED <<status, attempts, waiting, sending, outside, seen, givenUp>>

\* MUTANT of HoldsBack: a delivery waiting out its backoff holds nothing back.
HoldsBackNothing(i) == {}

\* What a delivery that is waiting out its backoff holds back.
HoldsBack(i) == {CampaignOf[i]}

\* The rows of a pass are handled in the order they were queued in.
Handles(i) ==
  /\ sending = Nothing
  /\ i \in pass /\ \A j \in pass : i <= j
  /\ pass' = pass \ {i}

SkipBlocked(i) ==
  /\ Handles(i) /\ CampaignOf[i] \in blocked
  /\ UNCHANGED <<status, attempts, waiting, held, blocked, sending, outside, seen, givenUp>>

SkipWaiting(i) ==
  /\ Handles(i) /\ CampaignOf[i] \notin blocked /\ i \in held
  /\ blocked' = blocked \cup HoldsBack(i)
  /\ UNCHANGED <<status, attempts, waiting, held, sending, outside, seen, givenUp>>

Take(i) ==
  /\ Handles(i) /\ CampaignOf[i] \notin blocked /\ i \notin held
  /\ sending' = [row |-> i, step |-> "present"]
  /\ UNCHANGED <<status, attempts, waiting, held, blocked, outside, seen, givenUp>>

Shown(i) ==
  [seen EXCEPT ![CampaignOf[i]] = IF Contains(@, i) THEN @ ELSE Append(@, i)]

Present ==
  /\ sending.step = "present" /\ CampaignOf[sending.row] \notin broken
  /\ seen' = Shown(sending.row)
  /\ sending' = [sending EXCEPT !.step = "complete"]
  /\ UNCHANGED <<status, attempts, waiting, pass, held, blocked, outside, givenUp>>

\* MUTANT of PresentFails: an error of the channel is swallowed.
PresentFailsQuietly ==
  /\ sending.step = "present" /\ CampaignOf[sending.row] \in broken
  /\ sending' = [sending EXCEPT !.step = "complete"]
  /\ UNCHANGED <<status, attempts, waiting, pass, held, blocked, outside, seen, givenUp>>

\* The channel fails, before or after the message went out; the rest of the
\* pass goes on with the other campaigns.
PresentFails ==
  /\ sending.step = "present" /\ CampaignOf[sending.row] \in broken
  /\ seen' \in {seen, Shown(sending.row)}
  /\ blocked' = blocked \cup {CampaignOf[sending.row]}
  /\ sending' = [sending EXCEPT !.step = "fail"]
  /\ UNCHANGED <<status, attempts, waiting, pass, held, outside, givenUp>>

Complete ==
  /\ sending.step = "complete"
  /\ status' = [status EXCEPT ![sending.row] = "done"]
  /\ sending' = Nothing
  /\ UNCHANGED <<attempts, waiting, pass, held, blocked, outside, seen, givenUp>>

UsedUp(n) == n >= MaxAttempts

\* failOutboxAttempt: once more later, or given up.
FailAttempt ==
  /\ sending.step = "fail"
  /\ LET i == sending.row
         n == attempts[i] + 1
     IN /\ attempts' = [attempts EXCEPT ![i] = n]
        /\ waiting' = waiting \cup {i}
        /\ status' = [status EXCEPT ![i] = IF UsedUp(n) THEN "failed" ELSE "pending"]
        /\ givenUp' = IF UsedUp(n) THEN givenUp \cup {i} ELSE givenUp
  /\ sending' = Nothing
  /\ UNCHANGED <<pass, held, blocked, outside, seen>>

BackoffIsOver ==
  /\ \E i \in waiting : waiting' = waiting \ {i}
  /\ UNCHANGED <<status, attempts, worker, outside, seen, givenUp>>

PutBack(set) == [i \in Rows |-> IF i \in set THEN 0 ELSE attempts[i]]

\* requeueFailedOutbox: all given-up rows of a campaign; and one of them, by
\* the button of a dialogue.
Requeues(set) ==
  /\ set # {} /\ repairs < MaxRepairs /\ repairs' = repairs + 1
  /\ status' = [i \in Rows |-> IF i \in set THEN "pending" ELSE status[i]]
  /\ attempts' = PutBack(set)
  /\ waiting' = waiting \ set
  /\ UNCHANGED <<worker, broken, crashes, seen, givenUp>>

Repair(c) == Requeues({i \in Rows : status[i] = "failed" /\ CampaignOf[i] = c})
RetryReply(i) == status[i] = "failed" /\ Requeues({i})

ChannelBreaks(c) ==
  /\ c \notin broken /\ broken' = broken \cup {c}
  /\ UNCHANGED <<status, attempts, waiting, worker, repairs, crashes, seen, givenUp>>

ChannelMends(c) ==
  /\ c \in broken /\ broken' = broken \ {c}
  /\ UNCHANGED <<status, attempts, waiting, worker, repairs, crashes, seen, givenUp>>

\* The rows survive, the pass does not.
WorkerDies ==
  /\ crashes < MaxCrashes /\ crashes' = crashes + 1
  /\ pass' = {} /\ sending' = Nothing /\ blocked' = {} /\ held' = {}
  /\ UNCHANGED <<status, attempts, waiting, broken, repairs, seen, givenUp>>

WorkerStep ==
  \/ Load \/ \E i \in Rows : SkipBlocked(i) \/ SkipWaiting(i) \/ Take(i)
  \/ Present \/ PresentFails \/ Complete \/ FailAttempt

DeliveryNext ==
  \/ Queue \/ WorkerStep \/ BackoffIsOver \/ WorkerDies
  \/ \E c \in Campaigns : Repair(c) \/ ChannelBreaks(c) \/ ChannelMends(c)
  \/ \E i \in Rows : RetryReply(i)

\* The runtime polls every second and awaits each pass; time passes.
DeliveryFairness ==
  /\ WF_deliveryVars(WorkerStep)
  /\ \A i \in Rows : WF_deliveryVars(BackoffIsOver /\ i \notin waiting')

DeliverySpec == DeliveryInit /\ [][DeliveryNext]_deliveryVars /\ DeliveryFairness

-----------------------------------------------------------------------------
(* Correctness.                                                            *)

\* DeliveryTypeOK: rows and pass are well formed, a row has failed less often than it
\* may, and has failed for good exactly when it may not fail again.
DeliveryTypeOK ==
  /\ status \in [Rows -> {"none", "pending", "failed", "done"}]
  /\ attempts \in [Rows -> 0..MaxAttempts]
  /\ \A i \in Rows : status[i] = "failed" <=> attempts[i] = MaxAttempts
  /\ pass \subseteq Rows /\ waiting \subseteq Rows /\ held \subseteq Rows /\ givenUp \subseteq Rows
  /\ blocked \subseteq Campaigns /\ broken \subseteq Campaigns
  /\ sending \in {Nothing} \cup [row : Rows, step : {"present", "complete", "fail"}]
  /\ seen \in [Campaigns -> Seq(Rows)]

\* ResultsInOrder: "that campaign's later deliveries wait behind it so the
\* table never sees results out of order" (delivery-worker.ts:25): a table
\* sees a delivery only after all that were queued before it, except those
\* that were given up on, which a repair brings later.
ResultsInOrder ==
  \A c \in Campaigns : \A n \in DOMAIN seen[c] : \A i \in Rows :
    CampaignOf[i] = c /\ i < seen[c][n] =>
      i \in givenUp \/ \E m \in 1..(n - 1) : seen[c][m] = i

\* DoneWasSeen: no row is done that its table has not seen, whatever dies or
\* fails between showing and recording (delivery-worker.ts:66-67).
DoneWasSeen == \A i \in Rows : status[i] = "done" => Contains(seen[CampaignOf[i]], i)

\* RowsInOrder: the rows' books agree, and done rows were seen.
RowsInOrder == DeliveryTypeOK /\ DoneWasSeen

\* ResultsArrive: when the channel of a campaign works from some time on, each
\* of its deliveries is shown or given up on, whatever failed before and
\* however long other channels stay broken (delivery-worker.ts:25).
ResultsArrive ==
  \A i \in Rows :
    <>[](CampaignOf[i] \notin broken)
      => (status[i] = "pending" ~> status[i] \in {"done", "failed"})
=============================================================================
