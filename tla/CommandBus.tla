---------------------------- MODULE CommandBus ----------------------------
(***************************************************************************)
(* CampaignCommandBus over a shared store: the commands of one campaign,   *)
(* issued by users and by the RollWorker of every process that is up.      *)
(*                                                                         *)
(* A process takes the campaign's commands one at a time (KeyedSerialQueue)*)
(* and has one transaction open at a time.  The statements of a            *)
(* transaction read what is committed by then (Serial = FALSE: PostgreSQL's*)
(* READ COMMITTED) or exclude every other transaction (Serial = TRUE:      *)
(* SQLite's BEGIN IMMEDIATE, the in-memory store's lock).  What the engine *)
(* decides is left open: any command may be accepted or rejected.          *)
(***************************************************************************)
EXTENDS Naturals, Sequences

CONSTANTS
  Processes,
  Commands,     \* command ids
  NoCommand,
  Clicks,       \* the commands users issue; the others bring rolls
  RollOf,       \* the command that brings the roll a command asks for, if any
  Handles,      \* the commands a process may be asked to run
  Serial,       \* whether the store's transactions exclude each other
  Faces,        \* what the dice can show
  NoFace,
  MaxAttempts,  \* defaultMaxAttempts of the RollWorker
  MaxCrashes    \* bound: how often a process dies

ASSUME CommandsAssumption ==
  /\ NoCommand \notin Commands
  /\ Clicks \subseteq Commands
  /\ RollOf \in [Commands -> (Commands \ Clicks) \cup {NoCommand}]
  /\ \A c, d \in Commands : RollOf[c] = RollOf[d] /\ RollOf[c] # NoCommand => c = d
  /\ Handles \in [Processes -> SUBSET Commands]
ASSUME DiceAssumption == NoFace \notin Faces /\ Faces # {}
ASSUME BoundsAssumption == MaxAttempts \in Nat \ {0} /\ MaxCrashes \in Nat

VARIABLES
  saved,      \* the campaign's state: the commands it is made of, one revision each
  processed,  \* the revision recorded for a command id, 0 when there is none
  outbox,     \* the roll request each command has queued
  dice,       \* the roll saved for each request
  queue,      \* per process: the calls waiting for the campaign, the running one first
  tx,         \* per process: the transaction of the running call
  worker,     \* per process: what the RollWorker is doing
  answers,    \* the accepted outcomes callers were given
  crashes

vars == <<saved, processed, outbox, dice, queue, tx, worker, answers, crashes>>
store == <<saved, processed, outbox, dice>>

Call == [command : Commands, row : Commands \cup {NoCommand}, face : Faces \cup {NoFace}]
Entry == [command : Commands, face : Faces \cup {NoFace}]
Row == [status : {"none", "pending", "done", "failed"}, attempts : Nat]
Transaction == [at : {"idle", "looked", "loaded"}, attempt : {1, 2}, revision : Nat]
Worker == [at : {"idle", "executing", "completing", "failing"},
           row : Commands \cup {NoCommand}, batch : SUBSET Commands]

NoTransaction == [at |-> "idle", attempt |-> 1, revision |-> 0]
IdleWorker == [at |-> "idle", row |-> NoCommand, batch |-> {}]

Init ==
  /\ saved = <<>>
  /\ processed = [c \in Commands |-> 0]
  /\ outbox = [c \in Commands |-> [status |-> "none", attempts |-> 0]]
  /\ dice = [c \in Commands |-> NoFace]
  /\ queue = [p \in Processes |-> <<>>]
  /\ tx = [p \in Processes |-> NoTransaction]
  /\ worker = [p \in Processes |-> IdleWorker]
  /\ answers = {}
  /\ crashes = 0

\* The process may begin a transaction.
StoreFree(p) ==
  /\ tx[p].at = "idle"
  /\ Serial => \A q \in Processes : tx[q].at = "idle"

Running(p) == Head(queue[p])

-----------------------------------------------------------------------------
(* execute and attempt *)

\* A user's command reaches the process; an interaction reaches it once.
Click(p, c) ==
  /\ c \in Clicks \cap Handles[p]
  /\ \A i \in DOMAIN queue[p] : queue[p][i].command # c
  /\ queue' = [queue EXCEPT ![p] =
                 Append(@, [command |-> c, row |-> NoCommand, face |-> NoFace])]
  /\ UNCHANGED <<store, tx, worker, answers, crashes>>

\* Mutant: the worker takes a rejected roll for recorded.
LeaveContent(p, accepted) ==
  /\ queue' = [queue EXCEPT ![p] = Tail(@)]
  /\ tx' = [tx EXCEPT ![p] = NoTransaction]
  /\ worker' = IF Running(p).row = NoCommand THEN worker
               ELSE [worker EXCEPT ![p].at = "completing"]

\* The call ends, and the next one may begin; the RollWorker goes on with its row.
Leave(p, accepted) ==
  /\ queue' = [queue EXCEPT ![p] = Tail(@)]
  /\ tx' = [tx EXCEPT ![p] = NoTransaction]
  /\ worker' = IF Running(p).row = NoCommand THEN worker
               ELSE [worker EXCEPT ![p].at = IF accepted THEN "completing" ELSE "failing"]

Accept(p, revision) ==
  /\ Leave(p, TRUE)
  /\ answers' = answers \cup {<<Running(p).command, revision>>}

\* findProcessedCommand
FirstRevision(c) == processed[c]

\* A repeated command id returns the first outcome.
Look(p) ==
  /\ queue[p] # <<>>
  /\ StoreFree(p)
  /\ LET c == Running(p).command IN
       \/ /\ FirstRevision(c) # 0
          /\ Accept(p, FirstRevision(c))
       \/ /\ FirstRevision(c) = 0
          /\ tx' = [tx EXCEPT ![p].at = "looked"]
          /\ UNCHANGED <<queue, worker, answers>>
  /\ UNCHANGED <<store, crashes>>

\* loadCampaign
Load(p) ==
  /\ tx[p].at = "looked"
  /\ tx' = [tx EXCEPT ![p] =
              [at |-> "loaded", attempt |-> @.attempt, revision |-> Len(saved)]]
  /\ UNCHANGED <<store, queue, worker, answers, crashes>>

\* The engine rejects the command: nothing is recorded.
Reject(p) ==
  /\ tx[p].at = "loaded"
  /\ Leave(p, FALSE)
  /\ UNCHANGED <<store, answers, crashes>>

\* saveCampaign writes the state decided on the one that was loaded.
SavedWith(call, revision) ==
  Append(SubSeq(saved, 1, revision), [command |-> call.command, face |-> call.face])

\* Mutant: the state is written over whatever is there.
OverwriteAnyway(p) == tx[p].revision \in Nat

RevisionHolds(p) == tx[p].revision = Len(saved)

\* Mutant: the outcome is not recorded with the save.
ForgetProcessed(c, revision) == processed

RecordProcessed(c, revision) == [processed EXCEPT ![c] = revision]

\* enqueue does nothing when the row is there already.
WithRequest(c) ==
  IF RollOf[c] # NoCommand /\ outbox[c].status = "none"
  THEN [outbox EXCEPT ![c].status = "pending"]
  ELSE outbox

\* The engine accepts it: state, requests and outcome are committed together.
Save(p) ==
  /\ tx[p].at = "loaded"
  /\ RevisionHolds(p)
  /\ LET c == Running(p).command
         revision == tx[p].revision + 1
     IN  /\ saved' = SavedWith(Running(p), tx[p].revision)
         /\ processed' = RecordProcessed(c, revision)
         /\ outbox' = WithRequest(c)
         /\ Accept(p, revision)
  /\ UNCHANGED <<dice, crashes>>

\* RevisionConflictError: the command is decided again once, then the error is thrown.
Conflict(p) ==
  /\ tx[p].at = "loaded"
  /\ ~RevisionHolds(p)
  /\ \/ /\ tx[p].attempt = 1
        /\ tx' = [tx EXCEPT ![p] = [NoTransaction EXCEPT !.attempt = 2]]
        /\ UNCHANGED <<queue, worker>>
     \/ /\ tx[p].attempt = 2
        /\ Leave(p, FALSE)
  /\ UNCHANGED <<store, answers, crashes>>

-----------------------------------------------------------------------------
(* RollWorker *)

\* pendingOutbox("roll"); the list is worked off without looking again.
Poll(p) ==
  /\ worker[p] = IdleWorker
  /\ StoreFree(p)
  /\ LET rows == {r \in Commands : outbox[r].status = "pending" /\ RollOf[r] \in Handles[p]}
     IN  /\ rows # {}
         /\ worker' = [worker EXCEPT ![p].batch = rows]
  /\ UNCHANGED <<store, queue, tx, answers, crashes>>

\* The first roll saved for a request stands.
Rolled(r, face) == IF dice[r] = NoFace THEN face ELSE dice[r]

\* The dice are saved, then the engine is told.
Roll(p, r, face) ==
  /\ worker[p].at = "idle"
  /\ r \in worker[p].batch
  /\ StoreFree(p)
  /\ dice' = [dice EXCEPT ![r] = Rolled(r, face)]
  /\ queue' = [queue EXCEPT ![p] =
                 Append(@, [command |-> RollOf[r], row |-> r, face |-> Rolled(r, face)])]
  /\ worker' = [worker EXCEPT ![p] =
                  [at |-> "executing", row |-> r, batch |-> @.batch \ {r}]]
  /\ UNCHANGED <<saved, processed, outbox, tx, answers, crashes>>

NextRow(p) ==
  [worker EXCEPT ![p] = [at |-> "idle", row |-> NoCommand, batch |-> @.batch]]

\* completeOutbox
Complete(p) ==
  /\ worker[p].at = "completing"
  /\ StoreFree(p)
  /\ outbox' = [outbox EXCEPT ![worker[p].row].status = "done"]
  /\ worker' = NextRow(p)
  /\ UNCHANGED <<saved, processed, dice, queue, tx, answers, crashes>>

\* Mutant: attempts are not counted.
AfterAnyFailure(row) == [row EXCEPT !.status = "pending"]

\* failOutboxAttempt
AfterFailure(row) ==
  [status |-> IF row.attempts + 1 >= MaxAttempts THEN "failed" ELSE "pending",
   attempts |-> row.attempts + 1]

Fail(p) ==
  /\ worker[p].at = "failing"
  /\ StoreFree(p)
  /\ outbox' = [outbox EXCEPT ![worker[p].row] = AfterFailure(@)]
  /\ worker' = NextRow(p)
  /\ UNCHANGED <<saved, processed, dice, queue, tx, answers, crashes>>

\* requeueFailedOutbox, from the organizer's Repair.
Repair(p) ==
  /\ StoreFree(p)
  /\ \E r \in Commands : outbox[r].status = "failed"
  /\ outbox' = [r \in Commands |->
                  IF outbox[r].status = "failed" THEN [status |-> "pending", attempts |-> 0]
                  ELSE outbox[r]]
  /\ UNCHANGED <<saved, processed, dice, queue, tx, worker, answers, crashes>>

\* The process dies and starts again: its transaction never existed.
Crash(p) ==
  /\ crashes < MaxCrashes
  /\ crashes' = crashes + 1
  /\ queue' = [queue EXCEPT ![p] = <<>>]
  /\ tx' = [tx EXCEPT ![p] = NoTransaction]
  /\ worker' = [worker EXCEPT ![p] = IdleWorker]
  /\ UNCHANGED <<store, answers>>

-----------------------------------------------------------------------------

CallStep(p) == Look(p) \/ Load(p) \/ Reject(p) \/ Save(p) \/ Conflict(p)

WorkerStep(p) ==
  \/ Poll(p)
  \/ \E r \in Commands, face \in Faces : Roll(p, r, face)
  \/ Complete(p)
  \/ Fail(p)

Next ==
  \E p \in Processes :
    \/ \E c \in Commands : Click(p, c)
    \/ CallStep(p)
    \/ WorkerStep(p)
    \/ Repair(p)
    \/ Crash(p)

Spec == Init /\ [][Next]_vars

(* Promises resolve, and the store's lock is handed on first come, first   *)
(* served, so neither the calls nor the worker are passed over for ever.   *)
Fairness ==
  \A p \in Processes : WF_vars(CallStep(p)) /\ SF_vars(WorkerStep(p))

LiveSpec == Spec /\ Fairness

-----------------------------------------------------------------------------
(* Properties *)

TypeOK ==
  /\ saved \in Seq(Entry)
  /\ processed \in [Commands -> Nat]
  /\ outbox \in [Commands -> Row]
  /\ dice \in [Commands -> Faces \cup {NoFace}]
  /\ queue \in [Processes -> Seq(Call)]
  /\ tx \in [Processes -> Transaction]
  /\ worker \in [Processes -> Worker]
  /\ answers \subseteq (Commands \X Nat)
  /\ crashes \in Nat

\* "Running the same command ID twice returns the first outcome and changes
\* nothing" (campaign-command-bus.ts:17), whatever is retried, by whom and
\* after which crash.
CommandsRunOnce ==
  \A i, j \in DOMAIN saved : saved[i].command = saved[j].command => i = j

\* Every caller of a command that was accepted is told the revision the command
\* made, the caller that repeats it included (campaign-command-bus.ts:66).
AnswersNameTheRevision ==
  \A answer \in answers :
    /\ answer[2] \in DOMAIN saved
    /\ saved[answer[2]].command = answer[1]

\* The dice the engine was told are the ones that were saved for the request: a
\* crash or retry never rolls again (roll-worker.ts:15).
RecordedDiceStand ==
  \A i \in DOMAIN saved, r \in Commands :
    saved[i].command = RollOf[r] => saved[i].face = dice[r] /\ dice[r] # NoFace

\* A roll request leaves the outbox as done only when its dice are recorded, and
\* is given up only when they are not (roll-worker.ts:62, failOutboxAttempt).
SettledAsRecorded ==
  \A r \in Commands :
    /\ outbox[r].status = "done" => processed[RollOf[r]] # 0
    /\ outbox[r].status = "failed" => processed[RollOf[r]] = 0

\* A queued roll does not stay in the outbox for ever: some process records it
\* or gives it up, crashes and conflicts notwithstanding (campaign-runtime.ts:165).
RollsAreSettled ==
  \A r \in Commands : outbox[r].status = "pending" ~> outbox[r].status # "pending"

History == [i \in DOMAIN saved |-> saved[i].command]

Promise == INSTANCE ExactlyOnce WITH history <- History

\* The bus implements the write path's promise (campaign-command-bus.ts:38).
KeepsItsPromise == Promise!Spec

-----------------------------------------------------------------------------
(* A bus in order: why the properties hold                                 *)

\* A command reaches one process, or the store lets one transaction run at a time.
Arbitrated ==
  Serial \/ \A p, q \in Processes : p # q => Handles[p] \cap Handles[q] = {}

\* A command id is recorded with the revision the command made.
ProcessedMatchesSaved ==
  /\ \A c \in Commands :
       processed[c] # 0 => processed[c] \in DOMAIN saved /\ saved[processed[c]].command = c
  /\ \A i \in DOMAIN saved : processed[saved[i].command] = i

\* What waits for the campaign: a user's command, or the dice saved for a request.
CallsInOrder ==
  \A p \in Processes : \A i \in DOMAIN queue[p] :
    LET call == queue[p][i] IN
      /\ call.command \in Handles[p]
      /\ call.row = NoCommand => call.command \in Clicks
      /\ call.row # NoCommand =>
           /\ call.command = RollOf[call.row]
           /\ outbox[call.row].status # "none"
           /\ dice[call.row] # NoFace
           /\ call.face = dice[call.row]

\* The worker handles requests that were made.
WorkersInOrder ==
  \A p \in Processes :
    /\ worker[p].row # NoCommand => outbox[worker[p].row].status # "none"
    /\ \A r \in worker[p].batch : RollOf[r] \in Handles[p] /\ outbox[r].status # "none"

\* A request is there because its command was accepted.
RequestsHaveCauses ==
  \A r \in Commands :
    outbox[r].status # "none" => processed[r] # 0 /\ RollOf[r] # NoCommand

\* A command that is being decided has not been accepted in the meantime.
TransactionsInOrder ==
  /\ \A p \in Processes :
       tx[p].at # "idle" => queue[p] # <<>> /\ processed[Running(p).command] = 0
  /\ Serial => \A p, q \in Processes : tx[p].at # "idle" /\ tx[q].at # "idle" => p = q

BusInOrder ==
  /\ ProcessedMatchesSaved
  /\ CallsInOrder
  /\ WorkersInOrder
  /\ RequestsHaveCauses
  /\ TransactionsInOrder
  /\ AnswersNameTheRevision
  /\ RecordedDiceStand
============================================================================
