------------------------- MODULE CommandBusProofs -------------------------
(***************************************************************************)
(* Proofs about CommandBus, for any processes, commands and dice: a bus    *)
(* whose commands are arbitrated stays in order, and implements            *)
(* ExactlyOnce.                                                            *)
(***************************************************************************)
EXTENDS CommandBus, SequenceTheorems, TLAPS

USE CommandsAssumption, DiceAssumption, BoundsAssumption

-----------------------------------------------------------------------------
(* Sequences *)

\* A save on the revision that is stored adds one entry to the state.
LEMMA SaveAppends ==
  ASSUME saved \in Seq(Entry), NEW call \in Call
  PROVE  /\ SavedWith(call, Len(saved)) =
              Append(saved, [command |-> call.command, face |-> call.face])
         /\ SavedWith(call, Len(saved)) \in Seq(Entry)
<1>1. SubSeq(saved, 1, Len(saved)) = saved
  BY SubSeqFull
<1>2. [command |-> call.command, face |-> call.face] \in Entry
  BY DEF Call, Entry
<1> QED
  BY <1>1, <1>2, AppendProperties DEF SavedWith

\* The running call is a call.
LEMMA RunningIsACall ==
  ASSUME TypeOK, NEW p \in Processes, queue[p] # <<>>
  PROVE  Running(p) \in Call /\ Running(p) = queue[p][1] /\ 1 \in DOMAIN queue[p]
<1>1. queue[p] \in Seq(Call)
  BY DEF TypeOK
<1> QED
  BY <1>1, HeadTailProperties, EmptySeq, LenProperties DEF Running

-----------------------------------------------------------------------------
(* Types *)

\* Ending a call keeps the queue, the transaction and the worker typed.
LEMMA LeaveType ==
  ASSUME TypeOK, NEW p \in Processes, queue[p] # <<>>, NEW accepted \in BOOLEAN,
         Leave(p, accepted)
  PROVE  /\ queue' \in [Processes -> Seq(Call)]
         /\ tx' \in [Processes -> Transaction]
         /\ worker' \in [Processes -> Worker]
<1>1. Tail(queue[p]) \in Seq(Call)
  BY HeadTailProperties DEF TypeOK
<1>2. NoTransaction \in Transaction
  BY DEF NoTransaction, Transaction
<1>3. queue' \in [Processes -> Seq(Call)]
  BY <1>1 DEF Leave, TypeOK
<1>4. tx' \in [Processes -> Transaction]
  BY <1>2 DEF Leave, TypeOK
<1>5. worker' \in [Processes -> Worker]
  <2>1. worker[p] \in Worker
    BY DEF TypeOK
  <2>2. \A at \in {"completing", "failing"} : [worker[p] EXCEPT !.at = at] \in Worker
    BY <2>1 DEF Worker
  <2>3. worker' = worker \/ \E at \in {"completing", "failing"} :
                               worker' = [worker EXCEPT ![p] = [worker[p] EXCEPT !.at = at]]
    BY DEF Leave
  <2> QED
    BY <2>2, <2>3, ZenonT(60) DEF TypeOK
<1> QED
  BY <1>3, <1>4, <1>5

-----------------------------------------------------------------------------
(* What a step leaves in order                                             *)

Inv == TypeOK /\ BusInOrder

\* Requests are not taken back, and saved dice are not changed.
RequestsStay ==
  \A r \in Commands :
    /\ outbox[r].status # "none" => outbox'[r].status # "none"
    /\ dice[r] # NoFace => dice'[r] = dice[r]

\* A step that adds no call keeps the calls in order.
LEMMA CallsStayInOrder ==
  ASSUME TypeOK, CallsInOrder, RequestsStay,
         \A q \in Processes : \A i \in DOMAIN queue'[q] :
           \E j \in DOMAIN queue[q] : queue'[q][i] = queue[q][j]
  PROVE  CallsInOrder'
<1> SUFFICES ASSUME NEW q \in Processes, NEW i \in DOMAIN queue'[q]
             PROVE  /\ queue'[q][i].command \in Handles[q]
                    /\ queue'[q][i].row = NoCommand => queue'[q][i].command \in Clicks
                    /\ queue'[q][i].row # NoCommand =>
                         /\ queue'[q][i].command = RollOf[queue'[q][i].row]
                         /\ outbox'[queue'[q][i].row].status # "none"
                         /\ dice'[queue'[q][i].row] # NoFace
                         /\ queue'[q][i].face = dice'[queue'[q][i].row]
  BY DEF CallsInOrder
<1>1. PICK j \in DOMAIN queue[q] : queue'[q][i] = queue[q][j]
  OBVIOUS
<1>2. queue[q][j] \in Call
  BY ElementOfSeq, LenProperties DEF TypeOK
<1> QED
  BY <1>1, <1>2 DEF CallsInOrder, RequestsStay, Call

\* A step that gives workers no new row keeps the workers in order.
LEMMA WorkersStayInOrder ==
  ASSUME TypeOK, WorkersInOrder, RequestsStay,
         \A q \in Processes : /\ worker'[q].row \in {worker[q].row, NoCommand}
                              /\ worker'[q].batch \subseteq worker[q].batch
  PROVE  WorkersInOrder'
<1>1. \A q \in Processes : worker[q].row \in Commands \cup {NoCommand} /\ worker[q].batch \subseteq Commands
  BY DEF TypeOK, Worker
<1> QED
  BY <1>1 DEF WorkersInOrder, RequestsStay

\* A step that does not touch the store or the answers.
LEMMA StoreStaysInOrder ==
  ASSUME Inv, UNCHANGED store, UNCHANGED answers
  PROVE  /\ ProcessedMatchesSaved'
         /\ RequestsHaveCauses'
         /\ AnswersNameTheRevision'
         /\ RecordedDiceStand'
         /\ RequestsStay
<1> QED
  BY DEF Inv, BusInOrder, store, ProcessedMatchesSaved, RequestsHaveCauses,
         AnswersNameTheRevision, RecordedDiceStand, RequestsStay

\* The end of a call takes the first call away and nothing else.
LEMMA LeaveInOrder ==
  ASSUME Inv, RequestsStay, NEW p \in Processes, queue[p] # <<>>,
         NEW accepted \in BOOLEAN, Leave(p, accepted)
  PROVE  /\ CallsInOrder'
         /\ WorkersInOrder'
<1> USE DEF Inv, BusInOrder
<1>1. queue[p] \in Seq(Call) /\ queue \in [Processes -> Seq(Call)]
  BY DEF TypeOK
<1>2. \A i \in DOMAIN Tail(queue[p]) :
        i + 1 \in DOMAIN queue[p] /\ Tail(queue[p])[i] = queue[p][i + 1]
  BY <1>1, HeadTailProperties, LenProperties
<1>3. \A q \in Processes : \A i \in DOMAIN queue'[q] :
        \E j \in DOMAIN queue[q] : queue'[q][i] = queue[q][j]
  BY <1>1, <1>2 DEF Leave
<1>4. \A q \in Processes : /\ worker'[q].row \in {worker[q].row, NoCommand}
                           /\ worker'[q].batch \subseteq worker[q].batch
  <2>1. worker \in [Processes -> Worker]
    BY DEF TypeOK
  <2>2. worker' = worker \/ \E at \in {"completing", "failing"} :
                               worker' = [worker EXCEPT ![p] = [worker[p] EXCEPT !.at = at]]
    BY DEF Leave
  <2> QED
    BY <2>1, <2>2 DEF Worker
<1> QED
  BY <1>3, <1>4, CallsStayInOrder, WorkersStayInOrder

\* Only one transaction changes, and no command is recorded.
LEMMA TransactionEndsInOrder ==
  ASSUME Inv, UNCHANGED processed, NEW p \in Processes,
         tx'[p].at = "idle",
         \A q \in Processes \ {p} : tx'[q] = tx[q] /\ queue'[q] = queue[q]
  PROVE  TransactionsInOrder'
<1> QED
  BY DEF Inv, BusInOrder, TransactionsInOrder, Running
-----------------------------------------------------------------------------
(* Every action keeps the bus in order                                     *)

\* A call that ends without a save leaves the bus in order.
LEMMA EndOfCall ==
  ASSUME Inv, NEW p \in Processes, queue[p] # <<>>, NEW accepted \in BOOLEAN,
         Leave(p, accepted), UNCHANGED <<store, answers, crashes>>
  PROVE  Inv'
<1>1. TypeOK'
  BY LeaveType DEF Inv, TypeOK, store
<1>2. TransactionsInOrder'
  <2>1. tx \in [Processes -> Transaction] /\ queue \in [Processes -> Seq(Call)]
    BY DEF Inv, TypeOK
  <2> QED
    BY <2>1, TransactionEndsInOrder DEF Leave, NoTransaction, store
<1> QED
  BY <1>1, <1>2, StoreStaysInOrder, LeaveInOrder DEF Inv, BusInOrder

\* Click leaves the bus in order.
LEMMA ClickKeepsOrder ==
  ASSUME Inv, NEW p \in Processes, NEW c \in Commands, Click(p, c)
  PROVE  Inv'
<1> DEFINE call == [command |-> c, row |-> NoCommand, face |-> NoFace]
<1>1. call \in Call /\ queue[p] \in Seq(Call) /\ queue \in [Processes -> Seq(Call)]
  BY DEF Call, Inv, TypeOK
<1>2. queue' = [queue EXCEPT ![p] = Append(queue[p], call)]
  BY DEF Click
<1>3. TypeOK'
  BY <1>1, <1>2, AppendProperties DEF Click, Inv, TypeOK, store
<1>4. CallsInOrder'
  <2> SUFFICES ASSUME NEW q \in Processes, NEW i \in DOMAIN queue'[q]
               PROVE  /\ queue'[q][i].command \in Handles[q]
                      /\ queue'[q][i].row = NoCommand => queue'[q][i].command \in Clicks
                      /\ queue'[q][i].row # NoCommand =>
                           /\ queue'[q][i].command = RollOf[queue'[q][i].row]
                           /\ outbox'[queue'[q][i].row].status # "none"
                           /\ dice'[queue'[q][i].row] # NoFace
                           /\ queue'[q][i].face = dice'[queue'[q][i].row]
    BY DEF CallsInOrder
  <2>1. (i \in DOMAIN queue[q] /\ queue'[q][i] = queue[q][i]) \/ (q = p /\ queue'[q][i] = call)
    BY <1>1, <1>2, AppendProperties, LenProperties
  <2>2. c \in Handles[p] /\ c \in Clicks /\ UNCHANGED <<outbox, dice>>
    BY DEF Click, store
  <2> QED
    BY <2>1, <2>2 DEF Inv, BusInOrder, CallsInOrder
<1>5. WorkersInOrder'
  BY DEF Click, Inv, BusInOrder, WorkersInOrder, store
<1>6. TransactionsInOrder'
  <2>1. queue[p] # <<>> => queue'[p] # <<>> /\ Head(queue'[p]) = Head(queue[p])
    BY <1>1, <1>2, HeadTailAppend
  <2>2. \A q \in Processes \ {p} : queue'[q] = queue[q]
    BY <1>1, <1>2
  <2>3. \A q \in Processes : tx[q].at # "idle" =>
           queue'[q] # <<>> /\ Head(queue'[q]) = Head(queue[q])
    BY <2>1, <2>2 DEF Inv, BusInOrder, TransactionsInOrder
  <2>4. UNCHANGED <<tx, processed>>
    BY DEF Click, store
  <2> QED
    BY <2>3, <2>4 DEF Inv, BusInOrder, TransactionsInOrder, Running
<1>7. UNCHANGED store /\ UNCHANGED answers
  BY DEF Click
<1> QED
  BY <1>3, <1>4, <1>5, <1>6, <1>7, StoreStaysInOrder DEF Inv, BusInOrder

\* Look leaves the bus in order.
LEMMA LookKeepsOrder ==
  ASSUME Inv, NEW p \in Processes, Look(p)
  PROVE  Inv'
<1> DEFINE c == Running(p).command
<1>1. queue[p] # <<>> /\ StoreFree(p) /\ UNCHANGED <<store, crashes>>
  BY DEF Look
<1>2. Running(p) \in Call /\ c \in Commands
  BY <1>1, RunningIsACall DEF Inv, Call
<1>3. CASE processed[c] # 0 /\ Accept(p, processed[c])
  <2>1. Leave(p, TRUE) /\ answers' = answers \cup {<<c, processed[c]>>}
    BY <1>3 DEF Accept
  <2>2. TypeOK'
    <3>1. processed[c] \in Nat
      BY <1>2 DEF Inv, TypeOK
    <3>2. answers' \subseteq Commands \X Nat
      BY <1>2, <2>1, <3>1 DEF Inv, TypeOK
    <3>3. TypeOK
      BY DEF Inv
    <3>4. /\ queue' \in [Processes -> Seq(Call)]
          /\ tx' \in [Processes -> Transaction]
          /\ worker' \in [Processes -> Worker]
      BY <1>1, <2>1, <3>3, LeaveType
    <3> QED
      BY <1>1, <3>2, <3>3, <3>4 DEF TypeOK, store
  <2>3. TransactionsInOrder'
    <3>1. tx \in [Processes -> Transaction] /\ queue \in [Processes -> Seq(Call)]
      BY DEF Inv, TypeOK
    <3> QED
      BY <1>1, <2>1, <3>1, TransactionEndsInOrder DEF Leave, NoTransaction, store
  <2>4. AnswersNameTheRevision'
    BY <1>1, <1>2, <1>3, <2>1
       DEF Inv, BusInOrder, AnswersNameTheRevision, ProcessedMatchesSaved, store
  <2>5. /\ ProcessedMatchesSaved'
        /\ RequestsHaveCauses'
        /\ RecordedDiceStand'
        /\ RequestsStay
    BY <1>1 DEF Inv, BusInOrder, store, ProcessedMatchesSaved, RequestsHaveCauses,
                RecordedDiceStand, RequestsStay
  <2> QED
    BY <1>1, <2>1, <2>2, <2>3, <2>4, <2>5, LeaveInOrder DEF Inv, BusInOrder
<1>4. CASE processed[c] = 0 /\ tx' = [tx EXCEPT ![p].at = "looked"] /\ UNCHANGED <<queue, worker, answers>>
  <2>1. tx' = [tx EXCEPT ![p] = [tx[p] EXCEPT !.at = "looked"]] /\ tx \in [Processes -> Transaction]
    BY <1>4 DEF Inv, TypeOK
  <2>2. [tx[p] EXCEPT !.at = "looked"] \in Transaction
    BY <2>1 DEF Transaction
  <2>3. TypeOK'
    BY <1>1, <1>4, <2>1, <2>2 DEF Inv, TypeOK, store
  <2>4. CallsInOrder' /\ WorkersInOrder'
    BY <1>1, <1>4 DEF Inv, BusInOrder, CallsInOrder, WorkersInOrder, store
  <2>5. TransactionsInOrder'
    <3>1. \A q \in Processes \ {p} : tx'[q] = tx[q]
      BY <2>1
    <3>2. Serial => \A q \in Processes : tx[q].at = "idle"
      BY <1>1 DEF StoreFree
    <3>3. UNCHANGED <<queue, processed>>
      BY <1>1, <1>4 DEF store
    <3> QED
      BY <1>1, <1>4, <3>1, <3>2, <3>3 DEF Inv, BusInOrder, TransactionsInOrder, Running
  <2> QED
    BY <1>1, <1>4, <2>3, <2>4, <2>5, StoreStaysInOrder DEF Inv, BusInOrder
<1> QED
  BY <1>3, <1>4 DEF Look, FirstRevision

\* Load leaves the bus in order.
LEMMA LoadKeepsOrder ==
  ASSUME Inv, NEW p \in Processes, Load(p)
  PROVE  Inv'
<1> DEFINE loaded == [at |-> "loaded", attempt |-> tx[p].attempt, revision |-> Len(saved)]
<1>1. tx \in [Processes -> Transaction] /\ Len(saved) \in Nat
  BY LenProperties DEF Inv, TypeOK
<1>2. loaded \in Transaction
  BY <1>1 DEF Transaction
<1>3. tx' = [tx EXCEPT ![p] = loaded]
  BY <1>1 DEF Load
<1>4. TypeOK'
  BY <1>1, <1>2, <1>3 DEF Load, Inv, TypeOK, store
<1>5. CallsInOrder' /\ WorkersInOrder'
  BY DEF Load, Inv, BusInOrder, CallsInOrder, WorkersInOrder, store
<1>6. TransactionsInOrder'
  <2>1. \A q \in Processes : tx'[q].at # "idle" <=> tx[q].at # "idle"
    BY <1>1, <1>3 DEF Load
  <2>2. UNCHANGED <<queue, processed>>
    BY DEF Load, store
  <2> QED
    BY <2>1, <2>2 DEF Inv, BusInOrder, TransactionsInOrder, Running
<1> QED
  BY <1>4, <1>5, <1>6, StoreStaysInOrder DEF Load, Inv, BusInOrder

\* Reject leaves the bus in order.
LEMMA RejectKeepsOrder ==
  ASSUME Inv, NEW p \in Processes, Reject(p)
  PROVE  Inv'
<1>1. queue[p] # <<>>
  BY DEF Reject, Inv, BusInOrder, TransactionsInOrder
<1> QED
  BY <1>1, EndOfCall DEF Reject

\* Conflict leaves the bus in order.
LEMMA ConflictKeepsOrder ==
  ASSUME Inv, NEW p \in Processes, Conflict(p)
  PROVE  Inv'
<1>1. queue[p] # <<>> /\ UNCHANGED <<store, answers, crashes>>
  BY DEF Conflict, Inv, BusInOrder, TransactionsInOrder
<1>2. CASE Leave(p, FALSE)
  BY <1>1, <1>2, EndOfCall
<1>3. CASE tx' = [tx EXCEPT ![p] = [NoTransaction EXCEPT !.attempt = 2]] /\ UNCHANGED <<queue, worker>>
  <2>1. tx \in [Processes -> Transaction]
    BY DEF Inv, TypeOK
  <2>2. [NoTransaction EXCEPT !.attempt = 2] \in Transaction
        /\ [NoTransaction EXCEPT !.attempt = 2].at = "idle"
    BY DEF NoTransaction, Transaction
  <2>3. TypeOK'
    BY <1>1, <1>3, <2>2 DEF Inv, TypeOK, store
  <2>4. CallsInOrder' /\ WorkersInOrder'
    BY <1>1, <1>3 DEF Inv, BusInOrder, CallsInOrder, WorkersInOrder, store
  <2>5. TransactionsInOrder'
    BY <1>1, <1>3, <2>1, <2>2, TransactionEndsInOrder DEF store
  <2> QED
    BY <1>1, <2>3, <2>4, <2>5, StoreStaysInOrder DEF Inv, BusInOrder
<1> QED
  BY <1>2, <1>3 DEF Conflict

\* Two calls for the same command never have their transactions open together.
LEMMA OneTransactionPerCommand ==
  ASSUME Arbitrated, Inv, NEW p \in Processes, NEW q \in Processes,
         tx[p].at # "idle", tx[q].at # "idle",
         Running(p).command = Running(q).command
  PROVE  p = q
<1>1. queue[p] # <<>> /\ queue[q] # <<>>
  BY DEF Inv, BusInOrder, TransactionsInOrder
<1>2. Running(p).command \in Handles[p] /\ Running(q).command \in Handles[q]
  BY <1>1, RunningIsACall DEF Inv, BusInOrder, CallsInOrder
<1>3. CASE Serial
  BY <1>3 DEF Inv, BusInOrder, TransactionsInOrder
<1>4. CASE \A s, t \in Processes : s # t => Handles[s] \cap Handles[t] = {}
  BY <1>2, <1>4
<1> QED
  BY <1>3, <1>4 DEF Arbitrated

\* What a save does, with the revision of the transaction read as the stored one.
LEMMA SaveMeans ==
  ASSUME Inv, NEW p \in Processes, Save(p)
  PROVE  LET call == Running(p)
             entry == [command |-> call.command, face |-> call.face]
         IN  /\ queue[p] # <<>>
             /\ call \in Call
             /\ entry \in Entry
             /\ processed[call.command] = 0
             /\ saved' = Append(saved, entry)
             /\ Len(saved) \in Nat
             /\ processed' = [processed EXCEPT ![call.command] = Len(saved) + 1]
             /\ outbox' = WithRequest(call.command)
             /\ Leave(p, TRUE)
             /\ answers' = answers \cup {<<call.command, Len(saved) + 1>>}
             /\ UNCHANGED <<dice, crashes>>
<1>1. queue[p] # <<>> /\ processed[Running(p).command] = 0
  BY DEF Save, Inv, BusInOrder, TransactionsInOrder
<1>2. Running(p) \in Call
  BY <1>1, RunningIsACall DEF Inv
<1>3. saved \in Seq(Entry) /\ Len(saved) \in Nat
  BY LenProperties DEF Inv, TypeOK
<1>4. SavedWith(Running(p), Len(saved)) =
        Append(saved, [command |-> Running(p).command, face |-> Running(p).face])
  BY <1>2, <1>3, SaveAppends
<1>5. [command |-> Running(p).command, face |-> Running(p).face] \in Entry
  BY <1>2 DEF Call, Entry
<1>6. tx[p].revision = Len(saved)
  BY DEF Save, RevisionHolds
<1> QED
  BY <1>1, <1>2, <1>3, <1>4, <1>5, <1>6 DEF Save, RecordProcessed, Accept

\* Save leaves the bus in order.
LEMMA SaveKeepsOrder ==
  ASSUME Arbitrated, Inv, NEW p \in Processes, Save(p)
  PROVE  Inv'
<1> DEFINE call == Running(p)
           c == call.command
           n == Len(saved) + 1
           entry == [command |-> c, face |-> call.face]
<1>1. /\ queue[p] # <<>>
      /\ call \in Call
      /\ entry \in Entry
      /\ processed[c] = 0
      /\ saved' = Append(saved, entry)
      /\ Len(saved) \in Nat
      /\ processed' = [processed EXCEPT ![c] = n]
      /\ outbox' = WithRequest(c)
      /\ Leave(p, TRUE)
      /\ answers' = answers \cup {<<c, n>>}
      /\ UNCHANGED <<dice, crashes>>
  BY SaveMeans
<1>2. c \in Commands /\ n \in Nat /\ n # 0
  BY <1>1 DEF Call
<1> HIDE DEF call, c, n
<1>3. /\ saved \in Seq(Entry)
      /\ DOMAIN saved = 1 .. Len(saved)
      /\ DOMAIN saved' = DOMAIN saved \cup {n}
      /\ n \notin DOMAIN saved
      /\ \A i \in DOMAIN saved : saved'[i] = saved[i]
      /\ saved'[n] = entry
      /\ saved' \in Seq(Entry)
  <2>1. saved \in Seq(Entry)
    BY DEF Inv, TypeOK
  <2>2. /\ Len(saved') = Len(saved) + 1
        /\ \A i \in 1 .. Len(saved) : saved'[i] = saved[i]
        /\ saved'[Len(saved) + 1] = entry
        /\ saved' \in Seq(Entry)
    BY <1>1, <2>1, AppendProperties
  <2>3. DOMAIN saved = 1 .. Len(saved) /\ DOMAIN saved' = 1 .. Len(saved')
    BY <2>1, <2>2, LenProperties
  <2> QED
    BY <1>1, <2>1, <2>2, <2>3 DEF n
<1>4. /\ processed \in [Commands -> Nat]
      /\ processed' \in [Commands -> Nat]
      /\ processed'[c] = n
      /\ \A d \in Commands \ {c} : processed'[d] = processed[d]
  BY <1>1, <1>2 DEF Inv, TypeOK
<1>5. /\ outbox' \in [Commands -> Row]
      /\ \A r \in Commands \ {c} : outbox'[r] = outbox[r]
      /\ outbox'[c].status # "none" => outbox[c].status # "none" \/ RollOf[c] # NoCommand
      /\ outbox[c].status # "none" => outbox'[c].status # "none"
  <2>1. outbox \in [Commands -> Row]
    BY DEF Inv, TypeOK
  <2>2. outbox' = outbox \/ (/\ RollOf[c] # NoCommand
                             /\ outbox' = [outbox EXCEPT ![c] = [outbox[c] EXCEPT !.status = "pending"]])
    BY <1>1 DEF WithRequest
  <2>3. [outbox[c] EXCEPT !.status = "pending"] \in Row
        /\ [outbox[c] EXCEPT !.status = "pending"].status # "none"
    BY <1>2, <2>1 DEF Row
  <2> QED
    BY <1>2, <2>1, <2>2, <2>3, ZenonT(60)
<1>6. RequestsStay
  BY <1>1, <1>2, <1>5 DEF RequestsStay
<1>7. TypeOK'
  <2>1. /\ queue' \in [Processes -> Seq(Call)]
        /\ tx' \in [Processes -> Transaction]
        /\ worker' \in [Processes -> Worker]
    BY <1>1, LeaveType DEF Inv
  <2>2. answers' \subseteq Commands \X Nat
    BY <1>1, <1>2 DEF Inv, TypeOK
  <2>3. TypeOK
    BY DEF Inv
  <2> QED
    BY <1>1, <1>3, <1>4, <1>5, <2>1, <2>2, <2>3 DEF TypeOK
<1>8. CallsInOrder' /\ WorkersInOrder'
  BY <1>1, <1>6, LeaveInOrder
<1>9. \A i \in DOMAIN saved : saved[i].command \in Commands \ {c}
  <2> SUFFICES ASSUME NEW i \in DOMAIN saved
               PROVE  saved[i].command \in Commands /\ saved[i].command # c
    OBVIOUS
  <2>1. saved[i] \in Entry
    BY <1>3, ElementOfSeq
  <2>2. processed[saved[i].command] = i /\ i # 0
    BY <1>3 DEF Inv, BusInOrder, ProcessedMatchesSaved
  <2> QED
    BY <1>1, <2>1, <2>2 DEF Entry
<1>10. ProcessedMatchesSaved'
  <2>1. ASSUME NEW d \in Commands, processed'[d] # 0
        PROVE  processed'[d] \in DOMAIN saved' /\ saved'[processed'[d]].command = d
    <3>1. CASE d = c
      BY <1>3, <1>4, <3>1
    <3>2. CASE d # c
      BY <1>3, <1>4, <2>1, <3>2 DEF Inv, BusInOrder, ProcessedMatchesSaved
    <3> QED
      BY <3>1, <3>2
  <2>2. ASSUME NEW i \in DOMAIN saved'
        PROVE  processed'[saved'[i].command] = i
    <3>1. CASE i = n
      BY <1>3, <1>4, <3>1
    <3>2. CASE i \in DOMAIN saved
      BY <1>3, <1>4, <1>9, <3>2 DEF Inv, BusInOrder, ProcessedMatchesSaved
    <3> QED
      BY <1>3, <3>1, <3>2
  <2> QED
    BY <2>1, <2>2 DEF ProcessedMatchesSaved
<1>11. RequestsHaveCauses'
  BY <1>2, <1>4, <1>5 DEF Inv, BusInOrder, RequestsHaveCauses
<1>12. AnswersNameTheRevision'
  BY <1>1, <1>3 DEF Inv, BusInOrder, AnswersNameTheRevision
<1>13. RecordedDiceStand'
  <2> SUFFICES ASSUME NEW i \in DOMAIN saved', NEW r \in Commands,
                      saved'[i].command = RollOf[r]
               PROVE  saved'[i].face = dice[r] /\ dice[r] # NoFace
    BY <1>1 DEF RecordedDiceStand
  <2>1. CASE i \in DOMAIN saved
    BY <1>3, <2>1 DEF Inv, BusInOrder, RecordedDiceStand
  <2>2. CASE i = n
    <3>1. c = RollOf[r] /\ saved'[i].face = call.face
      BY <1>3, <2>2
    <3>2. call = queue[p][1] /\ 1 \in DOMAIN queue[p]
      BY <1>1, RunningIsACall DEF Inv, call
    <3>3. call.row # NoCommand
      BY <1>2, <3>1, <3>2 DEF Inv, BusInOrder, CallsInOrder, c
    <3>4. /\ c = RollOf[call.row]
          /\ dice[call.row] # NoFace
          /\ call.face = dice[call.row]
          /\ call.row \in Commands
      BY <1>1, <3>2, <3>3 DEF Inv, BusInOrder, CallsInOrder, c, Call
    <3>5. r = call.row
      BY <1>2, <3>1, <3>4
    <3> QED
      BY <3>1, <3>4, <3>5
  <2> QED
    BY <1>3, <2>1, <2>2
<1>14. TransactionsInOrder'
  <2>1. /\ tx \in [Processes -> Transaction] /\ queue \in [Processes -> Seq(Call)]
        /\ tx[p].at # "idle"
    BY DEF Inv, TypeOK, Save
  <2>2. tx'[p].at = "idle" /\ \A q \in Processes \ {p} : tx'[q] = tx[q] /\ queue'[q] = queue[q]
    BY <1>1, <2>1 DEF Leave, NoTransaction
  <2>3. ASSUME NEW q \in Processes, tx'[q].at # "idle"
        PROVE  queue'[q] # <<>> /\ processed'[Head(queue'[q]).command] = 0
    <3>1. q # p /\ tx[q].at # "idle" /\ queue[q] # <<>> /\ queue'[q] = queue[q]
      BY <2>2, <2>3 DEF Inv, BusInOrder, TransactionsInOrder
    <3>2. Running(q).command # c
      BY <2>1, <3>1, OneTransactionPerCommand DEF c, call
    <3>3. Running(q).command \in Commands /\ processed[Running(q).command] = 0
      BY <3>1, RunningIsACall DEF Inv, BusInOrder, TransactionsInOrder, Call
    <3> QED
      BY <1>4, <3>1, <3>2, <3>3 DEF Running
  <2>4. ASSUME Serial, NEW q \in Processes, NEW s \in Processes,
               tx'[q].at # "idle", tx'[s].at # "idle"
        PROVE  q = s
    BY <2>2, <2>4 DEF Inv, BusInOrder, TransactionsInOrder
  <2> QED
    BY <2>3, <2>4 DEF TransactionsInOrder, Running
<1> QED
  BY <1>7, <1>8, <1>10, <1>11, <1>12, <1>13, <1>14 DEF Inv, BusInOrder

\* Poll leaves the bus in order.
LEMMA PollKeepsOrder ==
  ASSUME Inv, NEW p \in Processes, Poll(p)
  PROVE  Inv'
<1> DEFINE rows == {r \in Commands : outbox[r].status = "pending" /\ RollOf[r] \in Handles[p]}
<1>1. worker' = [worker EXCEPT ![p] = [worker[p] EXCEPT !.batch = rows]]
      /\ UNCHANGED <<store, queue, tx, answers, crashes>>
  BY DEF Poll
<1>2. worker \in [Processes -> Worker] /\ rows \in SUBSET Commands
  BY DEF Inv, TypeOK
<1>3. [worker[p] EXCEPT !.batch = rows] \in Worker
      /\ [worker[p] EXCEPT !.batch = rows].row = worker[p].row
      /\ [worker[p] EXCEPT !.batch = rows].batch = rows
  BY <1>2 DEF Worker
<1>4. worker' \in [Processes -> Worker]
  BY <1>1, <1>2, <1>3
<1>5. TypeOK'
  BY <1>1, <1>4 DEF Inv, TypeOK, store
<1>6. CallsInOrder'
  BY <1>1 DEF Inv, BusInOrder, CallsInOrder, store
<1>7. WorkersInOrder'
  <2>1. worker'[p].row = worker[p].row /\ worker'[p].batch = rows
        /\ \A q \in Processes \ {p} : worker'[q] = worker[q]
    BY <1>1, <1>2, <1>3
  <2>2. \A r \in rows : RollOf[r] \in Handles[p] /\ outbox[r].status # "none"
    OBVIOUS
  <2>3. outbox' = outbox
    BY <1>1 DEF store
  <2> HIDE DEF rows
  <2> QED
    BY <2>1, <2>2, <2>3 DEF Inv, BusInOrder, WorkersInOrder
<1>8. TransactionsInOrder'
  BY <1>1 DEF Inv, BusInOrder, TransactionsInOrder, Running, store
<1> QED
  BY <1>1, <1>5, <1>6, <1>7, <1>8, StoreStaysInOrder DEF Inv, BusInOrder

\* Roll leaves the bus in order.
LEMMA RollKeepsOrder ==
  ASSUME Inv, NEW p \in Processes, NEW r \in Commands, NEW face \in Faces, Roll(p, r, face)
  PROVE  Inv'
<1> DEFINE shown == Rolled(r, face)
           call == [command |-> RollOf[r], row |-> r, face |-> shown]
           busy == [at |-> "executing", row |-> r, batch |-> worker[p].batch \ {r}]
<1>1. /\ r \in worker[p].batch
      /\ dice' = [dice EXCEPT ![r] = shown]
      /\ queue' = [queue EXCEPT ![p] = Append(queue[p], call)]
      /\ worker' = [worker EXCEPT ![p] = busy]
      /\ UNCHANGED <<saved, processed, outbox, tx, answers, crashes>>
  BY DEF Roll
<1>2. /\ dice \in [Commands -> Faces \cup {NoFace}]
      /\ queue \in [Processes -> Seq(Call)]
      /\ worker \in [Processes -> Worker]
  BY DEF Inv, TypeOK
<1>3. shown \in Faces /\ shown # NoFace /\ (dice[r] # NoFace => shown = dice[r])
  BY <1>2 DEF Rolled
<1> HIDE DEF shown
<1>4. outbox[r].status # "none" /\ RollOf[r] \in Handles[p]
  BY <1>1 DEF Inv, BusInOrder, WorkersInOrder
<1>5. RollOf[r] \in Commands
  BY <1>4
<1>6. call \in Call /\ call.row = r /\ call.command = RollOf[r] /\ call.face = shown
  BY <1>3, <1>5 DEF Call
<1>7. busy \in Worker /\ busy.row = r /\ busy.batch \subseteq worker[p].batch
  BY <1>2 DEF Worker
<1> HIDE DEF call, busy
<1>8. RequestsStay /\ dice'[r] = shown
  BY <1>1, <1>2, <1>3 DEF RequestsStay
<1>9. TypeOK'
  <2>1. dice' \in [Commands -> Faces \cup {NoFace}]
    BY <1>1, <1>2, <1>3
  <2>2. queue' \in [Processes -> Seq(Call)]
    BY <1>1, <1>2, <1>6, AppendProperties
  <2>3. worker' \in [Processes -> Worker]
    BY <1>1, <1>2, <1>7
  <2> QED
    BY <1>1, <2>1, <2>2, <2>3 DEF Inv, TypeOK
<1>10. CallsInOrder'
  <2> SUFFICES ASSUME NEW q \in Processes, NEW i \in DOMAIN queue'[q]
               PROVE  /\ queue'[q][i].command \in Handles[q]
                      /\ queue'[q][i].row = NoCommand => queue'[q][i].command \in Clicks
                      /\ queue'[q][i].row # NoCommand =>
                           /\ queue'[q][i].command = RollOf[queue'[q][i].row]
                           /\ outbox'[queue'[q][i].row].status # "none"
                           /\ dice'[queue'[q][i].row] # NoFace
                           /\ queue'[q][i].face = dice'[queue'[q][i].row]
    BY DEF CallsInOrder
  <2>1. queue[q] \in Seq(Call) /\ queue[p] \in Seq(Call)
    BY <1>2
  <2>2. (i \in DOMAIN queue[q] /\ queue'[q][i] = queue[q][i]) \/ (q = p /\ queue'[q][i] = call)
    BY <1>1, <1>2, <1>6, <2>1, AppendProperties, LenProperties
  <2>3. CASE q = p /\ queue'[q][i] = call
    BY <1>1, <1>3, <1>4, <1>6, <1>8, <2>3
  <2>4. CASE i \in DOMAIN queue[q] /\ queue'[q][i] = queue[q][i]
    <3>1. queue[q][i] \in Call
      BY <2>1, <2>4, ElementOfSeq, LenProperties
    <3> QED
      BY <1>8, <2>4, <3>1 DEF Inv, BusInOrder, CallsInOrder, RequestsStay, Call
  <2> QED
    BY <2>2, <2>3, <2>4
<1>11. WorkersInOrder'
  <2>1. worker'[p] = busy /\ \A q \in Processes \ {p} : worker'[q] = worker[q]
    BY <1>1, <1>2
  <2>2. outbox' = outbox
    BY <1>1
  <2> QED
    BY <1>4, <1>7, <2>1, <2>2 DEF Inv, BusInOrder, WorkersInOrder
<1>12. TransactionsInOrder'
  <2>1. queue[p] # <<>> => queue'[p] # <<>> /\ Head(queue'[p]) = Head(queue[p])
    BY <1>1, <1>2, <1>6, HeadTailAppend
  <2>2. \A q \in Processes \ {p} : queue'[q] = queue[q]
    BY <1>1, <1>2
  <2>3. \A q \in Processes : tx[q].at # "idle" =>
           queue'[q] # <<>> /\ Head(queue'[q]) = Head(queue[q])
    BY <2>1, <2>2 DEF Inv, BusInOrder, TransactionsInOrder
  <2>4. UNCHANGED <<tx, processed>>
    BY <1>1
  <2> QED
    BY <2>3, <2>4 DEF Inv, BusInOrder, TransactionsInOrder, Running
<1>13. RecordedDiceStand'
  BY <1>1, <1>8 DEF Inv, BusInOrder, RecordedDiceStand, RequestsStay
<1>14. ProcessedMatchesSaved' /\ RequestsHaveCauses' /\ AnswersNameTheRevision'
  BY <1>1 DEF Inv, BusInOrder, ProcessedMatchesSaved, RequestsHaveCauses, AnswersNameTheRevision
<1> QED
  BY <1>9, <1>10, <1>11, <1>12, <1>13, <1>14 DEF Inv, BusInOrder

\* A step that only moves roll requests on.
LEMMA OutboxStepKeepsOrder ==
  ASSUME Inv, outbox' \in [Commands -> Row], worker' \in [Processes -> Worker],
         \A r \in Commands : outbox'[r].status # "none" <=> outbox[r].status # "none",
         \A q \in Processes : /\ worker'[q].row \in {worker[q].row, NoCommand}
                              /\ worker'[q].batch \subseteq worker[q].batch,
         UNCHANGED <<saved, processed, dice, queue, tx, answers, crashes>>
  PROVE  Inv'
<1>1. TypeOK'
  BY DEF Inv, TypeOK
<1>2. RequestsStay
  BY DEF RequestsStay
<1>3. CallsInOrder'
  BY <1>2, CallsStayInOrder DEF Inv, BusInOrder
<1>4. WorkersInOrder'
  BY <1>2, WorkersStayInOrder DEF Inv, BusInOrder
<1>5. RequestsHaveCauses'
  BY DEF Inv, BusInOrder, RequestsHaveCauses
<1>6. TransactionsInOrder'
  BY DEF Inv, BusInOrder, TransactionsInOrder, Running
<1>7. ProcessedMatchesSaved' /\ AnswersNameTheRevision' /\ RecordedDiceStand'
  BY DEF Inv, BusInOrder, ProcessedMatchesSaved, AnswersNameTheRevision, RecordedDiceStand
<1> QED
  BY <1>1, <1>3, <1>4, <1>5, <1>6, <1>7 DEF Inv, BusInOrder

\* A worker that goes on to its next row.
LEMMA NextRowKeepsOrder ==
  ASSUME TypeOK, NEW p \in Processes, worker' = NextRow(p)
  PROVE  /\ worker' \in [Processes -> Worker]
         /\ \A q \in Processes : /\ worker'[q].row \in {worker[q].row, NoCommand}
                                 /\ worker'[q].batch \subseteq worker[q].batch
<1> DEFINE free == [at |-> "idle", row |-> NoCommand, batch |-> worker[p].batch]
<1>1. worker \in [Processes -> Worker]
  BY DEF TypeOK
<1>2. free \in Worker /\ free.row = NoCommand /\ free.batch = worker[p].batch
  BY <1>1 DEF Worker
<1>3. worker' = [worker EXCEPT ![p] = free]
  BY DEF NextRow
<1> HIDE DEF free
<1> QED
  BY <1>1, <1>2, <1>3

\* Complete leaves the bus in order.
LEMMA CompleteKeepsOrder ==
  ASSUME Inv, NEW p \in Processes, Complete(p)
  PROVE  Inv'
<1> DEFINE r == worker[p].row
           done == [outbox[r] EXCEPT !.status = "done"]
<1>1. outbox' = [outbox EXCEPT ![r] = done] /\ worker' = NextRow(p)
      /\ UNCHANGED <<saved, processed, dice, queue, tx, answers, crashes>>
  BY DEF Complete
<1>2. outbox \in [Commands -> Row] /\ (r \in Commands => outbox[r].status # "none")
  BY DEF Inv, TypeOK, BusInOrder, WorkersInOrder
<1>3. r \in Commands => done \in Row /\ done.status # "none"
  BY <1>2 DEF Row
<1> HIDE DEF done
<1>4. /\ outbox' \in [Commands -> Row]
      /\ \A s \in Commands : outbox'[s].status # "none" <=> outbox[s].status # "none"
  BY <1>1, <1>2, <1>3
<1> QED
  BY <1>1, <1>4, NextRowKeepsOrder, OutboxStepKeepsOrder DEF Inv

\* Fail leaves the bus in order.
LEMMA FailKeepsOrder ==
  ASSUME Inv, NEW p \in Processes, Fail(p)
  PROVE  Inv'
<1> DEFINE r == worker[p].row
           after == AfterFailure(outbox[r])
<1>1. outbox' = [outbox EXCEPT ![r] = after] /\ worker' = NextRow(p)
      /\ UNCHANGED <<saved, processed, dice, queue, tx, answers, crashes>>
  BY DEF Fail
<1>2. outbox \in [Commands -> Row] /\ (r \in Commands => outbox[r].status # "none")
  BY DEF Inv, TypeOK, BusInOrder, WorkersInOrder
<1>3. r \in Commands => after \in Row /\ after.status # "none"
  <2>1. r \in Commands => outbox[r].attempts + 1 \in Nat
    BY <1>2 DEF Row
  <2> QED
    BY <2>1 DEF AfterFailure, Row
<1> HIDE DEF after
<1>4. /\ outbox' \in [Commands -> Row]
      /\ \A s \in Commands : outbox'[s].status # "none" <=> outbox[s].status # "none"
  BY <1>1, <1>2, <1>3
<1> QED
  BY <1>1, <1>4, NextRowKeepsOrder, OutboxStepKeepsOrder DEF Inv

\* Repair leaves the bus in order.
LEMMA RepairKeepsOrder ==
  ASSUME Inv, NEW p \in Processes, Repair(p)
  PROVE  Inv'
<1> DEFINE again == [status |-> "pending", attempts |-> 0]
<1>1. /\ outbox' = [r \in Commands |-> IF outbox[r].status = "failed" THEN again ELSE outbox[r]]
      /\ UNCHANGED <<saved, processed, dice, queue, tx, worker, answers, crashes>>
  BY DEF Repair
<1>2. outbox \in [Commands -> Row] /\ worker \in [Processes -> Worker]
  BY DEF Inv, TypeOK
<1>3. again \in Row /\ again.status = "pending"
  BY DEF Row
<1> HIDE DEF again
<1>4. /\ outbox' \in [Commands -> Row]
      /\ \A s \in Commands : outbox'[s].status # "none" <=> outbox[s].status # "none"
  BY <1>1, <1>2, <1>3
<1> QED
  BY <1>1, <1>2, <1>4, OutboxStepKeepsOrder

\* Crash leaves the bus in order.
LEMMA CrashKeepsOrder ==
  ASSUME Inv, NEW p \in Processes, Crash(p)
  PROVE  Inv'
<1>1. /\ queue' = [queue EXCEPT ![p] = <<>>]
      /\ tx' = [tx EXCEPT ![p] = NoTransaction]
      /\ worker' = [worker EXCEPT ![p] = IdleWorker]
      /\ crashes' = crashes + 1
      /\ UNCHANGED <<store, answers>>
  BY DEF Crash
<1>2. /\ queue \in [Processes -> Seq(Call)]
      /\ tx \in [Processes -> Transaction]
      /\ worker \in [Processes -> Worker]
      /\ crashes \in Nat
  BY DEF Inv, TypeOK
<1>3. /\ <<>> \in Seq(Call) /\ DOMAIN <<>> = {}
      /\ NoTransaction \in Transaction
      /\ IdleWorker \in Worker
      /\ IdleWorker.row = NoCommand /\ IdleWorker.batch = {}
  BY EmptySeq DEF NoTransaction, Transaction, IdleWorker, Worker
<1>4. TypeOK'
  <2>1. /\ queue' \in [Processes -> Seq(Call)]
        /\ tx' \in [Processes -> Transaction]
        /\ worker' \in [Processes -> Worker]
        /\ crashes' \in Nat
    BY <1>1, <1>2, <1>3
  <2> QED
    BY <1>1, <2>1 DEF Inv, TypeOK, store
<1>5. CallsInOrder'
  <2>1. queue'[p] = <<>> /\ \A q \in Processes \ {p} : queue'[q] = queue[q]
    BY <1>1, <1>2
  <2> QED
    BY <1>1, <1>3, <2>1 DEF Inv, BusInOrder, CallsInOrder, store
<1>6. WorkersInOrder'
  <2>1. worker'[p] = IdleWorker /\ \A q \in Processes \ {p} : worker'[q] = worker[q]
    BY <1>1, <1>2
  <2> QED
    BY <1>1, <1>3, <2>1 DEF Inv, BusInOrder, WorkersInOrder, store
<1>7. TransactionsInOrder'
  BY <1>1, <1>2, TransactionEndsInOrder DEF NoTransaction, store
<1> QED
  BY <1>1, <1>4, <1>5, <1>6, <1>7, StoreStaysInOrder DEF Inv, BusInOrder

-----------------------------------------------------------------------------
(* Theorems                                                                *)

\* An empty bus is in order.
LEMMA InitInOrder ==
  ASSUME Init
  PROVE  Inv
<1>1. /\ <<>> \in Seq(Entry) /\ <<>> \in Seq(Call)
      /\ DOMAIN saved = {}
      /\ \A p \in Processes : DOMAIN queue[p] = {}
  BY EmptySeq DEF Init
<1>2. [status |-> "none", attempts |-> 0] \in Row
  BY DEF Row
<1>3. NoTransaction \in Transaction /\ IdleWorker \in Worker
  BY DEF NoTransaction, Transaction, IdleWorker, Worker
<1>4. TypeOK
  BY <1>1, <1>2, <1>3 DEF Init, TypeOK
<1>5. ProcessedMatchesSaved /\ AnswersNameTheRevision /\ RecordedDiceStand
  BY <1>1 DEF Init, ProcessedMatchesSaved, AnswersNameTheRevision, RecordedDiceStand
<1>6. CallsInOrder /\ RequestsHaveCauses
  BY <1>1 DEF Init, CallsInOrder, RequestsHaveCauses
<1>7. WorkersInOrder
  BY DEF Init, WorkersInOrder, IdleWorker
<1>8. TransactionsInOrder
  BY DEF Init, TransactionsInOrder, NoTransaction
<1> QED
  BY <1>4, <1>5, <1>6, <1>7, <1>8 DEF Inv, BusInOrder

\* Every step leaves the bus in order.
LEMMA StepKeepsOrder ==
  ASSUME Arbitrated, Inv, [Next]_vars
  PROVE  Inv'
<1>1. CASE UNCHANGED vars
  <2>1. TypeOK'
    BY <1>1 DEF Inv, TypeOK, vars
  <2>2. CallsInOrder' /\ WorkersInOrder' /\ TransactionsInOrder'
    BY <1>1 DEF Inv, BusInOrder, CallsInOrder, WorkersInOrder, TransactionsInOrder, Running, vars
  <2> QED
    BY <1>1, <2>1, <2>2, StoreStaysInOrder DEF Inv, BusInOrder, vars, store
<1>2. ASSUME NEW p \in Processes, NEW c \in Commands, Click(p, c)
      PROVE  Inv'
  BY <1>2, ClickKeepsOrder
<1>3. ASSUME NEW p \in Processes, CallStep(p)
      PROVE  Inv'
  BY <1>3, LookKeepsOrder, LoadKeepsOrder, RejectKeepsOrder, SaveKeepsOrder, ConflictKeepsOrder
     DEF CallStep
<1>4. ASSUME NEW p \in Processes, WorkerStep(p)
      PROVE  Inv'
  BY <1>4, PollKeepsOrder, RollKeepsOrder, CompleteKeepsOrder, FailKeepsOrder DEF WorkerStep
<1>5. ASSUME NEW p \in Processes, Repair(p) \/ Crash(p)
      PROVE  Inv'
  BY <1>5, RepairKeepsOrder, CrashKeepsOrder
<1> QED
  BY <1>1, <1>2, <1>3, <1>4, <1>5 DEF Next

\* A bus whose commands are arbitrated - each reaches one process, or the store
\* lets one transaction run at a time - is in order in every reachable state.
THEOREM BusStaysInOrder == Arbitrated => (Spec => [](TypeOK /\ BusInOrder))
<1> SUFFICES ASSUME Arbitrated PROVE Spec => []Inv
  BY DEF Inv
<1>1. Init => Inv
  BY InitInOrder
<1>2. Arbitrated /\ Inv /\ [Next]_vars => Inv'
  BY StepKeepsOrder
<1>3. []Arbitrated
  BY PTL
<1> QED
  BY <1>1, <1>2, <1>3, PTL DEF Spec

\* Type correctness of the bus and its store.
THEOREM BusTypeCorrect == Arbitrated => (Spec => []TypeOK)
<1>1. Inv => TypeOK
  BY DEF Inv
<1> QED
  BY <1>1, BusStaysInOrder, PTL DEF Inv

\* No command has its effect twice, whatever is retried, by whom and after which
\* crash (campaign-command-bus.ts:17).
THEOREM CommandsNeverRunTwice == Arbitrated => (Spec => []CommandsRunOnce)
<1>1. Inv => CommandsRunOnce
  BY DEF Inv, BusInOrder, ProcessedMatchesSaved, CommandsRunOnce
<1> QED
  BY <1>1, BusStaysInOrder, PTL DEF Inv

\* Every caller is told the revision its command made (campaign-command-bus.ts:66).
THEOREM AnswersAreTrue == Arbitrated => (Spec => []AnswersNameTheRevision)
<1>1. Inv => AnswersNameTheRevision
  BY DEF Inv, BusInOrder
<1> QED
  BY <1>1, BusStaysInOrder, PTL DEF Inv

\* The dice the engine was told are the ones saved for the request: a crash or
\* retry never rolls again (roll-worker.ts:15).
THEOREM DiceAreNeverRolledAgain == Arbitrated => (Spec => []RecordedDiceStand)
<1>1. Inv => RecordedDiceStand
  BY DEF Inv, BusInOrder
<1> QED
  BY <1>1, BusStaysInOrder, PTL DEF Inv

\* The commands of a sequence of entries are a sequence of commands.
LEMMA HistoryOfSequence ==
  ASSUME NEW entries \in Seq(Entry)
  PROVE  LET commands == [i \in DOMAIN entries |-> entries[i].command]
         IN  /\ commands \in Seq(Commands)
             /\ Len(commands) = Len(entries)
             /\ DOMAIN commands = DOMAIN entries
             /\ \A i \in DOMAIN entries : commands[i] = entries[i].command
<1> DEFINE commands == [i \in DOMAIN entries |-> entries[i].command]
<1>1. DOMAIN entries = 1 .. Len(entries) /\ Len(entries) \in Nat
  BY LenProperties
<1>2. \A i \in DOMAIN entries : entries[i].command \in Commands
  <2>1. \A i \in DOMAIN entries : entries[i] \in Entry
    BY <1>1, ElementOfSeq
  <2> QED
    BY <2>1 DEF Entry
<1>3. commands \in [1 .. Len(entries) -> Commands]
  BY <1>1, <1>2
<1>4. commands \in Seq(Commands)
  BY <1>1, <1>3, SeqDef
<1>5. Len(commands) = Len(entries)
  BY <1>1, <1>3, <1>4, LenProperties
<1> QED
  BY <1>4, <1>5

\* A save is a command of the promise running: it had not run, and it is a user's
\* or brings a roll that a command which did run has asked for.
LEMMA SaveRuns ==
  ASSUME Arbitrated, Inv, NEW p \in Processes, Save(p)
  PROVE  Promise!Run(Running(p).command)
<1> DEFINE c == Running(p).command
           entry == [command |-> c, face |-> Running(p).face]
<1>1. /\ queue[p] # <<>> /\ Running(p) \in Call
      /\ entry \in Entry
      /\ processed[c] = 0
      /\ saved' = Append(saved, entry)
      /\ Len(saved) \in Nat
  BY SaveMeans
<1>2. saved \in Seq(Entry) /\ DOMAIN saved = 1 .. Len(saved)
  BY LenProperties DEF Inv, TypeOK
<1>3. /\ saved' \in Seq(Entry)
      /\ Len(saved') = Len(saved) + 1
      /\ \A i \in 1 .. Len(saved) : saved'[i] = saved[i]
      /\ saved'[Len(saved) + 1] = entry
  BY <1>1, <1>2, AppendProperties
<1>4. History \in Seq(Commands) /\ Len(History) = Len(saved) /\ DOMAIN History = DOMAIN saved
      /\ \A i \in DOMAIN saved : History[i] = saved[i].command
  BY <1>2, HistoryOfSequence DEF History
<1>5. c \in Commands
  BY <1>1 DEF Call
<1>6. Promise!Ran = {saved[i].command : i \in DOMAIN saved}
  BY <1>4 DEF Promise!Ran, Promise!ToSet
<1>7. c \notin Promise!Ran
  BY <1>1, <1>6 DEF Inv, BusInOrder, ProcessedMatchesSaved
<1>8. c \in Clicks \cup Promise!Owed
  <2>1. Running(p) = queue[p][1] /\ 1 \in DOMAIN queue[p]
    BY <1>1, RunningIsACall DEF Inv
  <2>2. CASE Running(p).row = NoCommand
    BY <2>1, <2>2 DEF Inv, BusInOrder, CallsInOrder
  <2>3. CASE Running(p).row # NoCommand
    <3> DEFINE r == Running(p).row
    <3>1. r \in Commands /\ c = RollOf[r] /\ outbox[r].status # "none"
      BY <1>1, <2>1, <2>3 DEF Inv, BusInOrder, CallsInOrder, Call
    <3>2. processed[r] \in DOMAIN saved /\ saved[processed[r]].command = r
      BY <3>1 DEF Inv, BusInOrder, RequestsHaveCauses, ProcessedMatchesSaved
    <3>3. r \in Promise!Ran
      BY <1>6, <3>2
    <3> QED
      BY <1>5, <3>1, <3>3 DEF Promise!Owed
  <2> QED
    BY <2>2, <2>3
<1>9. History' = Append(History, c)
  <2>1. History' \in Seq(Commands) /\ Len(History') = Len(saved')
        /\ DOMAIN History' = DOMAIN saved' /\ \A i \in DOMAIN saved' : History'[i] = saved'[i].command
    <3>1. saved' \in Seq(Entry)
      BY <1>3
    <3> QED
      BY <3>1, HistoryOfSequence DEF History
  <2>2. /\ Append(History, c) \in Seq(Commands)
        /\ Len(Append(History, c)) = Len(saved) + 1
        /\ \A i \in 1 .. Len(saved) : Append(History, c)[i] = History[i]
        /\ Append(History, c)[Len(saved) + 1] = c
    BY <1>4, <1>5, AppendProperties
  <2>3. DOMAIN saved' = 1 .. Len(saved) + 1
    BY <1>3, LenProperties
  <2>4. \A i \in 1 .. Len(saved) + 1 : History'[i] = Append(History, c)[i]
    BY <1>1, <1>2, <1>3, <1>4, <2>1, <2>2, <2>3
  <2> QED
    BY <1>3, <2>1, <2>2, <2>4, SeqEqual
<1> QED
  BY <1>7, <1>8, <1>9 DEF Promise!Run

\* The bus implements the promise of the write path: its saves are the promise's
\* commands running, and nothing else changes the history
\* (campaign-command-bus.ts:38).
THEOREM BusKeepsItsPromise == Arbitrated => (Spec => KeepsItsPromise)
<1> SUFFICES ASSUME Arbitrated PROVE Spec => KeepsItsPromise
  OBVIOUS
<1>1. Init => Promise!Init
  BY DEF Init, History, Promise!Init
<1>2. Arbitrated /\ Inv /\ [Next]_vars => [Promise!Next]_History
  <2> SUFFICES ASSUME Arbitrated, Inv, [Next]_vars
               PROVE  Promise!Next \/ UNCHANGED History
    OBVIOUS
  <2>1. ASSUME NEW p \in Processes, Save(p)
        PROVE  Promise!Next
    <3>1. Running(p).command \in Commands
      BY <2>1, SaveMeans DEF Call
    <3> QED
      BY <2>1, <3>1, SaveRuns DEF Promise!Next
  <2>2. ASSUME ~ \E p \in Processes : Save(p)
        PROVE  UNCHANGED saved
    <3>1. CASE UNCHANGED vars
      BY <3>1 DEF vars
    <3>2. ASSUME NEW p \in Processes, NEW c \in Commands, Click(p, c)
          PROVE  UNCHANGED saved
      BY <3>2 DEF Click, store
    <3>3. ASSUME NEW p \in Processes, CallStep(p)
          PROVE  UNCHANGED saved
      BY <2>2, <3>3 DEF CallStep, Look, Load, Reject, Conflict, store
    <3>4. ASSUME NEW p \in Processes, WorkerStep(p)
          PROVE  UNCHANGED saved
      BY <3>4 DEF WorkerStep, Poll, Roll, Complete, Fail, store
    <3>5. ASSUME NEW p \in Processes, Repair(p) \/ Crash(p)
          PROVE  UNCHANGED saved
      BY <3>5 DEF Repair, Crash, store
    <3> QED
      BY <3>1, <3>2, <3>3, <3>4, <3>5 DEF Next
  <2> QED
    BY <2>1, <2>2 DEF History
<1>3. Spec => []Inv
  BY BusStaysInOrder DEF Inv
<1>4. []Arbitrated
  BY PTL
<1> QED
  BY <1>1, <1>2, <1>3, <1>4, PTL DEF Spec, KeepsItsPromise, Promise!Spec

-----------------------------------------------------------------------------
(* Rolls settle as they were recorded                                      *)

\* A command reaches one process.
OneHandler == \A p, q \in Processes : p # q => Handles[p] \cap Handles[q] = {}

\* The only roll that waits for the campaign is the one the worker waits for.
CallsFit(p) ==
  /\ \A i \in DOMAIN queue[p] : queue[p][i].row # NoCommand =>
       worker[p].at = "executing" /\ queue[p][i].row = worker[p].row
  /\ \A i, j \in DOMAIN queue[p] :
       queue[p][i].row # NoCommand /\ queue[p][j].row # NoCommand => i = j

\* What the worker has in hand is pending, and it knows whether it is recorded.
RowFits(p) ==
  LET r == worker[p].row IN
  /\ worker[p].at # "idle" =>
       /\ r \in Commands /\ RollOf[r] \in Handles[p]
       /\ outbox[r].status = "pending" /\ r \notin worker[p].batch
  /\ \A s \in worker[p].batch : RollOf[s] \in Handles[p] /\ outbox[s].status = "pending"
  /\ worker[p].at = "completing" => processed[RollOf[r]] # 0
  /\ worker[p].at = "failing" => processed[RollOf[r]] = 0

RollsFit == SettledAsRecorded /\ \A p \in Processes : CallsFit(p) /\ RowFits(p)

\* Every roll is brought by a command of its own, which no user issues.
LEMMA RollsApart ==
  ASSUME NEW r \in Commands, NEW s \in Commands, RollOf[r] = RollOf[s], RollOf[r] \in Commands
  PROVE  r = s /\ RollOf[r] \notin Clicks
  OBVIOUS

\* A step of one process that leaves what is recorded, and what others have in hand.
LEMMA OthersFit ==
  ASSUME RollsFit, NEW q \in Processes, worker'[q] = worker[q], queue'[q] = queue[q],
         UNCHANGED processed,
         \A s \in Commands : /\ outbox[s].status = "pending" /\ RollOf[s] \in Handles[q]
                             => outbox'[s].status = "pending",
         worker[q].batch \subseteq Commands
  PROVE  CallsFit(q)' /\ RowFits(q)'
<1>1. CallsFit(q)'
  BY DEF RollsFit, CallsFit
<1>2. RowFits(q)'
  BY DEF RollsFit, RowFits
<1> QED
  BY <1>1, <1>2

\* A call that ends tells the worker the truth.
LEMMA LeaveFits ==
  ASSUME Inv, RollsFit, NEW p \in Processes, queue[p] # <<>>,
         NEW accepted \in BOOLEAN, Leave(p, accepted),
         \A s \in Commands : outbox[s].status = "pending" => outbox'[s].status = "pending",
         accepted <=> processed'[Running(p).command] # 0,
         \A d \in Commands : processed[d] # 0 => processed'[d] # 0,
         \A q \in Processes : worker[q].at = "failing" => processed'[RollOf[worker[q].row]] = 0
  PROVE  \A q \in Processes : CallsFit(q)' /\ RowFits(q)'
<1>1. /\ queue[p] \in Seq(Call) /\ queue \in [Processes -> Seq(Call)]
      /\ worker \in [Processes -> Worker]
  BY DEF Inv, TypeOK
<1>2. /\ DOMAIN Tail(queue[p]) \in SUBSET Nat
      /\ \A i \in DOMAIN Tail(queue[p]) :
           /\ i + 1 \in DOMAIN queue[p] /\ i + 1 # 1
           /\ Tail(queue[p])[i] = queue[p][i + 1]
  BY <1>1, HeadTailProperties, LenProperties
<1>3. /\ queue'[p] = Tail(queue[p])
      /\ \A q \in Processes \ {p} : queue'[q] = queue[q] /\ worker'[q] = worker[q]
  BY <1>1 DEF Leave
<1>4. Running(p) \in Call /\ Running(p) = queue[p][1] /\ 1 \in DOMAIN queue[p]
  BY RunningIsACall DEF Inv
<1>5. ASSUME NEW q \in Processes, worker'[q] = worker[q]
      PROVE  RowFits(q)'
  <2>1. RowFits(q) /\ worker[q] \in Worker
    BY <1>1 DEF RollsFit
  <2>2. worker[q].at = "completing" => RollOf[worker[q].row] \in Commands
    BY <2>1 DEF RowFits
  <2> QED
    BY <1>5, <2>1, <2>2 DEF RowFits, Worker
<1>6. ASSUME NEW q \in Processes, q # p
      PROVE  CallsFit(q)'
  BY <1>3, <1>6 DEF RollsFit, CallsFit
<1>7. CASE Running(p).row = NoCommand
  <2>1. worker' = worker
    BY <1>7 DEF Leave
  <2>2. CallsFit(p)'
    BY <1>2, <1>3, <2>1 DEF RollsFit, CallsFit
  <2> QED
    BY <1>5, <1>6, <2>1, <2>2
<1>8. CASE Running(p).row # NoCommand
  <2> DEFINE told == IF accepted THEN "completing" ELSE "failing"
             r == worker[p].row
  <2>1. worker'[p] = [worker[p] EXCEPT !.at = told]
    BY <1>1, <1>8 DEF Leave
  <2>2. worker'[p].at = told /\ worker'[p].row = r /\ worker'[p].batch = worker[p].batch
    BY <1>1, <2>1 DEF Worker
  <2>3. \A i \in DOMAIN Tail(queue[p]) : Tail(queue[p])[i].row = NoCommand
    BY <1>2, <1>4, <1>8 DEF RollsFit, CallsFit
  <2>4. CallsFit(p)'
    BY <1>3, <2>3 DEF CallsFit
  <2>5. /\ worker[p].at = "executing" /\ Running(p).row = r
        /\ Running(p).command = RollOf[r] /\ Running(p).command \in Commands
    BY <1>4, <1>8 DEF RollsFit, CallsFit, Inv, BusInOrder, CallsInOrder, Call
  <2>6. RowFits(p)'
    <3>1. RowFits(p) /\ worker[p].batch \subseteq Commands
      BY <1>1 DEF RollsFit, Worker
    <3> QED
      BY <2>2, <2>5, <3>1 DEF RowFits
  <2> QED
    BY <1>3, <1>5, <1>6, <2>4, <2>6
<1> QED
  BY <1>7, <1>8

LEMMA ClickFits ==
  ASSUME Inv, RollsFit, NEW p \in Processes, NEW c \in Commands, Click(p, c)
  PROVE  RollsFit'
<1> DEFINE call == [command |-> c, row |-> NoCommand, face |-> NoFace]
<1>1. call \in Call /\ queue[p] \in Seq(Call) /\ queue \in [Processes -> Seq(Call)]
  BY DEF Call, Inv, TypeOK
<1>2. queue' = [queue EXCEPT ![p] = Append(queue[p], call)] /\ UNCHANGED <<store, worker>>
  BY DEF Click
<1>3. \A q \in Processes : \A i \in DOMAIN queue'[q] : queue'[q][i].row # NoCommand =>
        i \in DOMAIN queue[q] /\ queue'[q][i] = queue[q][i]
  BY <1>1, <1>2, AppendProperties, LenProperties
<1>4. \A q \in Processes : CallsFit(q)'
  BY <1>2, <1>3 DEF RollsFit, CallsFit
<1>5. \A q \in Processes : RowFits(q)'
  BY <1>2 DEF RollsFit, RowFits, store
<1>6. SettledAsRecorded'
  BY <1>2 DEF RollsFit, SettledAsRecorded, store
<1> QED
  BY <1>4, <1>5, <1>6 DEF RollsFit

LEMMA LookFits ==
  ASSUME Inv, RollsFit, NEW p \in Processes, Look(p)
  PROVE  RollsFit'
<1>1. queue[p] # <<>> /\ UNCHANGED <<outbox, processed>>
  BY DEF Look, store
<1>2. CASE processed[Running(p).command] # 0 /\ Leave(p, TRUE)
  <2>1. \A q \in Processes : worker[q].at = "failing" => processed'[RollOf[worker[q].row]] = 0
    BY <1>1 DEF RollsFit, RowFits
  <2>2. \A q \in Processes : CallsFit(q)' /\ RowFits(q)'
    BY <1>1, <1>2, <2>1, LeaveFits
  <2> QED
    BY <1>1, <2>2 DEF RollsFit, SettledAsRecorded
<1>3. CASE UNCHANGED <<queue, worker>>
  BY <1>1, <1>3 DEF RollsFit, SettledAsRecorded, CallsFit, RowFits
<1> QED
  BY <1>2, <1>3 DEF Look, FirstRevision, Accept

LEMMA RefusalFits ==
  ASSUME Inv, RollsFit, NEW p \in Processes, Load(p) \/ Reject(p) \/ Conflict(p)
  PROVE  RollsFit'
<1>1. /\ queue[p] # <<>> /\ processed[Running(p).command] = 0
      /\ UNCHANGED <<outbox, processed>>
  BY DEF Load, Reject, Conflict, store, Inv, BusInOrder, TransactionsInOrder
<1>2. CASE Leave(p, FALSE)
  <2>1. \A q \in Processes : worker[q].at = "failing" => processed'[RollOf[worker[q].row]] = 0
    BY <1>1 DEF RollsFit, RowFits
  <2>2. \A q \in Processes : CallsFit(q)' /\ RowFits(q)'
    BY <1>1, <1>2, <2>1, LeaveFits
  <2> QED
    BY <1>1, <2>2 DEF RollsFit, SettledAsRecorded
<1>3. CASE UNCHANGED <<queue, worker>>
  BY <1>1, <1>3 DEF RollsFit, SettledAsRecorded, CallsFit, RowFits
<1> QED
  BY <1>2, <1>3 DEF Load, Reject, Conflict

\* A roll that is recorded is the one its process works on, so nobody has given it up.
LEMMA SaveFits ==
  ASSUME OneHandler, Inv, RollsFit, NEW p \in Processes, Save(p)
  PROVE  RollsFit'
<1> DEFINE call == Running(p)
           c == call.command
<1>0. /\ queue[p] # <<>> /\ call \in Call
      /\ processed[c] = 0 /\ Len(saved) \in Nat
      /\ processed' = [processed EXCEPT ![c] = Len(saved) + 1]
      /\ outbox' = WithRequest(c) /\ Leave(p, TRUE)
  BY SaveMeans
<1>1. /\ queue[p] # <<>> /\ call \in Call
      /\ processed[c] = 0 /\ Len(saved) + 1 # 0
      /\ processed' = [processed EXCEPT ![c] = Len(saved) + 1]
      /\ outbox' = WithRequest(c) /\ Leave(p, TRUE)
  <2>1. \A n \in Nat : n + 1 # 0
    OBVIOUS
  <2> QED
    BY <1>0, <2>1
<1>2. /\ c \in Commands /\ processed \in [Commands -> Nat] /\ outbox \in [Commands -> Row]
      /\ call = queue[p][1] /\ 1 \in DOMAIN queue[p]
  BY <1>1, RunningIsACall DEF Call, Inv, TypeOK
<1> HIDE DEF call
<1>3. processed'[c] # 0 /\ \A d \in Commands \ {c} : processed'[d] = processed[d]
  BY <1>1, <1>2
<1>4. \A s \in Commands :
        /\ outbox[s].status # "none" => outbox'[s] = outbox[s]
        /\ outbox[s].status = "none" => outbox'[s].status \in {"none", "pending"}
  BY <1>1, <1>2 DEF WithRequest
<1>5. /\ c \in Handles[p]
      /\ call.row = NoCommand => c \in Clicks
      /\ call.row # NoCommand => /\ worker[p].at = "executing" /\ call.row = worker[p].row
                                 /\ c = RollOf[worker[p].row]
  BY <1>2 DEF Inv, BusInOrder, CallsInOrder, RollsFit, CallsFit
<1>6. \A r \in Commands : RollOf[r] = c =>
        r = worker[p].row /\ worker[p].at = "executing" /\ outbox[r].status = "pending"
  <2> SUFFICES ASSUME NEW r \in Commands, RollOf[r] = c
               PROVE  r = worker[p].row /\ worker[p].at = "executing" /\ outbox[r].status = "pending"
    OBVIOUS
  <2>1. call.row # NoCommand
    BY <1>2, <1>5, RollsApart
  <2>2. worker[p].row \in Commands /\ outbox[worker[p].row].status = "pending"
    BY <1>5, <2>1 DEF RollsFit, RowFits
  <2> QED
    BY <1>2, <1>5, <2>1, <2>2, RollsApart
<1>7. \A q \in Processes : worker[q].at = "failing" => processed'[RollOf[worker[q].row]] = 0
  <2> SUFFICES ASSUME NEW q \in Processes, worker[q].at = "failing"
               PROVE  processed'[RollOf[worker[q].row]] = 0
    OBVIOUS
  <2> DEFINE r == worker[q].row
  <2>1. r \in Commands /\ RollOf[r] \in Handles[q] /\ processed[RollOf[r]] = 0
    BY DEF RollsFit, RowFits
  <2>2. RollOf[r] # c
    BY <1>5, <1>6, <2>1 DEF OneHandler
  <2>3. RollOf[r] \in Commands
    BY <2>1
  <2> QED
    BY <1>3, <2>1, <2>2, <2>3
<1>8. \A q \in Processes : CallsFit(q)' /\ RowFits(q)'
  <2>1. \A s \in Commands : outbox[s].status = "pending" => outbox'[s].status = "pending"
    BY <1>4
  <2>2. \A d \in Commands : processed[d] # 0 => processed'[d] # 0
    BY <1>1, <1>3
  <2>3. TRUE <=> processed'[Running(p).command] # 0
    BY <1>3 DEF call
  <2> QED
    BY <1>1, <1>7, <2>1, <2>2, <2>3, LeaveFits
<1>9. SettledAsRecorded'
  <2> SUFFICES ASSUME NEW r \in Commands
               PROVE  /\ outbox'[r].status = "done" => processed'[RollOf[r]] # 0
                      /\ outbox'[r].status = "failed" => processed'[RollOf[r]] = 0
    BY DEF SettledAsRecorded
  <2>1. CASE outbox[r].status = "none"
    BY <1>4, <2>1
  <2>2. CASE outbox[r].status # "none"
    <3>1. outbox'[r] = outbox[r] /\ RollOf[r] \in Commands
      BY <1>4, <2>2 DEF Inv, BusInOrder, RequestsHaveCauses
    <3> QED
      BY <1>3, <1>6, <3>1 DEF RollsFit, SettledAsRecorded
  <2> QED
    BY <2>1, <2>2
<1> QED
  BY <1>8, <1>9 DEF RollsFit

LEMMA PollFits ==
  ASSUME Inv, RollsFit, NEW p \in Processes, Poll(p)
  PROVE  RollsFit'
<1> DEFINE rows == {r \in Commands : outbox[r].status = "pending" /\ RollOf[r] \in Handles[p]}
           polled == [worker[p] EXCEPT !.batch = rows]
<1>1. /\ worker' = [worker EXCEPT ![p] = polled] /\ worker[p] = IdleWorker
      /\ UNCHANGED <<outbox, processed, queue>>
  BY DEF Poll, store
<1>2. worker \in [Processes -> Worker]
  BY DEF Inv, TypeOK
<1>3. polled.at = "idle" /\ polled.batch = rows /\ polled.row = worker[p].row /\ worker[p].at = "idle"
  BY <1>1 DEF IdleWorker
<1>4. \A r \in rows : RollOf[r] \in Handles[p] /\ outbox[r].status = "pending"
  OBVIOUS
<1>5. worker'[p] = polled /\ \A q \in Processes \ {p} : worker'[q] = worker[q]
  BY <1>1, <1>2
<1> HIDE DEF polled, rows
<1>6. \A q \in Processes : CallsFit(q)'
  BY <1>1, <1>3, <1>5 DEF RollsFit, CallsFit
<1>7. \A q \in Processes : RowFits(q)'
  BY <1>1, <1>3, <1>4, <1>5 DEF RollsFit, RowFits
<1> QED
  BY <1>1, <1>6, <1>7 DEF RollsFit, SettledAsRecorded

LEMMA RollFits ==
  ASSUME Inv, RollsFit, NEW p \in Processes, NEW r \in Commands, NEW face \in Faces, Roll(p, r, face)
  PROVE  RollsFit'
<1> DEFINE call == [command |-> RollOf[r], row |-> r, face |-> Rolled(r, face)]
           busy == [at |-> "executing", row |-> r, batch |-> worker[p].batch \ {r}]
<1>1. /\ r \in worker[p].batch /\ worker[p].at = "idle"
      /\ queue' = [queue EXCEPT ![p] = Append(queue[p], call)]
      /\ worker' = [worker EXCEPT ![p] = busy]
      /\ UNCHANGED <<outbox, processed>>
  BY DEF Roll
<1>2. /\ worker \in [Processes -> Worker] /\ queue \in [Processes -> Seq(Call)]
      /\ queue[p] \in Seq(Call) /\ dice \in [Commands -> Faces \cup {NoFace}]
  BY DEF Inv, TypeOK
<1>3. RollOf[r] \in Handles[p] /\ RollOf[r] \in Commands /\ outbox[r].status = "pending"
  BY <1>1 DEF RollsFit, RowFits
<1>4. call \in Call /\ call.row = r
  BY <1>2, <1>3 DEF Call, Rolled
<1>5. /\ busy.at = "executing" /\ busy.row = r /\ r \notin busy.batch
      /\ busy.batch \subseteq worker[p].batch
  OBVIOUS
<1> HIDE DEF call, busy
<1>6. /\ worker'[p] = busy
      /\ \A q \in Processes \ {p} : worker'[q] = worker[q] /\ queue'[q] = queue[q]
  BY <1>1, <1>2
<1>7. \A i \in DOMAIN queue'[p] :
        \/ i = Len(queue[p]) + 1 /\ queue'[p][i] = call
        \/ i \in DOMAIN queue[p] /\ queue'[p][i] = queue[p][i]
  BY <1>1, <1>2, <1>4, AppendProperties, LenProperties
<1>8. \A i \in DOMAIN queue[p] : queue[p][i].row = NoCommand
  BY <1>1 DEF RollsFit, CallsFit
<1>9. CallsFit(p)'
  BY <1>4, <1>5, <1>6, <1>7, <1>8 DEF CallsFit
<1>10. RowFits(p)'
  BY <1>1, <1>3, <1>5, <1>6 DEF RollsFit, RowFits
<1>11. \A q \in Processes \ {p} : CallsFit(q)' /\ RowFits(q)'
  BY <1>1, <1>6 DEF RollsFit, CallsFit, RowFits
<1> QED
  BY <1>1, <1>9, <1>10, <1>11 DEF RollsFit, SettledAsRecorded

\* The worker settles its row and goes on: nobody else has that row in hand.
LEMMA RowEndsFits ==
  ASSUME OneHandler, Inv, RollsFit, NEW p \in Processes, worker[p].at \in {"completing", "failing"},
         NEW row, outbox' = [outbox EXCEPT ![worker[p].row] = row],
         row.status \in {"pending", "done", "failed"},
         row.status = "done" => worker[p].at = "completing",
         row.status = "failed" => worker[p].at = "failing",
         worker' = NextRow(p), UNCHANGED <<processed, queue>>
  PROVE  RollsFit'
<1> DEFINE r == worker[p].row
           free == [at |-> "idle", row |-> NoCommand, batch |-> worker[p].batch]
<1>1. worker \in [Processes -> Worker] /\ outbox \in [Commands -> Row]
  BY DEF Inv, TypeOK
<1>2. /\ r \in Commands /\ RollOf[r] \in Handles[p] /\ r \notin worker[p].batch
      /\ worker[p].at = "completing" => processed[RollOf[r]] # 0
      /\ worker[p].at = "failing" => processed[RollOf[r]] = 0
  BY DEF RollsFit, RowFits
<1>3. outbox'[r] = row /\ \A s \in Commands \ {r} : outbox'[s] = outbox[s]
  BY <1>1, <1>2
<1>4. free.at = "idle" /\ free.batch = worker[p].batch
  OBVIOUS
<1>5. worker' = [worker EXCEPT ![p] = free]
  BY DEF NextRow
<1> HIDE DEF free
<1>6. worker'[p] = free /\ \A q \in Processes \ {p} : worker'[q] = worker[q]
  BY <1>1, <1>5
<1>7. \A q \in Processes : worker[q].batch \subseteq Commands
  BY <1>1 DEF Worker
<1>8. \A i \in DOMAIN queue[p] : queue[p][i].row = NoCommand
  BY DEF RollsFit, CallsFit
<1>9. CallsFit(p)'
  BY <1>8 DEF CallsFit
<1>10. RowFits(p)'
  <2>1. \A s \in worker[p].batch : s \in Commands \ {r} /\ RollOf[s] \in Handles[p]
                                   /\ outbox[s].status = "pending"
    BY <1>2, <1>7 DEF RollsFit, RowFits
  <2> QED
    BY <1>3, <1>4, <1>6, <2>1 DEF RowFits
<1>11. ASSUME NEW q \in Processes \ {p} PROVE CallsFit(q)' /\ RowFits(q)'
  <2>1. \A s \in Commands : outbox[s].status = "pending" /\ RollOf[s] \in Handles[q]
                            => outbox'[s].status = "pending"
    BY <1>2, <1>3 DEF OneHandler
  <2> QED
    BY <1>6, <1>7, <2>1, OthersFit
<1>12. SettledAsRecorded'
  BY <1>2, <1>3 DEF RollsFit, SettledAsRecorded
<1> QED
  BY <1>9, <1>10, <1>11, <1>12 DEF RollsFit

LEMMA SettlingFits ==
  ASSUME OneHandler, Inv, RollsFit, NEW p \in Processes, Complete(p) \/ Fail(p)
  PROVE  RollsFit'
<1> DEFINE r == worker[p].row
<1>1. outbox \in [Commands -> Row]
  BY DEF Inv, TypeOK
<1>2. ASSUME Complete(p) PROVE RollsFit'
  <2>1. r \in Commands
    BY <1>2 DEF Complete, RollsFit, RowFits
  <2>2. [outbox[r] EXCEPT !.status = "done"].status = "done"
    BY <1>1, <2>1 DEF Row
  <2>3. outbox' = [outbox EXCEPT ![r] = [outbox[r] EXCEPT !.status = "done"]]
    BY <1>2 DEF Complete
  <2> QED
    BY <1>2, <2>2, <2>3, RowEndsFits DEF Complete
<1>3. ASSUME Fail(p) PROVE RollsFit'
  <2>1. outbox' = [outbox EXCEPT ![r] = AfterFailure(outbox[r])]
    BY <1>3 DEF Fail
  <2>2. AfterFailure(outbox[r]).status \in {"pending", "failed"}
    BY DEF AfterFailure
  <2> QED
    BY <1>3, <2>1, <2>2, RowEndsFits DEF Fail
<1> QED
  BY <1>2, <1>3

LEMMA RestartFits ==
  ASSUME Inv, RollsFit, NEW p \in Processes, Repair(p) \/ Crash(p)
  PROVE  RollsFit'
<1>0. /\ worker \in [Processes -> Worker] /\ queue \in [Processes -> Seq(Call)]
      /\ \A q \in Processes : worker[q].batch \subseteq Commands
  BY DEF Inv, TypeOK, Worker
<1>1. ASSUME Repair(p) PROVE RollsFit'
  <2>1. UNCHANGED <<processed, queue, worker>>
    BY <1>1 DEF Repair
  <2>2. \A s \in Commands :
          /\ outbox[s].status = "failed" => outbox'[s].status = "pending"
          /\ outbox[s].status # "failed" => outbox'[s] = outbox[s]
    BY <1>1 DEF Repair
  <2>3. \A q \in Processes : CallsFit(q)' /\ RowFits(q)'
    BY <1>0, <2>1, <2>2, OthersFit
  <2>4. SettledAsRecorded'
    BY <2>1, <2>2 DEF RollsFit, SettledAsRecorded
  <2> QED
    BY <2>3, <2>4 DEF RollsFit
<1>2. ASSUME Crash(p) PROVE RollsFit'
  <2>1. /\ queue'[p] = <<>> /\ worker'[p] = IdleWorker /\ UNCHANGED <<outbox, processed>>
        /\ \A q \in Processes \ {p} : queue'[q] = queue[q] /\ worker'[q] = worker[q]
    BY <1>0, <1>2 DEF Crash, store
  <2>2. CallsFit(p)' /\ RowFits(p)'
    BY <2>1, EmptySeq DEF CallsFit, RowFits, IdleWorker
  <2>3. \A q \in Processes \ {p} : CallsFit(q)' /\ RowFits(q)'
    BY <1>0, <2>1, OthersFit
  <2> QED
    BY <2>1, <2>2, <2>3 DEF RollsFit, SettledAsRecorded
<1> QED
  BY <1>1, <1>2

LEMMA StepFits ==
  ASSUME OneHandler, Inv, RollsFit, [Next]_vars
  PROVE  RollsFit'
<1>1. CASE UNCHANGED vars
  BY <1>1 DEF vars, RollsFit, SettledAsRecorded, CallsFit, RowFits
<1>2. ASSUME NEW p \in Processes, NEW c \in Commands, Click(p, c)
      PROVE  RollsFit'
  BY <1>2, ClickFits
<1>3. ASSUME NEW p \in Processes, CallStep(p)
      PROVE  RollsFit'
  BY <1>3, LookFits, RefusalFits, SaveFits DEF CallStep
<1>4. ASSUME NEW p \in Processes, WorkerStep(p)
      PROVE  RollsFit'
  BY <1>4, PollFits, RollFits, SettlingFits DEF WorkerStep
<1>5. ASSUME NEW p \in Processes, Repair(p) \/ Crash(p)
      PROVE  RollsFit'
  BY <1>5, RestartFits
<1> QED
  BY <1>1, <1>2, <1>3, <1>4, <1>5 DEF Next

\* Where a command reaches one process, a roll request is done only when its dice
\* are recorded and given up only when they are not, whatever crashes, is retried
\* or repaired (roll-worker.ts:62, failOutboxAttempt).
THEOREM RollsSettleAsRecorded == OneHandler => (Spec => []SettledAsRecorded)
<1> SUFFICES ASSUME OneHandler PROVE Spec => []SettledAsRecorded
  OBVIOUS
<1>1. Arbitrated
  BY DEF OneHandler, Arbitrated
<1>2. Init => RollsFit
  <2> SUFFICES ASSUME Init PROVE RollsFit
    OBVIOUS
  <2>1. /\ \A p \in Processes : DOMAIN queue[p] = {} /\ worker[p] = IdleWorker
        /\ IdleWorker.at = "idle" /\ IdleWorker.batch = {}
    BY EmptySeq DEF Init, IdleWorker
  <2>2. \A p \in Processes : CallsFit(p) /\ RowFits(p)
    BY <2>1 DEF CallsFit, RowFits
  <2> QED
    BY <2>2 DEF Init, RollsFit, SettledAsRecorded
<1>3. OneHandler /\ Inv /\ RollsFit /\ [Next]_vars => RollsFit'
  BY StepFits
<1>4. Spec => []Inv
  BY <1>1, BusStaysInOrder DEF Inv
<1>5. RollsFit => SettledAsRecorded
  BY DEF RollsFit
<1>6. []OneHandler
  BY PTL
<1> QED
  BY <1>2, <1>3, <1>4, <1>5, <1>6, PTL DEF Spec

-----------------------------------------------------------------------------
(* Rolls that are pending are worked at                                    *)

\* The running call can take its next step: it is in its transaction, or may begin one.
CanDecide(p) == queue[p] # <<>> /\ (tx[p].at = "idle" => StoreFree(p))

\* The worker can: it has requests to list, a row to take up, or one to settle.
CanWork(p) ==
  /\ StoreFree(p)
  /\ \/ /\ worker[p] = IdleWorker
        /\ \E r \in Commands : outbox[r].status = "pending" /\ RollOf[r] \in Handles[p]
     \/ worker[p].at = "idle" /\ worker[p].batch # {}
     \/ worker[p].at \in {"completing", "failing"}

\* A worker that waits for a call has a roll among its process' calls.
WaitsForItsCall(p) ==
  /\ worker[p].at = "executing" => \E i \in DOMAIN queue[p] : queue[p][i].row # NoCommand
  /\ worker[p].at = "idle" => worker[p].row = NoCommand

WorkersWaitForCalls == \A p \in Processes : WaitsForItsCall(p)

\* A call that ends lets the worker go on, or leaves the worker's call where it was.
LEMMA LeaveIsNoticed ==
  ASSUME TypeOK, WorkersWaitForCalls, NEW p \in Processes, queue[p] # <<>>,
         NEW accepted \in BOOLEAN, Leave(p, accepted)
  PROVE  WorkersWaitForCalls'
<1>1. /\ queue[p] \in Seq(Call) /\ queue \in [Processes -> Seq(Call)]
      /\ worker \in [Processes -> Worker]
  BY DEF TypeOK
<1>2. /\ queue'[p] = Tail(queue[p])
      /\ \A q \in Processes \ {p} : queue'[q] = queue[q] /\ worker'[q] = worker[q]
  BY <1>1 DEF Leave
<1>3. \A q \in Processes \ {p} : WaitsForItsCall(q)'
  BY <1>2 DEF WorkersWaitForCalls, WaitsForItsCall
<1>4. CASE Running(p).row = NoCommand
  <2>1. worker' = worker
    BY <1>4 DEF Leave
  <2>2. ASSUME NEW i \in DOMAIN queue[p], queue[p][i].row # NoCommand
        PROVE  i - 1 \in DOMAIN Tail(queue[p]) /\ Tail(queue[p])[i - 1] = queue[p][i]
    <3>1. i # 1 /\ i \in 1..Len(queue[p])
      BY <1>1, <1>4, <2>2, RunningIsACall, LenProperties
    <3>2. i - 1 \in 1..Len(Tail(queue[p])) /\ Tail(queue[p])[i - 1] = queue[p][(i - 1) + 1]
      BY <1>1, <3>1, HeadTailProperties, LenProperties
    <3>3. (i - 1) + 1 = i /\ Tail(queue[p]) \in Seq(Call)
      BY <1>1, <3>1, HeadTailProperties, LenProperties
    <3> QED
      BY <3>2, <3>3, LenProperties
  <2>3. WaitsForItsCall(p)'
    BY <1>2, <2>1, <2>2 DEF WorkersWaitForCalls, WaitsForItsCall
  <2> QED
    BY <1>3, <2>3 DEF WorkersWaitForCalls
<1>5. CASE Running(p).row # NoCommand
  <2>1. worker'[p].at \in {"completing", "failing"}
    BY <1>1, <1>5 DEF Leave, Worker
  <2> QED
    BY <1>3, <2>1 DEF WorkersWaitForCalls, WaitsForItsCall
<1> QED
  BY <1>4, <1>5

LEMMA WorkersStillWait ==
  ASSUME Inv, WorkersWaitForCalls, [Next]_vars
  PROVE  WorkersWaitForCalls'
<1>0. /\ queue \in [Processes -> Seq(Call)] /\ worker \in [Processes -> Worker] /\ TypeOK
  BY DEF Inv, TypeOK
<1>1. CASE UNCHANGED <<queue, worker>>
  BY <1>1 DEF WorkersWaitForCalls, WaitsForItsCall
<1>2. ASSUME NEW p \in Processes, NEW call,
             queue' = [queue EXCEPT ![p] = Append(queue[p], call)], call \in Call,
             worker'[p].at = "executing" =>
               call.row # NoCommand \/ worker'[p].at = worker[p].at,
             worker'[p].at = "idle" => worker'[p] = worker[p],
             \A q \in Processes \ {p} : worker'[q] = worker[q]
      PROVE  WorkersWaitForCalls'
  <2>1. /\ \A q \in Processes \ {p} : queue'[q] = queue[q]
        /\ \A i \in DOMAIN queue[p] : i \in DOMAIN queue'[p] /\ queue'[p][i] = queue[p][i]
        /\ Len(queue[p]) + 1 \in DOMAIN queue'[p] /\ queue'[p][Len(queue[p]) + 1] = call
    BY <1>0, <1>2, AppendProperties, LenProperties
  <2> QED
    BY <1>2, <2>1 DEF WorkersWaitForCalls, WaitsForItsCall
<1>3. ASSUME NEW p \in Processes, NEW c \in Commands, Click(p, c) PROVE WorkersWaitForCalls'
  <2> DEFINE call == [command |-> c, row |-> NoCommand, face |-> NoFace]
  <2>1. /\ call \in Call /\ queue' = [queue EXCEPT ![p] = Append(queue[p], call)]
        /\ UNCHANGED worker
    BY <1>3 DEF Click, Call
  <2> HIDE DEF call
  <2> QED
    BY <1>2, <2>1
<1>4. ASSUME NEW p \in Processes, CallStep(p) PROVE WorkersWaitForCalls'
  <2>1. queue[p] # <<>>
    BY <1>4 DEF CallStep, Look, Load, Reject, Save, Conflict, Inv, BusInOrder, TransactionsInOrder
  <2>2. (\E accepted \in BOOLEAN : Leave(p, accepted)) \/ UNCHANGED <<queue, worker>>
    BY <1>4 DEF CallStep, Look, Load, Reject, Save, Conflict, Accept
  <2> QED
    BY <1>0, <1>1, <2>1, <2>2, LeaveIsNoticed
<1>5. ASSUME NEW p \in Processes, Poll(p) PROVE WorkersWaitForCalls'
  <2>1. PICK rows : worker' = [worker EXCEPT ![p].batch = rows] /\ UNCHANGED queue
    BY <1>5 DEF Poll
  <2>2. \A q \in Processes : worker'[q].at = worker[q].at /\ worker'[q].row = worker[q].row
    BY <1>0, <2>1 DEF Worker
  <2> QED
    BY <2>1, <2>2 DEF WorkersWaitForCalls, WaitsForItsCall
<1>6. ASSUME NEW p \in Processes, NEW r \in Commands, NEW face \in Faces, Roll(p, r, face)
      PROVE  WorkersWaitForCalls'
  <2> DEFINE call == [command |-> RollOf[r], row |-> r, face |-> Rolled(r, face)]
             busy == [at |-> "executing", row |-> r, batch |-> worker[p].batch \ {r}]
  <2>1. /\ r \in worker[p].batch
        /\ queue' = [queue EXCEPT ![p] = Append(queue[p], call)]
        /\ worker' = [worker EXCEPT ![p] = busy]
    BY <1>6 DEF Roll
  <2>2. RollOf[r] \in Commands
    BY <2>1 DEF Inv, BusInOrder, WorkersInOrder
  <2>3. call \in Call /\ call.row # NoCommand /\ busy.at = "executing"
    BY <2>2 DEF Call, Rolled, Inv, TypeOK
  <2> HIDE DEF call, busy
  <2>4. worker'[p] = busy /\ \A q \in Processes \ {p} : worker'[q] = worker[q]
    BY <1>0, <2>1
  <2> QED
    BY <1>2, <2>1, <2>3, <2>4
<1>7. ASSUME NEW p \in Processes, Complete(p) \/ Fail(p) PROVE WorkersWaitForCalls'
  <2> DEFINE free == [at |-> "idle", row |-> NoCommand, batch |-> worker[p].batch]
  <2>1. worker' = [worker EXCEPT ![p] = free] /\ UNCHANGED queue
    BY <1>7 DEF Complete, Fail, NextRow
  <2>2. free.at = "idle" /\ free.row = NoCommand
    OBVIOUS
  <2> HIDE DEF free
  <2>3. worker'[p] = free /\ \A q \in Processes \ {p} : worker'[q] = worker[q]
    BY <1>0, <2>1
  <2> QED
    BY <2>1, <2>2, <2>3 DEF WorkersWaitForCalls, WaitsForItsCall
<1>8. ASSUME NEW p \in Processes, Crash(p) PROVE WorkersWaitForCalls'
  <2>1. /\ worker'[p] = IdleWorker
        /\ \A q \in Processes \ {p} : worker'[q] = worker[q] /\ queue'[q] = queue[q]
    BY <1>0, <1>8 DEF Crash
  <2> QED
    BY <2>1 DEF WorkersWaitForCalls, WaitsForItsCall, IdleWorker
<1>9. ASSUME NEW p \in Processes, Repair(p) PROVE WorkersWaitForCalls'
  BY <1>1, <1>9 DEF Repair
<1> QED
  BY <1>1, <1>3, <1>4, <1>5, <1>6, <1>7, <1>8, <1>9 DEF Next, WorkerStep, vars

\* While a roll request is pending, a process that handles it can go on with its
\* worker or its calls; unless another transaction holds the store, and that one can
\* go on.  So nobody waits for a lock or a call that will not come (keyed-serial-queue.ts,
\* roll-worker.ts:62), whatever crashes.
THEOREM RollsNeverWaitInACircle ==
  Arbitrated =>
    (Spec => [](\A r \in Commands, p \in Processes :
                  outbox[r].status = "pending" /\ RollOf[r] \in Handles[p] =>
                    IF StoreFree(p) THEN CanWork(p) \/ CanDecide(p)
                    ELSE \E q \in Processes : tx[q].at # "idle" /\ CanDecide(q)))
<1> SUFFICES ASSUME Arbitrated
             PROVE  Spec => [](\A r \in Commands, p \in Processes :
                      outbox[r].status = "pending" /\ RollOf[r] \in Handles[p] =>
                        IF StoreFree(p) THEN CanWork(p) \/ CanDecide(p)
                        ELSE \E q \in Processes : tx[q].at # "idle" /\ CanDecide(q))
  OBVIOUS
<1> DEFINE GoesOn(r, p) == IF StoreFree(p) THEN CanWork(p) \/ CanDecide(p)
                           ELSE \E q \in Processes : tx[q].at # "idle" /\ CanDecide(q)
<1>1. Init => WorkersWaitForCalls
  <2>1. IdleWorker.at = "idle" /\ IdleWorker.row = NoCommand
    BY DEF IdleWorker
  <2>2. Init => \A p \in Processes : worker[p] = IdleWorker
    BY DEF Init
  <2> QED
    BY <2>1, <2>2 DEF WorkersWaitForCalls, WaitsForItsCall
<1>2. Inv /\ WorkersWaitForCalls /\ [Next]_vars => WorkersWaitForCalls'
  BY WorkersStillWait
<1>3. ASSUME Inv, WorkersWaitForCalls, NEW r \in Commands, NEW p \in Processes,
             outbox[r].status = "pending", RollOf[r] \in Handles[p]
      PROVE  GoesOn(r, p)
  <2>1. CASE StoreFree(p)
    <3>1. worker[p] \in Worker /\ WaitsForItsCall(p)
      BY <1>3 DEF Inv, TypeOK, WorkersWaitForCalls
    <3>2. CASE worker[p].at = "executing"
      <4>1. queue[p] # <<>>
        BY <3>1, <3>2, EmptySeq DEF WaitsForItsCall
      <4> QED
        BY <2>1, <4>1 DEF CanDecide
    <3>3. CASE worker[p].at = "idle" /\ worker[p].batch = {}
      <4>1. worker[p] = IdleWorker
        BY <3>1, <3>3 DEF WaitsForItsCall, Worker, IdleWorker
      <4> QED
        BY <1>3, <2>1, <4>1 DEF CanWork
    <3> QED
      BY <2>1, <3>1, <3>2, <3>3 DEF CanWork, Worker
  <2>2. CASE ~StoreFree(p)
    <3>1. PICK q \in Processes : tx[q].at # "idle"
      BY <2>2 DEF StoreFree
    <3>2. queue[q] # <<>>
      BY <1>3, <3>1 DEF Inv, BusInOrder, TransactionsInOrder
    <3> QED
      BY <2>2, <3>1, <3>2 DEF CanDecide
  <2> QED
    BY <2>1, <2>2
<1>4. Inv /\ WorkersWaitForCalls =>
        \A r \in Commands, p \in Processes :
          outbox[r].status = "pending" /\ RollOf[r] \in Handles[p] => GoesOn(r, p)
  BY <1>3
<1>5. Spec => []Inv
  BY BusStaysInOrder DEF Inv
<1> QED
  BY <1>1, <1>2, <1>4, <1>5, PTL DEF Spec

============================================================================
