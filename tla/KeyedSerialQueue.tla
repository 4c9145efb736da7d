-------------------------- MODULE KeyedSerialQueue --------------------------
(***************************************************************************)
(* concurrency/keyed-serial-queue.ts: callers that name the same key run   *)
(* one after the other.  There is no list of waiting callers in the code:  *)
(* the map `tails` holds the promise of the last caller of each key, and a *)
(* new caller waits for exactly that promise.  A line is the record        *)
(*   prev : the caller whose end each caller waits for, None when its turn *)
(*          has come, Out when it is not lined up anywhere                 *)
(*   key  : the key a caller is lined up for                               *)
(*   tail : the last caller of each key, None when the map has no entry    *)
(***************************************************************************)
CONSTANTS Callers,   \* the calls of run() under way, by number
          Keys,      \* the keys
          None,      \* no promise: the key has no entry, nothing to wait for
          Out        \* not in a call of run()

Lines == [prev : [Callers -> Callers \cup {None, Out}],
          key : [Callers -> Keys \cup {None}],
          tail : [Keys -> Callers \cup {None}]]

NobodyInLine == [prev |-> [c \in Callers |-> Out],
                 key |-> [c \in Callers |-> None],
                 tail |-> [k \in Keys |-> None]]

LinedUp(line, k) == {c \in Callers : line.prev[c] # Out /\ line.key[c] = k}

\* True while a task for this key is running or queued behind one that is.
isBusy(line, k) == line.tail[k] # None

\* The caller has waited for everybody before it.
HasTurn(line, c) == line.prev[c] = None

\* run(): wait for the caller at the tail, and become the tail.
Joined(line, k, c) ==
    [prev |-> [line.prev EXCEPT ![c] = line.tail[k]],
     key |-> [line.key EXCEPT ![c] = k],
     tail |-> [line.tail EXCEPT ![k] = c]]

\* MUTANT of Left: the entry goes although somebody has lined up behind.
LeftForgettingOthers(line, c) ==
    [prev |-> [d \in Callers |-> IF d = c THEN Out
                                 ELSE IF line.prev[d] = c THEN None
                                 ELSE line.prev[d]],
     key |-> [line.key EXCEPT ![c] = None],
     tail |-> [line.tail EXCEPT ![line.key[c]] = None]]

\* The task ended, well or badly: whoever waited for it goes on, and the
\* entry of the key goes only when nobody lined up since.
Left(line, c) ==
    [prev |-> [d \in Callers |-> IF d = c THEN Out
                                 ELSE IF line.prev[d] = c THEN None
                                 ELSE line.prev[d]],
     key |-> [line.key EXCEPT ![c] = None],
     tail |-> [k \in Keys |-> IF line.tail[k] = c THEN None ELSE line.tail[k]]]
=============================================================================
