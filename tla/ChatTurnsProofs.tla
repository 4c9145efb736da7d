--------------------------- MODULE ChatTurnsProofs ---------------------------
(***************************************************************************)
(* Results about chat, for any turns, people and channels.                 *)
(*                                                                         *)
(* Forgetting is complete where durable memories are written, whatever the *)
(* scheduler does: the tracked extraction of a turn has its place in the   *)
(* person's queue behind the turn, so it cannot end, and the wait for it   *)
(* cannot, before the turn (Inv).                                          *)
(*                                                                         *)
(* The books of the scheduler agree with the turns that wait and run, and  *)
(* no question is shed (BooksInv): what its handlers do to the queues is a *)
(* splice, a push and a start, each of which keeps Agrees, and the loop of *)
(* pump() only ever repeats them, until nobody who waits may start.        *)
(*                                                                         *)
(* Nobody is stuck (ServiceInv): whoever lines up for a person waits for   *)
(* somebody who has that person's turn and can go on; and every step takes *)
(* a turn further on the way to its end.                                   *)
(***************************************************************************)
EXTENDS ChatTurns, FiniteSetTheorems, SequenceTheorems, WellFoundedInduction, TLAPS

Callers == Turns \cup {Extraction(t) : t \in Turns}
Serial == INSTANCE QueueProofs WITH Callers <- Callers, Keys <- Users

InLine == {"lined"} \cup Underway
Replying == {"thinking", "sending", "committing"}
IsDurable(t) == ChannelOf[t] \in Durable

Typed ==
  /\ phase \in [Turns -> Phases]
  /\ version \in Nat /\ seen \in [Turns -> Nat]
  /\ background \subseteq Turns /\ history \subseteq Turns /\ old \subseteq Turns
  /\ forget \in [user : Users \cup {None}, step : {"idle", "draining", "clearing"}]
  /\ impatient \in BOOLEAN

\* Turns and extractions are lined up for their person while they should be, and
\* a turn under way has the turn of that person.
InPlace(t) ==
  /\ phase[t] \in InLine => line.prev[t] # Out /\ line.key[t] = UserOf[t]
  /\ phase[t] \notin InLine => line.prev[t] = Out
  /\ phase[t] \in Underway => line.prev[t] = None
  /\ t \in background => /\ line.prev[Extraction(t)] # Out
                         /\ line.key[Extraction(t)] = UserOf[t]
                         /\ phase[t] \in Replying \cup {"leaving", "ended"}
  /\ t \notin background => line.prev[Extraction(t)] = Out
  /\ phase[t] \in Replying /\ IsDurable(t) => t \in background

\* Turns that had begun when their person was forgotten: before they reply they
\* know, and what they kept or may still keep will be cleared.
Outdated(t) ==
  /\ seen[t] <= version
  /\ t \in old => phase[t] \in InLine \cup {"opened", "leaving", "ended"}
  /\ t \in old /\ phase[t] \in {"opened", "lined", "checking", "thinking"} => seen[t] # version
  /\ t \in history => phase[t] \in {"leaving", "ended"}
  /\ ~impatient /\ IsDurable(t) /\ t \in old =>
       /\ phase[t] \in {"sending", "committing"} =>
            forget.step = "draining" /\ forget.user = UserOf[t]
       /\ t \in history => forget.step # "idle" /\ forget.user = UserOf[t]

Inv == Typed /\ Serial!Orderly(line) /\ \A t \in Turns : InPlace(t) /\ Outdated(t)

-----------------------------------------------------------------------------
(* Lines.                                                                  *)

LEMMA ApartIs == /\ Serial!Apart /\ Turns \subseteq Callers
                 /\ \A t \in Turns : /\ Extraction(t) \in Callers /\ UserOf[t] \in Users
                                     /\ \A u \in Turns : Extraction(t) # u
                                     /\ \A u \in Turns : Extraction(t) = Extraction(u) => t = u
<1>1. \A t \in Turns : t \in Nat \ {0} /\ Extraction(t) \in Int /\ -t \in Callers
  BY TurnsAssumption DEF Extraction, Callers
<1>2. \A t, u \in Turns : Extraction(t) # u /\ (Extraction(t) = Extraction(u) => t = u)
  BY <1>1 DEF Extraction
<1>3. \A c \in Callers : c \in Int
  BY <1>1 DEF Callers
<1>4. Serial!Apart
  BY <1>3, TurnsAssumption DEF Serial!Apart
<1> QED
  BY <1>1, <1>2, <1>4, TurnsAssumption DEF Callers, Extraction

LEMMA Joins ==
  ASSUME NEW l, Serial!Orderly(l), NEW c \in Callers, l.prev[c] = Out, NEW u \in Users
  PROVE  /\ Serial!Orderly(Queue!Joined(l, u, c))
         /\ Queue!Joined(l, u, c).key[c] = u /\ Queue!Joined(l, u, c).prev[c] # Out
         /\ \A d \in Callers \ {c} : /\ Queue!Joined(l, u, c).prev[d] = l.prev[d]
                                     /\ Queue!Joined(l, u, c).key[d] = l.key[d]
<1>1. Queue!Joined(l, u, c) = Serial!Joined(l, u, c)
  BY DEF Queue!Joined, Serial!Joined, Callers
<1> QED
  BY <1>1, ApartIs, Serial!JoinedOrderly

LEMMA Leaves ==
  ASSUME NEW l, Serial!Orderly(l), NEW c \in Callers, l.prev[c] = None
  PROVE  /\ Serial!Orderly(Queue!Left(l, c)) /\ Queue!Left(l, c).prev[c] = Out
         /\ \A d \in Callers \ {c} :
              /\ Queue!Left(l, c).key[d] = l.key[d]
              /\ Queue!Left(l, c).prev[d] = IF l.prev[d] = c THEN None ELSE l.prev[d]
<1>1. Queue!Left(l, c) = Serial!Left(l, c)
  BY DEF Queue!Left, Serial!Left, Callers
<1>2. Serial!HasTurn(l, c)
  BY DEF Serial!HasTurn
<1> QED
  BY <1>1, <1>2, ApartIs, Serial!LeftOrderly

\* What others see of a caller that joins or leaves.
Elsewhere(l, c) ==
  \A d \in Callers \ {c} : /\ l.key[d] = line.key[d]
                           /\ \/ l.prev[d] = line.prev[d]
                              \/ line.prev[d] = c /\ l.prev[d] = None

LEMMA OthersStay ==
  ASSUME NEW c \in Callers, Elsewhere(line', c)
  PROVE  \A d \in Callers \ {c} : /\ line'.key[d] = line.key[d]
                                  /\ line'.prev[d] = Out <=> line.prev[d] = Out
                                  /\ line.prev[d] = None => line'.prev[d] = None
  BY ApartIs DEF Elsewhere, Serial!Apart

-----------------------------------------------------------------------------
(* What steps do to the phases.                                            *)

\* Handlers of the scheduler let turns wait, start or end.
LEMMA SchedulerSteps ==
  ASSUME Typed, Stop \/ \E t \in Turns : Ask(t) \/ Close(t)
  PROVE  /\ phase' \in [Turns -> Phases]
         /\ UNCHANGED <<line, seen, version, background, history, old, forget, impatient>>
         /\ \A u \in Turns :
              \/ phase'[u] = phase[u]
              \/ phase[u] \in {"new", "waiting"} /\ phase'[u] \in {"waiting", "opening", "ended"}
              \/ phase[u] = "leaving" /\ phase'[u] = "ended"
<1> USE DEF Typed
<1>1. ASSUME NEW r, NEW now \in [Turns -> Phases], Scheduled(r, now)
      PROVE  /\ phase' \in [Turns -> Phases]
             /\ \A u \in Turns : \/ phase'[u] = now[u]
                                 \/ now[u] = "waiting" /\ phase'[u] \in {"opening", "ended"}
  BY <1>1 DEF Scheduled, Phases
<1>2. CASE Stop
  BY <1>1, <1>2 DEF Stop, forgetting
<1>3. ASSUME NEW t \in Turns, Ask(t)
      PROVE  /\ phase[t] = "new"
             /\ \E r : Scheduled(r, [phase EXCEPT ![t] = "waiting"])
             /\ UNCHANGED <<line, seen, version, background, history, old, forget, impatient>>
  BY <1>3 DEF Ask, forgetting
<1>4. ASSUME NEW t \in Turns, Close(t)
      PROVE  /\ phase[t] = "leaving"
             /\ \E r : Scheduled(r, [phase EXCEPT ![t] = "ended"])
             /\ UNCHANGED <<line, seen, version, background, history, old, forget, impatient>>
  BY <1>4 DEF Close, forgetting
<1>5. ASSUME NEW t \in Turns, Ask(t)
      PROVE  /\ phase' \in [Turns -> Phases]
             /\ \A u \in Turns :
                  \/ phase'[u] = phase[u]
                  \/ /\ phase[u] \in {"new", "waiting"}
                     /\ phase'[u] \in {"waiting", "opening", "ended"}
  <2> DEFINE now == [phase EXCEPT ![t] = "waiting"]
  <2>1. now \in [Turns -> Phases] /\ now[t] = "waiting" /\ \A u \in Turns \ {t} : now[u] = phase[u]
    BY DEF Phases
  <2>2. PICK r : Scheduled(r, now)
    BY <1>3, <1>5
  <2> HIDE DEF now
  <2> QED
    BY <1>1, <1>3, <1>5, <2>1, <2>2
<1>6. ASSUME NEW t \in Turns, Close(t)
      PROVE  /\ phase' \in [Turns -> Phases]
             /\ \A u \in Turns :
                  \/ phase'[u] = phase[u]
                  \/ phase[u] = "waiting" /\ phase'[u] \in {"opening", "ended"}
                  \/ phase[u] = "leaving" /\ phase'[u] = "ended"
  <2> DEFINE now == [phase EXCEPT ![t] = "ended"]
  <2>1. now \in [Turns -> Phases] /\ now[t] = "ended" /\ \A u \in Turns \ {t} : now[u] = phase[u]
    BY DEF Phases
  <2>2. PICK r : Scheduled(r, now)
    BY <1>4, <1>6
  <2> HIDE DEF now
  <2> QED
    BY <1>1, <1>4, <1>6, <2>1, <2>2
<1> QED
  BY <1>2, <1>3, <1>4, <1>5, <1>6

LEMMA TypedStep ==
  ASSUME Typed, Next
  PROVE  Typed'
<1> USE DEF Typed, Phases, Underway, Goes, TurnOver, forgetting
<1>1. CASE Stop \/ \E t \in Turns : Ask(t) \/ Close(t)
  BY <1>1, SchedulerSteps
<1>2. ASSUME NEW t \in Turns,
             Decline(t) \/ Open(t) \/ LineUp(t) \/ TakeTurn(t) \/ Reserve(t)
      PROVE  Typed'
  BY <1>2 DEF Decline, Open, LineUp, TakeTurn, Reserve
<1>3. ASSUME NEW t \in Turns,
             SaysNothing(t) \/ Replies(t) \/ SentOnly(t) \/ Sent(t) \/ Commit(t) \/ Extract(t)
      PROVE  Typed'
  BY <1>3 DEF SaysNothing, Replies, SentOnly, Sent, Commit, Extract
<1>4. CASE \E u \in Users : Forget(u)
  BY <1>4 DEF Forget
<1>5. CASE Drained \/ DrainTimesOut
  BY <1>5 DEF Drained, DrainTimesOut
<1>6. CASE Clear
  BY <1>6 DEF Clear, Nobody
<1> QED
  BY <1>1, <1>2, <1>3, <1>4, <1>5, <1>6 DEF Next, TurnStep

-----------------------------------------------------------------------------
(* Everybody stays in place.                                               *)

LEMMA OtherPlaces ==
  ASSUME Inv, NEW t \in Turns, NEW c \in {t, Extraction(t)}, Elsewhere(line', c),
         NEW u \in Turns \ {t}, phase'[u] = phase[u], u \in background' <=> u \in background
  PROVE  InPlace(u)'
<1>1. c \in Callers /\ u \in Callers \ {c} /\ Extraction(u) \in Callers \ {c}
  BY ApartIs
<1> QED
  BY <1>1, OthersStay DEF Inv, InPlace

LEMMA SameLine ==
  ASSUME UNCHANGED line, NEW c
  PROVE  Elsewhere(line', c)
  BY DEF Elsewhere

\* A turn leaves.
LEMMA OverPlaces ==
  ASSUME Inv, NEW t \in Turns, line.prev[t] = None, TurnOver(t), UNCHANGED background,
         phase[t] \in InLine
  PROVE  Serial!Orderly(line)' /\ \A u \in Turns : InPlace(u)'
<1>1. line' = Queue!Left(line, t) /\ t \in Callers /\ Extraction(t) \in Callers \ {t}
  BY ApartIs DEF TurnOver
<1>2. Serial!Orderly(line') /\ line'.prev[t] = Out /\ Elsewhere(line', t)
  BY <1>1, Leaves DEF Inv, Elsewhere
<1>3. phase'[t] = "leaving" /\ \A u \in Turns \ {t} : phase'[u] = phase[u]
  BY DEF TurnOver, Goes, Inv, Typed
<1>4. InPlace(t)'
  BY <1>1, <1>2, <1>3, OthersStay DEF Inv, InPlace, InLine, Underway, Replying
<1>5. \A u \in Turns \ {t} : InPlace(u)'
  BY <1>2, <1>3, OtherPlaces
<1> QED
  BY <1>2, <1>4, <1>5

LEMMA PlaceStep ==
  ASSUME Inv, Next
  PROVE  Serial!Orderly(line)' /\ \A u \in Turns : InPlace(u)'
<1> USE DEF InLine, Underway, Replying
<1>0. phase \in [Turns -> Phases] /\ Serial!Orderly(line) /\ \A u \in Turns : InPlace(u)
  BY DEF Inv, Typed
<1>1. CASE Stop \/ \E t \in Turns : Ask(t) \/ Close(t)
  <2>1. UNCHANGED <<line, background>>
    BY <1>1, SchedulerSteps DEF Inv
  <2>2. ASSUME NEW u \in Turns PROVE InPlace(u)'
    <3>1. \/ phase'[u] = phase[u]
          \/ phase[u] \in {"new", "waiting"} /\ phase'[u] \in {"waiting", "opening", "ended"}
          \/ phase[u] = "leaving" /\ phase'[u] = "ended"
      BY <1>1, SchedulerSteps DEF Inv
    <3> QED
      BY <1>0, <2>1, <3>1 DEF InPlace
  <2> QED
    BY <1>0, <2>1, <2>2
<1>2. ASSUME NEW t \in Turns, Decline(t) \/ Open(t) \/ Replies(t) \/ Sent(t)
      PROVE  Serial!Orderly(line)' /\ \A u \in Turns : InPlace(u)'
  <2>1. UNCHANGED <<line, background>> /\ \A u \in Turns \ {t} : phase'[u] = phase[u]
    BY <1>0, <1>2 DEF Decline, Open, Replies, Sent, Goes
  <2>2. \/ phase[t] \in {"opening", "opened"} /\ phase'[t] \in {"opened", "leaving"}
        \/ phase[t] \in Replying /\ phase'[t] \in Replying
    BY <1>0, <1>2 DEF Decline, Open, Replies, Sent, Goes
  <2>3. InPlace(t)'
    BY <1>0, <2>1, <2>2 DEF InPlace
  <2> QED
    BY <1>0, <2>1, <2>3, SameLine, OtherPlaces
<1>3. ASSUME NEW t \in Turns, LineUp(t)
      PROVE  Serial!Orderly(line)' /\ \A u \in Turns : InPlace(u)'
  <2>1. /\ phase[t] = "opened" /\ phase'[t] = "lined" /\ UNCHANGED background
        /\ \A u \in Turns \ {t} : phase'[u] = phase[u]
        /\ line' = Queue!Joined(line, UserOf[t], t)
    BY <1>0, <1>3 DEF LineUp, Goes
  <2>2. /\ t \in Callers /\ Extraction(t) \in Callers \ {t} /\ line.prev[t] = Out
        /\ t \notin background
    BY <1>0, <2>1, ApartIs DEF InPlace
  <2>3. /\ Serial!Orderly(line') /\ line'.key[t] = UserOf[t] /\ line'.prev[t] # Out
        /\ Elsewhere(line', t)
    BY <1>0, <2>1, <2>2, ApartIs, Joins DEF Elsewhere
  <2>4. InPlace(t)'
    BY <1>0, <2>1, <2>2, <2>3, OthersStay DEF InPlace
  <2> QED
    BY <2>1, <2>3, <2>4, OtherPlaces
<1>4. ASSUME NEW t \in Turns, TakeTurn(t)
      PROVE  Serial!Orderly(line)' /\ \A u \in Turns : InPlace(u)'
  <2>1. phase[t] = "lined" /\ line.prev[t] = None /\ UNCHANGED background
    BY <1>4 DEF TakeTurn, Queue!HasTurn
  <2>2. CASE TurnOver(t)
    BY <2>1, <2>2, OverPlaces
  <2>3. CASE Goes(t, "checking") /\ UNCHANGED line
    <3>1. phase'[t] = "checking" /\ \A u \in Turns \ {t} : phase'[u] = phase[u]
      BY <1>0, <2>3 DEF Goes
    <3>2. InPlace(t)'
      BY <1>0, <2>1, <2>3, <3>1 DEF InPlace
    <3> QED
      BY <1>0, <2>1, <2>3, <3>1, <3>2, SameLine, OtherPlaces
  <2> QED
    BY <1>4, <2>2, <2>3 DEF TakeTurn
<1>5. ASSUME NEW t \in Turns, Reserve(t)
      PROVE  Serial!Orderly(line)' /\ \A u \in Turns : InPlace(u)'
  <2>1. /\ phase[t] = "checking" /\ phase'[t] = "thinking"
        /\ \A u \in Turns \ {t} : phase'[u] = phase[u]
    BY <1>0, <1>5 DEF Reserve, Goes
  <2>2. CASE ~IsDurable(t)
    <3>1. UNCHANGED <<line, background>>
      BY <1>5, <2>2 DEF Reserve, IsDurable
    <3>2. InPlace(t)'
      BY <1>0, <2>1, <2>2, <3>1 DEF InPlace, IsDurable
    <3> QED
      BY <1>0, <2>1, <3>1, <3>2, SameLine, OtherPlaces
  <2>3. CASE IsDurable(t)
    <3> DEFINE e == Extraction(t)
    <3>1. line' = Queue!Joined(line, UserOf[t], e) /\ background' = background \cup {t}
      BY <1>5, <2>3 DEF Reserve, IsDurable
    <3>2. e \in Callers /\ t \in Callers \ {e} /\ line.prev[e] = Out
      BY <1>0, <2>1, ApartIs DEF InPlace
    <3>3. /\ Serial!Orderly(line') /\ line'.key[e] = UserOf[t] /\ line'.prev[e] # Out
          /\ Elsewhere(line', e)
      BY <1>0, <3>1, <3>2, ApartIs, Joins DEF Elsewhere
    <3>4. InPlace(t)'
      BY <1>0, <2>1, <3>1, <3>2, <3>3, OthersStay DEF InPlace
    <3> QED
      BY <2>1, <3>1, <3>3, <3>4, OtherPlaces
  <2> QED
    BY <2>2, <2>3
<1>6. ASSUME NEW t \in Turns, SaysNothing(t) \/ SentOnly(t) \/ Commit(t)
      PROVE  Serial!Orderly(line)' /\ \A u \in Turns : InPlace(u)'
  <2>1. phase[t] \in Replying /\ TurnOver(t) /\ UNCHANGED background
    BY <1>6 DEF SaysNothing, SentOnly, Commit
  <2>2. line.prev[t] = None
    BY <1>0, <2>1 DEF InPlace
  <2> QED
    BY <2>1, <2>2, OverPlaces
<1>7. ASSUME NEW t \in Turns, Extract(t)
      PROVE  Serial!Orderly(line)' /\ \A u \in Turns : InPlace(u)'
  <2> DEFINE e == Extraction(t)
  <2>1. /\ t \in background /\ line.prev[e] = None /\ line' = Queue!Left(line, e)
        /\ background' = background \ {t} /\ UNCHANGED phase
    BY <1>7 DEF Extract, Queue!HasTurn
  <2>2. e \in Callers /\ t \in Callers \ {e}
    BY ApartIs
  <2>3. Serial!Orderly(line') /\ line'.prev[e] = Out /\ Elsewhere(line', e)
    BY <1>0, <2>1, <2>2, Leaves DEF Elsewhere
  <2>4. phase[t] \notin Replying
    <3> SUFFICES ASSUME phase[t] \in Replying PROVE FALSE
      OBVIOUS
    <3>1. line.prev[t] = None /\ line.key[t] = UserOf[t] /\ line.key[e] = UserOf[t]
      BY <1>0, <2>1 DEF InPlace
    <3> QED
      BY <1>0, <2>1, <2>2, <3>1, ApartIs, Serial!OneTurn DEF Serial!HasTurn
  <2>5. InPlace(t)'
    BY <1>0, <2>1, <2>2, <2>3, <2>4, OthersStay DEF InPlace
  <2> QED
    BY <2>1, <2>3, <2>5, OtherPlaces
<1>8. CASE Drained \/ DrainTimesOut \/ Clear \/ \E u \in Users : Forget(u)
  <2>1. UNCHANGED <<line, phase, background>>
    BY <1>8 DEF Drained, DrainTimesOut, Clear, Forget
  <2> QED
    BY <1>0, <2>1 DEF InPlace
<1> QED
  BY <1>1, <1>2, <1>3, <1>4, <1>5, <1>6, <1>7, <1>8 DEF Next, TurnStep

-----------------------------------------------------------------------------
(* What is kept of those who were forgotten.                               *)

LEMMA OutdatedStep ==
  ASSUME Inv, Next
  PROVE  \A u \in Turns : Outdated(u)'
<1> USE DEF InLine, Underway, Replying
<1>0. Typed /\ \A u \in Turns : InPlace(u) /\ Outdated(u)
  BY DEF Inv
<1>1. CASE Stop \/ \E t \in Turns : Ask(t) \/ Close(t)
  <2>1. UNCHANGED <<seen, version, history, old, forget, impatient>>
    BY <1>0, <1>1, SchedulerSteps
  <2>2. ASSUME NEW u \in Turns PROVE Outdated(u)'
    <3>1. \/ phase'[u] = phase[u]
          \/ phase[u] \in {"new", "waiting"} /\ phase'[u] \in {"waiting", "opening", "ended"}
          \/ phase[u] = "leaving" /\ phase'[u] = "ended"
      BY <1>0, <1>1, SchedulerSteps
    <3> QED
      BY <1>0, <2>1, <3>1 DEF Outdated
  <2> QED
    BY <2>2
<1>2. ASSUME NEW t \in Turns, TurnStep(t), ~Close(t), NEW u \in Turns PROVE Outdated(u)'
  <2>1. UNCHANGED <<version, old, forget, impatient>>
    BY <1>2 DEF TurnStep, Decline, Open, LineUp, TakeTurn, Reserve, SaysNothing, Replies,
                SentOnly, Sent, Commit, forgetting
  <2>2. CASE u # t
    <3>1. phase'[u] = phase[u]
      BY <1>0, <1>2, <2>2 DEF TurnStep, Decline, Open, LineUp, TakeTurn, Reserve, SaysNothing,
                Replies, SentOnly, Sent, Commit, Goes, TurnOver, Typed
    <3>2. seen'[u] = seen[u] /\ (u \in history' <=> u \in history)
      BY <1>0, <1>2, <2>2 DEF TurnStep, Decline, Open, LineUp, TakeTurn, Reserve, SaysNothing,
                Replies, SentOnly, Sent, Commit, Typed
    <3> QED
      BY <1>0, <2>1, <3>1, <3>2 DEF Outdated
  <2>3. CASE u = t
    <3>1. CASE Decline(t) \/ LineUp(t) \/ TakeTurn(t) \/ Reserve(t) \/ SaysNothing(t)
      <4>1. /\ UNCHANGED <<seen, history>>
            /\ \/ phase[t] \in {"opening", "opened", "lined", "thinking"} /\ phase'[t] = "leaving"
               \/ phase[t] = "opened" /\ phase'[t] = "lined"
               \/ phase[t] = "lined" /\ phase'[t] = "checking"
               \/ phase[t] = "checking" /\ phase'[t] = "thinking"
        BY <1>0, <3>1 DEF Decline, LineUp, TakeTurn, Reserve, SaysNothing, Goes, TurnOver, Typed
      <4> QED
        BY <1>0, <2>1, <2>3, <4>1 DEF Outdated
    <3>2. CASE Open(t)
      <4>1. /\ UNCHANGED history /\ phase[t] = "opening" /\ phase'[t] = "opened"
            /\ seen'[t] = version
        BY <1>0, <3>2 DEF Open, Goes, Typed
      <4>2. version <= version
        BY <1>0 DEF Typed
      <4> QED
        BY <1>0, <2>1, <2>3, <4>1, <4>2 DEF Outdated
    <3>3. CASE Replies(t)
      <4>1. /\ UNCHANGED <<seen, history>> /\ phase[t] = "thinking" /\ phase'[t] = "sending"
            /\ seen[t] = version
        BY <1>0, <3>3 DEF Replies, Goes, CanContinue, Typed
      <4> QED
        BY <1>0, <2>1, <2>3, <4>1 DEF Outdated
    <3>4. CASE SentOnly(t) \/ Sent(t)
      <4>1. /\ UNCHANGED <<seen, history>> /\ phase[t] = "sending"
            /\ phase'[t] \in {"leaving", "committing"}
        BY <1>0, <3>4 DEF SentOnly, Sent, Goes, TurnOver, Typed
      <4> QED
        BY <1>0, <2>1, <2>3, <4>1 DEF Outdated
    <3>5. CASE Commit(t)
      <4>1. UNCHANGED seen /\ phase[t] = "committing" /\ phase'[t] = "leaving"
        BY <1>0, <3>5 DEF Commit, Goes, TurnOver, Typed
      <4> QED
        BY <1>0, <2>1, <2>3, <4>1 DEF Outdated
    <3> QED
      BY <1>2, <2>3, <3>1, <3>2, <3>3, <3>4, <3>5 DEF TurnStep
  <2> QED
    BY <2>2, <2>3
<1>3. ASSUME NEW t \in Turns, Extract(t), NEW u \in Turns PROVE Outdated(u)'
  BY <1>0, <1>3 DEF Extract, Outdated, forgetting
<1>4. ASSUME NEW p \in Users, Forget(p), NEW t \in Turns PROVE Outdated(t)'
  <2>1. /\ UNCHANGED <<phase, seen, history, impatient>> /\ forget.step = "idle"
        /\ version' = version + 1 /\ forget'.user = p /\ forget'.step = "draining"
    BY <1>4 DEF Forget
  <2>2. t \in old' => \/ t \in old
                      \/ UserOf[t] = p /\ (t \in history \/ phase[t] \in InLine \cup {"opened"})
    BY <1>4 DEF Forget
  <2>3. seen[t] <= version' /\ seen[t] # version'
    BY <1>0, <2>1 DEF Typed, Outdated
  <2> QED
    BY <1>0, <2>1, <2>2, <2>3 DEF Outdated
<1>5. ASSUME Drained, NEW t \in Turns PROVE Outdated(t)'
  <2>1. /\ UNCHANGED <<phase, seen, version, history, old, impatient>> /\ background = {}
        /\ forget'.user = forget.user /\ forget'.step = "clearing" /\ forget.step = "draining"
    BY <1>0, <1>5 DEF Drained, Typed
  <2>2. phase[t] \in {"sending", "committing"} => ~IsDurable(t)
    BY <1>0, <2>1 DEF InPlace
  <2> QED
    BY <1>0, <2>1, <2>2 DEF Outdated
<1>6. ASSUME DrainTimesOut, NEW t \in Turns PROVE Outdated(t)'
  <2>1. UNCHANGED <<phase, seen, version, history, old>> /\ impatient'
    BY <1>6 DEF DrainTimesOut
  <2> QED
    BY <1>0, <2>1 DEF Outdated
<1>7. ASSUME Clear, NEW t \in Turns PROVE Outdated(t)'
  <2>1. /\ UNCHANGED <<phase, seen, version, old, impatient>> /\ forget.step = "clearing"
        /\ history' = {u \in history : UserOf[u] # forget.user}
    BY <1>7 DEF Clear
  <2> QED
    BY <1>0, <2>1 DEF Outdated
<1> QED
  BY <1>1, <1>2, <1>3, <1>4, <1>5, <1>6, <1>7 DEF Next

-----------------------------------------------------------------------------

LEMMA InitHolds == Init => Inv
<1> SUFFICES ASSUME Init PROVE Inv
  OBVIOUS
<1>1. Typed
  BY DEF Init, Typed, Phases, Nobody
<1>2. line = Serial!NobodyInLine /\ \A c \in Callers : line.prev[c] = Out
  BY DEF Init, Queue!NobodyInLine, Serial!NobodyInLine, Callers
<1>3. Serial!Orderly(line)
  BY <1>2, Serial!EmptyOrderly
<1>4. \A t \in Turns : InPlace(t)
  BY <1>2, ApartIs DEF Init, InPlace, InLine, Underway, Replying
<1>5. \A t \in Turns : Outdated(t)
  BY DEF Init, Outdated
<1> QED
  BY <1>1, <1>3, <1>4, <1>5 DEF Inv

LEMMA NextKeepsInv == Inv /\ [Next]_vars => Inv'
<1> SUFFICES ASSUME Inv, [Next]_vars PROVE Inv'
  OBVIOUS
<1>1. CASE Next
  BY <1>1, TypedStep, PlaceStep, OutdatedStep DEF Inv
<1>2. CASE UNCHANGED vars
  BY <1>2 DEF vars, Inv, Typed, InPlace, Outdated
<1> QED
  BY <1>1, <1>2

\* Turns and extractions are lined up where they should be, and no turn that had
\* begun when its person was forgotten is past the wait for its extraction
\* (chat-conversation-service.ts, keyed-serial-queue.ts).
THEOREM ChatInvariance == Spec => []Inv
  BY InitHolds, NextKeepsInv, PTL DEF Spec

\* Where durable memories are written, nothing is kept of a turn that had begun
\* before its person was forgotten, unless the wait for work in flight ran into
\* its deadline (forgetConversation in chat-conversation-service.ts).
THEOREM ForgettingIsComplete == Spec => []ForgottenStaysForgotten
<1>1. Inv => ForgottenStaysForgotten
  <2> SUFFICES ASSUME Inv, forget.step = "idle", ~impatient, NEW t \in history \cap old,
                      ChannelOf[t] \in Durable
               PROVE  FALSE
    BY DEF ForgottenStaysForgotten
  <2>1. t \in Turns /\ Outdated(t)
    BY DEF Inv, Typed
  <2> QED
    BY <2>1 DEF Outdated, IsDurable
<1> QED
  BY ChatInvariance, <1>1, PTL

\* What a person is told and what is learnt of it go one after the other: of all the
\* turns and extractions of a person one is at work (keyed-serial-queue.ts as
\* chat-conversation-service.ts uses it).
THEOREM PeopleAreServedInTurn ==
  Spec => [](\A t, u \in Turns :
               phase[t] \in Underway /\ UserOf[t] = UserOf[u] =>
                 /\ t # u => phase[u] \notin Underway
                 /\ u \in background => ~Queue!HasTurn(line, Extraction(u)))
<1> DEFINE Alone == \A t, u \in Turns :
               phase[t] \in Underway /\ UserOf[t] = UserOf[u] =>
                 /\ t # u => phase[u] \notin Underway
                 /\ u \in background => ~Queue!HasTurn(line, Extraction(u))
<1>1. Inv => Alone
  <2> SUFFICES ASSUME Inv, NEW t \in Turns, NEW u \in Turns, phase[t] \in Underway,
                      UserOf[t] = UserOf[u]
               PROVE  /\ t # u => phase[u] \notin Underway
                      /\ u \in background => ~Queue!HasTurn(line, Extraction(u))
    OBVIOUS
  <2>1. /\ Serial!Orderly(line) /\ InPlace(t) /\ InPlace(u)
        /\ t \in Callers /\ u \in Callers /\ Extraction(u) \in Callers /\ Extraction(u) # t
    BY ApartIs DEF Inv
  <2>2. Serial!HasTurn(line, t) /\ line.key[t] = UserOf[t]
    BY <2>1 DEF InPlace, InLine, Serial!HasTurn
  <2>3. ASSUME t # u, phase[u] \in Underway PROVE FALSE
    BY <2>1, <2>2, <2>3, ApartIs, Serial!OneTurn DEF InPlace, InLine, Serial!HasTurn
  <2>4. ASSUME u \in background, Queue!HasTurn(line, Extraction(u)) PROVE FALSE
    BY <2>1, <2>2, <2>4, ApartIs, Serial!OneTurn DEF InPlace, Serial!HasTurn, Queue!HasTurn
  <2> QED
    BY <2>3, <2>4
<1> QED
  BY <1>1, ChatInvariance, PTL

-----------------------------------------------------------------------------
(* Queues: a turn is selected, taken out, appended.                        *)

\* A set of numbers that is not empty has a least one.
Less == {p \in Nat \X Nat : p[1] < p[2]}

LEMMA Smallest ==
  ASSUME NEW S \in SUBSET Nat, S # {}
  PROVE  Min(S) \in S /\ \A m \in S : Min(S) <= m
<1>1. Less = OpToRel(<, Nat)
  BY DEF OpToRel, Less
<1>2. PICK k \in S : \A y \in S : ~(<<y, k>> \in Less)
  BY <1>1, NatLessThanWellFounded, WFMin
<1>3. ASSUME NEW m \in S PROVE k <= m
  <2>1. k \in Nat /\ m \in Nat
    OBVIOUS
  <2>2. m < k => <<m, k>> \in Less
    BY <2>1 DEF Less
  <2> QED
    BY <1>2, <2>1, <2>2
<1> QED
  BY <1>2, <1>3 DEF Min

\* An index is selected where a test holds, if it holds anywhere.
LEMMA SelectsIndex ==
  ASSUME NEW I \in SUBSET (Nat \ {0}), NEW i, i = IF I # {} THEN Min(I) ELSE 0
  PROVE  IF I = {} THEN i = 0 ELSE i \in I
  BY Smallest

LEMMA SelectsOptional ==
  ASSUME NEW q \in Seq(Turns)
  PROVE  \/ SelectInSeq(q, IsOptional) = 0
         \/ /\ SelectInSeq(q, IsOptional) \in 1..Len(q)
            /\ q[SelectInSeq(q, IsOptional)] \in Optional
<1> DEFINE I == {i \in 1..Len(q) : IsOptional(q[i])}
<1>1. SelectInSeq(q, IsOptional) = IF I # {} THEN Min(I) ELSE 0
  BY DEF SelectInSeq
<1>2. I \in SUBSET (Nat \ {0})
  OBVIOUS
<1> QED
  BY <1>1, <1>2, SelectsIndex DEF IsOptional

LEMMA SelectsDirect ==
  ASSUME NEW q \in Seq(Turns)
  PROVE  LET i == SelectInSeq(q, IsDirect)
         IN IF i = 0 THEN \A j \in 1..Len(q) : q[j] \in Optional
            ELSE i \in 1..Len(q) /\ q[i] \notin Optional
<1> DEFINE I == {i \in 1..Len(q) : IsDirect(q[i])}
<1>1. SelectInSeq(q, IsDirect) = IF I # {} THEN Min(I) ELSE 0
  BY DEF SelectInSeq
<1>2. I \in SUBSET (Nat \ {0})
  OBVIOUS
<1> QED
  BY <1>1, <1>2, SelectsIndex DEF IsDirect

LEMMA SelectsAmong ==
  ASSUME NEW q \in Seq(Channels), NEW among, \E i \in 1..Len(q) : q[i] \in among
  PROVE  q[SelectInSeq(q, LAMBDA c : c \in among)] \in among
<1> DEFINE I == {i \in 1..Len(q) : q[i] \in among}
<1>1. SelectInSeq(q, LAMBDA c : c \in among) = IF I # {} THEN Min(I) ELSE 0
  BY DEF SelectInSeq
<1>2. I \in SUBSET (Nat \ {0}) /\ I # {}
  OBVIOUS
<1> QED
  BY <1>1, <1>2, SelectsIndex

\* Every entry of a queue is there once.
Once(q) == \A i, j \in 1..Len(q) : q[i] = q[j] => i = j

LEMMA Removed ==
  ASSUME NEW S, NEW q \in Seq(S), NEW i \in 1..Len(q)
  PROVE  /\ RemoveAt(q, i) \in Seq(S) /\ Len(RemoveAt(q, i)) = Len(q) - 1
         /\ \A j \in 1..Len(q) - 1 : RemoveAt(q, i)[j] = IF j < i THEN q[j] ELSE q[j + 1]
<1> DEFINE a == SubSeq(q, 1, i - 1)
           b == SubSeq(q, i + 1, Len(q))
<1>0. Len(q) \in Nat /\ i \in Nat /\ 1 <= i /\ i <= Len(q)
  BY LenProperties
<1>1. a \in Seq(S) /\ Len(a) = i - 1 /\ \A k \in 1..i - 1 : a[k] = q[k]
  <2>1. CASE i = 1
    BY <1>0, <2>1, SubSeqEmpty, SubSeqProperties
  <2>2. CASE i # 1
    BY <1>0, <2>2, SubSeqProperties
  <2> QED
    BY <2>1, <2>2
<1>2. b \in Seq(S) /\ Len(b) = Len(q) - i /\ \A k \in 1..Len(q) - i : b[k] = q[i + k]
  BY <1>0, SubSeqProperties
<1>3. RemoveAt(q, i) = a \o b
  BY DEF RemoveAt
<1> HIDE DEF a, b
<1>4. /\ a \o b \in Seq(S) /\ Len(a \o b) = Len(a) + Len(b)
      /\ \A j \in 1..Len(a) + Len(b) :
           (a \o b)[j] = IF j <= Len(a) THEN a[j] ELSE b[j - Len(a)]
  BY <1>1, <1>2, ConcatProperties
<1>5. \A j \in 1..Len(q) - 1 : (a \o b)[j] = IF j < i THEN q[j] ELSE q[j + 1]
  <2> TAKE j \in 1..Len(q) - 1
  <2>1. (a \o b)[j] = IF j <= i - 1 THEN a[j] ELSE b[j - (i - 1)]
    BY <1>0, <1>1, <1>2, <1>4
  <2>2. CASE j < i
    BY <1>0, <1>1, <2>1, <2>2
  <2>3. CASE ~(j < i)
    <3>1. j - (i - 1) \in 1..Len(q) - i /\ i + (j - (i - 1)) = j + 1
      BY <1>0, <2>3
    <3> QED
      BY <1>0, <1>2, <2>1, <2>3, <3>1
  <2> QED
    BY <2>2, <2>3
<1> QED
  BY <1>0, <1>1, <1>2, <1>3, <1>4, <1>5

\* The others stay in the queue, once each.
LEMMA RemovedOnce ==
  ASSUME NEW S, NEW q \in Seq(S), NEW i \in 1..Len(q), Once(q)
  PROVE  Once(RemoveAt(q, i)) /\ Range(RemoveAt(q, i)) = Range(q) \ {q[i]}
<1> DEFINE p == RemoveAt(q, i)
           at(j) == IF j < i THEN j ELSE j + 1
<1>0. Len(q) \in Nat /\ i \in Nat /\ 1 <= i /\ i <= Len(q)
  BY LenProperties
<1>1. p \in Seq(S) /\ Len(p) = Len(q) - 1 /\ \A j \in 1..Len(p) : p[j] = q[at(j)]
  BY Removed
<1>2. \A j \in 1..Len(p) : at(j) \in 1..Len(q) /\ at(j) # i
  BY <1>0, <1>1
<1>3. \A j, k \in 1..Len(p) : at(j) = at(k) => j = k
  BY <1>0, <1>1
<1>4. \A k \in 1..Len(q) \ {i} : \E j \in 1..Len(p) : at(j) = k
  <2> TAKE k \in 1..Len(q) \ {i}
  <2>1. CASE k < i
    <3>1. k \in 1..Len(p) /\ at(k) = k
      BY <1>0, <1>1, <2>1
    <3> QED
      BY <3>1
  <2>2. CASE k > i
    <3>1. k - 1 \in 1..Len(p) /\ at(k - 1) = k
      BY <1>0, <1>1, <2>2
    <3> QED
      BY <3>1
  <2> QED
    BY <1>0, <2>1, <2>2
<1> HIDE DEF p, at
<1>5. Once(p)
  BY <1>1, <1>2, <1>3 DEF Once
<1>6. Range(p) = {p[j] : j \in 1..Len(p)} /\ Range(q) = {q[j] : j \in 1..Len(q)}
  BY <1>1, LenProperties DEF Range
<1>7. Range(p) = Range(q) \ {q[i]}
  <2>1. ASSUME NEW x \in Range(p) PROVE x \in Range(q) \ {q[i]}
    <3>1. PICK j \in 1..Len(p) : x = p[j]
      BY <1>6
    <3> QED
      BY <1>1, <1>2, <1>6, <3>1 DEF Once
  <2>2. ASSUME NEW x \in Range(q) \ {q[i]} PROVE x \in Range(p)
    <3>1. PICK k \in 1..Len(q) : x = q[k]
      BY <1>6
    <3>2. PICK j \in 1..Len(p) : at(j) = k
      BY <1>4, <3>1
    <3> QED
      BY <1>1, <1>6, <3>1, <3>2
  <2> QED
    BY <2>1, <2>2
<1> QED
  BY <1>5, <1>7 DEF p

LEMMA AppendedOnce ==
  ASSUME NEW S, NEW q \in Seq(S), NEW e \in S, Once(q), e \notin Range(q)
  PROVE  /\ Append(q, e) \in Seq(S) /\ Len(Append(q, e)) = Len(q) + 1 /\ Append(q, e) # <<>>
         /\ Once(Append(q, e)) /\ Range(Append(q, e)) = Range(q) \cup {e}
<1> DEFINE p == Append(q, e)
<1>0. Len(q) \in Nat
  BY LenProperties
<1>1. /\ p \in Seq(S) /\ Len(p) = Len(q) + 1 /\ p # <<>> /\ p[Len(q) + 1] = e
      /\ \A j \in 1..Len(q) : p[j] = q[j]
  BY AppendProperties
<1>2. Range(p) = {p[j] : j \in 1..Len(p)} /\ Range(q) = {q[j] : j \in 1..Len(q)}
  BY <1>1, LenProperties DEF Range
<1> HIDE DEF p
<1>3. Once(p)
  <2> SUFFICES ASSUME NEW i \in 1..Len(p), NEW j \in 1..Len(p), p[i] = p[j] PROVE i = j
    BY DEF Once
  <2>1. \A k \in 1..Len(q) : p[k] # e
    BY <1>1, <1>2
  <2>2. \A k \in 1..Len(p) : k \in 1..Len(q) \/ k = Len(q) + 1
    BY <1>0, <1>1
  <2> QED
    BY <1>1, <2>1, <2>2 DEF Once
<1>4. Range(p) = Range(q) \cup {e}
  <2>1. \A k \in 1..Len(p) : k \in 1..Len(q) \/ k = Len(q) + 1
    BY <1>0, <1>1
  <2>2. \A k \in 1..Len(q) : k \in 1..Len(p)
    BY <1>0, <1>1
  <2>3. Len(q) + 1 \in 1..Len(p)
    BY <1>0, <1>1
  <2> QED
    BY <1>1, <1>2, <2>1, <2>2, <2>3
<1> QED
  BY <1>1, <1>3, <1>4 DEF p

\* A queue holds as many turns as it is long.
LEMMA LengthCounts ==
  ASSUME NEW S, NEW q \in Seq(S), Once(q)
  PROVE  Cardinality(Range(q)) = Len(q)
<1>1. Len(q) \in Nat /\ q \in [1..Len(q) -> S] /\ DOMAIN q = 1..Len(q)
  BY LenProperties
<1>2. Range(q) = {q[j] : j \in 1..Len(q)}
  BY <1>1 DEF Range
<1>3. IsFiniteSet(1..Len(q)) /\ Cardinality(1..Len(q)) = Len(q)
  BY <1>1, FS_Interval
<1>4. q \in Surjection(1..Len(q), Range(q)) /\ q \in Injection(1..Len(q), Range(q))
  BY <1>1, <1>2 DEF Surjection, Injection, Once, IsInjective
<1>5. q \in Bijection(1..Len(q), Range(q))
  BY <1>4 DEF Bijection
<1> QED
  BY <1>3, <1>5, FS_Bijection DEF ExistsBijection

\* The other channels keep their entry.
LEMMA FirstRemoved ==
  ASSUME NEW q \in Seq(Channels), NEW e \in Channels
  PROVE  /\ RemoveFirst(q, e) \in Seq(Channels)
         /\ \A d \in Channels \ {e} : Contains(q, d) => Contains(RemoveFirst(q, e), d)
<1>0. Len(q) \in Nat
  BY LenProperties
<1>1. CASE ~\E i \in 1..Len(q) : q[i] = e
  BY <1>1 DEF RemoveFirst
<1>2. CASE \E i \in 1..Len(q) : q[i] = e
  <2> DEFINE I == {i \in 1..Len(q) : q[i] = e}
  <2>1. SelectInSeq(q, LAMBDA v : v = e) = IF I # {} THEN Min(I) ELSE 0
    BY DEF SelectInSeq
  <2>2. I \in SUBSET (Nat \ {0}) /\ I # {}
    BY <1>2
  <2>3. PICK i \in 1..Len(q) : q[i] = e /\ RemoveFirst(q, e) = RemoveAt(q, i)
    BY <1>2, <2>1, <2>2, SelectsIndex DEF RemoveFirst
  <2>4. /\ RemoveAt(q, i) \in Seq(Channels) /\ Len(RemoveAt(q, i)) = Len(q) - 1
        /\ \A j \in 1..Len(q) - 1 : RemoveAt(q, i)[j] = IF j < i THEN q[j] ELSE q[j + 1]
    BY Removed
  <2>5. ASSUME NEW d \in Channels \ {e}, Contains(q, d) PROVE Contains(RemoveAt(q, i), d)
    <3>1. PICK j \in 1..Len(q) : q[j] = d
      BY <2>5 DEF Contains
    <3>2. j # i
      BY <2>3, <3>1
    <3>3. CASE j < i
      BY <1>0, <2>4, <3>1, <3>3 DEF Contains
    <3>4. CASE j > i
      <4>1. j - 1 \in 1..Len(q) - 1 /\ ~(j - 1 < i) /\ (j - 1) + 1 = j
        BY <1>0, <3>4
      <4> QED
        BY <2>4, <3>1, <4>1 DEF Contains
    <3> QED
      BY <3>2, <3>3, <3>4
  <2> QED
    BY <2>3, <2>4, <2>5
<1> QED
  BY <1>1, <1>2

-----------------------------------------------------------------------------
(* The books of a scheduler, and what its handlers do to them.             *)

Schedulers == [order : Seq(Channels), waiting : [Channels -> Seq(Turns)],
               running : SUBSET Channels, queued : Nat, closed : BOOLEAN]
Results == [s : Schedulers, started : SUBSET Turns, dropped : SUBSET Turns]

InQueue(s, W, c) ==
  /\ Len(s.waiting[c]) <= MaxPendingPerChannel
  /\ s.waiting[c] # <<>> => Contains(s.order, c)
  /\ Once(s.waiting[c])
  /\ Range(s.waiting[c]) = {t \in W : ChannelOf[t] = c}

\* The books agree with the turns W that wait and the turns R that run.
Agrees(s, W, R) ==
  /\ s \in Schedulers /\ W \subseteq Turns /\ R \subseteq Turns
  /\ s.queued = Cardinality(W) /\ s.queued <= MaxPendingGlobal
  /\ \A c \in Channels : InQueue(s, W, c)
  /\ s.running = {ChannelOf[t] : t \in R}
  /\ \A t, u \in R : ChannelOf[t] = ChannelOf[u] => t = u

\* The i-th turn of a channel is taken out of its queue.
Taken(s, c, i, o) == [s EXCEPT !.waiting[c] = RemoveAt(@, i), !.queued = @ - 1, !.order = o]

\* What has come of it.
HasLeft(s, W, R, c, i, o) ==
  LET t == s.waiting[c][i]
      p == Taken(s, c, i, o)
  IN /\ t \in W /\ ChannelOf[t] = c /\ Agrees(p, W \ {t}, R)
     /\ Len(p.waiting[c]) = Len(s.waiting[c]) - 1 /\ p.queued = s.queued - 1

LEMMA TakenOut ==
  ASSUME NEW s, NEW W, NEW R, Agrees(s, W, R), NEW c \in Channels,
         NEW i \in 1..Len(s.waiting[c]), NEW o \in Seq(Channels),
         \A d \in Channels : Contains(s.order, d) /\ (d = c => Len(s.waiting[c]) # 1)
                               => Contains(o, d)
  PROVE  HasLeft(s, W, R, c, i, o)
<1> DEFINE q == s.waiting[c]
           t == q[i]
           p == Taken(s, c, i, o)
           V == W \ {t}
<1>1. /\ s \in Schedulers /\ W \subseteq Turns /\ R \subseteq Turns /\ q \in Seq(Turns)
      /\ s.queued = Cardinality(W) /\ s.queued <= MaxPendingGlobal /\ s.queued \in Nat
      /\ \A d \in Channels : InQueue(s, W, d)
  BY DEF Agrees, Schedulers
<1>2. Len(q) \in Nat /\ DOMAIN q = 1..Len(q)
  BY <1>1, LenProperties
<1>3. t \in W /\ ChannelOf[t] = c
  <2>1. t \in Range(q)
    BY <1>2 DEF Range
  <2> QED
    BY <1>1, <2>1 DEF InQueue
<1>4. /\ RemoveAt(q, i) \in Seq(Turns) /\ Len(RemoveAt(q, i)) = Len(q) - 1
      /\ Once(RemoveAt(q, i)) /\ Range(RemoveAt(q, i)) = Range(q) \ {t}
  BY <1>1, Removed, RemovedOnce DEF InQueue
<1>5. IsFiniteSet(W) /\ Cardinality(V) = s.queued - 1 /\ s.queued - 1 \in Nat
  <2>1. IsFiniteSet(W)
    BY <1>1, FS_Subset, SchedulerAssumption
  <2>2. Cardinality(V) = Cardinality(W) - 1 /\ IsFiniteSet(V)
    BY <1>3, <2>1, FS_RemoveElement
  <2> QED
    BY <1>1, <2>1, <2>2, FS_CardinalityType
<1>6. /\ p.order = o /\ p.running = s.running /\ p.closed = s.closed /\ p.queued = s.queued - 1
      /\ p.waiting = [s.waiting EXCEPT ![c] = RemoveAt(q, i)]
      /\ p = [order |-> p.order, waiting |-> p.waiting, running |-> p.running,
              queued |-> p.queued, closed |-> p.closed]
  <2>1. p = [s EXCEPT !.waiting[c] = RemoveAt(@, i), !.queued = @ - 1, !.order = o]
    BY DEF Taken
  <2> HIDE DEF p
  <2> QED
    BY <1>1, <2>1 DEF Schedulers
<1>7. /\ p.waiting \in [Channels -> Seq(Turns)] /\ p.waiting[c] = RemoveAt(q, i)
      /\ \A d \in Channels \ {c} : p.waiting[d] = s.waiting[d]
  BY <1>1, <1>4, <1>6 DEF Schedulers
<1>8. p \in Schedulers
  BY <1>1, <1>5, <1>6, <1>7 DEF Schedulers
<1> HIDE DEF q, t, p
<1>9. ASSUME NEW d \in Channels PROVE InQueue(p, V, d)
  <2>1. CASE d = c
    <3>1. Range(RemoveAt(q, i)) = {u \in V : ChannelOf[u] = c}
      BY <1>1, <1>4 DEF InQueue, q
    <3>2. Len(RemoveAt(q, i)) <= MaxPendingPerChannel
      BY <1>1, <1>2, <1>4, SchedulerAssumption DEF InQueue, q
    <3>3. RemoveAt(q, i) # <<>> => Contains(o, c)
      <4> HAVE RemoveAt(q, i) # <<>>
      <4>1. Len(q) # 1
        BY <1>2, <1>4, EmptySeq
      <4>2. q # <<>>
        BY <1>2 DEF q
      <4> QED
        BY <1>1, <4>1, <4>2 DEF InQueue, q
    <3> QED
      BY <1>4, <1>6, <1>7, <2>1, <3>1, <3>2, <3>3 DEF InQueue
  <2>2. CASE d # c
    <3>1. {u \in V : ChannelOf[u] = d} = {u \in W : ChannelOf[u] = d}
      BY <1>3, <2>2
    <3>2. s.waiting[d] # <<>> => Contains(o, d)
      BY <1>1, <2>2 DEF InQueue
    <3> QED
      BY <1>1, <1>6, <1>7, <2>2, <3>1, <3>2 DEF InQueue
  <2> QED
    BY <2>1, <2>2
<1>10. Agrees(p, V, R)
  <2>1. p.queued <= MaxPendingGlobal
    BY <1>1, <1>6, SchedulerAssumption
  <2> QED
    BY <1>1, <1>5, <1>6, <1>8, <1>9, <2>1 DEF Agrees
<1> QED
  BY <1>3, <1>4, <1>6, <1>7, <1>10 DEF t, q, p, HasLeft

\* A turn that did not wait is appended, where there is room.
LEMMA PutIn ==
  ASSUME NEW s, NEW W, NEW R, Agrees(s, W, R), NEW t \in Turns \ W, Contains(s.order, ChannelOf[t]),
         ~Full(s, ChannelOf[t]),
         NEW p, p = [s EXCEPT !.waiting[ChannelOf[t]] = Append(@, t), !.queued = @ + 1]
  PROVE  Agrees(p, W \cup {t}, R)
<1> DEFINE c == ChannelOf[t]
           q == s.waiting[c]
           V == W \cup {t}
<1>1. /\ s \in Schedulers /\ W \subseteq Turns /\ R \subseteq Turns /\ c \in Channels
      /\ q \in Seq(Turns) /\ s.queued = Cardinality(W) /\ s.queued \in Nat
      /\ \A d \in Channels : InQueue(s, W, d)
  BY SchedulerAssumption DEF Agrees, Schedulers
<1>2. /\ Len(q) \in Nat /\ Len(q) + 1 <= MaxPendingPerChannel
      /\ s.queued + 1 <= MaxPendingGlobal
  BY <1>1, LenProperties, SchedulerAssumption DEF Full
<1>3. t \notin Range(q)
  BY <1>1 DEF InQueue
<1>4. /\ Append(q, t) \in Seq(Turns) /\ Len(Append(q, t)) = Len(q) + 1
      /\ Once(Append(q, t)) /\ Range(Append(q, t)) = Range(q) \cup {t}
  BY <1>1, <1>3, AppendedOnce DEF InQueue
<1>5. IsFiniteSet(W) /\ Cardinality(V) = s.queued + 1
  <2>1. IsFiniteSet(W)
    BY <1>1, FS_Subset, SchedulerAssumption
  <2> QED
    BY <1>1, <2>1, FS_AddElement
<1>6. /\ p.order = s.order /\ p.running = s.running /\ p.closed = s.closed
      /\ p.queued = s.queued + 1 /\ p.waiting = [s.waiting EXCEPT ![c] = Append(q, t)]
      /\ p = [order |-> p.order, waiting |-> p.waiting, running |-> p.running,
              queued |-> p.queued, closed |-> p.closed]
  BY <1>1 DEF Schedulers
<1>7. /\ p.waiting \in [Channels -> Seq(Turns)] /\ p.waiting[c] = Append(q, t)
      /\ \A d \in Channels \ {c} : p.waiting[d] = s.waiting[d]
  BY <1>1, <1>4, <1>6 DEF Schedulers
<1>8. p \in Schedulers
  <2>1. p.queued \in Nat
    BY <1>1, <1>6
  <2>2. p.order \in Seq(Channels) /\ p.running \subseteq Channels /\ p.closed \in BOOLEAN
    BY <1>1, <1>6 DEF Schedulers
  <2> QED
    BY <1>6, <1>7, <2>1, <2>2 DEF Schedulers
<1> HIDE DEF q
<1>9. ASSUME NEW d \in Channels PROVE InQueue(p, V, d)
  <2>1. CASE d = c
    <3>1. Range(Append(q, t)) = {u \in V : ChannelOf[u] = c}
      BY <1>1, <1>4 DEF InQueue, q
    <3> QED
      BY <1>2, <1>4, <1>6, <1>7, <2>1, <3>1 DEF InQueue
  <2>2. CASE d # c
    <3>1. {u \in V : ChannelOf[u] = d} = {u \in W : ChannelOf[u] = d}
      BY <2>2
    <3> QED
      BY <1>1, <1>6, <1>7, <2>2, <3>1 DEF InQueue
  <2> QED
    BY <2>1, <2>2
<1> QED
  BY <1>1, <1>2, <1>5, <1>6, <1>8, <1>9 DEF Agrees

\* What a handler may do when W wait and R run: it starts and drops turns that
\* wait, and drops nobody who was asked for, unless that turn is of N.
Kept(r, W, R, N) ==
  /\ r \in Results
  /\ r.started \subseteq W /\ r.dropped \subseteq W \cap (Optional \cup N)
  /\ r.started \cap r.dropped = {}
  /\ Agrees(r.s, W \ (r.started \cup r.dropped), R \cup r.started)

LEMMA EntryAgrees ==
  ASSUME NEW s, NEW W, NEW R, Agrees(s, W, R), NEW c \in Channels
  PROVE  Agrees(WithEntry(s, c), W, R) /\ Contains(WithEntry(s, c).order, c)
<1>1. CASE Contains(s.order, c)
  BY <1>1 DEF WithEntry
<1>2. CASE ~Contains(s.order, c)
  <2> DEFINE p == WithEntry(s, c)
             o == Append(s.order, c)
  <2>1. s \in Schedulers /\ s.order \in Seq(Channels)
    BY DEF Agrees, Schedulers
  <2>2. p = [s EXCEPT !.order = o]
    BY <1>2 DEF WithEntry
  <2>3. /\ o \in Seq(Channels) /\ Len(o) = Len(s.order) + 1 /\ o[Len(s.order) + 1] = c
        /\ \A j \in 1..Len(s.order) : o[j] = s.order[j]
    BY <2>1, AppendProperties
  <2>4. Len(s.order) \in Nat
    BY <2>1, LenProperties
  <2>5. Contains(o, c) /\ \A d \in Channels : Contains(s.order, d) => Contains(o, d)
    <3>1. Len(s.order) + 1 \in 1..Len(o) /\ \A j \in 1..Len(s.order) : j \in 1..Len(o)
      BY <2>3, <2>4
    <3> QED
      BY <2>3, <3>1 DEF Contains
  <2> HIDE DEF o
  <2>6. /\ p \in Schedulers /\ p.order = o /\ p.waiting = s.waiting /\ p.queued = s.queued
        /\ p.running = s.running
    BY <2>1, <2>2, <2>3 DEF Schedulers
  <2> HIDE DEF p
  <2>7. Agrees(p, W, R)
    BY <2>5, <2>6 DEF Agrees, InQueue
  <2> QED
    BY <2>5, <2>6, <2>7 DEF p
<1> QED
  BY <1>1, <1>2

\* A turn that is taken out is dropped.
LEMMA DropKept ==
  ASSUME NEW r, NEW W, NEW R, NEW N, Kept(r, W, R, N), NEW p, NEW t,
         t \in W \ (r.started \cup r.dropped), t \in Optional,
         Agrees(p, (W \ (r.started \cup r.dropped)) \ {t}, R \cup r.started)
  PROVE  Kept([s |-> p, started |-> r.started, dropped |-> r.dropped \cup {t}], W, R, N)
<1> DEFINE x == [s |-> p, started |-> r.started, dropped |-> r.dropped \cup {t}]
<1>1. x.s = p /\ x.started = r.started /\ x.dropped = r.dropped \cup {t}
  OBVIOUS
<1>2. x \in Results
  BY SchedulerAssumption DEF Kept, Agrees, Results
<1>3. W \ (x.started \cup x.dropped) = (W \ (r.started \cup r.dropped)) \ {t}
  BY <1>1
<1> HIDE DEF x
<1>4. Kept(x, W, R, N)
  BY <1>1, <1>2, <1>3 DEF Kept
<1> QED
  BY <1>4 DEF x

LEMMA ShedKept ==
  ASSUME NEW r, NEW W, NEW R, Kept(r, W, R, {}), NEW c \in Channels
  PROVE  LET x == Shed(r, c)
         IN /\ Kept(x, W, R, {}) /\ x.started = r.started /\ x.s.order = r.s.order
            /\ x.s.closed = r.s.closed /\ (x # r => ~Full(x.s, c))
<1> DEFINE s == r.s
           V == W \ (r.started \cup r.dropped)
           q == s.waiting[c]
           i == SelectInSeq(q, IsOptional)
           t == q[i]
<1>1. r \in Results /\ Agrees(s, V, R \cup r.started) /\ s \in Schedulers /\ q \in Seq(Turns)
  BY DEF Kept, Agrees, Schedulers
<1>2. CASE i = 0
  BY <1>2 DEF Shed
<1>3. CASE i # 0
  <2>1. i \in 1..Len(q) /\ t \in Optional
    BY <1>1, <1>3, SelectsOptional
  <2> DEFINE p == Taken(s, c, i, s.order)
             x == Shed(r, c)
  <2>2. x = [r EXCEPT !.s.waiting[c] = RemoveAt(@, i), !.s.queued = @ - 1,
                      !.dropped = @ \cup {t}]
    BY <1>3 DEF Shed
  <2>3. p = [s EXCEPT !.waiting[c] = RemoveAt(@, i), !.queued = @ - 1]
    BY <1>1 DEF Schedulers, Taken
  <2>4. s.order \in Seq(Channels)
    BY <1>1 DEF Schedulers
  <2>5. /\ t \in V /\ Agrees(p, V \ {t}, R \cup r.started)
        /\ Len(p.waiting[c]) = Len(q) - 1 /\ p.queued = s.queued - 1
    <3> HIDE DEF x, p, i, V, s
    <3>1. Agrees(s, V, R \cup r.started)
      BY <1>1
    <3>2. i \in 1..Len(s.waiting[c])
      BY <2>1
    <3>3. HasLeft(s, V, R \cup r.started, c, i, s.order)
      BY <2>4, <3>1, <3>2, TakenOut
    <3> QED
      BY <3>3 DEF p, HasLeft
  <2>6. x = [s |-> p, started |-> r.started, dropped |-> r.dropped \cup {t}]
    BY <1>1, <2>2, <2>3 DEF Results
  <2>7. p.order = s.order /\ p.closed = s.closed
    BY <1>1, <2>3 DEF Schedulers
  <2>8. ~Full(p, c)
    <3>1. /\ Len(q) \in Nat /\ s.queued \in Nat /\ Len(q) <= MaxPendingPerChannel
          /\ s.queued <= MaxPendingGlobal
      BY <1>1, LenProperties DEF Agrees, InQueue, Schedulers
    <3> QED
      BY <2>5, <3>1, SchedulerAssumption DEF Full
  <2> HIDE DEF p, i
  <2>9. Kept(x, W, R, {})
    BY <2>1, <2>5, <2>6, DropKept
  <2> QED
    BY <2>6, <2>7, <2>8, <2>9
<1> QED
  BY <1>2, <1>3

LEMMA PushKept ==
  ASSUME NEW r, NEW W, NEW R, Kept(r, W, R, {}), r.started = {}, NEW t \in Turns \ W,
         Contains(r.s.order, ChannelOf[t]), ~Full(r.s, ChannelOf[t])
  PROVE  /\ Kept(Push(r, t), W \cup {t}, R, {t}) /\ t \notin Push(r, t).dropped
         /\ Push(r, t).s.closed = r.s.closed
<1> DEFINE c == ChannelOf[t]
           s == r.s
           V == W \ (r.started \cup r.dropped)
           p == [s EXCEPT !.waiting[c] = Append(@, t), !.queued = @ + 1]
           x == Push(r, t)
<1>1. r \in Results /\ Agrees(s, V, R) /\ r.dropped \subseteq W \cap Optional /\ t \in Turns \ V
  BY DEF Kept
<1>2. Agrees(p, V \cup {t}, R)
  <2> HIDE DEF p
  <2> QED
    BY <1>1, PutIn DEF p
<1>3. x = [s |-> p, started |-> r.started, dropped |-> r.dropped]
  <2>1. x = [r EXCEPT !.s.waiting[c] = Append(@, t), !.s.queued = @ + 1]
    BY DEF Push
  <2>2. s \in Schedulers
    BY <1>1 DEF Agrees
  <2>3. x = [r EXCEPT !.s = p]
    BY <1>1, <2>1, <2>2 DEF Results, Schedulers
  <2> HIDE DEF x, p
  <2> QED
    BY <1>1, <2>3 DEF Results
<1>4. (W \cup {t}) \ (x.started \cup x.dropped) = V \cup {t}
  BY <1>1, <1>3
<1>5. x \in Results
  BY <1>1, <1>2, <1>3 DEF Agrees, Results
<1>9. p.closed = s.closed
  <2>1. s \in Schedulers
    BY <1>1 DEF Agrees
  <2> QED
    BY <2>1 DEF Schedulers
<1> HIDE DEF p, x, V
<1>6. x.s = p /\ x.started = {} /\ x.dropped = r.dropped
  BY <1>3
<1>7. R \cup x.started = R
  BY <1>6
<1>8. Kept(x, W \cup {t}, R, {t})
  BY <1>1, <1>2, <1>4, <1>5, <1>6, <1>7 DEF Kept
<1> QED
  BY <1>1, <1>6, <1>8, <1>9 DEF x

\* No turn that may start waits, and none waits once the scheduler is closed.
AllBusy(s) == Available(s) = {} /\ (s.closed => s.order = <<>>)

\* An entry without turns makes no channel available.
LEMMA EntryBusy ==
  ASSUME NEW s, NEW W, NEW R, Agrees(s, W, R), Available(s) = {}, NEW c \in Channels
  PROVE  Available(WithEntry(s, c)) = {} /\ WithEntry(s, c).closed = s.closed
<1>1. CASE Contains(s.order, c)
  BY <1>1 DEF WithEntry
<1>2. CASE ~Contains(s.order, c)
  <2> DEFINE p == WithEntry(s, c)
  <2>1. s \in Schedulers
    BY DEF Agrees
  <2>2. /\ p.order = Append(s.order, c) /\ p.waiting = s.waiting /\ p.running = s.running
        /\ p.closed = s.closed
    BY <1>2, <2>1 DEF WithEntry, Schedulers
  <2> HIDE DEF p
  <2>3. s.waiting[c] = <<>>
    BY <1>2 DEF Agrees, InQueue
  <2>4. ASSUME NEW d \in Channels, d # c, Contains(p.order, d) PROVE Contains(s.order, d)
    <3>1. PICK j \in 1..Len(p.order) : p.order[j] = d
      BY <2>4 DEF Contains
    <3>2. s.order \in Seq(Channels)
      BY <2>1 DEF Schedulers
    <3>3. j \in 1..Len(s.order) /\ s.order[j] = d
      BY <2>2, <2>4, <3>1, <3>2, AppendProperties, LenProperties
    <3> QED
      BY <3>3 DEF Contains
  <2>5. Available(p) \subseteq Available(s)
    BY <2>2, <2>3, <2>4 DEF Available, RunningIn
  <2> QED
    BY <2>2, <2>5 DEF p
<1> QED
  BY <1>1, <1>2

\* The turn waits, or it is turned away and the others are as they were.
LEMMA SubmittedKept ==
  ASSUME NEW s, NEW W, NEW R, Agrees(s, W, R), NEW t \in Turns \ W
  PROVE  /\ Kept(Submitted(s, t), W \cup {t}, R, {t})
         /\ Submitted(s, t).s.closed = s.closed
         /\ Available(s) = {} /\ t \in Submitted(s, t).dropped => Available(Submitted(s, t).s) = {}
<1> DEFINE c == ChannelOf[t]
           entered == Result(WithEntry(s, c))
           fresh == IF IsOptional(t) THEN Shed(entered, c) ELSE entered
           room == Shed(fresh, c)
           away == [fresh EXCEPT !.dropped = @ \cup {t}]
<1>1. c \in Channels
  BY SchedulerAssumption
<1>2. Kept(entered, W, R, {}) /\ entered.started = {} /\ Contains(entered.s.order, c)
  <2>1. Agrees(WithEntry(s, c), W, R) /\ Contains(WithEntry(s, c).order, c)
    BY <1>1, EntryAgrees
  <2>2. W \ ({} \cup {}) = W /\ R \cup {} = R
    OBVIOUS
  <2>3. WithEntry(s, c) \in Schedulers
    BY <2>1 DEF Agrees
  <2> QED
    BY <2>1, <2>2, <2>3 DEF Kept, Result, Results
<1>7. entered.s.closed = s.closed /\ (Available(s) = {} => Available(entered.s) = {})
  <2>1. CASE Contains(s.order, c)
    BY <2>1 DEF WithEntry, Result
  <2>2. CASE ~Contains(s.order, c)
    <3>1. s \in Schedulers
      BY DEF Agrees
    <3>2. WithEntry(s, c).closed = s.closed
      BY <2>2, <3>1 DEF WithEntry, Schedulers
    <3> QED
      BY <1>1, <3>2, EntryBusy DEF Result
  <2> QED
    BY <2>1, <2>2
<1> HIDE DEF entered
<1>3. /\ Kept(fresh, W, R, {}) /\ fresh.started = {} /\ Contains(fresh.s.order, c)
      /\ fresh.s.closed = s.closed /\ (fresh # entered => ~Full(fresh.s, c))
  BY <1>1, <1>2, <1>7, ShedKept
<1> HIDE DEF fresh
<1>4. /\ Kept(room, W, R, {}) /\ room.started = {} /\ Contains(room.s.order, c)
      /\ room.s.closed = s.closed /\ (room # fresh => ~Full(room.s, c))
  BY <1>1, <1>3, ShedKept
<1> HIDE DEF room
<1>5. Kept(away, W \cup {t}, R, {t}) /\ away.s = fresh.s
  <2>1. fresh \in Results /\ fresh.dropped \subseteq W \cap Optional
    BY <1>3 DEF Kept
  <2>2. away = [s |-> fresh.s, started |-> fresh.started, dropped |-> fresh.dropped \cup {t}]
    BY <2>1 DEF Results
  <2>3. away \in Results
    BY <2>1, <2>2 DEF Results
  <2>4. (W \cup {t}) \ (fresh.started \cup (fresh.dropped \cup {t}))
          = W \ (fresh.started \cup fresh.dropped)
    OBVIOUS
  <2> HIDE DEF away
  <2>5. away.s = fresh.s /\ away.started = fresh.started /\ away.dropped = fresh.dropped \cup {t}
    BY <2>2
  <2> QED
    BY <1>3, <2>1, <2>3, <2>4, <2>5 DEF Kept
<1>6. Submitted(s, t) = IF ~Full(fresh.s, c) THEN Push(fresh, t)
                        ELSE IF IsDirect(t) /\ room # fresh THEN Push(room, t) ELSE away
  BY DEF Submitted, entered, fresh, room
<1> HIDE DEF away
<1>8. CASE ~Full(fresh.s, c)
  BY <1>3, <1>6, <1>8, PushKept
<1>9. CASE Full(fresh.s, c) /\ IsDirect(t) /\ room # fresh
  BY <1>4, <1>6, <1>9, PushKept
<1>10. CASE Full(fresh.s, c) /\ ~(IsDirect(t) /\ room # fresh)
  <2>1. Submitted(s, t) = away /\ fresh = entered
    BY <1>3, <1>6, <1>10
  <2> QED
    BY <1>3, <1>5, <1>7, <2>1
<1> QED
  BY <1>8, <1>9, <1>10

\* A turn that is taken out is started, in a channel that runs no other.
LEMMA StartKept ==
  ASSUME NEW r, NEW W, NEW R, NEW N, Kept(r, W, R, N), NEW p, NEW t,
         t \in W \ (r.started \cup r.dropped), p.running = r.s.running,
         ChannelOf[t] \notin r.s.running,
         Agrees(p, (W \ (r.started \cup r.dropped)) \ {t}, R \cup r.started)
  PROVE  Kept([s |-> [p EXCEPT !.running = @ \cup {ChannelOf[t]}],
               started |-> r.started \cup {t}, dropped |-> r.dropped], W, R, N)
<1> DEFINE c == ChannelOf[t]
           S == R \cup r.started
           V == (W \ (r.started \cup r.dropped)) \ {t}
           m == [p EXCEPT !.running = @ \cup {c}]
           x == [s |-> m, started |-> r.started \cup {t}, dropped |-> r.dropped]
<1>1. /\ r \in Results /\ p \in Schedulers /\ t \in Turns /\ c \in Channels
      /\ Agrees(p, V, S) /\ S \subseteq Turns /\ Agrees(r.s, W \ (r.started \cup r.dropped), S)
  BY SchedulerAssumption DEF Kept, Agrees
<1>2. /\ m \in Schedulers /\ m.order = p.order /\ m.waiting = p.waiting /\ m.queued = p.queued
      /\ m.running = p.running \cup {c}
  BY <1>1 DEF Schedulers
<1> HIDE DEF m
<1>3. Agrees(m, V, S \cup {t})
  <2>1. m.running = {ChannelOf[u] : u \in S \cup {t}}
    BY <1>1, <1>2 DEF Agrees
  <2>2. \A u \in S : ChannelOf[u] # c
    BY <1>1 DEF Agrees
  <2>3. \A u, v \in S \cup {t} : ChannelOf[u] = ChannelOf[v] => u = v
    BY <1>1, <2>2 DEF Agrees
  <2>4. \A d \in Channels : InQueue(m, V, d)
    BY <1>1, <1>2 DEF Agrees, InQueue
  <2> QED
    BY <1>1, <1>2, <2>1, <2>3, <2>4 DEF Agrees
<1>4. x.s = m /\ x.started = r.started \cup {t} /\ x.dropped = r.dropped
  OBVIOUS
<1>5. x \in Results
  BY <1>1, <1>2 DEF Results
<1>6. W \ (x.started \cup x.dropped) = V /\ R \cup x.started = S \cup {t}
  BY <1>4
<1> HIDE DEF x
<1>7. /\ x.started \subseteq W /\ x.started \cap x.dropped = {}
      /\ x.dropped \subseteq W \cap (Optional \cup N)
  BY <1>4 DEF Kept
<1>8. Kept(x, W, R, N)
  BY <1>3, <1>4, <1>5, <1>6, <1>7 DEF Kept
<1> QED
  BY <1>8 DEF x, m

LEMMA NextIsAvailable ==
  ASSUME NEW s \in Schedulers, Available(s) # {}
  PROVE  NextChannel(s) \in Available(s)
<1> DEFINE asked == {c \in Available(s) : HasDirect(s, c)}
           among == IF asked # {} THEN asked ELSE Available(s)
<1>1. among \subseteq Available(s) /\ among # {}
  OBVIOUS
<1>2. NextChannel(s) = s.order[SelectInSeq(s.order, LAMBDA c : c \in among)]
  BY DEF NextChannel
<1> HIDE DEF among
<1>3. \E i \in 1..Len(s.order) : s.order[i] \in among
  <2>1. PICK c \in among : TRUE
    BY <1>1
  <2>2. Contains(s.order, c)
    BY <1>1, <2>1 DEF Available
  <2> QED
    BY <2>1, <2>2 DEF Contains
<1>4. s.order \in Seq(Channels)
  BY DEF Schedulers
<1>5. s.order[SelectInSeq(s.order, LAMBDA c : c \in among)] \in among
  BY <1>3, <1>4, SelectsAmong
<1> QED
  BY <1>1, <1>2, <1>5

LEMMA DispatchedKept ==
  ASSUME NEW r, NEW W, NEW R, NEW N, Kept(r, W, R, N), Available(r.s) # {},
         NEW x \in Dispatched(r)
  PROVE  Kept(x, W, R, N) /\ x.s.queued = r.s.queued - 1 /\ x.s.closed = r.s.closed
<1> DEFINE s == r.s
           V == W \ (r.started \cup r.dropped)
           c == NextChannel(s)
           q == s.waiting[c]
           direct == SelectInSeq(q, IsDirect)
           i == IF direct # 0 THEN direct ELSE 1
           t == q[i]
           o == IF Len(q) = 1 THEN RemoveFirst(s.order, c) ELSE s.order
           left == Taken(s, c, i, o)
<1>1. r \in Results /\ s \in Schedulers /\ Agrees(s, V, R \cup r.started)
  BY DEF Kept, Agrees
<1>2. c \in Channels /\ c \notin s.running /\ q # <<>>
  BY <1>1, NextIsAvailable DEF Available
<1>3. q \in Seq(Turns) /\ s.order \in Seq(Channels)
  BY <1>1, <1>2 DEF Schedulers
<1>4. i \in 1..Len(q)
  <2>1. Len(q) \in Nat /\ Len(q) # 0
    BY <1>2, <1>3, LenProperties, EmptySeq
  <2>2. direct = 0 \/ direct \in 1..Len(q)
    BY <1>3, SelectsDirect
  <2> HIDE DEF direct
  <2> QED
    BY <2>1, <2>2
<1>5. o \in Seq(Channels)
  BY <1>2, <1>3, FirstRemoved
<1>6. \A d \in Channels : Contains(s.order, d) /\ (d = c => Len(q) # 1) => Contains(o, d)
  BY <1>2, <1>3, FirstRemoved
<1>7. x \in {[r EXCEPT !.s = [left EXCEPT !.running = @ \cup {c}], !.started = @ \cup {t}]}
             \cup IF IsOptional(t) THEN {[r EXCEPT !.s = left, !.dropped = @ \cup {t}]} ELSE {}
  BY DEF Dispatched, Taken
<1> HIDE DEF i, o, c
<1>8. /\ t \in V /\ ChannelOf[t] = c /\ Agrees(left, V \ {t}, R \cup r.started)
      /\ left.queued = s.queued - 1
  <2> HIDE DEF s, V
  <2>1. /\ Agrees(s, V, R \cup r.started) /\ c \in Channels /\ i \in 1..Len(s.waiting[c])
        /\ o \in Seq(Channels)
        /\ \A d \in Channels : Contains(s.order, d) /\ (d = c => Len(s.waiting[c]) # 1)
                               => Contains(o, d)
    BY <1>1, <1>2, <1>4, <1>5, <1>6
  <2>2. HasLeft(s, V, R \cup r.started, c, i, o)
    BY <2>1, TakenOut
  <2> QED
    BY <2>2 DEF HasLeft
<1>9. left.running = s.running /\ left.closed = s.closed /\ left \in Schedulers
  BY <1>1, <1>8 DEF Agrees, Schedulers, Taken
<1> HIDE DEF left, t, V
<1>10. CASE x = [r EXCEPT !.s = [left EXCEPT !.running = @ \cup {c}], !.started = @ \cup {t}]
  <2>1. x = [s |-> [left EXCEPT !.running = @ \cup {c}], started |-> r.started \cup {t},
             dropped |-> r.dropped]
    BY <1>1, <1>10 DEF Results
  <2>2. x.s.queued = left.queued /\ x.s.closed = left.closed
    BY <1>9, <2>1 DEF Schedulers
  <2>3. Kept(x, W, R, N)
    BY <1>2, <1>8, <1>9, <2>1, StartKept DEF V
  <2> QED
    BY <1>8, <1>9, <2>2, <2>3
<1>11. CASE t \in Optional /\ x = [r EXCEPT !.s = left, !.dropped = @ \cup {t}]
  <2>1. x = [s |-> left, started |-> r.started, dropped |-> r.dropped \cup {t}]
    BY <1>1, <1>11 DEF Results
  <2>2. /\ t \in W \ (r.started \cup r.dropped) /\ t \in Optional
        /\ Agrees(left, (W \ (r.started \cup r.dropped)) \ {t}, R \cup r.started)
    BY <1>8, <1>11 DEF V
  <2>3. Kept([s |-> left, started |-> r.started, dropped |-> r.dropped \cup {t}], W, R, N)
    BY <2>2, DropKept
  <2> QED
    BY <1>8, <1>9, <2>1, <2>3
<1> QED
  BY <1>7, <1>10, <1>11 DEF IsOptional

LEMMA DispatchedSome == ASSUME NEW r PROVE Dispatched(r) # {}
  BY DEF Dispatched

\* f begins with a, and each of its values comes from the one before by a step.
Repeats(f, N, A, a, step) ==
  f \in [0..N -> A] /\ f[0] = a /\ \A n \in 1..N : f[n] = step[f[n - 1]]

\* There is such a function: what is defined step by step exists.
LEMMA Recursion ==
  ASSUME NEW N \in Nat, NEW A, NEW a \in A, NEW step \in [A -> A]
  PROVE  \E f : Repeats(f, N, A, a, step)
<1> DEFINE Defined(k) == \E f \in [0..k -> A] : f[0] = a /\ \A n \in 1..k : f[n] = step[f[n - 1]]
           S == {k \in 0..N : ~Defined(k)}
<1>1. SUFFICES ASSUME S # {} PROVE FALSE
  <2>1. N \in 0..N
    OBVIOUS
  <2> QED
    BY <2>1 DEF Repeats
<1>0. S \in SUBSET Nat /\ S \subseteq 0..N /\ \A j \in 0..N : j \in S <=> ~Defined(j)
  OBVIOUS
<1> HIDE DEF S
<1>2. PICK k \in S : \A m \in S : k <= m
  BY <1>1, <1>0, Smallest
<1>3. k # 0
  <2>1. [n \in 0..0 |-> a] \in [0..0 -> A] /\ [n \in 0..0 |-> a][0] = a /\ 1..0 = {}
    OBVIOUS
  <2>2. Defined(0)
    BY <2>1
  <2>3. 0 \in 0..N
    OBVIOUS
  <2> HIDE DEF Defined
  <2> QED
    BY <1>0, <2>2, <2>3
<1>4. k - 1 \in 0..N /\ ~(k <= k - 1) /\ k \in Nat
  BY <1>3, <1>0
<1>5. Defined(k - 1)
  <2> HIDE DEF Defined
  <2> QED
    BY <1>0, <1>2, <1>4
<1>6. PICK f \in [0..k - 1 -> A] : f[0] = a /\ \A n \in 1..k - 1 : f[n] = step[f[n - 1]]
  BY <1>5
<1> DEFINE g == [n \in 0..k |-> IF n = k THEN step[f[k - 1]] ELSE f[n]]
<1>7. f[k - 1] \in A /\ step[f[k - 1]] \in A
  BY <1>4
<1>8. g \in [0..k -> A] /\ g[0] = a
  <2>1. \A n \in 0..k : n # k => n \in 0..k - 1
    BY <1>4
  <2> QED
    BY <1>3, <1>4, <1>6, <1>7, <2>1
<1>9. \A n \in 1..k : g[n] = step[g[n - 1]]
  <2> TAKE n \in 1..k
  <2>1. n \in 0..k /\ n - 1 \in 0..k /\ n - 1 # k
    BY <1>4
  <2>2. CASE n = k
    BY <2>1, <2>2
  <2>3. CASE n # k
    <3>1. n \in 1..k - 1
      BY <1>4, <2>3
    <3> QED
      BY <1>6, <2>1, <2>3, <3>1
  <2> QED
    BY <2>2, <2>3
<1> HIDE DEF g
<1>10. Defined(k)
  BY <1>8, <1>9
<1> HIDE DEF Defined
<1> QED
  BY <1>0, <1>2, <1>10

LEMMA SomebodyAhead ==
  ASSUME NEW q \in Seq(Turns), q # <<>>
  PROVE  Head(q) \in Range(q) /\ Head(q) \in Turns
<1>1. Len(q) \in Nat /\ Len(q) # 0 /\ DOMAIN q = 1..Len(q)
  BY LenProperties, EmptySeq
<1>2. 1 \in DOMAIN q /\ Head(q) = q[1]
  BY <1>1, HeadTailProperties
<1> QED
  BY <1>1, <1>2 DEF Range

\* However often pump() goes round, it keeps the books, and it goes round until
\* nobody who waits may start.
LEMMA PumpedKept ==
  ASSUME NEW r, NEW W, NEW R, NEW N, Kept(r, W, R, N)
  PROVE  /\ Pumped(r) # {}
         /\ \A x \in Pumped(r) : /\ Kept(x, W, R, N) /\ x.s.closed = r.s.closed
                                 /\ ~r.s.closed => Available(x.s) = {}
<1> DEFINE K == Cardinality(Turns)
           Good == {y \in Results : Kept(y, W, R, N)}
           Further(y) == IF Available(y.s) = {} THEN {y} ELSE Dispatched(y)
           step == [B \in SUBSET Good |-> UNION {Further(y) : y \in B}]
           Rounds(g) == [n \in 0..K |-> IF n = 0 THEN {r} ELSE UNION {Further(y) : y \in g[n - 1]}]
           h == CHOOSE g : g = Rounds(g)
<1>1. K \in Nat
  BY FS_CardinalityType, SchedulerAssumption
<1>2. r \in Good /\ \A y : y \in Good <=> Kept(y, W, R, N)
  BY DEF Kept
<1>3. ASSUME NEW y \in Good PROVE Further(y) \subseteq Good
  BY <1>2, <1>3, DispatchedKept
<1>12. ASSUME NEW y
       PROVE  /\ Further(y) # {}
              /\ Available(y.s) = {} => Further(y) = {y}
              /\ y \in Good /\ Available(y.s) # {} =>
                   \A x \in Further(y) : x.s.queued = y.s.queued - 1 /\ x.s.closed = y.s.closed
  BY <1>2, DispatchedKept, DispatchedSome
<1>4. Pumped(r) = IF r.s.closed THEN {r} ELSE h[K]
  BY DEF Pumped
<1> HIDE DEF K, Good, Further
<1>5. step \in [SUBSET Good -> SUBSET Good]
  BY <1>3
<1>6. PICK f \in [0..K -> SUBSET Good] : f[0] = {r} /\ \A n \in 1..K : f[n] = step[f[n - 1]]
  <2> DEFINE only == {r}
             Sets == SUBSET Good
  <2>1. only \in Sets /\ step \in [Sets -> Sets]
    BY <1>2, <1>5
  <2> HIDE DEF step, only, Sets
  <2>2. \E f : Repeats(f, K, Sets, only, step)
    BY <1>1, <2>1, Recursion
  <2> QED
    BY <2>2 DEF only, Sets, Repeats
<1>7. f = Rounds(f)
  <2>1. ASSUME NEW n \in 0..K, n # 0 PROVE f[n] = UNION {Further(y) : y \in f[n - 1]}
    <3>1. n \in 1..K /\ n - 1 \in 0..K
      BY <1>1, <2>1
    <3>2. f[n - 1] \in SUBSET Good
      BY <3>1
    <3> QED
      BY <1>6, <3>1, <3>2
  <2> QED
    BY <1>6, <2>1
<1>8. h = Rounds(h)
  BY <1>7
<1> HIDE DEF h
\* After n rounds nobody may start, or n turns have left their queues.
<1> DEFINE Ahead(n) == {y \in Good : /\ y.s.closed = r.s.closed
                                     /\ Available(y.s) = {} \/ y.s.queued <= r.s.queued - n}
           S == {n \in 0..K : ~(h[n] \subseteq Ahead(n) /\ h[n] # {})}
<1>13. \A y \in Good : y.s.queued \in Nat /\ y.s.queued <= K
  <2> TAKE y \in Good
  <2>1. PICK V \in SUBSET Turns : Agrees(y.s, V, R \cup y.started)
    BY <1>2 DEF Kept, Agrees
  <2>2. y.s.queued = Cardinality(V) /\ y.s.queued \in Nat
    BY <2>1 DEF Agrees, Schedulers
  <2> QED
    BY <2>2, FS_Subset, SchedulerAssumption DEF K
<1>9. S = {}
  <2> SUFFICES ASSUME S # {} PROVE FALSE
    OBVIOUS
  <2>1. /\ S \in SUBSET Nat /\ S \subseteq 0..K
        /\ \A n \in 0..K : n \in S <=> ~(h[n] \subseteq Ahead(n) /\ h[n] # {})
    <3> HIDE DEF Ahead
    <3> QED
      BY <1>1
  <2> HIDE DEF S
  <2>2. PICK k \in S : \A m \in S : k <= m
    BY <2>1, Smallest
  <2>3. k # 0
    <3>1. h[0] = {r}
      BY <1>1, <1>8
    <3>2. r \in Ahead(0)
      BY <1>2, <1>13
    <3> QED
      BY <1>1, <2>1, <3>1, <3>2
  <2>4. k \in 0..K /\ k - 1 \in 0..K /\ ~(k <= k - 1)
    BY <1>1, <2>1, <2>3
  <2>5. h[k - 1] \subseteq Ahead(k - 1) /\ h[k - 1] # {}
    BY <2>1, <2>2, <2>4
  <2>6. h[k] = UNION {Further(y) : y \in h[k - 1]}
    BY <1>8, <2>3, <2>4
  <2>7. h[k] # {}
    BY <1>12, <2>5, <2>6
  <2>8. ASSUME NEW y \in h[k - 1], NEW x \in Further(y) PROVE x \in Ahead(k)
    <3>1. /\ y \in Good /\ x \in Good /\ y.s.closed = r.s.closed
          /\ Available(y.s) = {} \/ y.s.queued <= r.s.queued - (k - 1)
      BY <1>3, <2>5, <2>8
    <3>2. CASE Available(y.s) = {}
      <4>1. x = y
        BY <1>12, <2>8, <3>2
      <4> QED
        BY <3>1, <3>2, <4>1
    <3>3. CASE Available(y.s) # {}
      <4>1. x.s.queued = y.s.queued - 1 /\ x.s.closed = y.s.closed
        BY <1>12, <2>8, <3>1, <3>3
      <4>2. k \in Nat /\ r.s.queued \in Nat /\ y.s.queued \in Nat
        BY <1>1, <1>2, <1>13, <2>4, <3>1
      <4> QED
        BY <3>1, <3>3, <4>1, <4>2
    <3> QED
      BY <3>2, <3>3
  <2> QED
    BY <2>1, <2>2, <2>4, <2>6, <2>7, <2>8
<1>10. K \in 0..K
  BY <1>1
<1>11. h[K] \subseteq Ahead(K) /\ h[K] # {}
  BY <1>9, <1>10
<1>14. ASSUME NEW x \in Ahead(K) PROVE Available(x.s) = {}
  <2> SUFFICES ASSUME Available(x.s) # {} PROVE FALSE
    OBVIOUS
  <2>1. x \in Good /\ x.s.queued = 0
    BY <1>1, <1>2, <1>13, <1>14
  <2>2. PICK V \in SUBSET Turns : Agrees(x.s, V, R \cup x.started)
    BY <1>2, <2>1 DEF Kept, Agrees
  <2>3. V = {}
    <3>1. IsFiniteSet(V) /\ Cardinality(V) = 0
      BY <2>1, <2>2, FS_Subset, SchedulerAssumption DEF Agrees
    <3> QED
      BY <3>1, FS_EmptySet
  <2>4. PICK c \in Channels : x.s.waiting[c] # <<>>
    BY DEF Available
  <2>5. Range(x.s.waiting[c]) = {} /\ x.s.waiting[c] \in Seq(Turns)
    BY <2>2, <2>3 DEF Agrees, InQueue, Schedulers
  <2> QED
    BY <2>4, <2>5, SomebodyAhead
<1> HIDE DEF Ahead
<1>15. Ahead(K) \subseteq Good /\ \A x \in Ahead(K) : x.s.closed = r.s.closed
  BY DEF Ahead
<1> QED
  BY <1>2, <1>4, <1>11, <1>14, <1>15

LEMMA RanKept ==
  ASSUME NEW s, NEW W, NEW R, Agrees(s, W, R), NEW t \in Turns \ W, NEW x \in Ran(s, t)
  PROVE  Kept(x, W \cup {t}, R, {t}) /\ (AllBusy(s) => AllBusy(x.s))
<1>1. CASE s.closed
  <2>1. x = [s |-> s, started |-> {}, dropped |-> {t}]
    BY <1>1 DEF Ran, Result
  <2>2. (W \cup {t}) \ ({} \cup {t}) = W /\ R \cup {} = R
    OBVIOUS
  <2>3. x \in Results
    BY <2>1 DEF Agrees, Results
  <2>4. x.s = s /\ x.started = {} /\ x.dropped = {t}
    BY <2>1
  <2> QED
    BY <2>2, <2>3, <2>4 DEF Kept
<1>2. CASE ~s.closed
  <2> DEFINE r == Submitted(s, t)
  <2>1. /\ Kept(r, W \cup {t}, R, {t}) /\ r.s.closed = s.closed
        /\ Available(s) = {} /\ t \in r.dropped => Available(r.s) = {}
    BY SubmittedKept
  <2>2. IF t \in r.dropped THEN x = r ELSE x \in Pumped(r)
    BY <1>2 DEF Ran
  <2> HIDE DEF r
  <2> QED
    BY <1>2, <2>1, <2>2, PumpedKept DEF AllBusy
<1> QED
  BY <1>1, <1>2

LEMMA FinishedKept ==
  ASSUME NEW s, NEW W, NEW R, Agrees(s, W, R), NEW t \in R
  PROVE  /\ Finished(s, ChannelOf[t]) # {}
         /\ \A x \in Finished(s, ChannelOf[t]) :
              Kept(x, W, R \ {t}, {}) /\ (AllBusy(s) => AllBusy(x.s))
<1> DEFINE p == [s EXCEPT !.running = @ \ {ChannelOf[t]}]
           r == Result(p)
<1>1. s \in Schedulers
  BY DEF Agrees
<1>2. /\ p \in Schedulers /\ p.order = s.order /\ p.waiting = s.waiting /\ p.queued = s.queued
      /\ p.running = s.running \ {ChannelOf[t]} /\ p.closed = s.closed
  BY <1>1 DEF Schedulers
<1>3. Finished(s, ChannelOf[t]) = Pumped(r)
  BY DEF Finished
<1> HIDE DEF p
<1>4. p.running = {ChannelOf[u] : u \in R \ {t}}
  BY <1>2 DEF Agrees
<1>5. \A c \in Channels : InQueue(p, W, c)
  BY <1>2 DEF Agrees, InQueue
<1>6. Agrees(p, W, R \ {t})
  BY <1>2, <1>4, <1>5 DEF Agrees
<1>7. r \in Results /\ r.s = p /\ r.started = {} /\ r.dropped = {}
  BY <1>2 DEF Result, Results
<1> HIDE DEF r
<1>8. W \ (r.started \cup r.dropped) = W /\ (R \ {t}) \cup r.started = R \ {t}
  BY <1>7
<1>9. Kept(r, W, R \ {t}, {})
  BY <1>6, <1>7, <1>8 DEF Kept
<1>10. CASE s.closed
  <2>1. Pumped(r) = {r}
    BY <1>2, <1>7, <1>10 DEF Pumped
  <2>2. AllBusy(s) => AllBusy(p)
    <3>1. s.order = <<>> => \A c : ~Contains(p.order, c)
      BY <1>2, EmptySeq DEF Contains
    <3> QED
      BY <1>2, <1>10, <3>1 DEF AllBusy, Available
  <2> QED
    BY <1>3, <1>7, <1>9, <2>1, <2>2
<1>11. CASE ~s.closed
  BY <1>2, <1>3, <1>7, <1>9, <1>11, PumpedKept DEF AllBusy
<1> QED
  BY <1>10, <1>11

\* Stopping empties the queues.
LEMMA StoppedKept ==
  ASSUME NEW s, NEW W, NEW R, Agrees(s, W, R)
  PROVE  /\ Stopped(s).s.closed /\ Stopped(s).started = {}
         /\ Agrees(Stopped(s).s, W \ Stopped(s).dropped, R) /\ AllBusy(Stopped(s).s)
<1> DEFINE x == Stopped(s)
           p == [s EXCEPT !.closed = TRUE, !.order = <<>>, !.queued = 0,
                          !.waiting = [c \in Channels |-> <<>>]]
           D == UNION {Range(s.waiting[c]) : c \in Channels}
<1>1. s \in Schedulers /\ W \subseteq Turns
  BY DEF Agrees
<1>2. x.s = p /\ x.started = {} /\ x.dropped = D
  BY DEF Stopped, Result
<1>3. <<>> \in Seq(Channels) /\ <<>> \in Seq(Turns) /\ Len(<<>>) = 0 /\ Range(<<>>) = {}
  BY EmptySeq, LenProperties DEF Range
<1>4. /\ p \in Schedulers /\ p.order = <<>> /\ p.waiting = [c \in Channels |-> <<>>]
      /\ p.running = s.running /\ p.queued = 0 /\ p.closed = TRUE
  <2> DEFINE none == [c \in Channels |-> <<>>]
             nobody == <<>>
             yes == TRUE
             q == [s EXCEPT !.closed = yes, !.order = nobody, !.queued = 0, !.waiting = none]
  <2>1. p = q /\ none \in [Channels -> Seq(Turns)] /\ nobody \in Seq(Channels) /\ yes \in BOOLEAN
    BY <1>3
  <2> HIDE DEF none, nobody, yes, p
  <2>2. /\ q.order = nobody /\ q.waiting = none /\ q.running = s.running
        /\ q.queued = 0 /\ q.closed = yes
    BY <1>1 DEF Schedulers
  <2>3. q \in Schedulers
    BY <1>1, <2>1 DEF Schedulers
  <2> QED
    BY <2>1, <2>2, <2>3 DEF none, nobody, yes
<1>5. W \ D = {}
  <2> SUFFICES ASSUME NEW t \in W PROVE t \in D
    OBVIOUS
  <2>1. ChannelOf[t] \in Channels
    BY <1>1, SchedulerAssumption
  <2>2. t \in Range(s.waiting[ChannelOf[t]])
    BY <2>1 DEF Agrees, InQueue
  <2> QED
    BY <2>1, <2>2
<1> HIDE DEF x, p, D
<1>7. ASSUME NEW c \in Channels PROVE InQueue(p, {}, c)
  BY <1>3, <1>4, SchedulerAssumption DEF InQueue, Once
<1>8. Cardinality({}) = 0 /\ 0 <= MaxPendingGlobal
  BY FS_EmptySet, SchedulerAssumption
<1>9. Agrees(p, {}, R)
  BY <1>4, <1>7, <1>8 DEF Agrees
<1>10. x.s.closed
  BY <1>2, <1>4
<1>11. W \ x.dropped = {}
  BY <1>2, <1>5
<1>12. AllBusy(p)
  <2>1. \A c : ~Contains(p.order, c)
    BY <1>3, <1>4 DEF Contains
  <2> QED
    BY <1>4, <2>1 DEF AllBusy, Available
<1> QED
  BY <1>2, <1>9, <1>10, <1>11, <1>12 DEF x

-----------------------------------------------------------------------------
(* The books, step by step.                                                *)

Running == {t \in Turns : phase[t] \notin {"new", "waiting", "ended"}}

BooksInv ==
  /\ Inv /\ Agrees(sched, Waiting, Running) /\ AllBusy(sched)
  /\ told \subseteq Turns /\ version \in 0..MaxForgets /\ seen \in [Turns -> 0..MaxForgets]

\* A step of the scheduler leaves the books in order, and turns that waited wait
\* on, start or were dropped.
LEMMA ScheduledBooks ==
  ASSUME NEW r, NEW now \in [Turns -> Phases], NEW W, W = {t \in Turns : now[t] = "waiting"},
         NEW R, R = {t \in Turns : now[t] \notin {"new", "waiting", "ended"}},
         Agrees(r.s, W \ (r.started \cup r.dropped), R \cup r.started), r.started \subseteq W,
         Scheduled(r, now)
  PROVE  /\ Agrees(sched, Waiting, Running)'
         /\ \A t \in Turns : now[t] = "waiting" /\ phase'[t] # "waiting" /\ t \notin r.dropped
                              => phase'[t] = "opening"
<1>1. sched' = r.s
  BY DEF Scheduled
<1>2. \A t \in Turns : phase'[t] = IF now[t] # "waiting" THEN now[t]
                                   ELSE IF t \in r.started THEN "opening"
                                   ELSE IF t \in r.dropped THEN "ended" ELSE "waiting"
  BY DEF Scheduled
<1>3. Waiting' = W \ (r.started \cup r.dropped)
  BY <1>2 DEF Waiting
<1>4. Running' = R \cup r.started
  BY <1>2 DEF Running
<1> QED
  BY <1>1, <1>2, <1>3, <1>4

LEMMA AskBooks ==
  ASSUME BooksInv, NEW t \in Turns, Ask(t)
  PROVE  /\ Agrees(sched, Waiting, Running)' /\ AllBusy(sched)'
         /\ \A u \in Turns \ Optional : phase[u] = "waiting" /\ phase'[u] # "waiting"
                                          => phase'[u] = "opening"
<1> DEFINE now == [phase EXCEPT ![t] = "waiting"]
<1>1. /\ phase \in [Turns -> Phases] /\ phase[t] = "new" /\ Agrees(sched, Waiting, Running)
      /\ "waiting" \in Phases
  BY DEF BooksInv, Inv, Typed, Ask, Phases
<1>2. /\ now \in [Turns -> Phases] /\ now[t] = "waiting"
      /\ \A u \in Turns \ {t} : now[u] = phase[u]
  BY <1>1
<1>3. PICK r \in Ran(sched, t) : Scheduled(r, now)
  BY DEF Ask
<1> HIDE DEF now
<1>4. t \in Turns \ Waiting
  BY <1>1 DEF Waiting
<1>5. Kept(r, Waiting \cup {t}, Running, {t}) /\ AllBusy(r.s)
  BY <1>1, <1>3, <1>4, RanKept DEF BooksInv
<1>6. /\ Waiting \cup {t} = {u \in Turns : now[u] = "waiting"}
      /\ Running = {u \in Turns : now[u] \notin {"new", "waiting", "ended"}}
  BY <1>1, <1>2 DEF Waiting, Running
<1>7. /\ Agrees(r.s, (Waiting \cup {t}) \ (r.started \cup r.dropped), Running \cup r.started)
      /\ r.started \subseteq Waiting \cup {t} /\ r.dropped \subseteq Optional \cup {t}
  BY <1>5 DEF Kept
<1>8. /\ Agrees(sched, Waiting, Running)'
      /\ \A u \in Turns : now[u] = "waiting" /\ phase'[u] # "waiting" /\ u \notin r.dropped
                           => phase'[u] = "opening"
  BY <1>2, <1>3, <1>6, <1>7, ScheduledBooks
<1>9. AllBusy(sched)'
  BY <1>3, <1>5 DEF Scheduled
<1> QED
  BY <1>1, <1>2, <1>7, <1>8, <1>9

LEMMA CloseBooks ==
  ASSUME BooksInv, NEW t \in Turns, Close(t)
  PROVE  /\ Agrees(sched, Waiting, Running)' /\ AllBusy(sched)'
         /\ \A u \in Turns \ Optional : phase[u] = "waiting" /\ phase'[u] # "waiting"
                                          => phase'[u] = "opening"
<1> DEFINE now == [phase EXCEPT ![t] = "ended"]
<1>1. /\ phase \in [Turns -> Phases] /\ phase[t] = "leaving" /\ Agrees(sched, Waiting, Running)
      /\ "ended" \in Phases
  BY DEF BooksInv, Inv, Typed, Close, Phases
<1>2. /\ now \in [Turns -> Phases] /\ now[t] = "ended"
      /\ \A u \in Turns \ {t} : now[u] = phase[u]
  BY <1>1
<1>3. PICK r \in Finished(sched, ChannelOf[t]) : Scheduled(r, now)
  BY DEF Close
<1> HIDE DEF now
<1>4. t \in Running
  BY <1>1 DEF Running
<1>5. Kept(r, Waiting, Running \ {t}, {}) /\ AllBusy(r.s)
  BY <1>1, <1>3, <1>4, FinishedKept DEF BooksInv
<1>6. /\ Waiting = {u \in Turns : now[u] = "waiting"}
      /\ Running \ {t} = {u \in Turns : now[u] \notin {"new", "waiting", "ended"}}
  BY <1>1, <1>2 DEF Waiting, Running
<1>7. /\ Agrees(r.s, Waiting \ (r.started \cup r.dropped), (Running \ {t}) \cup r.started)
      /\ r.started \subseteq Waiting /\ r.dropped \subseteq Optional
  BY <1>5 DEF Kept
<1>8. /\ Agrees(sched, Waiting, Running)'
      /\ \A u \in Turns : now[u] = "waiting" /\ phase'[u] # "waiting" /\ u \notin r.dropped
                           => phase'[u] = "opening"
  BY <1>2, <1>3, <1>6, <1>7, ScheduledBooks
<1>9. AllBusy(sched)'
  BY <1>3, <1>5 DEF Scheduled
<1> QED
  BY <1>1, <1>2, <1>7, <1>8, <1>9

LEMMA StopBooks ==
  ASSUME BooksInv, Stop
  PROVE  Agrees(sched, Waiting, Running)' /\ AllBusy(sched)' /\ sched'.closed
<1> DEFINE r == Stopped(sched)
<1>1. phase \in [Turns -> Phases] /\ Agrees(sched, Waiting, Running) /\ Scheduled(r, phase)
  BY DEF BooksInv, Inv, Typed, Stop
<1>2. /\ r.s.closed /\ r.started = {} /\ Agrees(r.s, Waiting \ r.dropped, Running)
      /\ AllBusy(r.s)
  BY <1>1, StoppedKept
<1> HIDE DEF r
<1>3. /\ Agrees(r.s, Waiting \ (r.started \cup r.dropped), Running \cup r.started)
      /\ r.started \subseteq Waiting
  <2>1. r.started \cup r.dropped = r.dropped /\ Running \cup r.started = Running
    BY <1>2
  <2> QED
    BY <1>2, <2>1
<1>4. Agrees(sched, Waiting, Running)'
  BY <1>1, <1>3, ScheduledBooks DEF Waiting, Running
<1> QED
  BY <1>1, <1>2, <1>4 DEF Scheduled

\* The other steps are no business of the scheduler.
LEMMA ElsewhereBooks ==
  ASSUME BooksInv, Next, ~Stop, \A t \in Turns : ~Ask(t) /\ ~Close(t)
  PROVE  /\ UNCHANGED <<sched, Waiting, Running>>
         /\ \A u \in Turns : phase[u] = "waiting" => phase'[u] = "waiting"
<1> DEFINE inside == Phases \ {"new", "waiting", "ended"}
<1>1. phase \in [Turns -> Phases]
  BY DEF BooksInv, Inv, Typed
<1>2. ASSUME NEW t \in Turns, TurnStep(t)
      PROVE  UNCHANGED sched /\ phase[t] \in inside /\ phase'[t] \in inside
             /\ \A u \in Turns \ {t} : phase'[u] = phase[u]
  <2>1. CASE Decline(t) \/ Open(t) \/ LineUp(t) \/ TakeTurn(t) \/ Reserve(t)
    BY <1>1, <2>1 DEF Decline, Open, LineUp, TakeTurn, Reserve, Goes, TurnOver, Phases, Underway
  <2>2. CASE SaysNothing(t) \/ Replies(t) \/ SentOnly(t) \/ Sent(t) \/ Commit(t)
    BY <1>1, <2>2 DEF SaysNothing, Replies, SentOnly, Sent, Commit, Goes, TurnOver, Phases,
                     Underway
  <2> QED
    BY <1>2, <2>1, <2>2 DEF TurnStep
<1>3. CASE \E t \in Turns : TurnStep(t)
  BY <1>1, <1>2, <1>3 DEF Waiting, Running
<1>4. CASE \E t \in Turns : Extract(t)
  BY <1>4 DEF Extract, Waiting, Running
<1>5. CASE Drained \/ DrainTimesOut \/ Clear \/ \E u \in Users : Forget(u)
  BY <1>5 DEF Drained, DrainTimesOut, Clear, Forget, Waiting, Running
<1> QED
  BY <1>3, <1>4, <1>5 DEF Next

LEMMA CountsStep ==
  ASSUME BooksInv, Next
  PROVE  (told \subseteq Turns /\ version \in 0..MaxForgets /\ seen \in [Turns -> 0..MaxForgets])'
<1> USE DEF BooksInv
<1>1. CASE Stop \/ \E t \in Turns : Ask(t) \/ Close(t)
  BY <1>1 DEF Stop, Ask, Close, forgetting
<1>2. ASSUME NEW t \in Turns, TurnStep(t), ~Close(t)
      PROVE  (told \subseteq Turns /\ version \in 0..MaxForgets /\ seen \in [Turns -> 0..MaxForgets])'
  <2>1. CASE Decline(t) \/ Open(t) \/ LineUp(t) \/ TakeTurn(t) \/ Reserve(t)
    BY <2>1 DEF Decline, Open, LineUp, TakeTurn, Reserve, TurnOver, forgetting
  <2>2. CASE SaysNothing(t) \/ Replies(t) \/ SentOnly(t) \/ Sent(t) \/ Commit(t)
    BY <2>2 DEF SaysNothing, Replies, SentOnly, Sent, Commit, TurnOver, forgetting
  <2> QED
    BY <1>2, <2>1, <2>2 DEF TurnStep
<1>3. CASE \E t \in Turns : Extract(t)
  BY <1>3 DEF Extract, forgetting
<1>4. CASE Drained \/ DrainTimesOut \/ Clear
  BY <1>4 DEF Drained, DrainTimesOut, Clear
<1>5. CASE \E u \in Users : Forget(u)
  BY <1>5, TurnsAssumption DEF Forget
<1> QED
  BY <1>1, <1>2, <1>3, <1>4, <1>5 DEF Next

LEMMA InitBooks == Init => BooksInv
<1> SUFFICES ASSUME Init PROVE BooksInv
  OBVIOUS
<1>1. Inv /\ told \subseteq Turns /\ version \in 0..MaxForgets /\ seen \in [Turns -> 0..MaxForgets]
  BY InitHolds, TurnsAssumption DEF Init
<1>2. Waiting = {} /\ Running = {}
  BY DEF Init, Waiting, Running
<1>3. <<>> \in Seq(Channels) /\ <<>> \in Seq(Turns) /\ Len(<<>>) = 0 /\ Range(<<>>) = {}
  BY EmptySeq, LenProperties DEF Range
<1>4. sched \in Schedulers
  BY <1>3 DEF Init, NothingPending, Schedulers
<1>5. ASSUME NEW c \in Channels PROVE InQueue(sched, {}, c)
  BY <1>3, SchedulerAssumption DEF Init, NothingPending, InQueue, Once
<1>6. Cardinality({}) = 0 /\ 0 <= MaxPendingGlobal
  BY FS_EmptySet, SchedulerAssumption
<1>7. Agrees(sched, {}, {})
  BY <1>4, <1>5, <1>6 DEF Init, NothingPending, Agrees
<1>8. AllBusy(sched)
  BY DEF Init, NothingPending, AllBusy, Available
<1> QED
  BY <1>1, <1>2, <1>7, <1>8 DEF BooksInv

LEMMA NextKeepsBooks == BooksInv /\ [Next]_vars => BooksInv'
<1> SUFFICES ASSUME BooksInv, [Next]_vars PROVE BooksInv'
  OBVIOUS
<1>1. CASE Next
  <2>1. Agrees(sched, Waiting, Running)' /\ AllBusy(sched)'
    <3>1. CASE Stop \/ \E t \in Turns : Ask(t) \/ Close(t)
      BY <3>1, StopBooks, AskBooks, CloseBooks
    <3>2. CASE ~Stop /\ \A t \in Turns : ~Ask(t) /\ ~Close(t)
      <4>1. UNCHANGED <<sched, Waiting, Running>>
        BY <1>1, <3>2, ElsewhereBooks
      <4>2. Agrees(sched, Waiting, Running) /\ AllBusy(sched)
        BY DEF BooksInv
      <4> QED
        BY <4>1, <4>2
    <3> QED
      BY <3>1, <3>2
  <2>2. Inv'
    BY NextKeepsInv DEF BooksInv
  <2> QED
    BY <1>1, <2>1, <2>2, CountsStep DEF BooksInv
<1>2. CASE UNCHANGED vars
  <2>1. UNCHANGED <<sched, Waiting, Running, told, version, seen>>
    BY <1>2 DEF vars, Waiting, Running
  <2>2. Inv'
    BY NextKeepsInv DEF BooksInv
  <2> QED
    BY <2>1, <2>2 DEF BooksInv
<1> QED
  BY <1>1, <1>2

LEMMA BooksMean == BooksInv => BooksBalance
<1> SUFFICES ASSUME BooksInv PROVE BooksBalance
  OBVIOUS
<1>1. Inv /\ Typed /\ Agrees(sched, Waiting, Running) /\ sched \in Schedulers
  BY DEF BooksInv, Inv, Agrees
<1>2. line \in Queue!Lines
  BY <1>1 DEF Inv, Serial!Orderly, Serial!Lines, Queue!Lines, Callers
<1>3. TypeOK
  BY <1>1, <1>2 DEF BooksInv, TypeOK, Typed, Schedulers
<1>4. sched.queued = Cardinality(Waiting) /\ sched.queued <= MaxPendingGlobal
  BY <1>1 DEF Agrees
<1>5. ASSUME NEW c \in Channels
      PROVE  /\ Len(sched.waiting[c]) <= MaxPendingPerChannel
             /\ Len(sched.waiting[c]) > 0 => Contains(sched.order, c)
             /\ Cardinality(Range(sched.waiting[c])) = Len(sched.waiting[c])
             /\ Range(sched.waiting[c]) = {t \in Waiting : ChannelOf[t] = c}
  <2>1. InQueue(sched, Waiting, c) /\ sched.waiting[c] \in Seq(Turns)
    BY <1>1 DEF Agrees, Schedulers
  <2>2. Len(sched.waiting[c]) > 0 => sched.waiting[c] # <<>>
    BY <2>1, EmptySeq
  <2> QED
    BY <2>1, <2>2, LengthCounts DEF InQueue
<1>6. ASSUME NEW c \in Channels
      PROVE  Cardinality({t \in Turns : ChannelOf[t] = c /\ phase[t] \notin {"new", "waiting", "ended"}})
               = IF c \in sched.running THEN 1 ELSE 0
  <2> DEFINE here == {t \in Turns : /\ ChannelOf[t] = c
                                    /\ phase[t] \notin {"new", "waiting", "ended"}}
  <2>1. here = {t \in Running : ChannelOf[t] = c}
    BY DEF Running
  <2> HIDE DEF here
  <2>2. CASE c \in sched.running
    <3>1. PICK t \in Running : ChannelOf[t] = c
      BY <1>1, <2>2 DEF Agrees
    <3>2. here = {t}
      BY <1>1, <2>1, <3>1 DEF Agrees
    <3> QED
      BY <2>2, <3>2, FS_Singleton DEF here
  <2>3. CASE c \notin sched.running
    <3>1. here = {}
      BY <1>1, <2>1, <2>3 DEF Agrees
    <3> QED
      BY <2>3, <3>1, FS_EmptySet DEF here
  <2> QED
    BY <2>2, <2>3
<1> QED
  BY <1>3, <1>4, <1>5, <1>6 DEF BooksBalance

\* The counters, queues and running channels of the scheduler agree with the turns
\* that wait and run, through every splice of run, pump and stop
\* (chat-scheduler.ts).
THEOREM BooksAlwaysBalance == Spec => []BooksBalance
  BY InitBooks, NextKeepsBooks, BooksMean, PTL DEF Spec

\* A question that was accepted starts or is turned away by stop(), and nothing
\* else takes it out of its queue (run and pump of chat-scheduler.ts).
THEOREM NoQuestionIsShed == Spec => QuestionsAreKept
<1> DEFINE Step == \A t \in Turns \ Optional :
                     phase[t] = "waiting" /\ phase'[t] # "waiting"
                       => phase'[t] = "opening" \/ sched'.closed
<1>1. BooksInv /\ [Next]_vars => [Step]_vars
  <2> SUFFICES ASSUME BooksInv, Next PROVE Step
    OBVIOUS
  <2>1. CASE Stop
    BY <2>1, StopBooks
  <2>2. CASE \E t \in Turns : Ask(t) \/ Close(t)
    BY <2>2, AskBooks, CloseBooks
  <2>3. CASE ~Stop /\ \A t \in Turns : ~Ask(t) /\ ~Close(t)
    BY <2>3, ElsewhereBooks
  <2> QED
    BY <2>1, <2>2, <2>3
<1> QED
  BY <1>1, InitBooks, NextKeepsBooks, PTL DEF Spec, QuestionsAreKept

-----------------------------------------------------------------------------
(* Why nobody is stuck.                                                    *)

\* An extraction whose turn is over has been told.
ToldWhenOver == \A t \in background : phase[t] \in {"leaving", "ended"} => t \in told

ServiceInv == BooksInv /\ ToldWhenOver

LEMMA ToldStep ==
  ASSUME ServiceInv, Next
  PROVE  ToldWhenOver'
<1> USE DEF ToldWhenOver
<1>0. /\ Typed /\ ToldWhenOver /\ background \subseteq Turns /\ \A u \in Turns : InPlace(u)
      /\ phase \in [Turns -> Phases]
  BY DEF ServiceInv, BooksInv, Inv, Typed
<1>1. \A u \in background : phase[u] \in Replying \cup {"leaving", "ended"}
  BY <1>0 DEF InPlace
<1>2. CASE Stop \/ \E t \in Turns : Ask(t) \/ Close(t)
  <2>1. UNCHANGED told
    BY <1>2 DEF Stop, Ask, Close
  <2> QED
    BY <1>0, <1>1, <1>2, <2>1, SchedulerSteps DEF Replying
<1>3. ASSUME NEW t \in Turns, Decline(t) \/ Open(t) \/ LineUp(t) \/ TakeTurn(t) PROVE ToldWhenOver'
  <2>1. /\ UNCHANGED background /\ told \subseteq told'
        /\ phase[t] \in {"opening", "opened", "lined"}
        /\ \A u \in Turns \ {t} : phase'[u] = phase[u]
    BY <1>0, <1>3 DEF Decline, Open, LineUp, TakeTurn, Goes, TurnOver
  <2>2. t \notin background
    BY <1>1, <2>1 DEF Replying
  <2> QED
    BY <1>0, <2>1, <2>2
<1>4. ASSUME NEW t \in Turns, Reserve(t) \/ Replies(t) \/ Sent(t) PROVE ToldWhenOver'
  BY <1>0, <1>4 DEF Reserve, Replies, Sent, Goes
<1>5. ASSUME NEW t \in Turns, SaysNothing(t) \/ SentOnly(t) \/ Commit(t) PROVE ToldWhenOver'
  BY <1>0, <1>5 DEF SaysNothing, SentOnly, Commit, Goes, TurnOver
<1>6. ASSUME NEW t \in Turns, Extract(t) PROVE ToldWhenOver'
  BY <1>0, <1>6 DEF Extract
<1>7. CASE Drained \/ DrainTimesOut \/ Clear \/ \E u \in Users : Forget(u)
  BY <1>0, <1>7 DEF Drained, DrainTimesOut, Clear, Forget
<1> QED
  BY <1>2, <1>3, <1>4, <1>5, <1>6, <1>7 DEF Next, TurnStep

LEMMA ServiceHolds == Spec => []ServiceInv
<1>1. Init => ServiceInv
  BY InitBooks DEF Init, ServiceInv, ToldWhenOver
<1>2. ServiceInv /\ [Next]_vars => ServiceInv'
  <2>1. ServiceInv /\ UNCHANGED vars => ToldWhenOver'
    BY DEF ServiceInv, ToldWhenOver, vars
  <2> QED
    BY <2>1, NextKeepsBooks, ToldStep DEF ServiceInv
<1> QED
  BY <1>1, <1>2, PTL DEF Spec

\* Whoever lines up for a person waits for somebody who can go on.
LEMMA LinesMove ==
  ASSUME ServiceInv, NEW c \in Callers, line.prev[c] # Out
  PROVE  \E t \in Turns : CanGoOn(t)
<1>0. /\ Serial!Orderly(line) /\ ToldWhenOver /\ background \subseteq Turns
      /\ \A u \in Turns : InPlace(u)
  BY DEF ServiceInv, BooksInv, Inv, Typed
<1>1. PICK d \in Callers : Serial!HasTurn(line, d)
  BY <1>0, ApartIs, Serial!SomebodysTurn
<1>2. line.prev[d] = None /\ None # Out
  BY <1>1, TurnsAssumption DEF Serial!HasTurn
<1>3. CASE d \in Turns
  <2>1. phase[d] \in InLine
    BY <1>0, <1>2, <1>3 DEF InPlace
  <2> QED
    BY <1>2, <1>3, <2>1 DEF CanGoOn, InLine, Queue!HasTurn
<1>4. ASSUME NEW u \in Turns, d = Extraction(u) PROVE \E t \in Turns : CanGoOn(t)
  <2>1. u \in background /\ phase[u] \in Replying \cup {"leaving", "ended"}
    BY <1>0, <1>2, <1>4 DEF InPlace
  <2>2. CASE phase[u] \in Replying
    BY <2>2 DEF CanGoOn, Replying, Underway
  <2>3. CASE phase[u] \in {"leaving", "ended"}
    <3>1. u \in background \cap told /\ Queue!HasTurn(line, Extraction(u))
      BY <1>0, <1>2, <1>4, <2>1, <2>3 DEF ToldWhenOver, Queue!HasTurn
    <3> QED
      BY <3>1 DEF CanGoOn
  <2> QED
    BY <2>1, <2>2, <2>3
<1> QED
  BY <1>3, <1>4 DEF Callers

\* Where no turn runs, none waits.
LEMMA IdleMeansEmpty ==
  ASSUME BooksInv, Running = {}
  PROVE  Waiting = {}
<1> SUFFICES ASSUME NEW t \in Waiting PROVE FALSE
  OBVIOUS
<1> DEFINE c == ChannelOf[t]
<1>1. Agrees(sched, Waiting, {}) /\ Available(sched) = {} /\ sched \in Schedulers
  BY DEF BooksInv, AllBusy, Agrees
<1>2. c \in Channels /\ sched.running = {}
  BY <1>1, SchedulerAssumption DEF Agrees
<1>3. /\ sched.waiting[c] \in Seq(Turns) /\ t \in Range(sched.waiting[c])
      /\ InQueue(sched, Waiting, c)
  BY <1>1, <1>2 DEF Agrees, InQueue, Schedulers
<1>4. sched.waiting[c] # <<>>
  <2>1. Range(<<>>) = {}
    BY LenProperties, EmptySeq DEF Range
  <2> QED
    BY <1>3, <2>1
<1>5. Contains(sched.order, c)
  BY <1>3, <1>4 DEF InQueue
<1>6. RunningIn(sched, GuildOf[c]) = 0
  BY <1>2, FS_EmptySet DEF RunningIn
<1>7. Concurrency[Head(sched.waiting[c])] \in Nat \ {0}
  BY <1>3, <1>4, SomebodyAhead, SchedulerAssumption
<1>8. c \in Available(sched)
  BY <1>2, <1>4, <1>5, <1>6, <1>7 DEF Available
<1> QED
  BY <1>1, <1>8

\* No turn that may start waits, and the scheduler, the queues of the people and
\* the extractions never wait for each other in a circle (pump of
\* chat-scheduler.ts, keyed-serial-queue.ts, and the early reservation in
\* chat-conversation-service.ts).
THEOREM NobodyIsEverStuck == Spec => []NobodyIsStuck
<1>1. ServiceInv => NobodyIsStuck
  <2> SUFFICES ASSUME ServiceInv PROVE NobodyIsStuck
    OBVIOUS
  <2>0. /\ BooksInv /\ phase \in [Turns -> Phases] /\ background \subseteq Turns
        /\ \A u \in Turns : InPlace(u)
    BY DEF ServiceInv, BooksInv, Inv, Typed
  <2>1. Available(sched) = {}
    BY <2>0 DEF BooksInv, AllBusy
  <2>2. ASSUME NEW t \in background PROVE \E u \in Turns : CanGoOn(u)
    BY <2>0, <2>2, ApartIs, LinesMove DEF InPlace
  <2>3. ASSUME NEW t \in Running PROVE \E u \in Turns : CanGoOn(u)
    <3>1. t \in Turns /\ phase[t] \in {"opening", "opened", "lined", "leaving"} \cup Underway
      BY <2>0 DEF Running, Phases
    <3>2. CASE phase[t] \in {"opening", "opened"} \cup Underway
      BY <3>1, <3>2 DEF CanGoOn
    <3>3. CASE phase[t] = "lined"
      BY <2>0, <3>1, <3>3, ApartIs, LinesMove DEF InPlace, InLine
    <3>4. CASE phase[t] = "leaving"
      <4>1. Finished(sched, ChannelOf[t]) # {}
        BY <2>0, FinishedKept DEF BooksInv
      <4> QED
        BY <3>1, <3>4, <4>1 DEF CanGoOn
    <3> QED
      BY <3>1, <3>2, <3>3, <3>4
  <2>4. CASE Running = {} /\ background = {}
    <3>1. Waiting = {}
      BY <2>0, <2>4, IdleMeansEmpty
    <3>2. \A t \in Turns : phase[t] \in {"new", "ended"}
      BY <2>0, <2>4, <3>1 DEF Waiting, Running
    <3> QED
      BY <2>1, <2>4, <3>2 DEF NobodyIsStuck
  <2> QED
    BY <2>1, <2>2, <2>3, <2>4 DEF NobodyIsStuck
<1> QED
  BY <1>1, ServiceHolds, PTL

-----------------------------------------------------------------------------
(* What every step uses up.                                                *)

Stage(p) == CASE p = "new" -> 0 [] p = "waiting" -> 1 [] p = "opening" -> 2
              [] p = "opened" -> 3 [] p = "lined" -> 4 [] p = "checking" -> 5
              [] p = "thinking" -> 6 [] p = "sending" -> 7 [] p = "committing" -> 8
              [] p = "leaving" -> 9 [] OTHER -> 10

\* How far a turn has come, and its extraction.
Progress(t) == 2 * Stage(phase[t]) + IF t \in background THEN 0 ELSE 1

LEMMA Further ==
  ASSUME Inv, Next, NEW t \in Turns
  PROVE  /\ Progress(t) \in 0..21 /\ Progress(t)' >= Progress(t)
         /\ Ask(t) \/ TurnStep(t) \/ Extract(t) => Progress(t)' > Progress(t)
<1>0. phase \in [Turns -> Phases] /\ Typed /\ InPlace(t)
  BY DEF Inv, Typed
<1>1. Progress(t) \in 0..21
  BY DEF Progress, Stage
<1>2. ASSUME Ask(t) PROVE Progress(t)' > Progress(t)
  <2>1. /\ phase[t] = "new" /\ UNCHANGED background
        /\ phase'[t] \in {"waiting", "opening", "ended"}
    BY <1>0, <1>2 DEF Ask, Scheduled
  <2> QED
    BY <2>1 DEF Progress, Stage
<1>3. ASSUME Close(t) PROVE Progress(t)' > Progress(t)
  <2>1. phase[t] = "leaving" /\ UNCHANGED background /\ phase'[t] = "ended"
    BY <1>0, <1>3 DEF Close, Scheduled
  <2> QED
    BY <2>1 DEF Progress, Stage
<1>4. ASSUME Reserve(t) PROVE Progress(t)' > Progress(t)
  <2>1. phase[t] = "checking" /\ phase'[t] = "thinking"
    BY <1>0, <1>4 DEF Reserve, Goes
  <2> QED
    BY <2>1 DEF Progress, Stage
<1>5. ASSUME TurnStep(t), ~Reserve(t), ~Close(t) PROVE Progress(t)' > Progress(t)
  <2>1. /\ UNCHANGED background
        /\ \/ phase[t] = "opening" /\ phase'[t] \in {"opened", "leaving"}
           \/ phase[t] = "opened" /\ phase'[t] \in {"lined", "leaving"}
           \/ phase[t] = "lined" /\ phase'[t] \in {"checking", "leaving"}
           \/ phase[t] = "thinking" /\ phase'[t] \in {"sending", "leaving"}
           \/ phase[t] = "sending" /\ phase'[t] \in {"committing", "leaving"}
           \/ phase[t] = "committing" /\ phase'[t] = "leaving"
    <3>1. CASE Decline(t) \/ Open(t) \/ LineUp(t) \/ TakeTurn(t)
      BY <1>0, <3>1 DEF Decline, Open, LineUp, TakeTurn, Goes, TurnOver
    <3>2. CASE SaysNothing(t) \/ Replies(t) \/ SentOnly(t) \/ Sent(t) \/ Commit(t)
      BY <1>0, <3>2 DEF SaysNothing, Replies, SentOnly, Sent, Commit, Goes, TurnOver
    <3> QED
      BY <1>5, <3>1, <3>2 DEF TurnStep
  <2> QED
    BY <2>1 DEF Progress, Stage
<1>6. ASSUME Extract(t) PROVE Progress(t)' > Progress(t)
  <2>1. t \in background /\ t \notin background' /\ UNCHANGED phase
    BY <1>6 DEF Extract
  <2> QED
    BY <2>1 DEF Progress, Stage
<1>7. ASSUME NEW u \in Turns \ {t}, TurnStep(u) \/ Extract(u), ~Close(u)
      PROVE  Progress(t)' = Progress(t)
  <2>1. phase'[t] = phase[t] /\ (t \in background' <=> t \in background)
    BY <1>0, <1>7 DEF TurnStep, Decline, Open, LineUp, TakeTurn, Reserve, SaysNothing, Replies,
                     SentOnly, Sent, Commit, Goes, TurnOver, Extract
  <2> QED
    BY <2>1 DEF Progress
<1>8. ASSUME Stop \/ \E u \in Turns : Ask(u) \/ Close(u) PROVE Progress(t)' >= Progress(t)
  <2>1. /\ UNCHANGED background
        /\ \/ phase'[t] = phase[t]
           \/ phase[t] \in {"new", "waiting"} /\ phase'[t] \in {"waiting", "opening", "ended"}
           \/ phase[t] = "leaving" /\ phase'[t] = "ended"
    BY <1>0, <1>8, SchedulerSteps
  <2>2. Stage(phase'[t]) >= Stage(phase[t])
    BY <2>1 DEF Stage
  <2>3. Stage(phase'[t]) \in 0..10 /\ Stage(phase[t]) \in 0..10
    BY DEF Stage
  <2> HIDE DEF Stage
  <2> QED
    BY <2>1, <2>2, <2>3 DEF Progress
<1>9. ASSUME Drained \/ DrainTimesOut \/ Clear \/ \E u \in Users : Forget(u)
      PROVE  Progress(t)' >= Progress(t)
  <2>1. UNCHANGED <<phase, background>>
    BY <1>9 DEF Drained, DrainTimesOut, Clear, Forget
  <2>2. Progress(t)' = Progress(t)
    BY <2>1 DEF Progress
  <2> QED
    BY <1>1, <2>2
<1>10. Progress(t)' >= Progress(t)
  <2>1. Progress(t) \in Nat /\ Progress(t)' \in Nat
    BY DEF Progress, Stage
  <2> HIDE DEF Progress
  <2> QED
    BY <1>2, <1>3, <1>4, <1>5, <1>6, <1>7, <1>8, <1>9, <2>1 DEF Next
<1> QED
  BY <1>1, <1>2, <1>3, <1>4, <1>5, <1>6, <1>10 DEF TurnStep

\* No step takes a turn back, and each step of a turn or its extraction takes it
\* further, so it has at most 21: with NobodyIsStuck, every turn that was taken ends
\* as long as its steps do (runTurn of chat-conversation-service.ts).
THEOREM TurnsOnlyAdvance ==
  Spec => [][\A t \in Turns :
               /\ Progress(t) \in 0..21 /\ Progress(t)' >= Progress(t)
               /\ Ask(t) \/ TurnStep(t) \/ Extract(t) => Progress(t)' > Progress(t)]_vars
<1> DEFINE Step == \A t \in Turns :
               /\ Progress(t) \in 0..21 /\ Progress(t)' >= Progress(t)
               /\ Ask(t) \/ TurnStep(t) \/ Extract(t) => Progress(t)' > Progress(t)
<1>1. Inv /\ [Next]_vars => [Step]_vars
  BY Further
<1> QED
  BY <1>1, InitHolds, NextKeepsInv, PTL DEF Spec
=============================================================================
