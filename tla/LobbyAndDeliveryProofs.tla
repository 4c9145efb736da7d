-------------------------- MODULE LobbyAndDeliveryProofs --------------------------
(***************************************************************************)
(* What the players of a campaign see around the engine: its seats, and    *)
(* its results.                                                            *)
(*                                                                         *)
(* Why no seat is sold twice, heroes are unique and the two documents name *)
(* the same players, for any people, heroes, sizes and numbers of faults.  *)
(* Operations take turns, so what an operation has looked up may only be   *)
(* changed by what does not wait for its turn: requests that run out, the  *)
(* table that plays on, and a fault that cuts the operation off.           *)
(*                                                                         *)
(* Why tables see results in order, for any campaigns, rows, attempts and  *)
(* numbers of repairs and crashes.  A row can be sent only when everything *)
(* its campaign queued before it is settled; a pass keeps that true by     *)
(* taking its rows in order and by leaving a campaign alone once one of    *)
(* its rows had to wait or failed.                                         *)
(***************************************************************************)
EXTENDS Lobby, Delivery, FiniteSetTheorems, TLAPS

-----------------------------------------------------------------------------
(* The lobby.                                                              *)

\* Everybody with a seat or a promise, and whoever is about to get a seat.
Promised(r) == r.seats \cup {u \in Users : Holds(r, u)}
Claimed == IF op.kind \in {"join", "replace", "queued"} /\ op.at \in {"queue", "engine", "finish"}
           THEN {op.user} ELSE {}

\* The stages of a game: while it is a lobby nothing of it is made or under way.
Stages ==
  /\ Playing => game.made
  /\ game.made => ~InLobby /\ \A u \in Users : record.hero[u] = NoHero
  /\ ~game.made => listed = {} /\ op.at \in {"none", "pause"}
  /\ InLobby => op = Idle
  /\ op.at = "none" <=> op = Idle

\* What an operation has looked up is still so when it acts on it.
OpFits ==
  /\ op.at \in {"finish", "record", "engine", "queue", "return"} => op.user \in Users
  /\ op.at = "engine" => op.kind \in {"join", "replace", "queued", "retire"}
  /\ op.at \in {"queue", "finish"} => op.kind \in {"join", "replace", "queued"}
  /\ op.at = "finish" => game.member[op.user] # "none"
  /\ op.at = "record" => game.member[op.user] = "none"
  /\ op.at = "engine" /\ op.kind = "replace" => game.member[op.user] # "none"
  /\ op.at = "engine" /\ op.kind \in {"join", "queued"}
       => Cardinality(Members(game)) < record.maxPlayers

\* The documents differ on nobody but the user of the operation between its two
\* saves, and users whose operation was cut off there.
Matched(u) == u \in record.seats <=> game.member[u] # "none"
DocumentsMatch ==
  /\ game.made => \A u \in Users \ torn :
       Matched(u) \/ (op.user = u /\ op.at \in {"finish", "record"})
  /\ faults = 0 => torn = {}

\* Seats, promises and claims fit.
SeatsFit ==
  /\ InLobby => Cardinality(record.seats) <= record.maxPlayers
  /\ faults = 0 => Cardinality(Promised(record) \cup Claimed) <= record.maxPlayers

Inv ==
  /\ TypeOK /\ Stages /\ OpFits /\ DocumentsMatch /\ SeatsFit
  /\ PartyFits /\ HeroesAreUnique

-----------------------------------------------------------------------------
(* Counting, and what the changes of a record do.                          *)

LEMMA Counting ==
  ASSUME NEW A \in SUBSET Users
  PROVE  /\ Cardinality(A) \in Nat
         /\ \A B \in SUBSET A : Cardinality(B) <= Cardinality(A)
         /\ \A u \in Users : Cardinality(A \cup {u}) <= Cardinality(A) + 1
<1>1. IsFiniteSet(A)
  BY LobbyUsersAssumption, FS_Subset
<1>2. Cardinality(A) \in Nat
  BY <1>1, FS_CardinalityType
<1>3. \A B \in SUBSET A : Cardinality(B) <= Cardinality(A)
  BY <1>1, FS_Subset
<1>4. \A u \in Users : Cardinality(A \cup {u}) <= Cardinality(A) + 1
  BY <1>1, <1>2, FS_AddElement, SMTT(60)
<1> QED
  BY <1>2, <1>3, <1>4

\* A request of a record exists or does not run.
Live(r) == \A u \in r.live : r.request[u] # "none"

\* Somebody takes a seat.
LEMMA SeatedIs ==
  ASSUME NEW r \in Records, NEW u \in Users, Live(r)
  PROVE  /\ Seated(r, u) \in Records /\ Live(Seated(r, u))
         /\ Seated(r, u).seats = r.seats \cup {u}
         /\ Seated(r, u).hero = [r.hero EXCEPT ![u] = KeptHero(r, u)]
         /\ Seated(r, u).lifecycle = r.lifecycle /\ Seated(r, u).maxPlayers = r.maxPlayers
         /\ Promised(Seated(r, u)) = Promised(r) \cup {u}
<1>1. KeptHero(r, u) \in Heroes \cup {NoHero}
  BY DEF KeptHero, Records
<1> QED
  BY <1>1 DEF Seated, Records, Live, Promised, Holds

\* Somebody gives up a seat.
LEMMA UnseatedIs ==
  ASSUME NEW r \in Records, NEW u \in Users, Live(r)
  PROVE  /\ Unseated(r, u) \in Records /\ Live(Unseated(r, u))
         /\ Unseated(r, u).seats = r.seats \ {u} /\ Unseated(r, u).hero = r.hero
         /\ Unseated(r, u).lifecycle = r.lifecycle /\ Unseated(r, u).maxPlayers = r.maxPlayers
         /\ Promised(Unseated(r, u)) \subseteq Promised(r)
  BY DEF Unseated, Records, Live, Promised, Holds

\* A request goes.
LEMMA ForgetsIs ==
  ASSUME NEW r \in Records, NEW u \in Users, Live(r)
  PROVE  /\ Forgets(r, u) \in Records /\ Live(Forgets(r, u))
         /\ Forgets(r, u).seats = r.seats /\ Forgets(r, u).hero = r.hero
         /\ Forgets(r, u).lifecycle = r.lifecycle /\ Forgets(r, u).maxPlayers = r.maxPlayers
         /\ Promised(Forgets(r, u)) \subseteq Promised(r)
  BY DEF Forgets, Records, Requests, Live, Promised, Holds

\* A request is made or answered.
LEMMA AsksIs ==
  ASSUME NEW r \in Records, NEW u \in Users, NEW answer \in Requests \ {"none"}, Live(r)
  PROVE  /\ Asks(r, u, answer) \in Records /\ Live(Asks(r, u, answer))
         /\ Asks(r, u, answer).seats = r.seats /\ Asks(r, u, answer).hero = r.hero
         /\ Asks(r, u, answer).lifecycle = r.lifecycle
         /\ Asks(r, u, answer).maxPlayers = r.maxPlayers
         /\ Promised(Asks(r, u, answer)) \subseteq Promised(r) \cup {u}
  BY DEF Asks, Records, Requests, Live, Promised, Holds

\* A request changes its status, and holds a place afterwards only if it did before.
LEMMA AnsweredIs ==
  ASSUME NEW r \in Records, NEW u \in Users, NEW answer \in Requests \ {"none"}, Live(r),
         r.request[u] \in {"invited", "approved", "queued"}
  PROVE  LET s == [r EXCEPT !.request[u] = answer] IN
         /\ s \in Records /\ Live(s) /\ s.seats = r.seats /\ s.hero = r.hero
         /\ s.lifecycle = r.lifecycle /\ s.maxPlayers = r.maxPlayers
         /\ Promised(s) \subseteq Promised(r)
  BY DEF Records, Requests, Live, Promised, Holds

\* Without an operation under way the seats and promises are those counted.
LEMMA RoomIs ==
  ASSUME Inv
  PROVE  /\ Promised(record) \in SUBSET Users /\ record.seats \in SUBSET Users
         /\ Members(game) \in SUBSET Users /\ Claimed \in SUBSET Users
         /\ reservedSeats(record) = Cardinality(Promised(record))
         /\ record.maxPlayers \in Nat
         /\ InTurn => Claimed = {}
         /\ \A u \in Users : HasRoom(record) =>
              Cardinality(Promised(record) \cup {u}) <= record.maxPlayers
<1>1. /\ Promised(record) \in SUBSET Users /\ record.seats \in SUBSET Users
      /\ Members(game) \in SUBSET Users /\ record.maxPlayers \in Nat
  BY DEF Inv, TypeOK, Records, Promised, Members
<1>2. Claimed \in SUBSET Users
  BY DEF Inv, OpFits, Claimed
<1>3. InTurn => Claimed = {}
  BY DEF InTurn, Idle, Claimed
<1>4. reservedSeats(record) = Cardinality(Promised(record))
  BY DEF reservedSeats, Promised
<1>5. \A u \in Users : HasRoom(record) =>
        Cardinality(Promised(record) \cup {u}) <= record.maxPlayers
  BY <1>1, <1>4, Counting DEF HasRoom
<1> QED
  BY <1>1, <1>2, <1>3, <1>4, <1>5

-----------------------------------------------------------------------------
(* Steps that touch one document.                                          *)

Unique(r) ==
  \A u, v \in r.seats : u # v /\ r.hero[u] # NoHero => r.hero[u] # r.hero[v]

\* A change of the lobby before the start.
LEMMA LobbyChange ==
  ASSUME Inv, InTurn, InLobby, NEW r \in Records, Saves(r), Live(r), Unique(r),
         r.lifecycle \in {"lobby", "archived"},
         Cardinality(r.seats) <= r.maxPlayers,
         faults = 0 => Cardinality(Promised(r)) <= r.maxPlayers
  PROVE  Inv'
<1> USE DEF Saves, rest
<1>1. ~game.made /\ op = Idle
  BY DEF Inv, Stages, InTurn
<1>2. TypeOK'
  BY DEF Inv, TypeOK, Live
<1>3. Stages'
  BY <1>1 DEF Inv, Stages, InLobby, Playing, Idle
<1>4. OpFits' /\ PartyFits' /\ HeroesAreUnique'
  BY <1>1 DEF OpFits, PartyFits, Idle, HeroesAreUnique, Unique
<1>5. DocumentsMatch'
  BY <1>1 DEF Inv, DocumentsMatch
<1>6. SeatsFit'
  <2>1. Claimed' = {}
    BY <1>1 DEF Claimed, Idle
  <2>2. (Promised(record) \cup Claimed)' = Promised(r)
    BY <2>1 DEF Promised, Holds
  <2> QED
    BY <2>2 DEF SeatsFit, InLobby
<1> QED
  BY <1>2, <1>3, <1>4, <1>5, <1>6 DEF Inv

\* A change of requests only, or of the size of the party.
LEMMA RequestChange ==
  ASSUME Inv, NEW r \in Records, record' = r, UNCHANGED <<game, op, rest>>, Live(r),
         r.seats = record.seats, r.hero = record.hero, r.lifecycle = record.lifecycle,
         InLobby => Cardinality(r.seats) <= r.maxPlayers,
         game.made => Cardinality(Members(game)) <= r.maxPlayers,
         r.maxPlayers = record.maxPlayers \/ InTurn,
         faults = 0 => Cardinality(Promised(r) \cup Claimed) <= r.maxPlayers
  PROVE  Inv'
<1> USE DEF rest
<1>1. TypeOK'
  BY DEF Inv, TypeOK, Live
<1>2. Stages'
  BY DEF Inv, Stages, InLobby, Playing
<1>3. OpFits'
  <2>1. CASE r.maxPlayers = record.maxPlayers
    BY <2>1 DEF Inv, OpFits, Members
  <2>2. CASE InTurn
    BY <2>2 DEF OpFits, InTurn, Idle
  <2> QED
    BY <2>1, <2>2
<1>4. PartyFits' /\ HeroesAreUnique'
  BY DEF Inv, PartyFits, HeroesAreUnique, Members
<1>5. DocumentsMatch'
  BY DEF Inv, DocumentsMatch, Matched
<1>6. SeatsFit'
  <2>1. (Promised(record) \cup Claimed)' = Promised(r) \cup Claimed
    BY DEF Promised, Holds, Claimed
  <2> QED
    BY <2>1 DEF SeatsFit, InLobby
<1> QED
  BY <1>1, <1>2, <1>3, <1>4, <1>5, <1>6 DEF Inv

\* Such a change that makes no new promise.
LEMMA RequestAnswered ==
  ASSUME Inv, NEW r \in Records, record' = r, UNCHANGED <<game, op, rest>>, Live(r),
         r.seats = record.seats, r.hero = record.hero, r.lifecycle = record.lifecycle,
         r.maxPlayers = record.maxPlayers, Promised(r) \subseteq Promised(record)
  PROVE  Inv'
<1>1. Promised(record) \cup Claimed \in SUBSET Users
  BY RoomIs
<1>2. Cardinality(Promised(r) \cup Claimed) <= Cardinality(Promised(record) \cup Claimed)
  BY <1>1, Counting
<1>3. Promised(r) \cup Claimed \in SUBSET Users
  BY <1>1
<1>4. Cardinality(Promised(r) \cup Claimed) \in Nat /\ Cardinality(Promised(record) \cup Claimed) \in Nat
  BY <1>1, <1>3, Counting
<1>5. faults = 0 => Cardinality(Promised(r) \cup Claimed) <= r.maxPlayers
  BY <1>2, <1>4, RoomIs DEF Inv, SeatsFit
<1> QED
  BY <1>5, RequestChange DEF Inv, SeatsFit, PartyFits

\* Such a change that promises one place, when there is room.
LEMMA RequestMade ==
  ASSUME Inv, NEW u \in Users, NEW r \in Records, record' = r, UNCHANGED <<game, op, rest>>,
         Live(r), r.seats = record.seats, r.hero = record.hero,
         r.lifecycle = record.lifecycle, r.maxPlayers = record.maxPlayers,
         Promised(r) \subseteq Promised(record) \cup {u},
         InTurn, u \in Promised(record) \/ HasRoom(record)
  PROVE  Inv'
<1>1. CASE u \in Promised(record)
  <2>1. Promised(r) \subseteq Promised(record)
    BY <1>1
  <2> QED
    BY <2>1, RequestAnswered
<1>2. CASE HasRoom(record)
  <2>1. Cardinality(Promised(record) \cup {u}) <= record.maxPlayers
    BY <1>2, RoomIs
  <2>2. Promised(record) \cup {u} \in SUBSET Users /\ Claimed = {}
    BY RoomIs
  <2>3. Cardinality(Promised(r)) <= Cardinality(Promised(record) \cup {u})
        /\ Cardinality(Promised(r)) \in Nat /\ Cardinality(Promised(record) \cup {u}) \in Nat
    <3>1. Promised(r) \in SUBSET Users
      BY <2>2
    <3> QED
      BY <2>2, <3>1, Counting
  <2>4. Cardinality(Promised(r) \cup Claimed) <= r.maxPlayers
    <3>1. Promised(r) \cup Claimed = Promised(r)
      BY <2>2
    <3> QED
      BY <2>1, <2>3, <3>1, RoomIs
  <2> QED
    BY <2>4, RequestChange DEF Inv, SeatsFit, PartyFits
<1> QED
  BY <1>1, <1>2

\* The table plays on with the same players.
LEMMA TableChange ==
  ASSUME Inv, NEW g \in Games, game' = g, UNCHANGED <<record, op, listed, ended, faults, torn>>,
         booting' \in BOOLEAN, g.made = game.made, \A u \in Users : g.member[u] = "none" <=> game.member[u] = "none"
  PROVE  Inv'
<1>1. Members(g) = Members(game)
  BY DEF Members
<1>2. TypeOK' /\ Stages'
  BY DEF Inv, TypeOK, Stages, InLobby, Playing
<1>3. OpFits'
  BY <1>1 DEF Inv, OpFits, Members
<1>4. DocumentsMatch'
  BY DEF Inv, DocumentsMatch, Matched
<1>5. SeatsFit'
  BY DEF Inv, SeatsFit, InLobby, Promised, Holds, Claimed
<1>6. PartyFits' /\ HeroesAreUnique'
  BY <1>1 DEF Inv, PartyFits, HeroesAreUnique, Members
<1> QED
  BY <1>2, <1>3, <1>4, <1>5, <1>6 DEF Inv

-----------------------------------------------------------------------------
(* Before the start.                                                       *)

\* Whoever comes back finds no hero another player holds.
LEMMA SeatKeepsHeroesUnique ==
  ASSUME NEW r \in Records, NEW u \in Users, Live(r), Unique(r)
  PROVE  Unique(Seated(r, u))
<1>1. KeptHero(r, u) = NoHero \/ \A v \in r.seats \ {u} : r.hero[v] # KeptHero(r, u)
  BY DEF KeptHero, heroTaken
<1> DEFINE s == Seated(r, u)
<1>2. /\ s.seats = r.seats \cup {u} /\ s.hero[u] = KeptHero(r, u)
      /\ \A v \in Users \ {u} : s.hero[v] = r.hero[v]
  BY DEF Seated, Records
<1>3. r.seats \subseteq Users
  BY DEF Records
<1> HIDE DEF s
<1>4. Unique(s)
  <2> SUFFICES ASSUME NEW v \in s.seats, NEW w \in s.seats, v # w, s.hero[v] # NoHero
               PROVE  s.hero[v] # s.hero[w]
    BY DEF Unique
  <2>1. CASE v = u
    <3>1. w \in r.seats \ {u} /\ s.hero[w] = r.hero[w]
      BY <1>2, <1>3, <2>1
    <3> QED
      BY <1>1, <1>2, <2>1, <3>1
  <2>2. CASE w = u
    <3>1. v \in r.seats \ {u} /\ s.hero[v] = r.hero[v]
      BY <1>2, <1>3, <2>2
    <3> QED
      BY <1>1, <1>2, <2>2, <3>1
  <2>3. CASE v # u /\ w # u
    <3>1. /\ v \in r.seats /\ s.hero[v] = r.hero[v]
          /\ w \in r.seats /\ s.hero[w] = r.hero[w]
      BY <1>2, <1>3, <2>3
    <3> QED
      BY <3>1 DEF Unique
  <2> QED
    BY <2>1, <2>2, <2>3
<1> QED
  BY <1>4 DEF s

LEMMA LobbyFacts ==
  ASSUME Inv
  PROVE  /\ record \in Records /\ Live(record) /\ Unique(record)
         /\ InLobby => /\ record.lifecycle = "lobby" /\ ~game.made
                       /\ Cardinality(record.seats) <= record.maxPlayers
         /\ record.seats \in SUBSET Users /\ Cardinality(record.seats) \in Nat
         /\ record.maxPlayers \in Nat
<1>1. record.seats \in SUBSET Users
  BY RoomIs
<1>2. Cardinality(record.seats) \in Nat
  BY <1>1, Counting
<1> QED
  BY <1>1, <1>2 DEF Inv, TypeOK, Live, HeroesAreUnique, Unique, InLobby, Stages, SeatsFit, Records

\* Taking a seat that was promised, or for which there is room.
LEMMA TakesSeat ==
  ASSUME Inv, NEW u \in Users, InTurn, InLobby, NEW r \in Records, Saves(r), Live(r),
         r.seats = record.seats \cup {u}, r.hero = Seated(record, u).hero,
         r.lifecycle = "lobby", r.maxPlayers = record.maxPlayers,
         Promised(r) \subseteq Promised(record) \cup {u},
         u \in Promised(record) \/ HasRoom(record),
         Cardinality(record.seats) < record.maxPlayers
  PROVE  Inv'
<1>1. Cardinality(r.seats) <= r.maxPlayers
  <2>1. record.seats \cup {u} \in SUBSET Users
    BY LobbyFacts
  <2>2. Cardinality(record.seats \cup {u}) <= Cardinality(record.seats) + 1
        /\ Cardinality(record.seats \cup {u}) \in Nat
    BY <2>1, LobbyFacts, Counting
  <2> QED
    BY <2>2, LobbyFacts
<1>2. Unique(r)
  <2>1. record \in Records /\ Live(record) /\ Unique(record)
    BY LobbyFacts
  <2>2. Unique(Seated(record, u)) /\ Seated(record, u).seats = record.seats \cup {u}
    BY <2>1, SeatKeepsHeroesUnique, SeatedIs
  <2> QED
    BY <2>2 DEF Unique
<1>3. faults = 0 => Cardinality(Promised(r)) <= r.maxPlayers
  <2>1. /\ Promised(record) \cup {u} \in SUBSET Users /\ Promised(r) \in SUBSET Users
        /\ Promised(record) \in SUBSET Users /\ Claimed = {}
    BY RoomIs
  <2>2. Cardinality(Promised(r)) <= Cardinality(Promised(record) \cup {u})
        /\ Cardinality(Promised(r)) \in Nat /\ Cardinality(Promised(record) \cup {u}) \in Nat
    BY <2>1, Counting
  <2>3. CASE u \in Promised(record)
    <3>1. Promised(record) \cup {u} = Promised(record) \cup Claimed
      BY <2>1, <2>3
    <3> QED
      BY <2>2, <3>1, LobbyFacts DEF Inv, SeatsFit
  <2>4. CASE HasRoom(record)
    BY <2>2, <2>4, RoomIs, LobbyFacts
  <2> QED
    BY <2>3, <2>4
<1> QED
  BY <1>1, <1>2, <1>3, LobbyChange

LEMMA JoinStep ==
  ASSUME Inv, NEW u \in Users, Join(u) \/ JoinFromActivity(u)
  PROVE  Inv'
<1>1. InTurn /\ InLobby /\ record \in Records /\ Live(record) /\ record.lifecycle = "lobby"
  BY LobbyFacts DEF Join, JoinFromActivity
<1>2. CASE Join(u)
  <2>1. u \in Promised(record) \/ HasRoom(record)
    BY <1>2 DEF Join, Promised
  <2> QED
    BY <1>1, <1>2, <2>1, SeatedIs, TakesSeat DEF Join
<1>3. CASE JoinFromActivity(u) /\ u \notin record.seats
  <2> DEFINE r == Forgets(Seated(record, u), u)
  <2>1. u \in Promised(record) \/ HasRoom(record)
    BY <1>3 DEF JoinFromActivity, Promised, Holds
  <2>2. Seated(record, u) \in Records /\ Live(Seated(record, u))
    BY <1>1, SeatedIs
  <2>3. /\ r \in Records /\ Live(r) /\ r.seats = record.seats \cup {u}
        /\ r.hero = Seated(record, u).hero /\ r.lifecycle = "lobby"
        /\ r.maxPlayers = record.maxPlayers /\ Promised(r) \subseteq Promised(record) \cup {u}
    <3> DEFINE s == Seated(record, u)
    <3>1. /\ s \in Records /\ Live(s) /\ s.seats = record.seats \cup {u}
          /\ s.lifecycle = "lobby" /\ s.maxPlayers = record.maxPlayers
          /\ Promised(s) = Promised(record) \cup {u}
      BY <1>1, SeatedIs
    <3> HIDE DEF s
    <3>2. /\ Forgets(s, u) \in Records /\ Live(Forgets(s, u))
          /\ Forgets(s, u).seats = s.seats /\ Forgets(s, u).hero = s.hero
          /\ Forgets(s, u).lifecycle = s.lifecycle /\ Forgets(s, u).maxPlayers = s.maxPlayers
          /\ Promised(Forgets(s, u)) \subseteq Promised(s)
      BY <3>1, ForgetsIs
    <3> QED
      BY <3>1, <3>2 DEF s
  <2>4. Saves(r) /\ Cardinality(record.seats) < record.maxPlayers
    BY <1>3 DEF JoinFromActivity
  <2> QED
    BY <1>1, <2>1, <2>3, <2>4, TakesSeat
<1>4. CASE JoinFromActivity(u) /\ u \in record.seats
  BY <1>1, <1>4, ForgetsIs, RequestAnswered DEF JoinFromActivity, Saves
<1> QED
  BY <1>2, <1>3, <1>4

\* A seat is given up, and perhaps the request with it.
LEMMA GivesUpSeat ==
  ASSUME Inv, NEW u \in Users, InTurn, InLobby, NEW r \in Records, Saves(r), Live(r),
         r.seats = record.seats \ {u}, r.hero = record.hero,
         r.lifecycle = "lobby", r.maxPlayers = record.maxPlayers,
         Promised(r) \subseteq Promised(record)
  PROVE  Inv'
<1>1. /\ Promised(record) \in SUBSET Users /\ Claimed = {}
  BY RoomIs
<1>2. Promised(r) \in SUBSET Users /\ r.seats \in SUBSET Users
  BY <1>1, LobbyFacts
<1>3. /\ Cardinality(r.seats) <= Cardinality(record.seats) /\ Cardinality(r.seats) \in Nat
      /\ Cardinality(Promised(r)) <= Cardinality(Promised(record))
      /\ Cardinality(Promised(r)) \in Nat /\ Cardinality(Promised(record)) \in Nat
  BY <1>1, <1>2, LobbyFacts, Counting
<1>4. Unique(r)
  BY LobbyFacts DEF Unique
<1>5. Promised(record) \cup Claimed = Promised(record)
  BY <1>1
<1> QED
  BY <1>3, <1>4, <1>5, LobbyFacts, LobbyChange, SMTT(60) DEF Inv, SeatsFit

LEMMA LeaveStep ==
  ASSUME Inv, NEW u \in Users, Leave(u) \/ RemoveMember(u)
  PROVE  Inv'
<1>1. InTurn /\ InLobby /\ record \in Records /\ Live(record) /\ record.lifecycle = "lobby"
  BY LobbyFacts DEF Leave, RemoveMember
<1>2. CASE Leave(u)
  BY <1>1, <1>2, UnseatedIs, GivesUpSeat DEF Leave
<1>3. CASE RemoveMember(u)
  <2> DEFINE r == Forgets(Unseated(record, u), u)
  <2>1. Unseated(record, u) \in Records /\ Live(Unseated(record, u))
    BY <1>1, UnseatedIs
  <2>2. /\ r \in Records /\ Live(r) /\ r.seats = record.seats \ {u} /\ r.hero = record.hero
        /\ r.lifecycle = "lobby" /\ r.maxPlayers = record.maxPlayers
        /\ Promised(r) \subseteq Promised(record)
    BY <1>1, <2>1, UnseatedIs, ForgetsIs
  <2>3. Saves(r)
    BY <1>3 DEF RemoveMember
  <2> QED
    BY <1>1, <2>2, <2>3, GivesUpSeat
<1> QED
  BY <1>2, <1>3

LEMMA ChooseHeroStep ==
  ASSUME Inv, NEW u \in Users, ChooseHero(u)
  PROVE  Inv'
<1>1. InTurn /\ InLobby /\ u \in record.seats
  BY DEF ChooseHero
<1>2. PICK h \in Heroes : ~heroTaken(record, h, u) /\ Saves([record EXCEPT !.hero[u] = h])
  BY DEF ChooseHero
<1> DEFINE r == [record EXCEPT !.hero[u] = h]
<1>3. /\ r \in Records /\ Live(r) /\ r.seats = record.seats /\ r.lifecycle = "lobby"
      /\ r.maxPlayers = record.maxPlayers /\ r.hero = [record.hero EXCEPT ![u] = h]
      /\ Promised(r) = Promised(record)
  BY <1>1, LobbyFacts DEF Records, Live, Promised, Holds
<1>4. Unique(r)
  BY <1>2, <1>3, LobbyFacts DEF Unique, heroTaken, Records
<1>5. faults = 0 => Cardinality(Promised(r)) <= r.maxPlayers
  <2>1. Promised(r) = Promised(record) \cup Claimed
    BY <1>1, <1>3, RoomIs
  <2> QED
    BY <1>3, <2>1 DEF Inv, SeatsFit
<1> QED
  BY <1>1, <1>2, <1>3, <1>4, <1>5, LobbyFacts, LobbyChange

LEMMA CancelStep == Inv /\ Cancel => Inv'
<1> SUFFICES ASSUME Inv, Cancel PROVE Inv'
  OBVIOUS
<1> DEFINE r == [record EXCEPT !.lifecycle = "archived"]
<1>1. /\ r \in Records /\ Live(r) /\ r.seats = record.seats /\ r.hero = record.hero
      /\ r.maxPlayers = record.maxPlayers /\ r.lifecycle = "archived"
      /\ Promised(r) = Promised(record)
  BY LobbyFacts DEF Records, Live, Promised, Holds
<1>2. Promised(r) = Promised(record) \cup Claimed
  BY <1>1, RoomIs DEF Cancel
<1>3. InTurn /\ InLobby /\ Saves(r)
  BY DEF Cancel
<1>4. Unique(r)
  BY <1>1, LobbyFacts DEF Unique
<1> QED
  BY <1>1, <1>2, <1>3, <1>4, LobbyFacts, LobbyChange DEF Inv, SeatsFit

\* The new size holds all that is taken or promised.
LEMMA SetPartySizeStep == Inv /\ SetPartySize => Inv'
<1> SUFFICES ASSUME Inv, SetPartySize PROVE Inv'
  OBVIOUS
<1>1. PICK size \in Sizes : /\ size >= SeatedCount(record, game)
                            /\ Saves([record EXCEPT !.maxPlayers = size])
  BY DEF SetPartySize
<1> DEFINE r == [record EXCEPT !.maxPlayers = size]
<1>2. size \in Nat
  BY LobbySizesAssumption
<1>3. /\ r \in Records /\ Live(r) /\ r.seats = record.seats /\ r.hero = record.hero
      /\ r.maxPlayers = size /\ r.lifecycle = record.lifecycle
      /\ Promised(r) = Promised(record)
  BY <1>2, LobbyFacts DEF Records, Live, Promised, Holds
<1>4. /\ Promised(record) \in SUBSET Users /\ Members(game) \in SUBSET Users
      /\ Claimed = {} /\ reservedSeats(record) = Cardinality(Promised(record))
  BY RoomIs DEF SetPartySize
<1>5. /\ Cardinality(Promised(record)) \in Nat /\ Cardinality(Members(game)) \in Nat
      /\ Cardinality(record.seats) <= Cardinality(Promised(record))
  <2>1. record.seats \in SUBSET Promised(record)
    BY DEF Promised
  <2> QED
    BY <1>4, <2>1, Counting
<1>6. Cardinality(Promised(record)) <= size /\ Cardinality(Members(game)) <= size
  BY <1>1, <1>2, <1>4, <1>5 DEF SeatedCount
<1>7. Promised(r) \cup Claimed = Promised(record)
  BY <1>3, <1>4
<1>8. Cardinality(r.seats) <= r.maxPlayers
  BY <1>2, <1>3, <1>5, <1>6, LobbyFacts
<1>9. InTurn /\ record' = r /\ UNCHANGED <<game, op, rest>>
  BY <1>1 DEF SetPartySize, Saves
<1> QED
  BY <1>3, <1>6, <1>7, <1>8, <1>9, RequestChange

-----------------------------------------------------------------------------
(* Requests.                                                               *)

\* A place is promised to somebody who had one or for whom there is room.
LEMMA AskingStep ==
  ASSUME Inv, InTurn, NEW u \in Users, NEW answer \in Requests \ {"none"},
         Saves(Asks(record, u, answer)), Holds(record, u) \/ HasRoom(record)
  PROVE  Inv'
<1> DEFINE r == Asks(record, u, answer)
<1>1. record \in Records /\ Live(record)
  BY LobbyFacts
<1>2. /\ r \in Records /\ Live(r) /\ r.seats = record.seats /\ r.hero = record.hero
      /\ r.lifecycle = record.lifecycle /\ r.maxPlayers = record.maxPlayers
      /\ Promised(r) \subseteq Promised(record) \cup {u}
  BY <1>1, AsksIs
<1>3. record' = r /\ UNCHANGED <<game, op, rest>>
  BY DEF Saves
<1>4. u \in Promised(record) \/ HasRoom(record)
  BY DEF Promised
<1> QED
  BY <1>2, <1>3, <1>4, RequestMade

LEMMA ForgettingStep ==
  ASSUME Inv, NEW u \in Users, Saves(Forgets(record, u))
  PROVE  Inv'
<1> DEFINE r == Forgets(record, u)
<1>1. record \in Records /\ Live(record)
  BY LobbyFacts
<1>2. /\ r \in Records /\ Live(r) /\ r.seats = record.seats /\ r.hero = record.hero
      /\ r.lifecycle = record.lifecycle /\ r.maxPlayers = record.maxPlayers
      /\ Promised(r) \subseteq Promised(record)
  BY <1>1, ForgetsIs
<1>3. record' = r /\ UNCHANGED <<game, op, rest>>
  BY DEF Saves
<1> QED
  BY <1>2, <1>3, RequestAnswered

LEMMA AnsweringStep ==
  ASSUME Inv, NEW u \in Users, record.request[u] \in {"invited", "queued"},
         Saves([record EXCEPT !.request[u] = "approved"])
  PROVE  Inv'
<1> DEFINE r == [record EXCEPT !.request[u] = "approved"]
<1>1. record \in Records /\ Live(record) /\ "approved" \in Requests \ {"none"}
  BY LobbyFacts DEF Requests
<1>2. /\ r \in Records /\ Live(r) /\ r.seats = record.seats /\ r.hero = record.hero
      /\ r.lifecycle = record.lifecycle /\ r.maxPlayers = record.maxPlayers
      /\ Promised(r) \subseteq Promised(record)
  BY <1>1, AnsweredIs
<1>3. record' = r /\ UNCHANGED <<game, op, rest>>
  BY DEF Saves
<1> QED
  BY <1>2, <1>3, RequestAnswered

LEMMA InviteStep ==
  ASSUME Inv, NEW u \in Users, InviteLobby(u) \/ InviteOngoing(u)
  PROVE  Inv'
<1>1. InTurn /\ Saves(Asks(record, u, "invited")) /\ (Holds(record, u) \/ HasRoom(record))
  BY DEF InviteLobby, InviteOngoing, Holds
<1>2. "invited" \in Requests \ {"none"}
  BY DEF Requests
<1> QED
  BY <1>1, <1>2, AskingStep

LEMMA RunsOutStep ==
  ASSUME Inv, NEW u \in Users, RequestRunsOut(u)
  PROVE  Inv'
<1> DEFINE r == [record EXCEPT !.live = @ \ {u}]
<1>1. record \in Records /\ Live(record)
  BY LobbyFacts
<1>2. /\ r \in Records /\ Live(r) /\ r.seats = record.seats /\ r.hero = record.hero
      /\ r.lifecycle = record.lifecycle /\ r.maxPlayers = record.maxPlayers
      /\ Promised(r) \subseteq Promised(record)
  BY <1>1 DEF Records, Live, Promised, Holds
<1>3. record' = r /\ UNCHANGED <<game, op, rest>>
  BY DEF RequestRunsOut
<1> QED
  BY <1>2, <1>3, RequestAnswered

LEMMA RequestStep ==
  ASSUME Inv, RequestOperation
  PROVE  Inv'
<1>1. PICK u \in Applicants :
        \/ RequestOngoing(u) \/ WithdrawOngoing(u) \/ InviteOngoing(u)
        \/ DecideOngoing(u) \/ AcceptInvite(u) \/ RevokeJoin(u) \/ RequestRunsOut(u)
  BY DEF RequestOperation
<1>2. u \in Users
  BY LobbySizesAssumption
<1>3. {"requested", "approved"} \subseteq Requests \ {"none"}
  BY DEF Requests
<1>4. CASE RequestOngoing(u)
  <2>1. InTurn /\ HasRoom(record) /\ Saves(Asks(record, u, "requested"))
    BY <1>4 DEF RequestOngoing
  <2> QED
    BY <1>2, <1>3, <2>1, AskingStep
<1>5. CASE WithdrawOngoing(u)
  BY <1>2, <1>5, ForgettingStep, AnsweringStep DEF WithdrawOngoing
<1>6. CASE InviteOngoing(u)
  BY <1>2, <1>6, InviteStep
<1>7. CASE DecideOngoing(u)
  <2>1. \/ Saves(Forgets(record, u))
        \/ InTurn /\ HasRoom(record) /\ Saves(Asks(record, u, "approved"))
    BY <1>7 DEF DecideOngoing
  <2> QED
    BY <1>2, <1>3, <2>1, AskingStep, ForgettingStep
<1>8. CASE AcceptInvite(u)
  BY <1>2, <1>8, AnsweringStep DEF AcceptInvite
<1>9. CASE RevokeJoin(u)
  BY <1>2, <1>9, ForgettingStep DEF RevokeJoin
<1>10. CASE RequestRunsOut(u)
  BY <1>2, <1>10, RunsOutStep
<1> QED
  BY <1>1, <1>4, <1>5, <1>6, <1>7, <1>8, <1>9, <1>10

LEMMA LobbyStep ==
  ASSUME Inv, LobbyOperation, ~Start
  PROVE  Inv'
<1>1. CASE Cancel \/ SetPartySize
  BY <1>1, CancelStep, SetPartySizeStep
<1>2. CASE \E u \in Users : Join(u) \/ JoinFromActivity(u)
  BY <1>2, JoinStep
<1>3. CASE \E u \in Users : Leave(u) \/ RemoveMember(u)
  BY <1>3, LeaveStep
<1>4. CASE \E u \in Users : ChooseHero(u)
  BY <1>4, ChooseHeroStep
<1>5. CASE \E u \in Applicants : InviteLobby(u)
  BY <1>5, InviteStep, LobbySizesAssumption
<1> QED
  BY <1>1, <1>2, <1>3, <1>4, <1>5 DEF LobbyOperation

-----------------------------------------------------------------------------
(* Operations of several steps.                                            *)

Operations == [kind : {"none", "start", "join", "replace", "queued", "retire", "end"},
               user : Users \cup {Organizer},
               at : {"none", "begin", "queue", "engine", "finish", "return", "record", "pause"}]

\* What the next operation has to have looked up.
Fits(o) ==
  /\ o.at \in {"finish", "engine", "queue", "return"} /\ o.user \in Users
  /\ o.kind \in {"join", "replace", "queued", "retire"}
  /\ o.kind = "retire" => o.at = "engine"
  /\ o.at = "finish" \/ (o.at = "engine" /\ o.kind = "replace") => game.member[o.user] # "none"
  /\ o.at = "engine" /\ o.kind \in {"join", "queued"}
       => Cardinality(Members(game)) < record.maxPlayers

\* An operation begins: it has read both documents and written nothing.
LEMMA OperationBegins ==
  ASSUME Inv, InTurn, game.made, NEW o \in Operations, op' = o, Fits(o),
         UNCHANGED <<record, game, ended, booting, faults, torn>>, listed' \subseteq Users,
         o.kind # "retire" /\ faults = 0 => o.user \in Promised(record)
  PROVE  Inv'
<1>1. TypeOK'
  BY DEF Inv, TypeOK, Operations
<1>2. Stages'
  BY DEF Inv, Stages, Playing, InLobby, Fits, Idle
<1>3. OpFits'
  BY DEF OpFits, Fits, Members
<1>4. DocumentsMatch'
  BY DEF Inv, DocumentsMatch, Matched, InTurn, Idle
<1>5. SeatsFit'
  <2>1. faults = 0 => Claimed' \subseteq Promised(record)
    BY DEF Claimed, Fits
  <2>2. Promised(record)' = Promised(record)
    BY DEF Promised, Holds
  <2>3. faults = 0 => (Promised(record) \cup Claimed)' = Promised(record) \cup Claimed
    BY <2>1, <2>2, RoomIs
  <2> QED
    BY <2>3 DEF Inv, SeatsFit, InLobby
<1>6. PartyFits' /\ HeroesAreUnique'
  BY DEF Inv, PartyFits, HeroesAreUnique, Members
<1> QED
  BY <1>1, <1>2, <1>3, <1>4, <1>5, <1>6 DEF Inv

\* An operation ends, with a last save of the record or without one.
LEMMA OperationEnds ==
  ASSUME Inv, op # Idle, game.made, op' = Idle,
         NEW r \in Records, record' = r, Live(r), r.hero = record.hero,
         r.lifecycle = record.lifecycle, r.maxPlayers = record.maxPlayers,
         Promised(r) \subseteq Promised(record) \cup Claimed,
         torn' \subseteq torn,
         \A u \in Users \ torn' : u \in r.seats <=> game.member[u] # "none",
         UNCHANGED <<game, listed, ended, booting, faults>>
  PROVE  Inv'
<1>1. TypeOK'
  BY DEF Inv, TypeOK, Live, Idle
<1>2. Stages'
  BY DEF Inv, Stages, Playing, InLobby, Idle
<1>3. OpFits'
  BY DEF OpFits, Idle
<1>4. DocumentsMatch'
  BY DEF Inv, DocumentsMatch, Matched
<1>5. SeatsFit'
  <2>1. Claimed' = {} /\ Promised(record)' = Promised(r)
    BY DEF Claimed, Idle, Promised, Holds
  <2>2. Promised(record) \cup Claimed \in SUBSET Users
    BY RoomIs
  <2>3. /\ Cardinality(Promised(r)) <= Cardinality(Promised(record) \cup Claimed)
        /\ Cardinality(Promised(r)) \in Nat /\ Cardinality(Promised(record) \cup Claimed) \in Nat
    <3>1. Promised(r) \in SUBSET Users
      BY <2>2
    <3> QED
      BY <2>2, <3>1, Counting
  <2>4. faults = 0 => Cardinality(Promised(r)) <= r.maxPlayers
    BY <2>3, RoomIs DEF Inv, SeatsFit
  <2>5. (Promised(record) \cup Claimed)' = Promised(r)
    BY <2>1
  <2> QED
    BY <2>4, <2>5 DEF Inv, Stages, SeatsFit, InLobby
<1>6. PartyFits' /\ HeroesAreUnique'
  <2>1. \A u \in Users : r.hero[u] = NoHero
    BY DEF Inv, Stages
  <2>2. r.seats \subseteq Users
    BY DEF Records
  <2> QED
    BY <2>1, <2>2 DEF Inv, PartyFits, HeroesAreUnique, Members
<1> QED
  BY <1>1, <1>2, <1>3, <1>4, <1>5, <1>6 DEF Inv

\* What is known when the documents are read with no operation under way.
LEMMA PlayingFacts ==
  ASSUME Inv
  PROVE  /\ record \in Records /\ game \in Games /\ Live(record)
         /\ Playing => game.made
         /\ op # Idle => ~InLobby
         /\ op.at \notin {"none", "pause"} => game.made /\ op # Idle
         /\ InTurn /\ game.made /\ faults = 0 =>
              \A u \in Users : game.member[u] # "none" => u \in Promised(record)
         /\ \A u \in Users : record.request[u] \in {"approved", "queued"} /\ u \in record.live
              => u \in Promised(record)
<1>1. /\ record \in Records /\ game \in Games /\ Live(record)
      /\ Playing => game.made
      /\ op # Idle => ~InLobby
      /\ op.at \notin {"none", "pause"} => game.made /\ op # Idle
  BY DEF Inv, TypeOK, Live, Stages
<1>2. InTurn /\ game.made /\ faults = 0 =>
        \A u \in Users : game.member[u] # "none" => u \in Promised(record)
  BY DEF Inv, DocumentsMatch, Matched, InTurn, Idle, Promised
<1>3. \A u \in Users : record.request[u] \in {"approved", "queued"} /\ u \in record.live
        => u \in Promised(record)
  BY DEF Promised, Holds
<1> QED
  BY <1>1, <1>2, <1>3

\* Begins with the steps an operation may start with.
LEMMA BeginsStep ==
  ASSUME Inv, InTurn, game.made, NEW u \in Users,
         NEW kind \in {"join", "replace", "queued", "retire"},
         NEW at \in {"finish", "engine", "queue", "return"},
         Begins(kind, u, at), listed' \subseteq Users, Fits(Steps(kind, u, at)),
         kind # "retire" /\ faults = 0 => u \in Promised(record)
  PROVE  Inv'
<1> DEFINE o == Steps(kind, u, at)
<1>1. o \in Operations /\ o.kind = kind /\ o.user = u
  BY DEF Operations, Steps
<1>2. op' = o /\ UNCHANGED <<record, game, ended, booting, faults, torn>>
  BY DEF Begins
<1> QED
  BY <1>1, <1>2, OperationBegins

LEMMA JoinOngoingStep ==
  ASSUME Inv, NEW u \in Users, JoinOngoing(u)
  PROVE  Inv'
<1>1. InTurn /\ game.made /\ listed' \subseteq Users /\ u \in Promised(record)
  <2>1. InTurn /\ Playing /\ UNCHANGED listed
        /\ record.request[u] \in {"approved", "queued"} /\ u \in record.live
    BY DEF JoinOngoing
  <2> QED
    BY <2>1, PlayingFacts DEF Inv, TypeOK
<1>2. CASE game.member[u] # "none"
  <2>1. Begins("join", u, "finish") /\ Fits(Steps("join", u, "finish"))
    BY <1>2 DEF JoinOngoing, Fits, Steps
  <2> QED
    BY <1>1, <2>1, BeginsStep
<1>3. CASE game.member[u] = "none"
  <2>1. PICK at \in {"queue", "engine"} : Begins("join", u, at)
    BY <1>3 DEF JoinOngoing
  <2>2. Fits(Steps("join", u, at))
    BY <1>3 DEF JoinOngoing, Fits, Steps
  <2> QED
    BY <1>1, <2>1, <2>2, BeginsStep
<1> QED
  BY <1>2, <1>3

LEMMA ReplaceStep ==
  ASSUME Inv, NEW u \in Users, ReplaceFallen(u)
  PROVE  Inv'
<1>1. InTurn /\ game.made /\ listed' \subseteq Users /\ game.member[u] # "none"
  BY PlayingFacts DEF ReplaceFallen, Inv, TypeOK
<1>2. Begins("replace", u, "engine") /\ Fits(Steps("replace", u, "engine"))
  BY <1>1 DEF ReplaceFallen, Fits, Steps
<1>3. faults = 0 => u \in Promised(record)
  BY <1>1, PlayingFacts
<1> QED
  BY <1>1, <1>2, <1>3, BeginsStep

LEMMA RetireStep ==
  ASSUME Inv, NEW u \in Users, RetireSeat(u)
  PROVE  Inv'
<1>1. InTurn /\ game.made /\ listed' \subseteq Users
  BY PlayingFacts DEF RetireSeat, Inv, TypeOK
<1>2. Begins("retire", u, "engine") /\ Fits(Steps("retire", u, "engine"))
  BY DEF RetireSeat, Fits, Steps
<1> QED
  BY <1>1, <1>2, BeginsStep

\* The worker of the queued joins: its list, and one user of it.
LEMMA ListedStep ==
  ASSUME Inv, listed' \subseteq Users, game.made,
         UNCHANGED <<record, game, op, ended, booting, faults, torn>>
  PROVE  Inv'
<1>1. TypeOK' /\ Stages'
  BY DEF Inv, TypeOK, Stages, Playing, InLobby
<1>2. OpFits' /\ DocumentsMatch'
  BY DEF Inv, OpFits, DocumentsMatch, Matched, Members
<1>3. SeatsFit'
  BY DEF Inv, SeatsFit, InLobby, Promised, Holds, Claimed
<1>4. PartyFits' /\ HeroesAreUnique'
  BY DEF Inv, PartyFits, HeroesAreUnique, Members
<1> QED
  BY <1>1, <1>2, <1>3, <1>4 DEF Inv

LEMMA ListQueuedStep ==
  ASSUME Inv, ListQueuedJoins
  PROVE  Inv'
<1>1. listed' \subseteq Users /\ game.made
  BY PlayingFacts DEF ListQueuedJoins, Records
<1> QED
  BY <1>1, ListedStep DEF ListQueuedJoins

LEMMA ProcessStep ==
  ASSUME Inv, NEW u \in Users, ProcessQueuedJoin(u)
  PROVE  Inv'
<1>1. InTurn /\ game.made /\ listed' \subseteq Users
  BY DEF ProcessQueuedJoin, Inv, Stages, TypeOK
<1>2. CASE UNCHANGED <<record, game, op, ended, booting, faults, torn>>
  BY <1>1, <1>2, ListedStep
<1>3. CASE record.request[u] = "queued" /\ u \in record.live /\ game.member[u] # "none"
  <2>1. Begins("queued", u, "finish") /\ Fits(Steps("queued", u, "finish"))
    BY <1>3 DEF ProcessQueuedJoin, Fits, Steps
  <2> QED
    BY <1>1, <1>3, <2>1, BeginsStep, PlayingFacts
<1>4. CASE /\ record.request[u] = "queued" /\ u \in record.live
           /\ game.member[u] = "none" /\ ~mustWaitForFight(game)
  <2>1. PICK at \in {"return", "engine"} :
          /\ Begins("queued", u, at)
          /\ at = "engine" => ~(Cardinality(Members(game)) >= record.maxPlayers)
    BY <1>4 DEF ProcessQueuedJoin
  <2>2. Cardinality(Members(game)) \in Nat /\ record.maxPlayers \in Nat
    BY RoomIs, Counting
  <2>3. Fits(Steps("queued", u, at))
    BY <2>1, <2>2 DEF Fits, Steps
  <2> QED
    BY <1>1, <1>4, <2>1, <2>3, BeginsStep, PlayingFacts
<1> QED
  BY <1>2, <1>3, <1>4 DEF ProcessQueuedJoin

\* The steps that end an operation.
LEMMA EndFacts ==
  ASSUME Inv, op.at \in {"queue", "engine", "finish", "return", "record"}
  PROVE  /\ game.made /\ op # Idle /\ op.user \in Users
         /\ op.at \in {"queue", "finish"} => Claimed = {op.user}
         /\ op.at \in {"queue", "engine", "return"} =>
              \A u \in Users \ torn : u \in record.seats <=> game.member[u] # "none"
         /\ \A u \in Users \ (torn \cup {op.user}) :
              u \in record.seats <=> game.member[u] # "none"
<1>1. game.made /\ op # Idle /\ op.user \in Users
  BY DEF Inv, Stages, OpFits
<1>2. op.at \in {"queue", "finish"} => Claimed = {op.user}
  BY DEF Inv, OpFits, Claimed
<1>3. /\ op.at \in {"queue", "engine", "return"} =>
           \A u \in Users \ torn : u \in record.seats <=> game.member[u] # "none"
      /\ \A u \in Users \ (torn \cup {op.user}) :
           u \in record.seats <=> game.member[u] # "none"
  BY <1>1 DEF Inv, DocumentsMatch, Matched
<1> QED
  BY <1>1, <1>2, <1>3

LEMMA QueuedStep ==
  ASSUME Inv, JoinIsQueued
  PROVE  Inv'
<1>1. op.at = "queue" /\ op' = Idle /\ UNCHANGED <<game, rest>>
      /\ record' = [record EXCEPT !.request[op.user] = "queued"]
  BY DEF JoinIsQueued
<1> DEFINE u == op.user
           r == [record EXCEPT !.request[u] = "queued"]
<1>2. /\ game.made /\ op # Idle /\ u \in Users /\ Claimed = {u}
      /\ \A v \in Users \ torn : v \in record.seats <=> game.member[v] # "none"
  BY <1>1, EndFacts
<1>3. record \in Records /\ Live(record)
  BY PlayingFacts
<1> HIDE DEF u
<1>4. /\ r \in Records /\ Live(r) /\ r.seats = record.seats /\ r.hero = record.hero
      /\ r.lifecycle = record.lifecycle /\ r.maxPlayers = record.maxPlayers
      /\ Promised(r) \subseteq Promised(record) \cup {u}
  BY <1>2, <1>3 DEF Records, Requests, Live, Promised, Holds
<1>5. record' = r
  BY <1>1 DEF u
<1> HIDE DEF r
<1> QED
  BY <1>1, <1>2, <1>4, <1>5, OperationEnds DEF rest

LEMMA ReturnedStep ==
  ASSUME Inv, ReturnQueuedJoin
  PROVE  Inv'
<1>1. op.at = "return" /\ op' = Idle /\ UNCHANGED <<game, rest>>
      /\ record' = [record EXCEPT !.request[op.user] = IF @ = "queued" THEN "approved" ELSE @]
  BY DEF ReturnQueuedJoin
<1> DEFINE u == op.user
           r == [record EXCEPT !.request[u] = IF @ = "queued" THEN "approved" ELSE @]
<1>2. /\ game.made /\ op # Idle /\ u \in Users
      /\ \A v \in Users \ torn : v \in record.seats <=> game.member[v] # "none"
  BY <1>1, EndFacts
<1>3. record \in Records /\ Live(record)
  BY PlayingFacts
<1> HIDE DEF u
<1>4. /\ r \in Records /\ Live(r) /\ r.seats = record.seats /\ r.hero = record.hero
      /\ r.lifecycle = record.lifecycle /\ r.maxPlayers = record.maxPlayers
      /\ Promised(r) \subseteq Promised(record)
  BY <1>2, <1>3 DEF Records, Requests, Live, Promised, Holds
<1>5. record' = r
  BY <1>1 DEF u
<1> HIDE DEF r
<1> QED
  BY <1>1, <1>2, <1>4, <1>5, OperationEnds DEF rest

LEMMA FinishedStep ==
  ASSUME Inv, FinishOngoingJoin
  PROVE  Inv'
<1> DEFINE u == op.user
           s == [record EXCEPT !.seats = @ \cup {u}]
           r == Forgets(s, u)
<1>1. op.at = "finish" /\ op' = Idle /\ UNCHANGED <<game, listed, ended, booting, faults>>
      /\ record' = r /\ torn' = torn \ {u}
  BY DEF FinishOngoingJoin
<1>2. /\ game.made /\ op # Idle /\ u \in Users /\ Claimed = {u}
      /\ \A v \in Users \ (torn \cup {u}) : v \in record.seats <=> game.member[v] # "none"
  BY <1>1, EndFacts
<1>3. record \in Records /\ Live(record) /\ game.member[u] # "none"
  BY <1>1, PlayingFacts DEF Inv, OpFits
<1> HIDE DEF u
<1>4. /\ s \in Records /\ Live(s) /\ s.seats = record.seats \cup {u} /\ s.hero = record.hero
      /\ s.lifecycle = record.lifecycle /\ s.maxPlayers = record.maxPlayers
      /\ Promised(s) \subseteq Promised(record) \cup {u}
  BY <1>2, <1>3 DEF Records, Live, Promised, Holds
<1> HIDE DEF s
<1>5. /\ r \in Records /\ Live(r) /\ r.seats = s.seats /\ r.hero = s.hero
      /\ r.lifecycle = s.lifecycle /\ r.maxPlayers = s.maxPlayers
      /\ Promised(r) \subseteq Promised(s)
  BY <1>2, <1>4, ForgetsIs
<1>6. /\ r.hero = record.hero /\ r.lifecycle = record.lifecycle
      /\ r.maxPlayers = record.maxPlayers /\ Promised(r) \subseteq Promised(record) \cup Claimed
  BY <1>2, <1>4, <1>5
<1>7. \A v \in Users \ torn' : v \in r.seats <=> game.member[v] # "none"
  BY <1>1, <1>2, <1>3, <1>4, <1>5
<1> HIDE DEF r
<1> QED
  BY <1>1, <1>2, <1>5, <1>6, <1>7, OperationEnds

LEMMA FreedStep ==
  ASSUME Inv, SeatIsFreed
  PROVE  Inv'
<1> DEFINE u == op.user
           s == Unseated(record, u)
           r == Forgets(s, u)
<1>1. op.at = "record" /\ op' = Idle /\ UNCHANGED <<game, rest>> /\ record' = r
  BY DEF SeatIsFreed
<1>2. /\ game.made /\ op # Idle /\ u \in Users
      /\ \A v \in Users \ (torn \cup {u}) : v \in record.seats <=> game.member[v] # "none"
  BY <1>1, EndFacts
<1>3. record \in Records /\ Live(record) /\ game.member[u] = "none"
  BY <1>1, PlayingFacts DEF Inv, OpFits
<1> HIDE DEF u
<1>4. /\ s \in Records /\ Live(s) /\ s.seats = record.seats \ {u} /\ s.hero = record.hero
      /\ s.lifecycle = record.lifecycle /\ s.maxPlayers = record.maxPlayers
      /\ Promised(s) \subseteq Promised(record)
  BY <1>2, <1>3, UnseatedIs
<1> HIDE DEF s
<1>5. /\ r \in Records /\ Live(r) /\ r.seats = s.seats /\ r.hero = s.hero
      /\ r.lifecycle = s.lifecycle /\ r.maxPlayers = s.maxPlayers
      /\ Promised(r) \subseteq Promised(s)
  BY <1>2, <1>4, ForgetsIs
<1>6. \A v \in Users \ torn : v \in r.seats <=> game.member[v] # "none"
  BY <1>2, <1>3, <1>4, <1>5
<1> HIDE DEF r
<1> QED
  BY <1>1, <1>2, <1>4, <1>5, <1>6, OperationEnds DEF rest

\* An operation that the engine turns down ends, or goes on without the seat.
LEMMA TurnedDownStep ==
  ASSUME Inv, op.at = "engine", op' = Idle, UNCHANGED <<record, game, rest>>
  PROVE  Inv'
<1>1. /\ game.made /\ op # Idle
      /\ \A v \in Users \ torn : v \in record.seats <=> game.member[v] # "none"
  BY EndFacts
<1>2. record \in Records /\ Live(record)
  BY PlayingFacts
<1> QED
  BY <1>1, <1>2, OperationEnds DEF rest

LEMMA GoesOnStep ==
  ASSUME Inv, op.at = "engine", op.kind = "queued", op' = [op EXCEPT !.at = "return"],
         UNCHANGED <<record, game, rest>>
  PROVE  Inv'
<1> USE DEF rest
<1>1. game.made /\ op # Idle /\ ~InLobby
  BY PlayingFacts
<1>2. op' \in Operations /\ op'.kind = "queued" /\ op'.user = op.user /\ op'.at = "return"
  BY DEF Inv, TypeOK, Operations
<1>3. TypeOK'
  BY <1>2 DEF Inv, TypeOK, Operations
<1>4. Stages'
  BY <1>1, <1>2 DEF Inv, Stages, Playing, InLobby, Idle
<1>5. OpFits'
  BY <1>2 DEF Inv, OpFits
<1>6. DocumentsMatch'
  BY <1>2 DEF Inv, DocumentsMatch, Matched
<1>7. SeatsFit'
  <2>1. Claimed' = {} /\ Promised(record)' = Promised(record) /\ Claimed = {op.user}
    BY <1>2 DEF Claimed, Promised, Holds
  <2>2. Promised(record) \cup Claimed \in SUBSET Users
    BY RoomIs
  <2>3. /\ Cardinality(Promised(record)) <= Cardinality(Promised(record) \cup Claimed)
        /\ Cardinality(Promised(record)) \in Nat
        /\ Cardinality(Promised(record) \cup Claimed) \in Nat
    BY <2>2, Counting
  <2>4. (Promised(record) \cup Claimed)' = Promised(record)
    BY <2>1
  <2>5. faults = 0 => Cardinality(Promised(record)) <= record.maxPlayers
    BY <2>3, RoomIs DEF Inv, SeatsFit
  <2> QED
    BY <1>1, <2>4, <2>5 DEF SeatsFit, InLobby
<1>8. PartyFits' /\ HeroesAreUnique'
  BY DEF Inv, PartyFits, HeroesAreUnique, Members
<1> QED
  BY <1>3, <1>4, <1>5, <1>6, <1>7, <1>8 DEF Inv

\* The engine takes or drops the hero; the record follows in the next step.
LEMMA EngineStep ==
  ASSUME Inv, op.at = "engine", NEW at \in {"finish", "record"}, op' = [op EXCEPT !.at = at],
         NEW answer \in {"none", "alive"}, NEW st \in GameStatuses,
         game' = [game EXCEPT !.member[op.user] = answer, !.status = st],
         at = "finish" <=> answer = "alive", at = "record" <=> op.kind = "retire",
         UNCHANGED <<record, rest>>
  PROVE  Inv'
<1> USE DEF rest
<1>1. game.made /\ op # Idle /\ ~InLobby /\ game \in Games /\ op.user \in Users
  BY PlayingFacts, EndFacts
<1>2. op' \in Operations /\ op'.kind = op.kind /\ op'.user = op.user /\ op'.at = at
  BY DEF Inv, TypeOK, Operations
<1>3. /\ game' \in Games /\ game'.made = game.made /\ game'.member[op.user] = answer
      /\ \A v \in Users \ {op.user} : game'.member[v] = game.member[v]
  BY <1>1 DEF Games, GameStatuses
<1>4. TypeOK'
  BY <1>2, <1>3 DEF Inv, TypeOK, Operations
<1>5. Stages'
  BY <1>1, <1>2, <1>3 DEF Inv, Stages, Playing, InLobby, Idle
<1>6. OpFits'
  <2>1. op.kind \in {"join", "replace", "queued", "retire"}
    BY DEF Inv, OpFits
  <2> QED
    BY <1>1, <1>2, <1>3, <2>1 DEF OpFits
<1>7. DocumentsMatch'
  <2>1. \A v \in Users \ (torn \cup {op.user}) :
          v \in record.seats <=> game.member[v] # "none"
    BY EndFacts
  <2> QED
    BY <1>2, <1>3, <2>1 DEF Inv, DocumentsMatch, Matched
<1>8. SeatsFit'
  <2>1. Claimed' = Claimed /\ Promised(record)' = Promised(record)
    BY <1>2 DEF Claimed, Promised, Holds
  <2> QED
    BY <1>1, <2>1 DEF Inv, SeatsFit, InLobby
<1>9. HeroesAreUnique'
  BY DEF Inv, HeroesAreUnique
<1>10. PartyFits'
  <2> DEFINE M == Members(game)
             N == Members(game')
  <2>1. M \in SUBSET Users /\ N \in SUBSET Users /\ record.maxPlayers \in Nat
    BY RoomIs DEF Members
  <2>2. Cardinality(M) \in Nat /\ Cardinality(N) \in Nat /\ Cardinality(M) <= record.maxPlayers
    BY <1>1, <2>1, Counting DEF Inv, PartyFits
  <2>3. N \subseteq M \cup {op.user} /\ (answer = "none" => N \subseteq M)
    BY <1>1, <1>3 DEF Members
  <2>4. CASE answer = "none" \/ op.user \in M
    <3>1. N \in SUBSET M
      BY <2>3, <2>4
    <3> QED
      BY <2>1, <2>2, <3>1, Counting DEF PartyFits
  <2>5. CASE answer = "alive" /\ op.user \notin M
    <3>1. op.kind \in {"join", "queued"}
      BY <1>1, <2>5 DEF Inv, OpFits, Members
    <3>2. Cardinality(M) < record.maxPlayers
      BY <3>1 DEF Inv, OpFits
    <3>3. M \cup {op.user} \in SUBSET Users /\ N \in SUBSET (M \cup {op.user})
      BY <1>1, <2>1, <2>3
    <3>4. /\ Cardinality(M \cup {op.user}) <= Cardinality(M) + 1
          /\ Cardinality(N) <= Cardinality(M \cup {op.user})
          /\ Cardinality(M \cup {op.user}) \in Nat
      BY <1>1, <2>1, <3>3, Counting
    <3> QED
      BY <2>1, <2>2, <3>2, <3>4 DEF PartyFits
  <2> QED
    BY <2>4, <2>5
<1> QED
  BY <1>4, <1>5, <1>6, <1>7, <1>8, <1>9, <1>10 DEF Inv

LEMMA HeroJoinsStep ==
  ASSUME Inv, HeroJoins
  PROVE  Inv'
<1>1. op.at = "engine" /\ op.kind \in {"join", "replace", "queued"} /\ UNCHANGED <<record, rest>>
  BY DEF HeroJoins
<1>2. ASSUME NEW s \in PlaysOn(game), op' = [op EXCEPT !.at = "finish"],
             game' = [game EXCEPT !.member[op.user] = "alive", !.status = s]
      PROVE  Inv'
  <2>1. s \in GameStatuses
    BY <1>2 DEF Inv, TypeOK, Games, PlaysOn, GameStatuses
  <2> QED
    BY <1>1, <1>2, <2>1, EngineStep
<1>3. CASE op' = Idle /\ UNCHANGED game
  BY <1>1, <1>3, TurnedDownStep
<1>4. CASE op.kind = "queued" /\ op' = [op EXCEPT !.at = "return"] /\ UNCHANGED game
  BY <1>1, <1>4, GoesOnStep
<1> QED
  BY <1>2, <1>3, <1>4 DEF HeroJoins

LEMMA RetiresStep ==
  ASSUME Inv, MemberRetires
  PROVE  Inv'
<1>1. op.at = "engine" /\ op.kind = "retire" /\ UNCHANGED <<record, rest>>
  BY DEF MemberRetires
<1> DEFINE without == [game EXCEPT !.member[op.user] = "none"]
<1>2. ASSUME NEW s \in AfterLeaving(without), game' = [without EXCEPT !.status = s],
             op' = [op EXCEPT !.at = "record"]
      PROVE  Inv'
  <2>1. /\ s \in GameStatuses
        /\ game' = [game EXCEPT !.member[op.user] = "none", !.status = s]
    BY <1>2 DEF Inv, TypeOK, Games, AfterLeaving, GameStatuses
  <2> QED
    BY <1>1, <1>2, <2>1, EngineStep
<1>3. CASE op' = Idle /\ UNCHANGED game
  BY <1>1, <1>3, TurnedDownStep
<1> QED
  BY <1>2, <1>3 DEF MemberRetires

-----------------------------------------------------------------------------
(* The game starts, ends and is opened again; the table plays; faults.     *)

LEMMA StartStep ==
  ASSUME Inv, Start
  PROVE  Inv'
<1>1. /\ InTurn /\ InLobby /\ UNCHANGED rest
      /\ record' = [record EXCEPT !.lifecycle = "active", !.hero = [u \in Users |-> NoHero]]
      /\ game' = [game EXCEPT !.made = TRUE,
                   !.member = [u \in Users |-> IF u \in record.seats THEN "alive" ELSE "none"]]
      /\ op' = Steps("start", Organizer, "begin")
  BY DEF Start
<1>2. record \in Records /\ game \in Games /\ Live(record) /\ record.seats \subseteq Users
  BY PlayingFacts DEF Records
<1>3. /\ record' \in Records /\ Live(record') /\ record'.seats = record.seats
      /\ record'.lifecycle = "active" /\ record'.maxPlayers = record.maxPlayers
      /\ \A u \in Users : record'.hero[u] = NoHero
      /\ Promised(record') = Promised(record)
  BY <1>1, <1>2 DEF Records, Live, Promised, Holds
<1>4. /\ game' \in Games /\ game'.made /\ Members(game') = record.seats
      /\ \A u \in Users : u \in record.seats <=> game'.member[u] # "none"
  BY <1>1, <1>2 DEF Games, Members
<1>5. op'.kind = "start" /\ op'.at = "begin" /\ op' \in Operations
  BY <1>1 DEF Steps, Operations
<1>6. TypeOK'
  BY <1>1, <1>3, <1>4, <1>5 DEF rest, Inv, TypeOK, Live, Operations
<1>7. Stages'
  BY <1>3, <1>4, <1>5 DEF Stages, Playing, InLobby, Idle
<1>8. OpFits'
  BY <1>5 DEF OpFits
<1>9. DocumentsMatch'
  BY <1>1, <1>3, <1>4 DEF Inv, DocumentsMatch, Matched, rest
<1>10. SeatsFit'
  <2>1. Claimed' = {} /\ Claimed = {}
    BY <1>1, <1>5, RoomIs DEF Claimed
  <2>2. (Promised(record) \cup Claimed)' = Promised(record) \cup Claimed
    BY <1>3, <2>1 DEF Promised, Holds
  <2> QED
    BY <1>1, <1>3, <2>2 DEF Inv, SeatsFit, InLobby, rest
<1>11. PartyFits'
  BY <1>3, <1>4, LobbyFacts, <1>1 DEF PartyFits
<1>12. HeroesAreUnique'
  BY <1>2, <1>3 DEF HeroesAreUnique
<1> QED
  BY <1>6, <1>7, <1>8, <1>9, <1>10, <1>11, <1>12 DEF Inv

\* The opening is asked for; the engine is stopped; the game is opened again.
LEMMA StageStep ==
  ASSUME Inv, NEW r \in Records, record' = r, Live(r), r.seats = record.seats,
         r.hero = record.hero, r.request = record.request, r.live = record.live,
         r.maxPlayers = record.maxPlayers, r.lifecycle \in {"active", "archived", record.lifecycle},
         r.lifecycle = "active" => game.made,
         NEW g \in Games, game' = g, g.made = game.made, g.member = game.member,
         op.at \in {"none", "begin", "pause"}, op' \in Operations, op'.at \in {"none", "pause"},
         op'.at = "none" => op' = Idle, op' # Idle => r.lifecycle # "lobby",
         ended' \in BOOLEAN, UNCHANGED <<listed, booting, faults, torn>>
  PROVE  Inv'
<1>1. TypeOK'
  BY DEF Inv, TypeOK, Live, Operations
<1>2. Stages'
  <2>1. game.made => r.lifecycle # "lobby"
    BY DEF Inv, Stages, InLobby
  <2> QED
    BY <2>1 DEF Inv, Stages, Playing, InLobby, Idle
<1>3. OpFits'
  BY DEF OpFits
<1>4. DocumentsMatch'
  BY DEF Inv, DocumentsMatch, Matched
<1>5. SeatsFit'
  <2>1. Claimed' = {} /\ Claimed = {} /\ Promised(record)' = Promised(record)
    BY DEF Claimed, Promised, Holds
  <2>2. InLobby' => InLobby
    BY DEF InLobby
  <2> QED
    BY <2>1, <2>2 DEF Inv, SeatsFit
<1>6. PartyFits' /\ HeroesAreUnique'
  BY DEF Inv, PartyFits, HeroesAreUnique, Members
<1> QED
  BY <1>1, <1>2, <1>3, <1>4, <1>5, <1>6 DEF Inv

LEMMA LifeStep ==
  ASSUME Inv, StartBegins \/ End \/ EndPauses \/ Reopen
  PROVE  Inv'
<1>1. record \in Records /\ game \in Games /\ Live(record) /\ Idle \in Operations /\ Idle.at = "none"
  BY PlayingFacts DEF Idle, Operations
<1>2. CASE StartBegins
  <2> DEFINE g == Begun(game)
  <2>1. g \in Games /\ g.made = game.made /\ g.member = game.member
    BY <1>1 DEF Begun, Games, GameStatuses
  <2>2. game' = g /\ op.at = "begin" /\ op' = Idle /\ UNCHANGED <<record, rest>>
    BY <1>2 DEF StartBegins
  <2>3. record.lifecycle = "active" => game.made
    BY PlayingFacts DEF Playing
  <2>4. ended' \in BOOLEAN /\ UNCHANGED <<listed, booting, faults, torn>>
    BY <2>2 DEF rest, Inv, TypeOK
  <2> HIDE DEF g
  <2> QED
    BY <1>1, <2>1, <2>2, <2>3, <2>4, StageStep
<1>3. CASE End
  <2> DEFINE r == [record EXCEPT !.lifecycle = "archived"]
  <2>1. /\ r \in Records /\ Live(r) /\ r.seats = record.seats /\ r.hero = record.hero
        /\ r.request = record.request /\ r.live = record.live
        /\ r.maxPlayers = record.maxPlayers /\ r.lifecycle = "archived"
    BY <1>1 DEF Records, Live
  <2>2. record' = r /\ op.at = "none" /\ op' = Steps("end", Organizer, "pause")
        /\ UNCHANGED <<game, rest>>
    BY <1>1, <1>3 DEF End, InTurn
  <2>3. op' \in Operations /\ op'.at = "pause"
    BY <2>2 DEF Steps, Operations
  <2>4. ended' \in BOOLEAN /\ UNCHANGED <<listed, booting, faults, torn>>
    BY <2>2 DEF rest, Inv, TypeOK
  <2> HIDE DEF r
  <2> QED
    BY <1>1, <2>1, <2>2, <2>3, <2>4, StageStep
<1>4. CASE EndPauses
  <2> DEFINE g == [game EXCEPT !.status = IF game.made /\ ~ended THEN "paused" ELSE @]
  <2>1. g \in Games /\ g.made = game.made /\ g.member = game.member
    BY <1>1 DEF Games, GameStatuses
  <2>2. game' = g /\ op.at = "pause" /\ op' = Idle
        /\ ended' = (ended \/ game.made) /\ UNCHANGED <<record, listed, booting, faults, torn>>
    BY <1>4 DEF EndPauses
  <2>3. record.lifecycle = "active" => game.made
    BY PlayingFacts DEF Playing
  <2>4. ended' \in BOOLEAN
    BY <2>2
  <2> HIDE DEF g
  <2> QED
    BY <1>1, <2>1, <2>2, <2>3, <2>4, StageStep
<1>5. CASE Reopen
  <2> DEFINE r == [record EXCEPT !.lifecycle = "active"]
  <2>1. /\ r \in Records /\ Live(r) /\ r.seats = record.seats /\ r.hero = record.hero
        /\ r.request = record.request /\ r.live = record.live
        /\ r.maxPlayers = record.maxPlayers /\ r.lifecycle = "active"
    BY <1>1 DEF Records, Live
  <2>2. record' = r /\ op = Idle /\ game.made /\ UNCHANGED <<game, op, rest>>
    BY <1>5 DEF Reopen, InTurn, Saves
  <2>3. ended' \in BOOLEAN /\ UNCHANGED <<listed, booting, faults, torn>>
    BY <2>2 DEF rest, Inv, TypeOK
  <2> HIDE DEF r
  <2> QED
    BY <1>1, <2>1, <2>2, <2>3, StageStep
<1> QED
  BY <1>2, <1>3, <1>4, <1>5

LEMMA TableStep ==
  ASSUME Inv, Table
  PROVE  Inv'
<1>1. game \in Games /\ booting \in BOOLEAN
  BY DEF Inv, TypeOK
<1>2. PICK g : Plays(g) /\ g \in Games /\ g.made = game.made
               /\ \A u \in Users : g.member[u] = "none" <=> game.member[u] = "none"
  <2>1. CASE \E u \in Users : HeroFalls(u)
    <3>1. PICK u \in Users : HeroFalls(u)
      BY <2>1
    <3> DEFINE f == [game EXCEPT !.member[u] = "fallen"]
    <3>2. game.member[u] = "alive" /\ Plays(f)
      BY <3>1 DEF HeroFalls
    <3>3. /\ f \in Games /\ f.made = game.made
          /\ \A v \in Users : f.member[v] = "none" <=> game.member[v] = "none"
      BY <1>1, <3>2 DEF Games
    <3> HIDE DEF f
    <3> QED
      BY <3>2, <3>3
  <2>2. CASE NobodyIsPresent \/ Pause \/ Continue
    <3>1. PICK p \in GameStatuses, b \in BOOLEAN : Plays([game EXCEPT !.status = p, !.begun = b])
      <4>1. \A p : [game EXCEPT !.status = p] = [game EXCEPT !.status = p, !.begun = game.begun]
        BY <1>1 DEF Games
      <4>2. game.begun \in BOOLEAN
        BY <1>1 DEF Games
      <4>3. CASE NobodyIsPresent
        BY <4>1, <4>2, <4>3 DEF NobodyIsPresent, GameStatuses
      <4>4. CASE Pause
        BY <4>1, <4>2, <4>4 DEF Pause, GameStatuses
      <4>5. CASE Continue
        BY <4>1, <4>2, <4>5 DEF Continue, GameStatuses
      <4> QED
        BY <2>2, <4>3, <4>4, <4>5
    <3> DEFINE f == [game EXCEPT !.status = p, !.begun = b]
    <3>2. f \in Games /\ f.made = game.made /\ f.member = game.member
      BY <1>1 DEF Games, GameStatuses
    <3> HIDE DEF f
    <3> QED
      BY <3>1, <3>2 DEF f
  <2>3. CASE FightComesNear \/ FightStarts \/ FightEnds
             \/ ClosingIsTold \/ ClosingIsGivenUp \/ ClosingIsRetried
    <3>1. \E fight \in {"none", "near", "on", "telling", "untold"} :
            Plays([game EXCEPT !.fight = fight])
      BY <2>3 DEF FightComesNear, FightStarts, FightEnds, ClosingIsTold, ClosingIsGivenUp,
                  ClosingIsRetried
    <3>2. PICK fight \in {"none", "near", "on", "telling", "untold"} :
            Plays([game EXCEPT !.fight = fight])
      BY <3>1
    <3> DEFINE f == [game EXCEPT !.fight = fight]
    <3>3. f \in Games /\ f.made = game.made /\ f.member = game.member
      BY <1>1 DEF Games
    <3>4. Plays(f)
      BY <3>2
    <3> HIDE DEF f
    <3> QED
      BY <3>3, <3>4
  <2> QED
    BY <2>1, <2>2, <2>3 DEF Table
<1>3. game' = g /\ UNCHANGED <<record, op, listed, ended, faults, torn>> /\ booting' \in BOOLEAN
  BY <1>1, <1>2 DEF Plays, rest
<1> QED
  BY <1>2, <1>3, TableChange

LEMMA RecoverStep ==
  ASSUME Inv, Recover
  PROVE  Inv'
<1>1. /\ game' \in Games /\ game'.made = game.made /\ game'.member = game.member
      /\ booting' \in BOOLEAN /\ UNCHANGED <<record, op, listed, ended, faults, torn>>
  BY LobbySizesAssumption DEF Recover, Begun, Inv, TypeOK, Games, GameStatuses, NotBegun
<1> QED
  BY <1>1, TableChange

\* What a fault leaves open is on the list of those it cut off.
LEMMA FaultStep ==
  ASSUME Inv, Crash \/ SaveConflicts
  PROVE  Inv'
<1>1. /\ op' = Idle /\ faults' = faults + 1 /\ UNCHANGED <<record, game, ended>>
      /\ torn' = IF Differs(op.user) THEN torn \cup {op.user} ELSE torn
      /\ booting' \in BOOLEAN /\ listed' \in {listed, {}}
  BY DEF Crash, SaveConflicts, CutsOff, Inv, TypeOK
<1>2. TypeOK'
  BY <1>1 DEF Inv, TypeOK, Idle, Differs
<1>3. Stages'
  BY <1>1 DEF Inv, Stages, Playing, InLobby, Idle
<1>4. OpFits'
  BY <1>1 DEF OpFits, Idle
<1>5. faults' # 0
  BY <1>1 DEF Inv, TypeOK
<1>6. DocumentsMatch'
  BY <1>1, <1>5 DEF Inv, DocumentsMatch, Matched, Differs
<1>7. SeatsFit'
  BY <1>1, <1>5 DEF Inv, SeatsFit, InLobby
<1>8. PartyFits' /\ HeroesAreUnique'
  BY <1>1 DEF Inv, PartyFits, HeroesAreUnique, Members
<1> QED
  BY <1>2, <1>3, <1>4, <1>6, <1>7, <1>8 DEF Inv

-----------------------------------------------------------------------------
(* The invariant, and what it says of the properties.                      *)

LEMMA InitHolds == Init => Inv
<1> SUFFICES ASSUME Init PROVE Inv
  OBVIOUS
<1>1. PICK size \in Sizes, private \in Visibilities :
        record = [lifecycle |-> "lobby", membersOnly |-> private, maxPlayers |-> size,
                  seats |-> {}, hero |-> [u \in Users |-> NoHero],
                  request |-> [u \in Users |-> "none"], live |-> {}]
  BY DEF Init
<1>2. /\ game = [made |-> FALSE, begun |-> FALSE, status |-> "active",
                 member |-> [u \in Users |-> "none"], fight |-> "none"]
      /\ op = Idle /\ listed = {} /\ ended = FALSE /\ booting = FALSE
      /\ faults = 0 /\ torn = {}
  BY DEF Init
<1>3. size \in Nat /\ private \in BOOLEAN
  BY LobbySizesAssumption
<1>4. /\ record \in Records /\ record.seats = {} /\ record.live = {}
      /\ record.maxPlayers \in Nat /\ record.lifecycle = "lobby"
  BY <1>1, <1>3 DEF Records, Requests
<1>5. /\ game \in Games /\ ~game.made
  BY <1>2 DEF Games, GameStatuses
<1>6. Idle \in Operations /\ Idle.at = "none" /\ Idle.kind = "none"
  BY DEF Idle, Operations
<1>7. TypeOK
  BY <1>2, <1>4, <1>5, <1>6 DEF TypeOK, Operations
<1>8. Stages /\ OpFits
  BY <1>2, <1>4, <1>5, <1>6 DEF Stages, OpFits, Playing
<1>9. DocumentsMatch /\ PartyFits /\ HeroesAreUnique
  BY <1>2, <1>4, <1>5 DEF DocumentsMatch, PartyFits, HeroesAreUnique
<1>10. SeatsFit
  <2>1. Promised(record) \cup Claimed = {}
    BY <1>2, <1>4, <1>6 DEF Promised, Holds, Claimed
  <2>2. Cardinality({}) = 0
    BY FS_EmptySet
  <2>3. Cardinality(record.seats) = 0 /\ Cardinality(Promised(record) \cup Claimed) = 0
    BY <1>4, <2>1, <2>2
  <2>4. record.maxPlayers >= 0
    BY <1>4
  <2> QED
    BY <1>4, <2>3, <2>4 DEF SeatsFit
<1> QED
  BY <1>7, <1>8, <1>9, <1>10 DEF Inv

LEMMA NextKeepsInv == Inv /\ Next => Inv'
<1> SUFFICES ASSUME Inv, Next PROVE Inv'
  OBVIOUS
<1>1. CASE LobbyOperation
  BY <1>1, LobbyStep, StartStep
<1>2. CASE RequestOperation
  BY <1>2, RequestStep
<1>3. CASE SeatOperation
  BY <1>3, LifeStep, JoinOngoingStep, ReplaceStep, RetireStep DEF SeatOperation
<1>4. CASE OperationStep
  BY <1>4, LifeStep, QueuedStep, HeroJoinsStep, FinishedStep, ReturnedStep, RetiresStep,
     FreedStep DEF OperationStep
<1>5. CASE ListQueuedJoins \/ (\E u \in Users : ProcessQueuedJoin(u))
  BY <1>5, ListQueuedStep, ProcessStep
<1>6. CASE Table \/ Recover
  BY <1>6, TableStep, RecoverStep
<1>7. CASE Crash \/ SaveConflicts
  BY <1>7, FaultStep
<1> QED
  BY <1>1, <1>2, <1>3, <1>4, <1>5, <1>6, <1>7 DEF Next

LEMMA StutteringKeepsInv == Inv /\ UNCHANGED vars => Inv'
BY DEF Inv, vars, TypeOK, Stages, OpFits, DocumentsMatch, SeatsFit, PartyFits, HeroesAreUnique,
       Playing, InLobby, Members, Matched, Promised, Holds, Claimed

\* The invariant holds whatever the order of the operations, expiries, fights
\* and faults (campaign-lobby-service.ts).
THEOREM LobbyInvariance == Spec => []Inv
<1>1. Inv /\ [Next]_vars => Inv'
  BY NextKeepsInv, StutteringKeepsInv
<1> QED
  BY InitHolds, <1>1, PTL DEF Spec

\* Seats and promises never outnumber the seats as long as no operation was cut
\* off, the table never has too many players at all, and no two seats hold the
\* same hero (campaign-lobby-service.ts:429, 583 and 728, lobby.ts:73 and 132).
THEOREM NoSeatTooMany == Spec => []SeatsInOrder
<1>1. Inv => SeatsInOrder
  <2> SUFFICES ASSUME Inv PROVE SeatsInOrder
    OBVIOUS
  <2>1. ASSUME faults = 0
        PROVE  reservedSeats(record) <= record.maxPlayers
    <3>1. Promised(record) \cup Claimed \in SUBSET Users /\ Promised(record) \in SUBSET Users
      BY RoomIs
    <3>2. /\ Cardinality(Promised(record)) <= Cardinality(Promised(record) \cup Claimed)
          /\ Cardinality(Promised(record)) \in Nat
          /\ Cardinality(Promised(record) \cup Claimed) \in Nat
      BY <3>1, Counting
    <3>3. Cardinality(Promised(record) \cup Claimed) <= record.maxPlayers
      BY <2>1 DEF Inv, SeatsFit
    <3> QED
      BY <3>2, <3>3, RoomIs
  <2> QED
    BY <2>1 DEF Inv, SeatsInOrder, NoSeatIsSoldTwice
<1> QED
  BY LobbyInvariance, <1>1, PTL

\* The lobby and the engine name the same players, but for one whose operation
\* is under way or was cut off between the two documents.
THEOREM DocumentsNameTheSamePlayers == Spec => []SeatsMatchTheTable
<1>1. Inv => SeatsMatchTheTable
  BY DEF Inv, DocumentsMatch, Matched, SeatsMatchTheTable
<1> QED
  BY LobbyInvariance, <1>1, PTL
-----------------------------------------------------------------------------
(* Why a started game begins.                                              *)

\* A game that was made and is active without having begun is about to begin or to
\* be paused, or waits for the recovery, as long as one operation at most was cut off.
BeginsFit ==
  /\ op.at = "begin" => Playing
  /\ ended => game.begun \/ game.status # "active"
  /\ game.made /\ ~game.begun /\ game.status = "active" /\ faults <= 1 =>
       \/ op.at = "begin"
       \/ faults = 1 /\ Playing /\ booting
       \/ faults = 1 /\ op.at = "pause" /\ ~Playing

\* Steps that neither make, end nor reopen a game.
LEMMA BeginsStays ==
  ASSUME BeginsFit, UNCHANGED <<ended, booting, faults>>, record'.lifecycle = record.lifecycle,
         game'.made = game.made, game.begun => game'.begun,
         game.status # "active" => game'.status # "active" \/ game'.begun,
         op'.at = "begin" <=> op.at = "begin", op.at = "pause" => op'.at = "pause"
  PROVE  BeginsFit'
  BY DEF BeginsFit, Playing

\* Steps of a lobby whose game was not made.
LEMMA BeginsLater ==
  ASSUME BeginsFit, ~game.made, UNCHANGED <<game, ended>>, op'.at # "begin"
  PROVE  BeginsFit'
  BY DEF BeginsFit

LEMMA IdleIs == Idle.at = "none" /\ \A kind, u, at : Steps(kind, u, at).at = at
  BY DEF Idle, Steps

LEMMA LobbyBegins ==
  ASSUME Inv, BeginsFit, LobbyOperation
  PROVE  BeginsFit'
<1>1. CASE Start
  <2>1. record \in Records /\ game \in Games
    BY DEF Inv, TypeOK
  <2>2. /\ record'.lifecycle = "active" /\ op'.at = "begin" /\ UNCHANGED ended
        /\ game'.begun = game.begun /\ game'.status = game.status
    BY <1>1, <2>1, IdleIs DEF Start, Records, Games, rest
  <2> QED
    BY <2>2 DEF BeginsFit, Playing
<1>2. CASE SetPartySize
  <2>1. PICK size \in Sizes : Saves([record EXCEPT !.maxPlayers = size])
    BY <1>2 DEF SetPartySize
  <2>2. record'.lifecycle = record.lifecycle /\ UNCHANGED <<game, op, ended, booting, faults>>
    BY <2>1 DEF Saves, rest, Inv, TypeOK, Records
  <2> QED
    BY <2>2, BeginsStays
<1>3. CASE ~Start /\ ~SetPartySize
  <2>1. InTurn /\ InLobby /\ UNCHANGED <<game, op, ended>>
    BY <1>3 DEF LobbyOperation, Cancel, Join, JoinFromActivity, InviteLobby, Leave, RemoveMember,
         ChooseHero, Saves, rest
  <2>2. ~game.made /\ op'.at # "begin"
    BY <2>1, IdleIs DEF Inv, Stages, InTurn
  <2> QED
    BY <2>1, <2>2, BeginsLater
<1> QED
  BY <1>1, <1>2, <1>3

LEMMA RequestBegins ==
  ASSUME Inv, BeginsFit, RequestOperation
  PROVE  BeginsFit'
<1>1. record \in Records
  BY DEF Inv, TypeOK
<1>2. PICK u \in Applicants : \/ RequestOngoing(u) \/ WithdrawOngoing(u) \/ InviteOngoing(u)
                              \/ DecideOngoing(u) \/ AcceptInvite(u) \/ RevokeJoin(u)
                              \/ RequestRunsOut(u)
  BY DEF RequestOperation
<1>3. /\ Forgets(record, u).lifecycle = record.lifecycle
      /\ \A answer : /\ Asks(record, u, answer).lifecycle = record.lifecycle
                     /\ [record EXCEPT !.request[u] = answer].lifecycle = record.lifecycle
      /\ [record EXCEPT !.live = @ \ {u}].lifecycle = record.lifecycle
  BY <1>1 DEF Forgets, Asks, Records
<1>4. record'.lifecycle = record.lifecycle /\ UNCHANGED <<game, op, rest>>
  BY <1>2, <1>3 DEF RequestOngoing, WithdrawOngoing, InviteOngoing, DecideOngoing, AcceptInvite,
       RevokeJoin, RequestRunsOut, Saves
<1> QED
  BY <1>4, BeginsStays DEF rest

LEMMA SeatBegins ==
  ASSUME Inv, BeginsFit, SeatOperation \/ (\E u \in Users : ProcessQueuedJoin(u))
  PROVE  BeginsFit'
<1>0. record \in Records /\ InTurn /\ op.at = "none"
  BY IdleIs DEF Inv, TypeOK, SeatOperation, End, Reopen, JoinOngoing, ReplaceFallen, RetireSeat,
       ProcessQueuedJoin, InTurn
<1>1. CASE End
  <2>1. /\ record'.lifecycle = "archived" /\ op'.at = "pause"
        /\ UNCHANGED <<game, ended, booting, faults>>
    BY <1>0, <1>1, IdleIs DEF End, rest, Records
  <2> QED
    BY <1>0, <2>1 DEF BeginsFit, Playing
<1>2. CASE Reopen
  <2>1. /\ record.lifecycle = "archived" /\ record'.lifecycle = "active"
        /\ UNCHANGED <<game, op, ended, booting, faults>>
    BY <1>0, <1>2 DEF Reopen, Saves, rest, Records
  <2> QED
    BY <1>0, <2>1 DEF BeginsFit, Playing
<1>3. CASE \E u \in Users : JoinOngoing(u) \/ ReplaceFallen(u) \/ RetireSeat(u) \/ ProcessQueuedJoin(u)
  <2>1. /\ UNCHANGED <<record, game, ended, booting, faults>>
        /\ op'.at \in {"none", "finish", "queue", "engine", "return"}
    BY <1>0, <1>3, IdleIs DEF JoinOngoing, ReplaceFallen, RetireSeat, ProcessQueuedJoin, Begins
  <2> QED
    BY <1>0, <2>1, BeginsStays
<1> QED
  BY <1>1, <1>2, <1>3 DEF SeatOperation

LEMMA OperationBeginsFit ==
  ASSUME Inv, BeginsFit, OperationStep
  PROVE  BeginsFit'
<1>0. record \in Records /\ game \in Games
  BY DEF Inv, TypeOK
<1>1. CASE StartBegins
  <2>1. game'.begun /\ op'.at # "begin"
    BY <1>0, <1>1, IdleIs DEF StartBegins, Begun, Games
  <2> QED
    BY <2>1 DEF BeginsFit
<1>2. CASE EndPauses
  <2>1. /\ op.at = "pause" /\ op'.at = "none" /\ ended' = (ended \/ game.made)
        /\ game'.made = game.made /\ game'.begun = game.begun
        /\ game'.status = (IF game.made /\ ~ended THEN "paused" ELSE game.status)
    BY <1>0, <1>2, IdleIs DEF EndPauses, Games
  <2> QED
    BY <2>1 DEF BeginsFit
<1>3. ASSUME NEW u, NEW r \in {record, Forgets(Unseated(record, u), u),
                               Forgets([record EXCEPT !.seats = @ \cup {u}], u)}
      PROVE  r.lifecycle = record.lifecycle
  <2> DEFINE s == Unseated(record, u)
             t == [record EXCEPT !.seats = @ \cup {u}]
  <2>1. s.lifecycle = record.lifecycle /\ t.lifecycle = record.lifecycle
    BY <1>0 DEF Unseated, Records
  <2>2. \A x : Forgets(x, u).lifecycle = x.lifecycle
    BY DEF Forgets
  <2> HIDE DEF s, t
  <2> QED
    BY <1>3, <2>1, <2>2 DEF s, t
<1>4. CASE JoinIsQueued \/ HeroJoins \/ FinishOngoingJoin \/ ReturnQueuedJoin \/ MemberRetires \/ SeatIsFreed
  <2>1. op.at \in {"queue", "engine", "finish", "return", "record"}
    BY <1>4 DEF JoinIsQueued, HeroJoins, FinishOngoingJoin, ReturnQueuedJoin, MemberRetires, SeatIsFreed
  <2>2. op'.at \in {"none", "finish", "return", "record"} /\ UNCHANGED <<ended, booting, faults>>
    BY <1>4, IdleIs DEF JoinIsQueued, HeroJoins, FinishOngoingJoin, ReturnQueuedJoin, MemberRetires,
         SeatIsFreed, rest, Inv, TypeOK
  <2>3. record'.lifecycle = record.lifecycle
    <3>1. CASE JoinIsQueued \/ HeroJoins \/ ReturnQueuedJoin \/ MemberRetires
      BY <1>0, <3>1 DEF JoinIsQueued, HeroJoins, ReturnQueuedJoin, MemberRetires, Records
    <3>2. CASE FinishOngoingJoin \/ SeatIsFreed
      BY <1>3, <3>2 DEF FinishOngoingJoin, SeatIsFreed
    <3> QED
      BY <1>4, <3>1, <3>2
  <2>4. /\ game'.made = game.made /\ game'.begun = game.begun
        /\ game.status # "active" => game'.status # "active" \/ game'.begun
    <3>1. CASE HeroJoins
      BY <1>0, <3>1 DEF HeroJoins, PlaysOn, Games
    <3>2. CASE MemberRetires
      BY <1>0, <3>2 DEF MemberRetires, AfterLeaving, Games
    <3>3. CASE JoinIsQueued \/ FinishOngoingJoin \/ ReturnQueuedJoin \/ SeatIsFreed
      BY <3>3 DEF JoinIsQueued, FinishOngoingJoin, ReturnQueuedJoin, SeatIsFreed
    <3> QED
      BY <1>4, <3>1, <3>2, <3>3
  <2> QED
    BY <2>1, <2>2, <2>3, <2>4, BeginsStays
<1> QED
  BY <1>1, <1>2, <1>4 DEF OperationStep

LEMMA OthersBegin ==
  ASSUME Inv, BeginsFit, ListQueuedJoins \/ Table \/ Crash \/ SaveConflicts \/ Recover
  PROVE  BeginsFit'
<1>0. game \in Games /\ faults \in Nat
  BY DEF Inv, TypeOK
<1>1. CASE ListQueuedJoins
  BY <1>1, BeginsStays DEF ListQueuedJoins
<1>2. CASE Table
  <2>1. /\ UNCHANGED <<record, op, ended, booting, faults>> /\ game'.made = game.made
        /\ game.begun => game'.begun
        /\ game.status # "active" => game'.status # "active" \/ game'.begun
    BY <1>0, <1>2 DEF Table, FightComesNear, FightStarts, FightEnds, ClosingIsTold, ClosingIsGivenUp,
         ClosingIsRetried, NobodyIsPresent, Pause, Continue, HeroFalls, Plays, rest, Games
  <2> QED
    BY <2>1, BeginsStays
<1>3. CASE Crash \/ SaveConflicts
  <2>1. /\ op'.at = "none" /\ faults' = faults + 1 /\ UNCHANGED <<record, game, ended>>
        /\ op.at = "begin" => booting'
    BY <1>3, IdleIs DEF Crash, SaveConflicts, CutsOff
  <2> QED
    BY <1>0, <2>1 DEF BeginsFit, Playing
<1>4. CASE Recover
  <2>1. /\ UNCHANGED <<record, op, ended, faults>> /\ game'.made = game.made
        /\ game.begun => game'.begun
        /\ game.status # "active" => game'.status # "active" \/ game'.begun
        /\ Playing => game'.begun \/ game'.status # "active"
    BY <1>0, <1>4 DEF Recover, Begun, NotBegun, Games
  <2> QED
    BY <2>1 DEF BeginsFit, Playing
<1> QED
  BY <1>1, <1>2, <1>3, <1>4

\* An active game being played that is not begun has somebody who will begin it: the
\* operation that started it, or the recovery of a process that died in between. One
\* that waits or is paused is begun by the continue, the recovery leaves it alone. Two
\* faults can break it (start and recover in campaign-lobby-service.ts and
\* campaign-runtime.ts).
THEOREM StartedGamesHaveAStarter ==
  Spec => [](Playing /\ ~game.begun /\ game.status = "active" /\ faults <= 1
               => op.at = "begin" \/ booting)
<1>1. Init => BeginsFit
  BY IdleIs DEF Init, BeginsFit
<1>2. Inv /\ BeginsFit /\ [Next]_vars => BeginsFit'
  <2>1. ASSUME Inv, BeginsFit, Next PROVE BeginsFit'
    BY <2>1, LobbyBegins, RequestBegins, SeatBegins, OperationBeginsFit, OthersBegin DEF Next
  <2>2. ASSUME BeginsFit, UNCHANGED vars PROVE BeginsFit'
    BY <2>2 DEF vars, BeginsFit, Playing
  <2> QED
    BY <2>1, <2>2
<1>3. Inv /\ BeginsFit =>
        (Playing /\ ~game.begun /\ game.status = "active" /\ faults <= 1
           => op.at = "begin" \/ booting)
  BY DEF Inv, Stages, BeginsFit
<1> QED
  BY <1>1, <1>2, <1>3, LobbyInvariance, PTL DEF Spec

-----------------------------------------------------------------------------
(* Why a queued join is made.                                              *)

\* The operation that has its turn is at a step that can be taken: the guards of
\* OperationStep.
CanGoOn ==
  \/ op.at \in {"begin", "queue", "finish", "return", "record", "pause"}
  \/ op.at = "engine" /\ op.kind \in {"join", "replace", "queued", "retire"}

\* Somebody waits in the queue of a game being played.
WaitsInQueue(u) == Playing /\ record.request[u] = "queued" /\ u \in record.live

\* An operation of the pass for this user.
PassWorksFor(u) == op.kind = "queued" /\ op.user = u /\ op.at \in {"engine", "finish", "return"}

\* The operations of the pass have no other steps.
PassFits == op.kind = "queued" => PassWorksFor(op.user)

IsCutOff == faults' = faults + 1

\* A turn of the pass at a safe break takes the join of its user up, unless the
\* process dies; and what was taken up ends with the join made or sent back, unless
\* it is cut off.
TakenUp(u) ==
  WaitsInQueue(u) /\ SafeBreak /\ u \in listed /\ u \notin listed' => PassWorksFor(u)' \/ IsCutOff
Pursued(u) ==
  PassWorksFor(u) => PassWorksFor(u)' \/ record'.request[u] # "queued" \/ IsCutOff

LEMMA PassHasItsTurn ==
  ASSUME op.kind = "queued"
  PROVE  ~InTurn
  BY DEF InTurn, Idle

\* What the steps of the operations do to the pass.
LEMMA PassSteps ==
  ASSUME Inv, PassFits, OperationStep
  PROVE  PassFits' /\ UNCHANGED listed /\ \A u \in Users : Pursued(u)
<1>0. /\ record \in Records
      /\ op \in [kind : {"none", "start", "join", "replace", "queued", "retire", "end"},
                 user : Users \cup {Organizer},
                 at : {"none", "begin", "queue", "engine", "finish", "return", "record", "pause"}]
      /\ Idle.kind = "none"
  BY DEF Inv, TypeOK, Idle
<1>1. UNCHANGED listed
  BY DEF OperationStep, StartBegins, JoinIsQueued, HeroJoins, FinishOngoingJoin, ReturnQueuedJoin,
       MemberRetires, SeatIsFreed, EndPauses, rest
<1>2. CASE HeroJoins
  <2>1. \/ op' = [op EXCEPT !.at = "finish"]
        \/ op.kind = "queued" /\ op' = [op EXCEPT !.at = "return"]
        \/ op.kind # "queued" /\ op' = Idle
    BY <1>2 DEF HeroJoins
  <2>2. op'.kind = "queued" => op.kind = "queued" /\ op'.user = op.user /\ op'.at \in {"finish", "return"}
    BY <1>0, <2>1
  <2>3. op.kind = "queued" => op'.kind = "queued"
    BY <1>0, <2>1
  <2> QED
    BY <1>1, <2>2, <2>3 DEF PassFits, PassWorksFor, Pursued
<1>3. CASE MemberRetires
  <2>1. op.kind = "retire" /\ op'.kind # "queued"
    BY <1>0, <1>3 DEF MemberRetires
  <2> QED
    BY <1>1, <2>1 DEF PassFits, PassWorksFor, Pursued
<1>4. CASE op' = Idle
  <2>1. PassFits'
    BY <1>0, <1>4 DEF PassFits
  <2>2. ASSUME NEW u \in Users, PassWorksFor(u) PROVE Pursued(u)
    <3>1. u = op.user /\ op.kind = "queued" /\ op.at \in {"engine", "finish", "return"}
      BY <2>2 DEF PassWorksFor
    <3>2. CASE FinishOngoingJoin
      <4> DEFINE r == [record EXCEPT !.seats = @ \cup {op.user}]
      <4>1. r.request = record.request
        BY <1>0 DEF Records
      <4>2. record' = Forgets(r, u)
        BY <3>1, <3>2 DEF FinishOngoingJoin
      <4>3. r.request \in [Users -> Requests] /\ r \in Records
        BY <1>0, <2>2, <3>1 DEF Records
      <4> HIDE DEF r
      <4>4. record'.request[u] = "none"
        BY <4>2, <4>3 DEF Forgets, Records
      <4> QED
        BY <4>4 DEF Pursued
    <3>3. CASE ReturnQueuedJoin
      <4>1. record'.request[u] # "queued"
        BY <1>0, <3>1, <3>3 DEF ReturnQueuedJoin, Records
      <4> QED
        BY <4>1 DEF Pursued
    <3>4. CASE HeroJoins \/ MemberRetires
      BY <1>2, <1>3, <3>4
    <3>5. ~StartBegins /\ ~JoinIsQueued /\ ~SeatIsFreed /\ ~EndPauses
      BY <3>1 DEF StartBegins, JoinIsQueued, SeatIsFreed, EndPauses
    <3> QED
      BY <3>2, <3>3, <3>4, <3>5 DEF OperationStep
  <2>3. \A u \in Users : Pursued(u)
    BY <2>2 DEF Pursued
  <2> QED
    BY <1>1, <2>1, <2>3
<1>5. \/ HeroJoins \/ MemberRetires \/ op' = Idle
  BY DEF OperationStep, StartBegins, JoinIsQueued, FinishOngoingJoin, ReturnQueuedJoin, SeatIsFreed, EndPauses
<1> QED
  BY <1>2, <1>3, <1>4, <1>5

\* What everything else does to it.
LEMMA PassWaits ==
  ASSUME Inv, PassFits, LobbyOperation \/ RequestOperation \/ SeatOperation
  PROVE  PassFits' /\ UNCHANGED listed /\ \A u \in Users : Pursued(u)
<1>1. UNCHANGED listed
  BY DEF LobbyOperation, Cancel, SetPartySize, Start, Join, JoinFromActivity, InviteLobby, Leave,
       RemoveMember, ChooseHero, RequestOperation, RequestOngoing, WithdrawOngoing, InviteOngoing,
       DecideOngoing, AcceptInvite, RevokeJoin, RequestRunsOut, SeatOperation, End, Reopen,
       JoinOngoing, ReplaceFallen, RetireSeat, Saves, rest
<1>2. CASE UNCHANGED op
  BY <1>1, <1>2 DEF PassFits, PassWorksFor, Pursued
<1>3. CASE op' # op
  <2>1. InTurn /\ op'.kind # "queued"
    BY <1>3 DEF LobbyOperation, Cancel, SetPartySize, Start, Join, JoinFromActivity, InviteLobby, Leave,
         RemoveMember, ChooseHero, RequestOperation, RequestOngoing, WithdrawOngoing, InviteOngoing,
         DecideOngoing, AcceptInvite, RevokeJoin, RequestRunsOut, SeatOperation, End, Reopen,
         JoinOngoing, ReplaceFallen, RetireSeat, Saves, Begins, Steps
  <2> QED
    BY <1>1, <2>1, PassHasItsTurn DEF PassFits, PassWorksFor, Pursued
<1> QED
  BY <1>2, <1>3

LEMMA PassTurn ==
  ASSUME Inv, PassFits, NEW v \in Users, ProcessQueuedJoin(v)
  PROVE  PassFits' /\ \A u \in Users : TakenUp(u) /\ Pursued(u)
<1>1. InTurn /\ listed' = listed \ {v} /\ op.kind # "queued"
  BY PassHasItsTurn DEF ProcessQueuedJoin
<1>2. op' = op \/ \E at \in {"finish", "return", "engine"} : op' = Steps("queued", v, at)
  BY DEF ProcessQueuedJoin, Begins
<1>3. op'.kind = "queued" => op'.user = v /\ op'.at \in {"finish", "return", "engine"}
  BY <1>1, <1>2 DEF Steps
<1>4. ASSUME WaitsInQueue(v), SafeBreak PROVE op'.kind = "queued"
  <2>1. record.request[v] = "queued" /\ v \in record.live /\ ~mustWaitForFight(game)
    BY <1>4 DEF WaitsInQueue, SafeBreak, mustWaitForFight
  <2>2. op' # op => op'.kind = "queued"
    BY <1>2 DEF Steps
  <2>3. \E at \in {"finish", "return", "engine"} : op' = Steps("queued", v, at)
    BY <2>1 DEF ProcessQueuedJoin, Begins
  <2> QED
    BY <2>3 DEF Steps
<1>5. PassFits' /\ \A u \in Users : Pursued(u)
  BY <1>1, <1>3 DEF PassFits, PassWorksFor, Pursued
<1>6. ASSUME NEW u \in Users, WaitsInQueue(u), SafeBreak, u \in listed, u \notin listed'
      PROVE  PassWorksFor(u)'
  BY <1>1, <1>3, <1>4, <1>6 DEF PassWorksFor
<1> QED
  BY <1>5, <1>6 DEF TakenUp

LEMMA PassGoesOn ==
  ASSUME Inv, PassFits, [Next]_vars
  PROVE  PassFits' /\ \A u \in Users : TakenUp(u) /\ Pursued(u)
<1>1. CASE LobbyOperation \/ RequestOperation \/ SeatOperation
  BY <1>1, PassWaits DEF TakenUp
<1>2. CASE OperationStep
  BY <1>2, PassSteps DEF TakenUp
<1>3. CASE \E v \in Users : ProcessQueuedJoin(v)
  BY <1>3, PassTurn
<1>4. CASE Crash \/ SaveConflicts
  <2>1. op' = Idle /\ IsCutOff /\ Idle.kind = "none"
    BY <1>4 DEF Crash, SaveConflicts, CutsOff, IsCutOff, Idle
  <2> QED
    BY <2>1 DEF PassFits, TakenUp, Pursued
<1>5. CASE ListQueuedJoins \/ Table \/ Recover \/ UNCHANGED vars
  <2>1. UNCHANGED op
    BY <1>5 DEF ListQueuedJoins, Table, FightComesNear, FightStarts, FightEnds, ClosingIsTold,
         ClosingIsGivenUp, ClosingIsRetried, NobodyIsPresent, Pause, Continue, HeroFalls, Plays, Recover, vars
  <2>2. listed = {} \/ UNCHANGED listed
    BY <1>5 DEF ListQueuedJoins, Table, FightComesNear, FightStarts, FightEnds, ClosingIsTold,
         ClosingIsGivenUp, ClosingIsRetried, NobodyIsPresent, Pause, Continue, HeroFalls, Plays, Recover, vars, rest
  <2> QED
    BY <2>1, <2>2 DEF PassFits, PassWorksFor, TakenUp, Pursued
<1> QED
  BY <1>1, <1>2, <1>3, <1>4, <1>5 DEF Next

\* A join that waits in the queue of a game being played is never left alone: while
\* an operation has its turn it can go on, and so the turns of the pass come; a turn
\* of the pass at a safe break takes the join up, and once taken up it is made or
\* sent back. Only an operation that was cut off leaves it to a later pass
\* (processQueuedJoins and the joins of campaign-lobby-service.ts).
THEOREM QueuedJoinsAreNeverLeftAlone ==
  Spec => /\ [](op = Idle \/ CanGoOn)
          /\ [][\A u \in Users : TakenUp(u) /\ Pursued(u)]_vars
<1> DEFINE Step == \A u \in Users : TakenUp(u) /\ Pursued(u)
<1>1. Init => PassFits
  BY DEF Init, Idle, PassFits
<1>2. Inv /\ PassFits /\ [Next]_vars => PassFits' /\ [Step]_vars
  BY PassGoesOn
<1>3. Inv => op = Idle \/ CanGoOn
  BY DEF Inv, TypeOK, Stages, OpFits, CanGoOn
<1> HIDE DEF Step
<1>4. Spec => [](op = Idle \/ CanGoOn) /\ [][Step]_vars
  BY <1>1, <1>2, <1>3, LobbyInvariance, PTL DEF Spec
<1> QED
  BY <1>4 DEF Step

-----------------------------------------------------------------------------
(* The delivery of results.                                                *)

\* A row is settled when it is done, or was given up on at some time.
Settled(j) == status[j] = "done" \/ j \in givenUp
Before(i) == {j \in Rows : j < i /\ CampaignOf[j] = CampaignOf[i]}
Sends(i) == sending # Nothing /\ sending.row = i

\* Rows are queued in the order of their numbers; a failed row was given up on.
QueuedInOrder ==
  /\ \A i, j \in Rows : j < i /\ status[i] # "none" => status[j] # "none"
  /\ \A i \in Rows : status[i] = "failed" => i \in givenUp

\* What the pass still has to do is pending, and so is what is being sent.
PassPending ==
  /\ \A i \in pass : status[i] = "pending"
  /\ sending # Nothing => status[sending.row] = "pending" /\ sending.row \notin pass

\* What the pass may still send has nothing unsettled before it but rows of the pass.
PassInOrder ==
  /\ \A i \in pass : CampaignOf[i] \notin blocked =>
       \A j \in Before(i) : Settled(j) \/ j \in pass \/ Sends(j)
  /\ sending # Nothing => \A j \in Before(sending.row) : Settled(j)
  /\ sending.step = "fail" => CampaignOf[sending.row] \in blocked
  /\ sending.step = "complete" => Contains(seen[CampaignOf[sending.row]], sending.row)

DeliveryInv == DeliveryTypeOK /\ DoneWasSeen /\ ResultsInOrder /\ QueuedInOrder /\ PassPending /\ PassInOrder

-----------------------------------------------------------------------------

\* The row being sent, and where it is.
LEMMA SendingTyped ==
  ASSUME DeliveryTypeOK, sending # Nothing
  PROVE  sending.row \in Rows /\ sending = [row |-> sending.row, step |-> sending.step]
         /\ sending.step \in {"present", "complete", "fail"} /\ CampaignOf[sending.row] \in Campaigns
  BY DeliveryAssumption DEF DeliveryTypeOK

\* Showing a row keeps what a table has seen, and adds the row.
LEMMA ShowingAdds ==
  ASSUME DeliveryTypeOK, NEW i \in Rows
  PROVE  /\ Shown(i) \in [Campaigns -> Seq(Rows)]
         /\ Contains(Shown(i)[CampaignOf[i]], i)
         /\ \A c \in Campaigns, j \in Rows : Contains(seen[c], j) => Contains(Shown(i)[c], j)
<1> DEFINE c == CampaignOf[i]
<1>1. c \in Campaigns /\ seen[c] \in Seq(Rows)
  BY DeliveryAssumption DEF DeliveryTypeOK
<1>2. CASE Contains(seen[c], i)
  BY <1>1, <1>2 DEF Shown, DeliveryTypeOK
<1>3. CASE ~Contains(seen[c], i)
  <2>1. Shown(i) = [seen EXCEPT ![c] = Append(seen[c], i)]
    BY <1>1, <1>3 DEF Shown, DeliveryTypeOK
  <2>2. /\ Append(seen[c], i) \in Seq(Rows) /\ Len(Append(seen[c], i)) = Len(seen[c]) + 1
        /\ Append(seen[c], i)[Len(seen[c]) + 1] = i
        /\ \A n \in 1..Len(seen[c]) : Append(seen[c], i)[n] = seen[c][n]
    BY <1>1
  <2>3. Shown(i) \in [Campaigns -> Seq(Rows)] /\ Shown(i)[c] = Append(seen[c], i)
        /\ \A d \in Campaigns : d # c => Shown(i)[d] = seen[d]
    BY <1>1, <2>1, <2>2 DEF DeliveryTypeOK
  <2>4. Contains(Shown(i)[c], i)
    BY <1>1, <2>2, <2>3 DEF Contains
  <2>5. ASSUME NEW j \in Rows, Contains(seen[c], j) PROVE Contains(Shown(i)[c], j)
    BY <1>1, <2>2, <2>3, <2>5 DEF Contains
  <2> QED
    BY <2>3, <2>4, <2>5
<1> QED
  BY <1>2, <1>3

\* A row shown after everything before it was settled keeps the order.
LEMMA ShowingKeepsOrder ==
  ASSUME DeliveryTypeOK, DoneWasSeen, ResultsInOrder, NEW i \in Rows,
         \A j \in Before(i) : Settled(j), seen' = Shown(i), givenUp' = givenUp
  PROVE  ResultsInOrder'
<1> DEFINE c == CampaignOf[i]
<1>1. c \in Campaigns /\ seen[c] \in Seq(Rows)
  BY DeliveryAssumption DEF DeliveryTypeOK
<1>2. CASE Contains(seen[c], i)
  <2>1. seen' = seen
    BY <1>1, <1>2 DEF Shown, DeliveryTypeOK
  <2> QED
    BY <2>1 DEF ResultsInOrder
<1>3. CASE ~Contains(seen[c], i)
  <2>1. seen' = [seen EXCEPT ![c] = Append(seen[c], i)]
    BY <1>1, <1>3 DEF Shown, DeliveryTypeOK
  <2>2. seen'[c] = Append(seen[c], i) /\ \A d \in Campaigns : d # c => seen'[d] = seen[d]
    BY <1>1, <2>1 DEF DeliveryTypeOK
  <2>3. SUFFICES ASSUME NEW d \in Campaigns, NEW n \in DOMAIN seen'[d], NEW j \in Rows,
                        CampaignOf[j] = d, j < seen'[d][n], j \notin givenUp
                 PROVE  \E m \in 1..(n - 1) : seen'[d][m] = j
    BY DEF ResultsInOrder
  <2>4. CASE d # c
    BY <2>2, <2>3, <2>4 DEF ResultsInOrder
  <2>5. CASE d = c
    <3>1. DOMAIN seen'[d] = 1..(Len(seen[c]) + 1) /\ Len(seen[c]) \in Nat
      BY <1>1, <2>2, <2>5
    <3>2. /\ \A m \in 1..Len(seen[c]) : seen'[d][m] = seen[c][m]
          /\ seen'[d][Len(seen[c]) + 1] = i
      BY <1>1, <2>2, <2>5
    <3>3. CASE n = Len(seen[c]) + 1
      <4>1. j \in Before(i)
        BY <2>3, <2>5, <3>2, <3>3 DEF Before
      <4>2. Contains(seen[c], j)
        BY <2>3, <2>5, <4>1 DEF Settled, DoneWasSeen
      <4>3. PICK m \in 1..Len(seen[c]) : seen[c][m] = j
        BY <4>2 DEF Contains
      <4> QED
        BY <3>1, <3>2, <3>3, <4>3
    <3>4. CASE n \in 1..Len(seen[c])
      <4>1. \E m \in 1..(n - 1) : seen[c][m] = j
        BY <1>1, <2>3, <2>5, <3>2, <3>4 DEF ResultsInOrder
      <4> QED
        BY <3>1, <3>2, <3>4, <4>1
    <3> QED
      BY <3>1, <3>3, <3>4
  <2> QED
    BY <2>4, <2>5
<1> QED
  BY <1>2, <1>3

-----------------------------------------------------------------------------

LEMMA DeliveryStarts == DeliveryInit => DeliveryInv
  BY DeliveryAssumption
  DEF DeliveryInit, DeliveryInv, DeliveryTypeOK, Nothing, DoneWasSeen, ResultsInOrder, QueuedInOrder, PassPending, PassInOrder

\* Handlers that change neither what is recorded nor what is shown.
LEMMA NothingRecorded ==
  ASSUME DoneWasSeen, ResultsInOrder, QueuedInOrder,
         status' = status, seen' = seen, givenUp' = givenUp
  PROVE  DoneWasSeen' /\ ResultsInOrder' /\ QueuedInOrder'
  BY DEF DoneWasSeen, ResultsInOrder, QueuedInOrder

LEMMA QueueStep == DeliveryInv /\ Queue => DeliveryInv'
<1> SUFFICES ASSUME DeliveryInv, Queue PROVE DeliveryInv'
  OBVIOUS
<1> USE DEF Queue, worker, outside
<1>1. PICK i \in Rows : /\ status[i] = "none" /\ \A j \in Rows : j < i => status[j] # "none"
                        /\ status' = [status EXCEPT ![i] = "pending"]
  OBVIOUS
<1>2. DeliveryTypeOK'
  BY <1>1 DEF DeliveryInv, DeliveryTypeOK, Nothing
<1>3. /\ DoneWasSeen' /\ ResultsInOrder'
      /\ \A j \in Rows : status[j] = "done" <=> status'[j] = "done"
      /\ \A j \in Rows : status[j] = "pending" => status'[j] = "pending"
  BY <1>1 DEF DeliveryInv, DeliveryTypeOK, DoneWasSeen, ResultsInOrder
<1>4. QueuedInOrder'
  BY <1>1, DeliveryAssumption DEF DeliveryInv, DeliveryTypeOK, QueuedInOrder
<1>5. PassPending'
  BY <1>3, SendingTyped DEF DeliveryInv, DeliveryTypeOK, PassPending
<1>6. PassInOrder'
  <2>1. \A j \in Rows : Settled(j)' <=> Settled(j)
    BY <1>3 DEF Settled
  <2> QED
    BY <2>1, <1>3, SendingTyped DEF DeliveryInv, DeliveryTypeOK, PassInOrder, Before, Sends
<1> QED
  BY <1>2, <1>3, <1>4, <1>5, <1>6 DEF DeliveryInv

\* What is loaded has nothing unsettled before it that is not loaded with it.
LEMMA LoadStep == DeliveryInv /\ Load => DeliveryInv'
<1> SUFFICES ASSUME DeliveryInv, Load PROVE DeliveryInv'
  OBVIOUS
<1> USE DEF Load, outside
<1>1. DeliveryTypeOK'
  BY DEF DeliveryInv, DeliveryTypeOK, Nothing, Pending, BlockedAtFirst
<1>2. DoneWasSeen' /\ ResultsInOrder' /\ QueuedInOrder'
  BY NothingRecorded DEF DeliveryInv
<1>3. PassPending'
  BY DEF DeliveryInv, PassPending, Pending, Nothing
<1>4. PassInOrder'
  <2>1. ASSUME NEW i \in Pending, NEW j \in Before(i)
        PROVE  Settled(j) \/ j \in Pending
    <3>1. status[j] # "none"
      BY <2>1 DEF DeliveryInv, QueuedInOrder, Pending, Before
    <3> QED
      BY <2>1, <3>1 DEF DeliveryInv, DeliveryTypeOK, QueuedInOrder, Pending, Before, Settled
  <2> QED
    BY <2>1 DEF DeliveryInv, PassInOrder, Settled, Before, Sends, Nothing
<1> QED
  BY <1>1, <1>2, <1>3, <1>4 DEF DeliveryInv

\* Leaving a row alone leaves its campaign alone.
LEMMA SkipStep == \A i \in Rows : DeliveryInv /\ (SkipBlocked(i) \/ SkipWaiting(i)) => DeliveryInv'
<1> SUFFICES ASSUME NEW i \in Rows, DeliveryInv, SkipBlocked(i) \/ SkipWaiting(i) PROVE DeliveryInv'
  OBVIOUS
<1>1. /\ UNCHANGED <<status, attempts, waiting, held, sending, broken, seen, givenUp>>
      /\ sending = Nothing /\ pass' = pass \ {i}
      /\ blocked' = blocked \cup {CampaignOf[i]}
  BY DEF SkipBlocked, SkipWaiting, Handles, HoldsBack, outside
<1>2. DeliveryTypeOK'
  BY <1>1, DeliveryAssumption DEF DeliveryInv, DeliveryTypeOK, Nothing
<1>3. DoneWasSeen' /\ ResultsInOrder' /\ QueuedInOrder'
  BY <1>1, NothingRecorded DEF DeliveryInv
<1>4. PassPending'
  BY <1>1 DEF DeliveryInv, PassPending
<1>5. PassInOrder'
  BY <1>1 DEF DeliveryInv, PassInOrder, Settled, Before, Sends, Nothing
<1> QED
  BY <1>2, <1>3, <1>4, <1>5 DEF DeliveryInv

\* The first row of the pass has nothing of its campaign before it in the pass.
LEMMA TakeStep == \A i \in Rows : DeliveryInv /\ Take(i) => DeliveryInv'
<1> SUFFICES ASSUME NEW i \in Rows, DeliveryInv, Take(i) PROVE DeliveryInv'
  OBVIOUS
<1> USE DEF Take, Handles, outside
<1>1. sending' # Nothing /\ sending'.row = i /\ sending'.step = "present"
  BY DEF Nothing
<1>2. DeliveryTypeOK'
  BY DEF DeliveryInv, DeliveryTypeOK, Nothing
<1>3. DoneWasSeen' /\ ResultsInOrder' /\ QueuedInOrder'
  BY NothingRecorded DEF DeliveryInv
<1>4. PassPending'
  BY <1>1 DEF DeliveryInv, PassPending
<1>5. PassInOrder'
  <2>1. \A j \in Before(i) : Settled(j)
    BY DeliveryAssumption DEF DeliveryInv, PassInOrder, Before, Sends
  <2> QED
    BY <1>1, <2>1 DEF DeliveryInv, PassInOrder, Settled, Before, Sends, Nothing
<1> QED
  BY <1>2, <1>3, <1>4, <1>5 DEF DeliveryInv

\* The row is shown, or not; what is settled is not touched.
LEMMA PresentStep == DeliveryInv /\ (Present \/ PresentFails) => DeliveryInv'
<1> SUFFICES ASSUME DeliveryInv, Present \/ PresentFails PROVE DeliveryInv'
  OBVIOUS
<1> DEFINE i == sending.row
<1>1. sending # Nothing
  BY DEF Present, PresentFails, Nothing
<1>2. i \in Rows /\ CampaignOf[i] \in Campaigns
  BY <1>1, SendingTyped DEF DeliveryInv
<1>3. /\ UNCHANGED <<status, attempts, waiting, pass, held, broken, givenUp>>
      /\ seen' \in {seen, Shown(i)}
      /\ \/ seen' = Shown(i) /\ sending' = [row |-> i, step |-> "complete"] /\ blocked' = blocked
         \/ sending' = [row |-> i, step |-> "fail"] /\ blocked' = blocked \cup {CampaignOf[i]}
  BY <1>1, SendingTyped DEF DeliveryInv, Present, PresentFails, outside
<1>4. sending' # Nothing /\ sending'.row = i
  BY <1>3 DEF Nothing
<1>5. DeliveryTypeOK'
  <2>1. seen' \in [Campaigns -> Seq(Rows)]
    BY <1>2, <1>3, ShowingAdds DEF DeliveryInv, DeliveryTypeOK
  <2> QED
    BY <1>2, <1>3, <2>1 DEF DeliveryInv, DeliveryTypeOK
<1>6. DoneWasSeen'
  BY <1>2, <1>3, ShowingAdds, DeliveryAssumption DEF DeliveryInv, DoneWasSeen
<1>7. ResultsInOrder'
  <2>1. \A j \in Before(i) : Settled(j)
    BY <1>1 DEF DeliveryInv, PassInOrder
  <2>2. CASE seen' = seen
    BY <1>3, <2>2 DEF DeliveryInv, ResultsInOrder
  <2>3. CASE seen' = Shown(i)
    BY <1>2, <1>3, <2>1, <2>3, ShowingKeepsOrder DEF DeliveryInv
  <2> QED
    BY <1>3, <2>2, <2>3
<1>8. QueuedInOrder' /\ PassPending'
  BY <1>1, <1>3, <1>4 DEF DeliveryInv, QueuedInOrder, PassPending
<1>9. PassInOrder'
  <2>1. sending'.step = "complete" => Contains(seen'[CampaignOf[i]], i)
    BY <1>2, <1>3, ShowingAdds DEF DeliveryInv
  <2>2. sending'.step = "fail" => CampaignOf[i] \in blocked'
    BY <1>3
  <2>3. blocked \subseteq blocked'
    BY <1>3
  <2> QED
    BY <1>1, <1>3, <1>4, <2>1, <2>2, <2>3 DEF DeliveryInv, PassInOrder, Settled, Before, Sends
<1> QED
  BY <1>5, <1>6, <1>7, <1>8, <1>9 DEF DeliveryInv

LEMMA CompleteStep == DeliveryInv /\ Complete => DeliveryInv'
<1> SUFFICES ASSUME DeliveryInv, Complete PROVE DeliveryInv'
  OBVIOUS
<1> DEFINE i == sending.row
<1> USE DEF Complete, outside
<1>1. sending # Nothing /\ i \in Rows /\ status[i] = "pending" /\ i \notin pass
  BY SendingTyped DEF DeliveryInv, PassPending, Nothing
<1>2. DeliveryTypeOK'
  BY <1>1 DEF DeliveryInv, DeliveryTypeOK, Nothing
<1>3. DoneWasSeen' /\ ResultsInOrder'
  BY <1>1 DEF DeliveryInv, DeliveryTypeOK, DoneWasSeen, ResultsInOrder, PassInOrder
<1>4. QueuedInOrder' /\ PassPending'
  BY <1>1, <1>2 DEF DeliveryInv, DeliveryTypeOK, QueuedInOrder, PassPending
<1>5. PassInOrder'
  <2>1. \A j \in Rows : Settled(j) \/ Sends(j) => Settled(j)'
    BY <1>1 DEF DeliveryInv, DeliveryTypeOK, Settled, Sends
  <2> QED
    BY <2>1 DEF DeliveryInv, PassInOrder, Before, Nothing
<1> QED
  BY <1>2, <1>3, <1>4, <1>5 DEF DeliveryInv

\* A row that failed keeps its campaign blocked until the pass is over.
LEMMA FailStep == DeliveryInv /\ FailAttempt => DeliveryInv'
<1> SUFFICES ASSUME DeliveryInv, FailAttempt PROVE DeliveryInv'
  OBVIOUS
<1> DEFINE i == sending.row
<1>1. sending # Nothing /\ i \in Rows /\ status[i] = "pending" /\ i \notin pass
      /\ CampaignOf[i] \in blocked
  BY SendingTyped DEF DeliveryInv, PassPending, PassInOrder, Nothing, FailAttempt
<1>2. attempts[i] \in Nat /\ attempts[i] < MaxAttempts
  <2>1. attempts[i] \in 0..MaxAttempts
    BY <1>1 DEF DeliveryInv, DeliveryTypeOK
  <2>2. attempts[i] # MaxAttempts
    BY <1>1 DEF DeliveryInv, DeliveryTypeOK
  <2> QED
    BY <2>1, <2>2, DeliveryAssumption
<1>3. /\ UNCHANGED <<pass, held, blocked, broken, seen>> /\ sending' = Nothing
      /\ waiting' = waiting \cup {i}
      /\ attempts' = [attempts EXCEPT ![i] = attempts[i] + 1]
      /\ \/ /\ attempts[i] + 1 = MaxAttempts /\ givenUp' = givenUp \cup {i}
            /\ status' = [status EXCEPT ![i] = "failed"]
         \/ /\ attempts[i] + 1 < MaxAttempts /\ givenUp' = givenUp
            /\ status' = [status EXCEPT ![i] = "pending"]
  <2>1. UsedUp(attempts[i] + 1) <=> attempts[i] + 1 = MaxAttempts
    BY <1>2, DeliveryAssumption DEF UsedUp
  <2>2. ~UsedUp(attempts[i] + 1) <=> attempts[i] + 1 < MaxAttempts
    BY <1>2, DeliveryAssumption DEF UsedUp
  <2>3. CASE UsedUp(attempts[i] + 1)
    BY <2>1, <2>3 DEF FailAttempt, outside
  <2>4. CASE ~UsedUp(attempts[i] + 1)
    BY <2>2, <2>4 DEF FailAttempt, outside
  <2> QED
    BY <2>3, <2>4
<1>4. DeliveryTypeOK'
  <2>1. attempts' \in [Rows -> 0..MaxAttempts]
        /\ \A j \in Rows : status'[j] = "failed" <=> attempts'[j] = MaxAttempts
    BY <1>1, <1>2, <1>3, DeliveryAssumption DEF DeliveryInv, DeliveryTypeOK
  <2> QED
    BY <1>1, <1>3, <2>1 DEF DeliveryInv, DeliveryTypeOK
<1>5. DoneWasSeen' /\ ResultsInOrder'
  BY <1>1, <1>3 DEF DeliveryInv, DeliveryTypeOK, DoneWasSeen, ResultsInOrder
<1>6. QueuedInOrder' /\ PassPending'
  BY <1>1, <1>3, <1>4 DEF DeliveryInv, DeliveryTypeOK, QueuedInOrder, PassPending
<1>7. PassInOrder'
  <2>1. \A j \in Rows : Settled(j) => Settled(j)'
    BY <1>1, <1>3 DEF DeliveryInv, DeliveryTypeOK, Settled
  <2>2. \A k \in pass : CampaignOf[k] \notin blocked => i \notin Before(k)
    BY <1>1 DEF Before
  <2> QED
    BY <1>1, <1>3, <2>1, <2>2 DEF DeliveryInv, PassInOrder, Before, Sends, Nothing
<1> QED
  BY <1>4, <1>5, <1>6, <1>7 DEF DeliveryInv

\* A repair puts back rows that were given up on, and touches nothing of the pass.
LEMMA RepairStep ==
  ASSUME DeliveryInv, NEW set \in SUBSET Rows, \A i \in set : status[i] = "failed", Requeues(set)
  PROVE  DeliveryInv'
<1> USE DEF Requeues, PutBack, worker
<1>1. DeliveryTypeOK'
  BY DeliveryAssumption DEF DeliveryInv, DeliveryTypeOK, Nothing
<1>2. /\ \A j \in Rows : status'[j] = "done" <=> status[j] = "done"
      /\ \A j \in Rows : status'[j] = "none" <=> status[j] = "none"
      /\ \A j \in Rows : status'[j] = "failed" => status[j] = "failed"
      /\ \A j \in Rows : status[j] = "pending" => status'[j] = "pending"
  BY DEF DeliveryInv, DeliveryTypeOK
<1>3. DoneWasSeen' /\ ResultsInOrder' /\ QueuedInOrder'
  BY <1>2 DEF DeliveryInv, DoneWasSeen, ResultsInOrder, QueuedInOrder
<1>4. PassPending'
  BY <1>2, SendingTyped DEF DeliveryInv, DeliveryTypeOK, PassPending
<1>5. PassInOrder'
  <2>1. \A j \in Rows : Settled(j)' <=> Settled(j)
    BY <1>2 DEF Settled
  <2> QED
    BY <2>1, SendingTyped DEF DeliveryInv, DeliveryTypeOK, PassInOrder, Before, Sends
<1> QED
  BY <1>1, <1>3, <1>4, <1>5 DEF DeliveryInv

LEMMA CrashStep == DeliveryInv /\ WorkerDies => DeliveryInv'
<1> SUFFICES ASSUME DeliveryInv, WorkerDies PROVE DeliveryInv'
  OBVIOUS
<1> USE DEF WorkerDies
<1>1. DeliveryTypeOK'
  BY DEF DeliveryInv, DeliveryTypeOK, Nothing
<1>2. DoneWasSeen' /\ ResultsInOrder' /\ QueuedInOrder'
  BY NothingRecorded DEF DeliveryInv
<1>3. PassPending' /\ PassInOrder'
  BY DEF PassPending, PassInOrder, Nothing
<1> QED
  BY <1>1, <1>2, <1>3 DEF DeliveryInv

\* Time and channels change nothing the order rests on.
LEMMA QuietStep ==
  DeliveryInv /\ (BackoffIsOver \/ (\E c \in Campaigns : ChannelBreaks(c) \/ ChannelMends(c))
            \/ UNCHANGED deliveryVars) => DeliveryInv'
<1> SUFFICES ASSUME DeliveryInv, BackoffIsOver \/ (\E c \in Campaigns : ChannelBreaks(c) \/ ChannelMends(c))
                           \/ UNCHANGED deliveryVars
             PROVE  DeliveryInv'
  OBVIOUS
<1>1. UNCHANGED <<status, attempts, worker, seen, givenUp>> /\ broken' \subseteq Campaigns
      /\ waiting' \subseteq waiting
  BY DEF BackoffIsOver, ChannelBreaks, ChannelMends, worker, outside, deliveryVars, DeliveryInv, DeliveryTypeOK
<1>2. DeliveryTypeOK'
  BY <1>1 DEF DeliveryInv, DeliveryTypeOK, worker
<1>3. DoneWasSeen' /\ ResultsInOrder' /\ QueuedInOrder'
  BY <1>1, NothingRecorded DEF DeliveryInv
<1>4. PassPending' /\ PassInOrder'
  BY <1>1 DEF DeliveryInv, PassPending, PassInOrder, Settled, Before, Sends, worker
<1> QED
  BY <1>2, <1>3, <1>4 DEF DeliveryInv

LEMMA DeliverySteps == DeliveryInv /\ [DeliveryNext]_deliveryVars => DeliveryInv'
<1> SUFFICES ASSUME DeliveryInv, [DeliveryNext]_deliveryVars PROVE DeliveryInv'
  OBVIOUS
<1>1. CASE Queue
  BY <1>1, QueueStep
<1>2. CASE WorkerStep
  BY <1>2, LoadStep, SkipStep, TakeStep, PresentStep, CompleteStep, FailStep DEF WorkerStep
<1>3. ASSUME NEW c \in Campaigns, Repair(c) PROVE DeliveryInv'
  <2>1. \A i \in {i \in Rows : status[i] = "failed" /\ CampaignOf[i] = c} : status[i] = "failed"
    OBVIOUS
  <2> QED
    BY <1>3, <2>1, RepairStep DEF Repair
<1>4. ASSUME NEW i \in Rows, RetryReply(i) PROVE DeliveryInv'
  BY <1>4, RepairStep DEF RetryReply
<1>5. CASE WorkerDies
  BY <1>5, CrashStep
<1> QED
  BY <1>1, <1>2, <1>3, <1>4, <1>5, QuietStep DEF DeliveryNext

-----------------------------------------------------------------------------

\* The inductive invariant holds.
THEOREM DeliveryInvariance == DeliverySpec => []DeliveryInv
  BY DeliveryStarts, DeliverySteps, PTL DEF DeliverySpec

\* ResultsInOrder: whatever fails, is repaired or dies, no table sees a result
\* before one that was queued earlier and not given up on (delivery-worker.ts:25).
THEOREM TablesSeeResultsInOrder == DeliverySpec => []ResultsInOrder
<1>1. DeliveryInv => ResultsInOrder
  BY DEF DeliveryInv
<1> QED
  BY <1>1, DeliveryInvariance, PTL

\* RowsInOrder: the books of the rows agree and what is done was seen, whatever
\* dies between showing a row and recording it (delivery-worker.ts:66-67).
THEOREM RowsStayInOrder == DeliverySpec => []RowsInOrder
<1>1. DeliveryInv => RowsInOrder
  BY DEF DeliveryInv, RowsInOrder
<1> QED
  BY <1>1, DeliveryInvariance, PTL

-----------------------------------------------------------------------------
(* Why other campaigns are unaffected.                                     *)

\* The campaigns a pass leaves alone have a row it came to and could not settle.
HoldsUp(j) == /\ j \notin pass /\ \A i \in pass : j < i
              /\ status[j] \in {"pending", "failed"}

BlockedByOwn ==
  /\ \A c \in blocked : \E j \in Rows : CampaignOf[j] = c /\ HoldsUp(j)
  /\ sending.step \in {"present", "complete"} => CampaignOf[sending.row] \notin blocked
  /\ sending # Nothing => \A i \in pass : sending.row < i

LEMMA NothingIs == Nothing.step = "none"
  BY DEF Nothing

\* A pass comes to its next row, which is its least.
LEMMA ComesTo ==
  ASSUME DeliveryInv, NEW i \in Rows, Handles(i)
  PROVE  /\ sending = Nothing /\ pass' = pass \ {i} /\ i \in pass /\ i \in Nat
         /\ i \notin pass' /\ (\A j \in pass' : i < j) /\ status[i] = "pending"
<1>1. /\ sending = Nothing /\ pass' = pass \ {i} /\ i \in pass /\ \A j \in pass : i <= j
      /\ pass \subseteq Nat
  BY DeliveryAssumption DEF Handles, DeliveryInv, DeliveryTypeOK
<1> QED
  BY <1>1 DEF DeliveryInv, PassPending

LEMMA WorkerBlocksByOwn ==
  ASSUME DeliveryInv, BlockedByOwn, WorkerStep
  PROVE  BlockedByOwn'
<1> USE NothingIs
<1>0. /\ \A i \in Rows : status[i] \in {"none", "pending", "failed", "done"}
      /\ status \in [Rows -> {"none", "pending", "failed", "done"}]
      /\ sending # Nothing => sending.row \in Rows /\ status[sending.row] = "pending"
                              /\ sending.row \notin pass
      /\ pass \subseteq Rows
  BY SendingTyped DEF DeliveryInv, DeliveryTypeOK, PassPending
<1>1. CASE Load
  BY <1>1 DEF Load, BlockedAtFirst, BlockedByOwn
<1>2. ASSUME NEW i \in Rows, SkipBlocked(i) PROVE BlockedByOwn'
  <2>1. /\ pass' = pass \ {i} /\ sending = Nothing /\ UNCHANGED <<status, blocked, sending>>
    BY <1>2, ComesTo DEF SkipBlocked
  <2> QED
    BY <2>1 DEF BlockedByOwn, HoldsUp
<1>3. ASSUME NEW i \in Rows, SkipWaiting(i) PROVE BlockedByOwn'
  <2>1. /\ sending = Nothing /\ pass' = pass \ {i} /\ i \notin pass' /\ (\A j \in pass' : i < j)
        /\ status[i] = "pending" /\ UNCHANGED <<status, sending>>
        /\ blocked' = blocked \cup {CampaignOf[i]}
    BY <1>3, ComesTo DEF SkipWaiting, HoldsBack
  <2>2. HoldsUp(i)'
    BY <2>1 DEF HoldsUp
  <2>3. \A j \in Rows : HoldsUp(j) => HoldsUp(j)'
    BY <2>1 DEF HoldsUp
  <2> QED
    BY <2>1, <2>2, <2>3 DEF BlockedByOwn
<1>4. ASSUME NEW i \in Rows, Take(i) PROVE BlockedByOwn'
  <2>1. /\ pass' = pass \ {i} /\ (\A j \in pass' : i < j) /\ UNCHANGED <<status, blocked>>
        /\ CampaignOf[i] \notin blocked /\ sending' = [row |-> i, step |-> "present"]
    BY <1>4, ComesTo DEF Take
  <2>2. \A j \in Rows : HoldsUp(j) => HoldsUp(j)'
    BY <2>1 DEF HoldsUp
  <2> QED
    BY <2>1, <2>2 DEF BlockedByOwn
<1>5. CASE Present \/ PresentFails
  <2>1. /\ sending # Nothing /\ sending.step = "present" /\ UNCHANGED <<status, pass>>
    BY <1>5 DEF Present, PresentFails
  <2>2. sending = [row |-> sending.row, step |-> sending.step]
    BY <2>1, SendingTyped DEF DeliveryInv
  <2>3. HoldsUp(sending.row)
    BY <1>0, <2>1 DEF HoldsUp, BlockedByOwn
  <2>4. \A j \in Rows : HoldsUp(j) => HoldsUp(j)'
    BY <2>1 DEF HoldsUp
  <2>5. CASE Present
    <3>1. UNCHANGED blocked /\ sending'.row = sending.row /\ sending'.step = "complete"
      BY <2>2, <2>5 DEF Present
    <3> QED
      BY <2>1, <2>4, <3>1 DEF BlockedByOwn
  <2>6. CASE PresentFails
    <3>1. /\ blocked' = blocked \cup {CampaignOf[sending.row]}
          /\ sending'.row = sending.row /\ sending'.step = "fail"
      BY <2>2, <2>6 DEF PresentFails
    <3> QED
      BY <1>0, <2>1, <2>3, <2>4, <3>1 DEF BlockedByOwn
  <2> QED
    BY <1>5, <2>5, <2>6
<1>6. CASE Complete
  <2>1. /\ sending # Nothing /\ sending.step = "complete" /\ UNCHANGED <<pass, blocked>>
        /\ sending' = Nothing /\ status' = [status EXCEPT ![sending.row] = "done"]
    BY <1>6 DEF Complete
  <2>2. CampaignOf[sending.row] \notin blocked
    BY <2>1 DEF BlockedByOwn
  <2>3. \A j \in Rows : HoldsUp(j) /\ j # sending.row => HoldsUp(j)'
    BY <1>0, <2>1 DEF HoldsUp
  <2>4. ASSUME NEW c \in blocked' PROVE \E j \in Rows : CampaignOf[j] = c /\ HoldsUp(j)'
    <3>1. PICK j \in Rows : CampaignOf[j] = c /\ HoldsUp(j)
      BY <2>1, <2>4 DEF BlockedByOwn
    <3> QED
      BY <2>1, <2>2, <2>3, <2>4, <3>1
  <2> QED
    BY <2>1, <2>4 DEF BlockedByOwn
<1>7. CASE FailAttempt
  <2>1. /\ sending # Nothing /\ UNCHANGED <<pass, blocked>> /\ sending' = Nothing
        /\ \/ status' = [status EXCEPT ![sending.row] = "failed"]
           \/ status' = [status EXCEPT ![sending.row] = "pending"]
    BY <1>7 DEF FailAttempt
  <2>2. \A j \in Rows : HoldsUp(j) => HoldsUp(j)'
    BY <1>0, <2>1 DEF HoldsUp
  <2> QED
    BY <2>1, <2>2 DEF BlockedByOwn
<1> QED
  BY <1>1, <1>2, <1>3, <1>4, <1>5, <1>6, <1>7 DEF WorkerStep

LEMMA StepBlocksByOwn == DeliveryInv /\ BlockedByOwn /\ [DeliveryNext]_deliveryVars => BlockedByOwn'
<1> SUFFICES ASSUME DeliveryInv, BlockedByOwn, [DeliveryNext]_deliveryVars PROVE BlockedByOwn'
  OBVIOUS
<1>0. status \in [Rows -> {"none", "pending", "failed", "done"}]
  BY DEF DeliveryInv, DeliveryTypeOK
<1>1. CASE WorkerStep
  BY <1>1, WorkerBlocksByOwn
<1>2. CASE WorkerDies
  BY <1>2, NothingIs DEF WorkerDies, BlockedByOwn
<1>3. ASSUME UNCHANGED worker,
             \A j \in Rows : status[j] \in {"pending", "failed"} => status'[j] \in {"pending", "failed"}
      PROVE  BlockedByOwn'
  BY <1>3 DEF BlockedByOwn, HoldsUp, worker
<1>4. ASSUME NEW set, Requeues(set) PROVE BlockedByOwn'
  <2>1. UNCHANGED worker /\ status' = [i \in Rows |-> IF i \in set THEN "pending" ELSE status[i]]
    BY <1>4 DEF Requeues
  <2>2. \A j \in Rows : status[j] \in {"pending", "failed"} => status'[j] \in {"pending", "failed"}
    BY <2>1
  <2> QED
    BY <1>3, <2>1, <2>2
<1>5. CASE Queue
  <2>1. PICK i \in Rows : status' = [status EXCEPT ![i] = "pending"]
    BY <1>5 DEF Queue
  <2>2. \A j \in Rows : status[j] \in {"pending", "failed"} => status'[j] \in {"pending", "failed"}
    BY <1>0, <2>1
  <2> QED
    BY <1>3, <1>5, <2>2 DEF Queue
<1>6. CASE \/ BackoffIsOver \/ UNCHANGED deliveryVars
           \/ \E c \in Campaigns : ChannelBreaks(c) \/ ChannelMends(c)
  BY <1>3, <1>6 DEF BackoffIsOver, ChannelBreaks, ChannelMends, deliveryVars, worker
<1> QED
  BY <1>1, <1>2, <1>4, <1>5, <1>6 DEF DeliveryNext, Repair, RetryReply

\* "other campaigns are unaffected" (delivery-worker.ts:26): a row a pass has loaded
\* is sent, unless it waits out a backoff of its own, an earlier row of the same
\* campaign is still unsettled, or the process dies; and what is not sent stays
\* pending. No campaign, however broken its channel, holds up another's results.
THEOREM OtherCampaignsAreUnaffected ==
  DeliverySpec =>
    [][\A i \in pass \ pass' :
         \/ sending' # Nothing /\ sending'.row = i
         \/ /\ status'[i] = "pending"
            /\ \/ i \in held
               \/ \E j \in Rows : /\ j < i /\ CampaignOf[j] = CampaignOf[i]
                                  /\ status[j] \in {"pending", "failed"}
               \/ WorkerDies]_deliveryVars
<1> DEFINE Accounted(i) ==
             \/ sending' # Nothing /\ sending'.row = i
             \/ /\ status'[i] = "pending"
                /\ \/ i \in held
                   \/ \E j \in Rows : /\ j < i /\ CampaignOf[j] = CampaignOf[i]
                                      /\ status[j] \in {"pending", "failed"}
                   \/ WorkerDies
           Step == \A i \in pass \ pass' : Accounted(i)
<1>1. DeliveryInit => BlockedByOwn
  BY NothingIs DEF DeliveryInit, BlockedByOwn
<1>2. DeliveryInv /\ BlockedByOwn /\ [DeliveryNext]_deliveryVars => [Step]_deliveryVars
  <2> SUFFICES ASSUME DeliveryInv, BlockedByOwn, DeliveryNext, NEW i \in pass \ pass'
               PROVE  Accounted(i)
    OBVIOUS
  <2>0. i \in Rows /\ status[i] = "pending" /\ pass \subseteq Rows
    BY DEF DeliveryInv, DeliveryTypeOK, PassPending
  <2>1. CASE Load
    BY <2>1 DEF Load
  <2>2. ASSUME NEW k \in Rows, SkipBlocked(k) PROVE Accounted(i)
    <3>1. i = k /\ UNCHANGED status /\ CampaignOf[i] \in blocked
      BY <2>2, ComesTo DEF SkipBlocked
    <3>2. PICK j \in Rows : CampaignOf[j] = CampaignOf[i] /\ HoldsUp(j)
      BY <3>1 DEF BlockedByOwn
    <3>3. j < i /\ status[j] \in {"pending", "failed"}
      BY <3>2 DEF HoldsUp
    <3> QED
      BY <2>0, <3>1, <3>2, <3>3
  <2>3. ASSUME NEW k \in Rows, SkipWaiting(k) PROVE Accounted(i)
    <3>1. i = k /\ UNCHANGED status /\ i \in held
      BY <2>3, ComesTo DEF SkipWaiting
    <3> QED
      BY <2>0, <3>1
  <2>4. ASSUME NEW k \in Rows, Take(k) PROVE Accounted(i)
    <3>1. i = k /\ sending' = [row |-> i, step |-> "present"]
      BY <2>4, ComesTo DEF Take
    <3>2. sending'.row = i /\ sending' # Nothing
      BY <3>1 DEF Nothing
    <3> QED
      BY <3>1, <3>2
  <2>5. CASE WorkerDies
    <3>1. UNCHANGED status
      BY <2>5 DEF WorkerDies
    <3> QED
      BY <2>0, <2>5, <3>1
  <2>6. CASE UNCHANGED pass
    BY <2>6
  <2>7. Present \/ PresentFails \/ Complete \/ FailAttempt \/ Queue \/ BackoffIsOver => UNCHANGED pass
    BY DEF Present, PresentFails, Complete, FailAttempt, Queue, BackoffIsOver, worker
  <2>8. (\E c \in Campaigns : Repair(c) \/ ChannelBreaks(c) \/ ChannelMends(c))
          \/ (\E k \in Rows : RetryReply(k)) => UNCHANGED pass
    BY DEF Repair, RetryReply, Requeues, ChannelBreaks, ChannelMends, worker
  <2> QED
    BY <2>1, <2>2, <2>3, <2>4, <2>5, <2>6, <2>7, <2>8 DEF DeliveryNext, WorkerStep
<1> HIDE DEF Step
<1>3. DeliverySpec => [][Step]_deliveryVars
  BY <1>1, <1>2, StepBlocksByOwn, DeliveryInvariance, PTL DEF DeliverySpec
<1> QED
  BY <1>3 DEF Step
=============================================================================
