--------------------------- MODULE PlaybackProofs ---------------------------
(***************************************************************************)
(* Why late answers do no harm to a guild's player, for any tracks,        *)
(* listeners, limits and settings.  Whatever takes the place of an entry   *)
(* in the gateway's maps makes the work for the old one vain (RerollsFit,  *)
(* LyricsFit), and a track that begins is starting until the event that    *)
(* puts the vote, the lyrics and the idle timer right (VoteFits,           *)
(* TimersFit).                                                             *)
(***************************************************************************)
EXTENDS Playback, TLAPS

Players == [there : BOOLEAN, current : Tracks \cup {None}, starting : BOOLEAN,
            queue : Seq(Tracks), paused : BOOLEAN, autoQueue : BOOLEAN,
            alwaysOn : BOOLEAN, autoPaused : BOOLEAN]
Entries == [track : Tracks \cup {None}, discarded : BOOLEAN,
            shown : {"none", "lines", "notFound", "retrying", "unavailable"}]
Requests == [track : Tracks, retry : 0..MaxRetries, own : BOOLEAN]

PlayerTyped == player \in Players /\ left \in {"much", "little", "last"}
WorkTyped == /\ search \in BOOLEAN /\ skipping \in BOOLEAN /\ ending \in BOOLEAN
             /\ idleTimer \in BOOLEAN /\ aloneTimer \in BOOLEAN /\ occupied \in BOOLEAN

\* One reroll is out at a time, and it was asked for within the limit.
RerollsFit ==
  /\ vote \in Votes \cup {None} /\ rerolls \in [Listeners -> {"no", "this", "gone"}]
  /\ vote # None => vote.rerolls <= RerollLimit
  /\ \A u \in Listeners : rerolls[u] = "this" => vote # None /\ vote.rerolls < RerollLimit
  /\ \A u, w \in Listeners : rerolls[u] # "no" /\ rerolls[w] # "no" => u = w

AboutCurrent(v, p) == p.current # None /\ v.source = p.current /\ p.autoQueue
VoteFits == Started /\ vote # None => AboutCurrent(vote, player)

\* The entry is of the track that has started; the work of its play is for it; and
\* what it shows is final, or somebody still works on it.
EntryFits ==
  /\ lyrics \in Entries /\ lookups \subseteq Requests /\ retryTimer \in 0..MaxRetries
  /\ \A l \in lookups : l.own => l.track = lyrics.track
  /\ retryTimer > 0 => lyrics.track # None
  /\ lyrics.track # None /\ lyrics.shown \in {"none", "retrying"} /\ ~lyrics.discarded =>
       retryTimer > 0 \/ \E l \in lookups : l.own
LyricsFit == EntryFits /\ (Started => lyrics.track = player.current)

TimersFit ==
  /\ idleTimer => player.there /\ ~player.alwaysOn /\ ~Started
  /\ aloneTimer => player.there /\ ~occupied

Inv == PlayerTyped /\ WorkTyped /\ RerollsFit /\ VoteFits /\ LyricsFit /\ TimersFit

-----------------------------------------------------------------------------
(* The player.                                                             *)

LEMMA PlayerHelpers ==
  ASSUME NEW p \in Players
  PROVE  /\ \A t \in Tracks : WithTrack(p, t) \in Players /\ Playing(p, t) \in Players
         /\ p.queue # <<>> => PlayingNext(p) \in Players
         /\ \A i \in DOMAIN p.queue : /\ p.queue[i] \in Tracks
                                      /\ RemoveAt(p.queue, i) \in Seq(Tracks)
                                      /\ SubSeq(p.queue, i + 1, Len(p.queue)) \in Seq(Tracks)
<1>1. ASSUME NEW t \in Tracks PROVE WithTrack(p, t) \in Players /\ Playing(p, t) \in Players
  <2>1. Append(p.queue, t) \in Seq(Tracks)
    BY DEF Players
  <2>2. WithTrack(p, t) \in Players
    BY <2>1 DEF Players, WithTrack
  <2>3. Playing(p, t) \in Players
    BY DEF Players, Playing
  <2> QED
    BY <2>2, <2>3
<1>2. ASSUME p.queue # <<>> PROVE PlayingNext(p) \in Players
  <2>1. Head(p.queue) \in Tracks /\ Tail(p.queue) \in Seq(Tracks)
    BY <1>2 DEF Players
  <2>2. /\ Playing(p, Head(p.queue)) \in Players
        /\ Playing(p, Head(p.queue)).queue = p.queue
    BY <1>1, <2>1 DEF Players, Playing
  <2>3. PlayingNext(p) = [Playing(p, Head(p.queue)) EXCEPT !.queue = Tail(p.queue)]
    BY <2>2 DEF PlayingNext
  <2> QED
    BY <2>1, <2>2, <2>3 DEF Players
<1>3. \A i \in DOMAIN p.queue : /\ p.queue[i] \in Tracks
                                /\ RemoveAt(p.queue, i) \in Seq(Tracks)
                                /\ SubSeq(p.queue, i + 1, Len(p.queue)) \in Seq(Tracks)
  BY DEF Players, RemoveAt
<1> QED
  BY <1>1, <1>2, <1>3

\* What playing and queueing leave alone.
SameSession(p, q) == p.there = q.there /\ p.alwaysOn = q.alwaysOn
SamePlay(p, q) == p.current = q.current /\ p.starting = q.starting

LEMMA HelpersKeep ==
  ASSUME NEW p \in Players
  PROVE  /\ \A t \in Tracks : /\ SameSession(WithTrack(p, t), p) /\ SamePlay(WithTrack(p, t), p)
                              /\ WithTrack(p, t).autoQueue = p.autoQueue
                              /\ WithTrack(p, t).queue # <<>>
                              /\ SameSession(Playing(p, t), p) /\ Playing(p, t).starting
         /\ SameSession(PlayingNext(p), p) /\ PlayingNext(p).starting
  BY DEF Players, WithTrack, Playing, PlayingNext, SameSession, SamePlay

-----------------------------------------------------------------------------
(* The vote.                                                               *)

\* A vote after a change of state is about the current track, and is the one there
\* was or a new one.
LEMMA SyncedIs ==
  ASSUME NEW v \in Votes \cup {None}, NEW p \in Players, NEW l
  PROVE  LET s == SyncedVote(v, p, l) IN
         /\ s \in Votes \cup {None}
         /\ s # None => AboutCurrent(s, p)
         /\ s = None \/ s = v \/ (s.rerolls = 0 /\ ~(v # None /\ v.source = s.source))
<1>1. CASE p.current = None \/ ~p.autoQueue
  BY <1>1 DEF SyncedVote
<1>2. CASE ~(p.current = None \/ ~p.autoQueue) /\ v # None /\ v.source = p.current
  BY <1>2 DEF SyncedVote, AboutCurrent
<1>3. CASE ~(p.current = None \/ ~p.autoQueue) /\ ~(v # None /\ v.source = p.current)
  <2>1. CASE p.queue # <<>>
    BY <1>3, <2>1 DEF SyncedVote
  <2>2. CASE p.queue = <<>>
    <3> DEFINE s == [source |-> p.current,
                     status |-> IF l = "much" THEN "loading" ELSE "skipped", rerolls |-> 0]
    <3>1. SyncedVote(v, p, l) = s
      BY <1>3, <2>2 DEF SyncedVote
    <3>2. s \in Votes /\ s.source = p.current /\ s.rerolls = 0
      BY <1>3 DEF Votes, Players
    <3> QED
      BY <1>3, <3>1, <3>2 DEF AboutCurrent
  <2> QED
    BY <2>1, <2>2
<1> QED
  BY <1>1, <1>2, <1>3

\* A vote that takes the place of another makes its reroll vain.
LEMMA TakeVoteFits ==
  ASSUME RerollsFit, NEW v \in Votes \cup {None}, TakeVote(v),
         v # None => v.rerolls <= RerollLimit,
         v # None /\ vote # None /\ v.source = vote.source => v.rerolls = vote.rerolls
  PROVE  RerollsFit'
<1>1. CASE v # None /\ vote # None /\ v.source = vote.source
  BY <1>1 DEF RerollsFit, TakeVote
<1>2. CASE ~(v # None /\ vote # None /\ v.source = vote.source)
  <2>1. rerolls' = [u \in Listeners |-> IF rerolls[u] = "no" THEN "no" ELSE "gone"]
    BY <1>2 DEF TakeVote
  <2> QED
    BY <2>1 DEF RerollsFit, TakeVote
<1> QED
  BY <1>1, <1>2

LEMMA SyncedFits ==
  ASSUME RerollsFit, NEW v \in Votes \cup {None}, NEW p \in Players, NEW l,
         v # None => v.rerolls <= RerollLimit,
         v # None /\ vote # None /\ v.source = vote.source => v.rerolls = vote.rerolls,
         vote # None => v # None /\ v.source = vote.source,
         TakeVote(SyncedVote(v, p, l))
  PROVE  RerollsFit' /\ (vote' # None => AboutCurrent(vote', p))
<1> DEFINE s == SyncedVote(v, p, l)
<1>1. /\ s \in Votes \cup {None}
      /\ s # None => AboutCurrent(s, p)
      /\ s = None \/ s = v \/ (s.rerolls = 0 /\ ~(v # None /\ v.source = s.source))
  BY SyncedIs
<1>2. s # None => s.rerolls <= RerollLimit
  BY <1>1, PlaybackAssumption
<1>3. s # None /\ vote # None /\ s.source = vote.source => s.rerolls = vote.rerolls
  BY <1>1
<1>4. RerollsFit'
  BY <1>1, <1>2, <1>3, TakeVoteFits
<1> QED
  BY <1>1, <1>4 DEF TakeVote

LEMMA PublishFits ==
  ASSUME RerollsFit, player' \in Players, Publish
  PROVE  RerollsFit' /\ VoteFits'
<1>1. RerollsFit' /\ (vote' # None => AboutCurrent(vote', player'))
  BY SyncedFits DEF Publish, RerollsFit
<1> QED
  BY <1>1 DEF VoteFits

LEMMA NoVoteFits ==
  ASSUME RerollsFit, TakeVote(None)
  PROVE  RerollsFit' /\ VoteFits'
  BY TakeVoteFits DEF VoteFits, TakeVote

LEMMA SameVoteFits ==
  ASSUME Inv, UNCHANGED <<vote, rerolls>>,
         \/ player'.starting \/ player'.current = None
         \/ SamePlay(player', player) /\ player'.autoQueue = player.autoQueue
  PROVE  RerollsFit' /\ VoteFits'
  BY DEF Inv, RerollsFit, VoteFits, Started, SamePlay, AboutCurrent

-----------------------------------------------------------------------------
(* The lyrics and the timers, when something else changes.                 *)

LEMMA SameLyricsFit ==
  ASSUME Inv, UNCHANGED lyricVars,
         player'.starting \/ player'.current = None \/ SamePlay(player', player)
  PROVE  LyricsFit'
  BY DEF Inv, LyricsFit, EntryFits, Started, SamePlay, lyricVars

LEMMA SameTimersFit ==
  ASSUME Inv, UNCHANGED idleTimer, UNCHANGED roomVars,
         SameSession(player', player),
         player'.starting \/ player'.current = None \/ SamePlay(player', player)
  PROVE  TimersFit'
  BY DEF Inv, TimersFit, Started, SamePlay, SameSession, roomVars

\* What is in vain is nobody's.
LEMMA InVainIs ==
  ASSUME NEW ls \in SUBSET Requests
  PROVE  InVain(ls) \subseteq Requests /\ \A l \in InVain(ls) : ~l.own
<1> SUFFICES ASSUME NEW l \in ls
             PROVE  LET m == [l EXCEPT !.own = FALSE, !.retry = 0] IN m \in Requests /\ ~m.own
  BY DEF InVain
<1>1. l \in [track : Tracks, retry : 0..MaxRetries, own : BOOLEAN]
  BY DEF Requests
<1>2. 0 \in 0..MaxRetries
  BY PlaybackAssumption
<1> QED
  BY <1>1, <1>2 DEF Requests

\* The end of the session.
LEMMA DestroyedInv == Inv /\ Destroyed => Inv'
<1> SUFFICES ASSUME Inv, Destroyed PROVE Inv'
  OBVIOUS
<1>1. PlayerTyped' /\ WorkTyped'
  <2>1. NoPlayer \in Players
    BY DEF NoPlayer, Players
  <2> QED
    BY <2>1 DEF Inv, Destroyed, PlayerTyped, WorkTyped
<1>2. RerollsFit' /\ VoteFits'
  BY NoVoteFits DEF Inv, Destroyed
<1>3. LyricsFit'
  <2>1. lookups' \subseteq Requests /\ \A l \in lookups' : ~l.own
    BY InVainIs DEF Inv, LyricsFit, EntryFits, Destroyed
  <2>2. lyrics' = NoLyrics /\ retryTimer' = 0 /\ ~Started'
    BY DEF Destroyed, LyricsCleared, Started, NoPlayer
  <2> QED
    BY <2>1, <2>2, PlaybackAssumption DEF LyricsFit, EntryFits, NoLyrics, Entries
<1>4. TimersFit'
  BY DEF Destroyed, TimersFit
<1> QED
  BY <1>1, <1>2, <1>3, <1>4 DEF Inv

-----------------------------------------------------------------------------
(* Every step.                                                             *)

\* A command, the end of a search or of a track: the vote is published, or left
\* as it is, or taken; nothing else but the player changes.
PlayerStep ==
  /\ PlayerTyped' /\ UNCHANGED lyricVars /\ UNCHANGED roomVars
  /\ search' \in BOOLEAN /\ skipping' \in BOOLEAN /\ ending' \in BOOLEAN
  /\ player'.starting \/ player'.current = None \/ SamePlay(player', player)

LEMMA PlayerStepInv ==
  ASSUME Inv, PlayerStep,
         \/ Publish
         \/ TakeVote(None)
         \/ /\ UNCHANGED <<vote, rerolls>>
            /\ \/ player'.starting \/ player'.current = None
               \/ SamePlay(player', player) /\ player'.autoQueue = player.autoQueue,
         idleTimer' \in BOOLEAN, TimersFit'
  PROVE  Inv'
<1>1. RerollsFit' /\ VoteFits'
  BY PublishFits, NoVoteFits, SameVoteFits DEF Inv, PlayerStep, PlayerTyped
<1>2. LyricsFit'
  BY SameLyricsFit DEF PlayerStep
<1>3. PlayerTyped' /\ WorkTyped'
  BY DEF Inv, PlayerStep, WorkTyped, roomVars
<1> QED
  BY <1>1, <1>2, <1>3 DEF Inv

\* The same with the idle timer as it was, in the same session.
LEMMA CalmStepInv ==
  ASSUME Inv, PlayerStep,
         \/ Publish
         \/ TakeVote(None)
         \/ /\ UNCHANGED <<vote, rerolls>>
            /\ \/ player'.starting \/ player'.current = None
               \/ SamePlay(player', player) /\ player'.autoQueue = player.autoQueue,
         UNCHANGED idleTimer, SameSession(player', player)
  PROVE  Inv'
<1>1. TimersFit' /\ idleTimer' \in BOOLEAN
  BY SameTimersFit DEF PlayerStep, Inv, WorkTyped
<1> QED
  BY <1>1, PlayerStepInv

\* Timers that are left alone or armed by an idle player.
LEMMA ScheduledFits ==
  ASSUME Inv, NEW p \in Players, p.current = None, SameSession(p, player),
         player' = p, idleTimer' = Scheduled(p), UNCHANGED roomVars
  PROVE  TimersFit' /\ idleTimer' \in BOOLEAN
  BY DEF Inv, TimersFit, WorkTyped, Scheduled, Idle, Started, SameSession, roomVars

LEMMA QueueEndsInv ==
  ASSUME Inv, NEW p \in Players, p.current = None, SameSession(p, player), QueueEnds(p),
         UNCHANGED lyricVars, UNCHANGED roomVars,
         search' \in BOOLEAN, skipping' \in BOOLEAN, ending' \in BOOLEAN
  PROVE  Inv'
<1>1. TimersFit' /\ idleTimer' \in BOOLEAN
  BY ScheduledFits DEF QueueEnds
<1>2. PlayerStep
  BY DEF PlayerStep, QueueEnds, PlayerTyped, Inv
<1> QED
  BY <1>1, <1>2, PlayerStepInv DEF QueueEnds

-----------------------------------------------------------------------------
(* Votes.                                                                  *)

LEMMA OptionsFoundInv == Inv /\ OptionsFound => Inv'
<1> SUFFICES ASSUME Inv, OptionsFound PROVE Inv'
  OBVIOUS
<1>1. PICK s \in {"ready", "unavailable"} :
        TakeVote(SyncedVote([vote EXCEPT !.status = s], player, left))
  BY DEF OptionsFound
<1> DEFINE v == [vote EXCEPT !.status = s]
<1>2. vote \in Votes /\ vote # None
  BY DEF OptionsFound, Inv, RerollsFit
<1>3. v \in Votes /\ v # None /\ v.rerolls = vote.rerolls /\ v.source = vote.source
  BY <1>2, PlaybackAssumption DEF Votes
<1>4. RerollsFit' /\ (vote' # None => AboutCurrent(vote', player))
  BY <1>1, <1>2, <1>3, SyncedFits DEF Inv, RerollsFit, PlayerTyped
<1>5. VoteFits'
  BY <1>4 DEF VoteFits, OptionsFound, AboutCurrent
<1> QED
  BY <1>4, <1>5, SameLyricsFit, SameTimersFit
  DEF OptionsFound, Inv, PlayerTyped, WorkTyped, workVars, roomVars, SamePlay, SameSession

LEMMA RerollInv ==
  ASSUME Inv, NEW u \in Listeners, Reroll(u)
  PROVE  Inv'
<1>1. RerollsFit'
  BY DEF Inv, RerollsFit, Reroll, MayReroll, OpenVote, Ready
<1> QED
  BY <1>1, SameLyricsFit, SameTimersFit
  DEF Reroll, Inv, VoteFits, Started, PlayerTyped, WorkTyped, workVars, roomVars, SamePlay, SameSession,
      AboutCurrent

LEMMA RerollEndsInv ==
  ASSUME Inv, NEW u \in Listeners, RerollEnds(u)
  PROVE  Inv'
<1> DEFINE w == [vote EXCEPT !.rerolls = @ + 1]
           v == SyncedVote(w, player, left)
           Swapped == /\ rerolls[u] = "this" /\ vote' = v
                      /\ rerolls' = [x \in Listeners |->
                           IF x = u \/ rerolls[x] = "no" THEN "no"
                           ELSE IF v # None /\ v.source = vote.source THEN rerolls[x]
                           ELSE "gone"]
<1>0. Swapped \/ (rerolls' = [rerolls EXCEPT ![u] = "no"] /\ UNCHANGED vote)
  BY DEF RerollEnds
<1>1. ASSUME Swapped PROVE RerollsFit' /\ VoteFits'
  <2>1. vote \in Votes /\ vote # None /\ vote.rerolls < RerollLimit
    BY <1>1, PlaybackAssumption DEF Inv, RerollsFit
  <2>2. w \in Votes /\ w.rerolls = vote.rerolls + 1
    BY <2>1 DEF Votes
  <2>3. /\ v \in Votes \cup {None}
        /\ v # None => AboutCurrent(v, player)
        /\ v = None \/ v = w \/ (v.rerolls = 0 /\ ~(w # None /\ w.source = v.source))
    BY <2>2, SyncedIs DEF Inv, PlayerTyped
  <2>4. v # None => v.rerolls <= RerollLimit
    <3>1. vote.rerolls \in Nat /\ RerollLimit \in Nat
      BY <2>1, PlaybackAssumption DEF Votes
    <3>2. w.rerolls \in Nat /\ w.rerolls <= RerollLimit /\ 0 <= RerollLimit
      BY <2>1, <2>2, <3>1
    <3> HIDE DEF v, w
    <3> QED
      BY <2>3, <3>2
  <2>5. \A x \in Listeners : rerolls'[x] = "no"
    BY <1>1 DEF Inv, RerollsFit
  <2>6. rerolls' \in [Listeners -> {"no", "this", "gone"}]
    BY <1>1 DEF Inv, RerollsFit
  <2>7. RerollsFit'
    BY <1>1, <2>3, <2>4, <2>5, <2>6 DEF RerollsFit
  <2>8. VoteFits'
    BY <1>1, <2>3 DEF VoteFits, RerollEnds, AboutCurrent
  <2> QED
    BY <2>7, <2>8
<1>2. ASSUME rerolls' = [rerolls EXCEPT ![u] = "no"], UNCHANGED vote
      PROVE  RerollsFit' /\ VoteFits'
  <2>1. rerolls' \in [Listeners -> {"no", "this", "gone"}]
    BY <1>2 DEF Inv, RerollsFit
  <2>2. \A x \in Listeners : rerolls'[x] = IF x = u THEN "no" ELSE rerolls[x]
    BY <1>2 DEF Inv, RerollsFit
  <2>3. RerollsFit'
    BY <1>2, <2>1, <2>2 DEF Inv, RerollsFit
  <2>4. VoteFits'
    BY <1>2 DEF Inv, VoteFits, RerollEnds, Started, AboutCurrent
  <2> QED
    BY <2>3, <2>4
<1>3. RerollsFit' /\ VoteFits'
  BY <1>0, <1>1, <1>2
<1>4. /\ UNCHANGED <<player, left, workVars, lyricVars, idleTimer>> /\ UNCHANGED roomVars
      /\ UNCHANGED lyricVars /\ UNCHANGED idleTimer
  BY DEF RerollEnds
<1>5. LyricsFit' /\ TimersFit'
  BY <1>4, SameLyricsFit, SameTimersFit DEF SamePlay, SameSession
<1> QED
  BY <1>3, <1>4, <1>5 DEF Inv, PlayerTyped, WorkTyped, workVars, roomVars

-----------------------------------------------------------------------------
(* The room.                                                               *)

\* Pausing, resuming and listening change nothing that the vote, the lyrics or the
\* idle timer depend on.
SameVoteAndLyrics == UNCHANGED <<left, vote, rerolls, workVars, lyricVars, idleTimer>>

LEMMA RoomInv ==
  ASSUME Inv, SameVoteAndLyrics, player' \in Players,
         SamePlay(player', player), SameSession(player', player),
         player'.autoQueue = player.autoQueue,
         aloneTimer' \in BOOLEAN, occupied' \in BOOLEAN,
         aloneTimer' => player.there /\ ~occupied'
  PROVE  Inv'
<1>1. RerollsFit' /\ VoteFits'
  BY SameVoteFits DEF SameVoteAndLyrics
<1>2. LyricsFit'
  BY SameLyricsFit DEF SameVoteAndLyrics
<1> QED
  BY <1>1, <1>2 DEF Inv, SameVoteAndLyrics, PlayerTyped, WorkTyped, TimersFit, Started,
                    SamePlay, SameSession, workVars

LEMMA RoomSteps == Inv /\ (AloneTimerFires \/ SomebodyComes \/ NobodyIsLeft) => Inv'
<1> SUFFICES ASSUME Inv PROVE AloneTimerFires \/ SomebodyComes \/ NobodyIsLeft => Inv'
  OBVIOUS
<1>1. ASSUME AloneTimerFires PROVE Inv'
  <2>1. CASE EmptyChannelAction = "leave"
    BY <1>1, <2>1, DestroyedInv DEF AloneTimerFires
  <2>2. CASE EmptyChannelAction # "leave"
    <3>1. /\ player' = [player EXCEPT !.paused = TRUE, !.autoPaused = TRUE]
          /\ SameVoteAndLyrics /\ ~aloneTimer' /\ occupied' = occupied
          /\ aloneTimer' \in BOOLEAN
      BY <1>1, <2>2 DEF AloneTimerFires, SameVoteAndLyrics
    <3>2. /\ player' \in Players /\ SamePlay(player', player) /\ SameSession(player', player)
          /\ player'.autoQueue = player.autoQueue
      BY <3>1 DEF Inv, PlayerTyped, Players, SamePlay, SameSession
    <3> QED
      BY <3>1, <3>2, RoomInv DEF Inv, WorkTyped
  <2> QED
    BY <2>1, <2>2
<1>2. ASSUME SomebodyComes PROVE Inv'
  <2>1. /\ player' \in Players /\ SamePlay(player', player) /\ SameSession(player', player)
        /\ player'.autoQueue = player.autoQueue
    BY <1>2 DEF SomebodyComes, Inv, PlayerTyped, Players, SamePlay, SameSession
  <2> QED
    BY <1>2, <2>1, RoomInv DEF SomebodyComes, SameVoteAndLyrics
<1>3. ASSUME NobodyIsLeft PROVE Inv'
  <2>1. /\ player' \in Players /\ SamePlay(player', player) /\ SameSession(player', player)
        /\ player'.autoQueue = player.autoQueue
    BY <1>3 DEF NobodyIsLeft, Inv, PlayerTyped, SamePlay, SameSession
  <2>2. aloneTimer' \in BOOLEAN /\ (aloneTimer' => player.there /\ ~occupied')
    BY <1>3 DEF NobodyIsLeft, Inv, WorkTyped, TimersFit
  <2> QED
    BY <1>3, <2>1, <2>2, RoomInv DEF NobodyIsLeft, SameVoteAndLyrics
<1> QED
  BY <1>1, <1>2, <1>3

-----------------------------------------------------------------------------
(* Tracks.                                                                 *)

LEMMA TrackEndsInv == Inv /\ TrackEnds => Inv'
<1> SUFFICES ASSUME Inv, TrackEnds PROVE Inv'
  OBVIOUS
<1> DEFINE stopped == [player EXCEPT !.current = None, !.starting = FALSE]
<1>1. player \in Players /\ left \in {"much", "little", "last"}
  BY DEF Inv, PlayerTyped
<1>2. /\ stopped \in Players /\ stopped.current = None /\ SameSession(stopped, player)
      /\ UNCHANGED lyricVars /\ UNCHANGED roomVars
      /\ search' \in BOOLEAN /\ skipping' \in BOOLEAN
  BY <1>1 DEF Players, SameSession, TrackEnds, Inv, WorkTyped
<1>3. CASE player.queue # <<>> /\ player' = PlayingNext(player) /\ Begins
           /\ UNCHANGED <<vote, rerolls, ending, idleTimer>>
  <2>1. PlayerStep /\ player'.starting /\ SameSession(player', player)
    BY <1>1, <1>2, <1>3, PlayerHelpers, HelpersKeep
    DEF PlayerStep, PlayerTyped, Begins, Inv, WorkTyped
  <2> QED
    BY <1>3, <2>1, CalmStepInv
<1>4. CASE QueueEnds(stopped) /\ UNCHANGED ending
  BY <1>2, <1>4, QueueEndsInv DEF Inv, WorkTyped
<1>5. CASE TakeVote(None) /\ UNCHANGED idleTimer
           /\ \/ \E t \in Winners : player' = Playing(player, t) /\ Begins /\ UNCHANGED ending
              \/ player' = stopped /\ ending' = TRUE /\ UNCHANGED left
  <2>1. CASE \E t \in Winners : player' = Playing(player, t) /\ Begins /\ UNCHANGED ending
    <3>1. PICK t \in Tracks : player' = Playing(player, t) /\ Begins /\ UNCHANGED ending
      BY <2>1 DEF Winners
    <3>2. PlayerStep /\ SameSession(player', player)
      BY <1>1, <1>2, <3>1, PlayerHelpers, HelpersKeep
      DEF PlayerStep, PlayerTyped, Begins, Inv, WorkTyped
    <3> QED
      BY <1>5, <3>2, CalmStepInv
  <2>2. CASE player' = stopped /\ ending' = TRUE /\ UNCHANGED left
    <3>1. PlayerStep /\ SameSession(player', player)
      BY <1>1, <1>2, <2>2 DEF PlayerStep, PlayerTyped
    <3> QED
      BY <1>5, <3>1, CalmStepInv
  <2> QED
    BY <1>5, <2>1, <2>2
<1> QED
  BY <1>3, <1>4, <1>5 DEF TrackEnds

LEMMA EndingEndsInv == Inv /\ EndingEnds => Inv'
<1> SUFFICES ASSUME Inv, EndingEnds PROVE Inv'
  OBVIOUS
<1>1. player \in Players /\ left \in {"much", "little", "last"}
  BY DEF Inv, PlayerTyped
<1>2. /\ UNCHANGED lyricVars /\ UNCHANGED roomVars
      /\ search' \in BOOLEAN /\ skipping' \in BOOLEAN /\ ending' \in BOOLEAN
  BY DEF EndingEnds, Inv, WorkTyped
<1>3. PICK p \in {player} \cup {WithTrack(player, t) : t \in Tracks} :
        \/ /\ p.queue # <<>> /\ player' = PlayingNext(p) /\ Begins
           /\ UNCHANGED <<vote, rerolls, idleTimer>>
        \/ /\ p.current # None /\ player' = p
           /\ UNCHANGED <<left, vote, rerolls, idleTimer>>
        \/ Idle(p) /\ QueueEnds(p)
  BY DEF EndingEnds
<1>4. /\ p \in Players /\ SameSession(p, player) /\ SamePlay(p, player)
      /\ p.autoQueue = player.autoQueue
  BY <1>1, PlayerHelpers, HelpersKeep DEF SameSession, SamePlay
<1>5. CASE p.queue # <<>> /\ player' = PlayingNext(p) /\ Begins
           /\ UNCHANGED <<vote, rerolls, idleTimer>>
  <2>1. player' \in Players /\ player'.starting /\ SameSession(player', p)
    BY <1>4, <1>5, PlayerHelpers, HelpersKeep
  <2>2. PlayerStep /\ SameSession(player', player)
    BY <1>2, <1>4, <1>5, <2>1 DEF PlayerStep, PlayerTyped, Begins, SameSession
  <2> QED
    BY <1>5, <2>1, <2>2, CalmStepInv
<1>6. CASE player' = p /\ UNCHANGED <<left, vote, rerolls, idleTimer>>
  <2>1. PlayerStep
    BY <1>1, <1>2, <1>4, <1>6 DEF PlayerStep, PlayerTyped
  <2> QED
    BY <1>4, <1>6, <2>1, CalmStepInv
<1>7. CASE Idle(p) /\ QueueEnds(p)
  BY <1>2, <1>4, <1>7, QueueEndsInv DEF Idle
<1> QED
  BY <1>3, <1>5, <1>6, <1>7

LEMMA TrackStartsInv == Inv /\ TrackStarts => Inv'
<1> SUFFICES ASSUME Inv, TrackStarts PROVE Inv'
  OBVIOUS
<1>1. player \in Players /\ player.current \in Tracks
  BY DEF Inv, PlayerTyped, TrackStarts, Players
<1>2. /\ player' \in Players /\ player'.current = player.current /\ SameSession(player', player)
  BY <1>1 DEF TrackStarts, Players, SameSession
<1>3. RerollsFit' /\ VoteFits'
  BY <1>2, PublishFits DEF Inv, TrackStarts
<1>4. LyricsFit'
  <2>1. CASE lyrics.track = player.current
    BY <1>1, <1>2, <2>1, PlaybackAssumption DEF TrackStarts, Inv, LyricsFit, EntryFits, lyricVars
  <2>2. CASE lyrics.track # player.current
    <3> DEFINE t == player.current
               l == [track |-> t, retry |-> 0, own |-> TRUE]
    <3>1. /\ lyrics' = [NoLyrics EXCEPT !.track = t] /\ retryTimer' = 0
          /\ lookups' = InVain(lookups) \cup {l}
      BY <2>2 DEF TrackStarts, NewEntry
    <3>2. l \in Requests /\ l.own /\ l.track = t
      BY <1>1, PlaybackAssumption DEF Requests
    <3>3. lyrics' \in Entries /\ lyrics'.track = t
      BY <1>1, <3>1 DEF NoLyrics, Entries
    <3>4. lookups' \subseteq Requests /\ \A m \in lookups' : m.own => m = l
      BY <3>1, <3>2, InVainIs DEF Inv, LyricsFit, EntryFits
    <3>5. 0 \in 0..MaxRetries
      BY PlaybackAssumption
    <3>6. \E m \in lookups' : m.own
      BY <3>1, <3>2
    <3>7. EntryFits'
      BY <3>1, <3>2, <3>3, <3>4, <3>5, <3>6 DEF EntryFits
    <3> QED
      BY <1>2, <3>3, <3>7 DEF LyricsFit
  <2> QED
    BY <2>1, <2>2
<1>5. TimersFit'
  BY <1>2 DEF TrackStarts, Inv, TimersFit, SameSession, roomVars
<1> QED
  BY <1>2, <1>3, <1>4, <1>5 DEF Inv, TrackStarts, PlayerTyped, WorkTyped, workVars, roomVars

LEMMA TimePassesInv == Inv /\ TimePasses => Inv'
<1> SUFFICES ASSUME Inv, TimePasses PROVE Inv'
  OBVIOUS
<1>1. PlayerStep
  BY DEF TimePasses, PlayerStep, PlayerTyped, Inv, SamePlay, WorkTyped, workVars
<1> QED
  BY <1>1, CalmStepInv DEF TimePasses, SameSession, SamePlay

-----------------------------------------------------------------------------
(* Commands.                                                               *)

LEMMA SearchSteps ==
  Inv /\ (Play \/ SearchFails \/ NothingFound \/ \E t \in Tracks : SearchEnds(t)) => Inv'
<1> SUFFICES ASSUME Inv PROVE Play \/ SearchFails \/ NothingFound
                              \/ (\E t \in Tracks : SearchEnds(t)) => Inv'
  OBVIOUS
<1>0. player \in Players /\ left \in {"much", "little", "last"}
  BY DEF Inv, PlayerTyped
<1>1. ASSUME Play PROVE Inv'
  <2>1. /\ player' \in Players /\ player'.there /\ SamePlay(player', player)
        /\ player'.autoQueue = player.autoQueue /\ player'.alwaysOn = player.alwaysOn
    BY <1>0, <1>1 DEF Play, Players, SamePlay
  <2>2. PlayerStep
    BY <1>0, <1>1, <2>1 DEF Play, PlayerStep, PlayerTyped, Inv, WorkTyped
  <2>3. TimersFit' /\ idleTimer' \in BOOLEAN
    BY <1>1, <2>1 DEF Play, TimersFit, Inv, WorkTyped, Started, SamePlay, roomVars
  <2> QED
    BY <1>1, <2>1, <2>2, <2>3, PlayerStepInv DEF Play
<1>2. ASSUME SearchFails PROVE Inv'
  <2>1. PlayerStep /\ SamePlay(player', player) /\ SameSession(player', player)
    BY <1>0, <1>2 DEF SearchFails, PlayerStep, PlayerTyped, Inv, WorkTyped, SamePlay, SameSession
  <2> QED
    BY <1>2, <2>1, CalmStepInv DEF SearchFails
<1>3. ASSUME NothingFound PROVE Inv'
  BY <1>3, DestroyedInv DEF NothingFound
<1>4. ASSUME NEW t \in Tracks, SearchEnds(t) PROVE Inv'
  <2> DEFINE p == WithTrack(player, t)
  <2>1. p \in Players /\ SamePlay(p, player) /\ SameSession(p, player) /\ p.queue # <<>>
    BY <1>0, PlayerHelpers, HelpersKeep
  <2>2. \/ player' = PlayingNext(p) /\ Begins
        \/ player' = p /\ UNCHANGED left
    BY <1>4 DEF SearchEnds
  <2> HIDE DEF p
  <2>3. /\ player' \in Players /\ SameSession(player', player)
        /\ player'.starting \/ SamePlay(player', player)
        /\ left' \in {"much", "little", "last"}
    BY <1>0, <2>1, <2>2, PlayerHelpers, HelpersKeep DEF Begins, SameSession
  <2>4. PlayerStep
    BY <1>4, <2>3 DEF SearchEnds, PlayerStep, PlayerTyped, Inv, WorkTyped
  <2> QED
    BY <1>4, <2>3, <2>4, CalmStepInv DEF SearchEnds
<1> QED
  BY <1>1, <1>2, <1>3, <1>4

LEMMA SkipsToInv ==
  ASSUME Inv, NEW p \in Players, SameSession(p, player), SamePlay(p, player), SkipsTo(p),
         p.autoQueue = player.autoQueue,
         UNCHANGED lyricVars, UNCHANGED roomVars, UNCHANGED idleTimer,
         search' \in BOOLEAN, skipping' \in BOOLEAN, ending' \in BOOLEAN
  PROVE  Inv'
<1>1. CASE p.queue = <<>>
  <2>1. PlayerStep /\ player' = p /\ UNCHANGED <<vote, rerolls>>
    BY <1>1 DEF SkipsTo, PlayerStep, PlayerTyped, Inv
  <2> QED
    BY <2>1, CalmStepInv
<1>2. CASE p.queue # <<>>
  <2>1. player' = PlayingNext(p) /\ Begins /\ Publish
    BY <1>2 DEF SkipsTo
  <2>2. PlayerStep /\ SameSession(player', player)
    BY <1>2, <2>1, PlayerHelpers, HelpersKeep DEF PlayerStep, PlayerTyped, Begins, SameSession
  <2> QED
    BY <2>1, <2>2, CalmStepInv
<1> QED
  BY <1>1, <1>2

LEMMA SkipInv == Inv /\ (Skip \/ SkipEnds) => Inv'
<1> SUFFICES ASSUME Inv PROVE Skip \/ SkipEnds => Inv'
  OBVIOUS
<1>0. /\ player \in Players /\ left \in {"much", "little", "last"}
      /\ SameSession(player, player) /\ SamePlay(player, player)
  BY DEF Inv, PlayerTyped, SameSession, SamePlay
<1>1. \A t \in Tracks : LET p == WithTrack(player, t) IN
        /\ p \in Players /\ SamePlay(p, player) /\ SameSession(p, player)
        /\ p.autoQueue = player.autoQueue
  BY <1>0, PlayerHelpers, HelpersKeep
<1>2. ASSUME Skip PROVE Inv'
  <2>1. /\ UNCHANGED lyricVars /\ UNCHANGED roomVars /\ UNCHANGED idleTimer
        /\ search' \in BOOLEAN /\ ending' \in BOOLEAN
    BY <1>2 DEF Skip, Inv, WorkTyped
  <2>2. CASE SkipsTo(player) /\ UNCHANGED skipping
    BY <1>0, <2>1, <2>2, SkipsToInv DEF Inv, WorkTyped
  <2>3. CASE \E t \in Winners : SkipsTo(WithTrack(player, t)) /\ UNCHANGED skipping
    <3>1. PICK t \in Tracks : SkipsTo(WithTrack(player, t)) /\ UNCHANGED skipping
      BY <2>3 DEF Winners
    <3> QED
      BY <1>1, <2>1, <3>1, SkipsToInv DEF Inv, WorkTyped
  <2>4. CASE TakeVote(None) /\ skipping' = TRUE /\ UNCHANGED <<player, left>>
    <3>1. PlayerStep
      BY <1>0, <2>1, <2>4 DEF PlayerStep, PlayerTyped
    <3> QED
      BY <1>0, <2>1, <2>4, <3>1, CalmStepInv
  <2> QED
    BY <1>2, <2>2, <2>3, <2>4 DEF Skip
<1>3. ASSUME SkipEnds PROVE Inv'
  <2>1. PICK p \in {player} \cup {WithTrack(player, t) : t \in Tracks} : SkipsTo(p)
    BY <1>3 DEF SkipEnds
  <2>2. p \in Players /\ SamePlay(p, player) /\ SameSession(p, player)
        /\ p.autoQueue = player.autoQueue
    BY <1>0, <1>1
  <2>3. /\ UNCHANGED lyricVars /\ UNCHANGED roomVars /\ UNCHANGED idleTimer
        /\ search' \in BOOLEAN /\ ending' \in BOOLEAN /\ skipping' \in BOOLEAN
    BY <1>3 DEF SkipEnds, Inv, WorkTyped
  <2> QED
    BY <2>1, <2>2, <2>3, SkipsToInv
<1> QED
  BY <1>2, <1>3

\* A command that publishes at once and leaves the play or begins another.
LEMMA PublishedInv ==
  ASSUME Inv, Publish, player' \in Players, SameSession(player', player),
         player'.starting \/ SamePlay(player', player),
         left' \in {"much", "little", "last"},
         UNCHANGED workVars, UNCHANGED lyricVars, UNCHANGED roomVars, UNCHANGED idleTimer
  PROVE  Inv'
<1>1. PlayerStep
  BY DEF PlayerStep, PlayerTyped, Inv, WorkTyped, workVars
<1> QED
  BY <1>1, CalmStepInv

LEMMA JumpInv == Inv /\ (SkipTo \/ Previous \/ Seek) => Inv'
<1> SUFFICES ASSUME Inv PROVE SkipTo \/ Previous \/ Seek => Inv'
  OBVIOUS
<1>0. player \in Players /\ left \in {"much", "little", "last"}
  BY DEF Inv, PlayerTyped
<1>1. ASSUME SkipTo PROVE Inv'
  <2>1. PICK i \in DOMAIN player.queue :
          player' = [Playing(player, player.queue[i]) EXCEPT !.queue = SubSeq(@, i + 1, Len(@))]
    BY <1>1 DEF SkipTo
  <2> DEFINE p == Playing(player, player.queue[i])
  <2>2. p \in Players /\ SameSession(p, player) /\ p.starting /\ p.queue = player.queue
    BY <1>0, <2>1, PlayerHelpers, HelpersKeep DEF Playing, Players
  <2>3. SubSeq(p.queue, i + 1, Len(p.queue)) \in Seq(Tracks)
    BY <1>0, <2>2, PlayerHelpers
  <2>4. player' = [p EXCEPT !.queue = SubSeq(p.queue, i + 1, Len(p.queue))]
    BY <2>1
  <2> HIDE DEF p
  <2>5. player' \in Players /\ SameSession(player', player) /\ player'.starting
    BY <2>2, <2>3, <2>4 DEF Players, SameSession
  <2> QED
    BY <1>1, <2>5, PublishedInv DEF SkipTo, Begins
<1>2. ASSUME Previous PROVE Inv'
  <2>1. PICK t \in Tracks : player' = Playing(player, t)
    BY <1>2 DEF Previous
  <2>2. player' \in Players /\ SameSession(player', player) /\ player'.starting
    BY <1>0, <2>1, PlayerHelpers, HelpersKeep
  <2> QED
    BY <1>2, <2>2, PublishedInv DEF Previous, Begins
<1>3. ASSUME Seek PROVE Inv'
  BY <1>0, <1>3, PublishedInv DEF Seek, SameSession, SamePlay
<1> QED
  BY <1>1, <1>2, <1>3

LEMMA ChangesInv ==
  ASSUME Inv, NEW p \in Players, Changes(p), UNCHANGED idleTimer,
         SameSession(p, player), SamePlay(p, player)
  PROVE  Inv'
  BY PublishedInv DEF Changes, Inv, PlayerTyped

LEMMA SettingsInv ==
  Inv /\ (PauseOrResume \/ RemoveQueueTrack \/ ClearQueue \/ ToggleAutoQueue) => Inv'
<1> SUFFICES ASSUME Inv PROVE PauseOrResume \/ RemoveQueueTrack \/ ClearQueue
                              \/ ToggleAutoQueue => Inv'
  OBVIOUS
<1>0. player \in Players
  BY DEF Inv, PlayerTyped
<1>1. ASSUME PauseOrResume PROVE Inv'
  <2> DEFINE p == [player EXCEPT !.paused = ~@]
  <2>1. p \in Players /\ SameSession(p, player) /\ SamePlay(p, player)
    BY <1>0 DEF Players, SameSession, SamePlay
  <2> QED
    BY <1>1, <2>1, ChangesInv DEF PauseOrResume
<1>2. ASSUME RemoveQueueTrack PROVE Inv'
  <2>1. PICK i \in DOMAIN player.queue : Changes([player EXCEPT !.queue = RemoveAt(@, i)])
    BY <1>2 DEF RemoveQueueTrack
  <2> DEFINE p == [player EXCEPT !.queue = RemoveAt(player.queue, i)]
  <2>2. RemoveAt(player.queue, i) \in Seq(Tracks)
    BY <1>0, <2>1, PlayerHelpers
  <2>3. p \in Players /\ SameSession(p, player) /\ SamePlay(p, player)
    BY <1>0, <2>2 DEF Players, SameSession, SamePlay
  <2> QED
    BY <1>2, <2>1, <2>3, ChangesInv DEF RemoveQueueTrack
<1>3. ASSUME ClearQueue PROVE Inv'
  <2> DEFINE p == [player EXCEPT !.queue = <<>>]
  <2>0. <<>> \in Seq(Tracks)
    OBVIOUS
  <2>1. p \in Players /\ SameSession(p, player) /\ SamePlay(p, player)
    BY <1>0, <2>0 DEF Players, SameSession, SamePlay
  <2> QED
    BY <1>3, <2>1, ChangesInv DEF ClearQueue
<1>4. ASSUME ToggleAutoQueue PROVE Inv'
  <2> DEFINE p == [player EXCEPT !.autoQueue = ~@]
  <2>1. p \in Players /\ SameSession(p, player) /\ SamePlay(p, player)
    BY <1>0 DEF Players, SameSession, SamePlay
  <2> QED
    BY <1>4, <2>1, ChangesInv DEF ToggleAutoQueue
<1> QED
  BY <1>1, <1>2, <1>3, <1>4

LEMMA AlwaysOnInv == Inv /\ ToggleTwentyFourSeven => Inv'
<1> SUFFICES ASSUME Inv, ToggleTwentyFourSeven PROVE Inv'
  OBVIOUS
<1> DEFINE p == [player EXCEPT !.alwaysOn = ~@]
<1>1. player \in Players
  BY DEF Inv, PlayerTyped
<1>2. /\ p \in Players /\ SamePlay(p, player) /\ p.there = player.there
      /\ p.alwaysOn = ~player.alwaysOn
  BY <1>1 DEF Players, SamePlay
<1>3. Changes(p) /\ idleTimer' = IF p.alwaysOn THEN FALSE ELSE Scheduled(p)
  BY DEF ToggleTwentyFourSeven
<1> HIDE DEF p
<1>4. TimersFit' /\ idleTimer' \in BOOLEAN
  BY <1>2, <1>3 DEF Changes, Inv, TimersFit, WorkTyped, Scheduled, Idle, Started, SamePlay, roomVars
<1>5. PlayerStep
  BY <1>2, <1>3 DEF Changes, PlayerStep, PlayerTyped, Inv, WorkTyped, workVars
<1> QED
  BY <1>3, <1>4, <1>5, PlayerStepInv DEF Changes

-----------------------------------------------------------------------------
(* Lyrics.                                                                 *)

\* An answer that is taken settles the lyrics or schedules a retry; one that is not
\* was of an earlier play, or came while nothing played.
LEMMA AnsweredInv ==
  ASSUME Inv, NEW t \in Tracks, Answered(t)
  PROVE  Inv'
<1>0. /\ EntryFits /\ player \in Players /\ UNCHANGED <<player, left, workVars, idleTimer>>
      /\ UNCHANGED roomVars /\ UNCHANGED idleTimer
  BY DEF Inv, LyricsFit, PlayerTyped, Answered
<1>1. lookups' = {l \in lookups : l.track # t} /\ lookups' \subseteq Requests
  BY <1>0 DEF Answered, EntryFits
<1> DEFINE Taken(l) ==
             /\ l.track = t /\ isCurrentLyricsRequest(l)
             /\ \/ \E shown \in {"lines", "notFound", "unavailable"} :
                      lyrics' = [lyrics EXCEPT !.shown = shown] /\ UNCHANGED retryTimer
                \/ /\ l.retry < MaxRetries
                   /\ lyrics' = [lyrics EXCEPT !.shown = "retrying"] /\ retryTimer' = l.retry + 1
           Dropped ==
             /\ \A l \in lookups : l.track = t => ~isCurrentLyricsRequest(l)
             /\ lyrics' = [lyrics EXCEPT !.discarded = @ \/ \E l \in lookups : l.track = t /\ l.own]
             /\ UNCHANGED <<retryTimer, vote, rerolls>>
<1>2. \/ (\E l \in lookups : Taken(l)) /\ TakeVote(SyncedVote(vote, player, left))
      \/ Dropped
  BY DEF Answered
<1>3. EntryFits' /\ lyrics'.track = lyrics.track
  <2>1. ASSUME NEW l \in lookups, Taken(l) PROVE EntryFits' /\ lyrics'.track = lyrics.track
    <3>1. l.retry \in 0..MaxRetries /\ lyrics.track = t
      <4>1. l \in Requests /\ l.own /\ l.track = t /\ (l.own => l.track = lyrics.track)
        BY <1>0, <2>1 DEF EntryFits, isCurrentLyricsRequest
      <4> QED
        BY <4>1 DEF Requests
    <3>2. CASE \E shown \in {"lines", "notFound", "unavailable"} :
                 lyrics' = [lyrics EXCEPT !.shown = shown] /\ UNCHANGED retryTimer
      <4>1. /\ lyrics' \in Entries /\ lyrics'.track = lyrics.track
            /\ lyrics'.shown \notin {"none", "retrying"}
        BY <1>0, <3>2 DEF EntryFits, Entries
      <4> QED
        BY <1>0, <1>1, <3>2, <4>1 DEF EntryFits
    <3>3. CASE /\ l.retry < MaxRetries
               /\ lyrics' = [lyrics EXCEPT !.shown = "retrying"] /\ retryTimer' = l.retry + 1
      <4>1. lyrics' \in Entries /\ lyrics'.track = lyrics.track
        BY <1>0, <3>3 DEF EntryFits, Entries
      <4>2. retryTimer' \in 0..MaxRetries /\ retryTimer' > 0
        BY <3>1, <3>3, PlaybackAssumption
      <4>3. lyrics'.track # None
        BY <3>1, <4>1, PlaybackAssumption
      <4> QED
        BY <1>0, <1>1, <4>1, <4>2, <4>3 DEF EntryFits
    <3> QED
      BY <2>1, <3>2, <3>3
  <2>2. ASSUME Dropped PROVE EntryFits' /\ lyrics'.track = lyrics.track
    <3>1. /\ lyrics' \in Entries /\ lyrics'.track = lyrics.track
          /\ lyrics'.shown = lyrics.shown
          /\ lyrics'.discarded = (lyrics.discarded \/ \E l \in lookups : l.track = t /\ l.own)
      BY <1>0, <2>2 DEF EntryFits, Entries
    <3>2. ~lyrics'.discarded => \A l \in lookups : l.own => l \in lookups'
      BY <1>1, <3>1
    <3> QED
      BY <1>0, <1>1, <2>2, <3>1, <3>2 DEF EntryFits
  <2> QED
    BY <1>2, <2>1, <2>2
<1>4. LyricsFit'
  BY <1>0, <1>3 DEF LyricsFit, Inv, Started
<1>5. RerollsFit' /\ VoteFits'
  <2>1. CASE TakeVote(SyncedVote(vote, player, left))
    BY <1>0, <2>1, PublishFits DEF Publish, Inv
  <2>2. CASE UNCHANGED <<vote, rerolls>>
    BY <1>0, <2>2, SameVoteFits DEF SamePlay
  <2> QED
    BY <1>2, <2>1, <2>2
<1>6. TimersFit'
  BY <1>0, SameTimersFit DEF SamePlay, SameSession
<1> QED
  BY <1>0, <1>4, <1>5, <1>6 DEF Inv, PlayerTyped, WorkTyped, workVars, roomVars

LEMMA RetryFiresInv == Inv /\ RetryFires => Inv'
<1> SUFFICES ASSUME Inv, RetryFires PROVE Inv'
  OBVIOUS
<1> DEFINE l == [track |-> lyrics.track, retry |-> retryTimer, own |-> TRUE]
<1>1. /\ EntryFits /\ UNCHANGED <<player, left, vote, rerolls, workVars, idleTimer>>
      /\ UNCHANGED roomVars /\ UNCHANGED idleTimer /\ UNCHANGED <<vote, rerolls>>
      /\ retryTimer > 0 /\ retryTimer' = 0 /\ 0 \in 0..MaxRetries
  BY PlaybackAssumption DEF Inv, LyricsFit, RetryFires
<1>2. l \in Requests /\ l.own /\ l.track = lyrics.track
  BY <1>1 DEF EntryFits, Entries, Requests
<1>3. \/ lookups' = lookups \cup {l} /\ UNCHANGED lyrics
      \/ lyrics' = [lyrics EXCEPT !.discarded = TRUE] /\ UNCHANGED lookups
  BY DEF RetryFires
<1> HIDE DEF l
<1>4. EntryFits' /\ lyrics'.track = lyrics.track
  <2>1. CASE lookups' = lookups \cup {l} /\ UNCHANGED lyrics
    BY <1>1, <1>2, <2>1 DEF EntryFits
  <2>2. CASE lyrics' = [lyrics EXCEPT !.discarded = TRUE] /\ UNCHANGED lookups
    <3>1. lyrics' \in Entries /\ lyrics'.track = lyrics.track /\ lyrics'.discarded
      BY <1>1, <2>2 DEF EntryFits, Entries
    <3> QED
      BY <1>1, <2>2, <3>1 DEF EntryFits
  <2> QED
    BY <1>3, <2>1, <2>2
<1>5. LyricsFit'
  BY <1>1, <1>4 DEF LyricsFit, Inv, Started
<1>6. RerollsFit' /\ VoteFits' /\ TimersFit'
  BY <1>1, SameVoteFits, SameTimersFit DEF SamePlay, SameSession
<1> QED
  BY <1>1, <1>5, <1>6 DEF Inv, PlayerTyped, WorkTyped, workVars, roomVars

-----------------------------------------------------------------------------
(* Every behaviour.                                                        *)

LEMMA InitHolds == Init => Inv
<1> SUFFICES ASSUME Init PROVE Inv
  OBVIOUS
<1>1. PlayerTyped /\ WorkTyped
  <2>1. NoPlayer \in Players
    BY DEF NoPlayer, Players
  <2> QED
    BY <2>1 DEF Init, PlayerTyped, WorkTyped
<1>2. RerollsFit /\ VoteFits
  BY DEF Init, RerollsFit, VoteFits
<1>3. LyricsFit /\ TimersFit
  <2>1. ~Started /\ NoLyrics \in Entries /\ NoLyrics.track = None /\ 0 \in 0..MaxRetries
    BY PlaybackAssumption DEF Init, Started, NoPlayer, NoLyrics, Entries
  <2> QED
    BY <2>1 DEF Init, LyricsFit, EntryFits, TimersFit
<1> QED
  BY <1>1, <1>2, <1>3 DEF Inv

LEMMA NextKeepsInv == Inv /\ [Next]_vars => Inv'
<1> SUFFICES ASSUME Inv, [Next]_vars PROVE Inv'
  OBVIOUS
<1>1. CASE OptionsFound \/ (\E u \in Listeners : Reroll(u) \/ RerollEnds(u))
  BY <1>1, OptionsFoundInv, RerollInv, RerollEndsInv
<1>2. CASE Stop \/ IdleTimerFires \/ AloneTimerFires \/ SomebodyComes \/ NobodyIsLeft
  BY <1>2, DestroyedInv, RoomSteps DEF Stop, IdleTimerFires
<1>3. CASE TrackEnds \/ EndingEnds \/ TrackStarts \/ TimePasses
  BY <1>3, TrackEndsInv, EndingEndsInv, TrackStartsInv, TimePassesInv
<1>4. CASE Play \/ (\E t \in Tracks : SearchEnds(t)) \/ SearchFails \/ NothingFound
  BY <1>4, SearchSteps
<1>5. CASE Skip \/ SkipEnds \/ SkipTo \/ Previous \/ Seek
  BY <1>5, SkipInv, JumpInv
<1>6. CASE PauseOrResume \/ RemoveQueueTrack \/ ClearQueue \/ ToggleAutoQueue
           \/ ToggleTwentyFourSeven
  BY <1>6, SettingsInv, AlwaysOnInv
<1>7. CASE (\E t \in Tracks : Answered(t)) \/ RetryFires
  BY <1>7, AnsweredInv, RetryFiresInv
<1>8. CASE UNCHANGED vars
  BY <1>8 DEF vars, Inv, PlayerTyped, WorkTyped, RerollsFit, VoteFits, LyricsFit, EntryFits,
              TimersFit, Started, AboutCurrent
<1> QED
  BY <1>1, <1>2, <1>3, <1>4, <1>5, <1>6, <1>7, <1>8 DEF Next

\* Whatever comes back late, the player's maps, its lyrics and its timers fit the
\* track that plays and the session (lavalink-player-gateway.ts).
THEOREM PlaybackInvariance == Spec => []Inv
  BY InitHolds, NextKeepsInv, PTL DEF Spec

\* Options are swapped no oftener than the limit says, and once a track has started
\* the vote is about what follows it, for any listeners, tracks and limits
\* (syncAutoQueueVote, rerollAutoQueueVote).
THEOREM VotesStayInOrder == Spec => []VoteInOrder
<1>1. Inv => VoteInOrder
  BY DEF Inv, RerollsFit, VoteFits, VoteInOrder, AboutCurrent
<1> QED
  BY PlaybackInvariance, <1>1, PTL

\* The lyrics of a track that has started are settled or being looked for, for any
\* number of retries (loadPlaybackLyrics).
THEOREM LyricsAlwaysSettle == Spec => []LyricsSettle
<1>1. Inv => LyricsSettle
  BY PlaybackAssumption DEF Inv, LyricsFit, EntryFits, LyricsSettle, Started
<1> QED
  BY PlaybackInvariance, <1>1, PTL

\* The timers that end or pause a session run only while it is idle, or nobody
\* listens, and the player is well formed (scheduleEmptyQueueAction).
THEOREM SessionsEndIdle == Spec => []SessionEndsIdle
<1>1. Inv => TypeOK
  <2> SUFFICES ASSUME Inv PROVE TypeOK
    OBVIOUS
  <2>1. player \in Players /\ left \in {"much", "little", "last"} /\ WorkTyped
    BY DEF Inv, PlayerTyped
  <2>2. vote \in Votes \cup {None} /\ rerolls \in [Listeners -> {"no", "this", "gone"}]
    BY DEF Inv, RerollsFit
  <2>3. lyrics \in Entries /\ lookups \subseteq Requests /\ retryTimer \in 0..MaxRetries
    BY DEF Inv, LyricsFit, EntryFits
  <2>4. lyrics \in [track : Tracks \cup {None}, discarded : BOOLEAN,
                     shown : {"none", "lines", "notFound", "retrying", "unavailable"}]
    BY <2>3 DEF Entries
  <2>5. lookups \subseteq [track : Tracks, retry : 0..MaxRetries, own : BOOLEAN]
    BY <2>3 DEF Requests
  <2> QED
    BY <2>1, <2>2, <2>3, <2>4, <2>5 DEF TypeOK, WorkTyped, Players
<1>2. Inv => SessionEndsIdle
  BY <1>1 DEF Inv, TimersFit, SessionEndsIdle
<1> QED
  BY PlaybackInvariance, <1>2, PTL
=============================================================================
