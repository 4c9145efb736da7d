------------------------------ MODULE Playback ------------------------------
(***************************************************************************)
(* infrastructure/lavalink: the music player of one guild.  Listeners'     *)
(* commands, the events of the Lavalink node, searches and lyrics lookups  *)
(* that come back late, votes on what plays next and two timers that end   *)
(* an idle session meet in one gateway, whose maps are keyed by the guild  *)
(* alone: whether a late result still means anything is checked by the     *)
(* gateway when it comes.                                                  *)
(*                                                                         *)
(* The node and its client library are external: a track starts, and ends  *)
(* with the next in the queue or with the empty queue.  Of an object that  *)
(* is kept in a map and compared later only this remains: work in flight   *)
(* belongs to the one in the map, or is in vain.                           *)
(*                                                                         *)
(* Left out: repeat modes, shuffling and moving tracks, volume and         *)
(* filters, the lines of the node's lyrics plugin, which option gets how   *)
(* many clicks and has lyrics, and what is searched and avoided.           *)
(***************************************************************************)
EXTENDS Naturals, FiniteSets, SequencesExt

CONSTANTS
  Tracks, None,
  Listeners,           \* who rerolls
  MaxQueue,            \* bound: tracks waiting when a listener adds one
  RerollLimit,         \* autoQueueVoteRerollLimit
  MaxRetries,          \* the length of lyricsRetryDelaysMs
  EmptyChannelAction,  \* "pause" or "leave"; "continue" arms no timer
  StaysConnected,      \* emptyQueueAction is "stay_connected"
  ResumeWhenOccupied

\* AutoQueueVoteState: what the vote is to follow, and how often options were swapped.
Votes == [source : Tracks, status : {"loading", "ready", "unavailable", "skipped"},
          rerolls : Nat]

ASSUME PlaybackAssumption ==
  /\ None \notin Tracks /\ None \notin Votes /\ Cardinality(Tracks) > 1
  /\ MaxQueue \in Nat \ {0} /\ RerollLimit \in Nat /\ MaxRetries \in Nat
  /\ EmptyChannelAction \in {"pause", "leave", "continue"}
  /\ StaysConnected \in BOOLEAN /\ ResumeWhenOccupied \in BOOLEAN

VARIABLES
  player,     \* the Lavalink player
  left,       \* how much of the track is left: "much", "little" (too little
              \* to begin a vote) or "last" (a vote is locked)
  vote,       \* autoQueueVotes, or None
  rerolls,    \* the search of each listener's reroll: "no", for "this" vote or "gone"
  search,     \* a search of /play is out
  skipping,   \* a skip is looking for the next track
  ending,     \* autoPlayFunction is looking for the next track
  lyrics,     \* currentLyricsTrackByGuild and customLyricsByGuild
  lookups,    \* lookups of lyrics that are out
  retryTimer, \* which retry of a lookup is scheduled, 0 for none
  idleTimer,  \* emptyQueueTimers has an entry
  aloneTimer, \* emptyChannelTimers has an entry
  occupied    \* somebody listens

vars == <<player, left, vote, rerolls, search, skipping, ending, lyrics, lookups,
          retryTimer, idleTimer, aloneTimer, occupied>>
workVars == <<search, skipping, ending>>
lyricVars == <<lyrics, lookups, retryTimer>>
roomVars == <<aloneTimer, occupied>>

NoPlayer == [there |-> FALSE, current |-> None, starting |-> FALSE, queue |-> <<>>,
             paused |-> FALSE, autoQueue |-> FALSE, alwaysOn |-> FALSE, autoPaused |-> FALSE]
NoLyrics == [track |-> None, shown |-> "none", discarded |-> FALSE]

Init ==
  /\ player = NoPlayer /\ left = "much"
  /\ vote = None /\ rerolls = [u \in Listeners |-> "no"]
  /\ search = FALSE /\ skipping = FALSE /\ ending = FALSE
  /\ lyrics = NoLyrics /\ lookups = {} /\ retryTimer = 0
  /\ idleTimer = FALSE /\ aloneTimer = FALSE /\ occupied \in BOOLEAN

Playing(p, t) == [p EXCEPT !.current = t, !.starting = TRUE]
PlayingNext(p) == [Playing(p, Head(p.queue)) EXCEPT !.queue = Tail(@)]
WithTrack(p, t) == [p EXCEPT !.queue = Append(@, t)]
Idle(p) == p.there /\ p.current = None /\ p.queue = <<>>

\* The new track is at its beginning.
Begins == left' \in {"much", "little"}

---------------------------------------------------------------------------
(* The vote on what plays next *)

\* syncAutoQueueVote: what vote there is after a change of state.
SyncedVote(v, p, l) ==
  IF p.current = None \/ ~p.autoQueue THEN None
  ELSE IF v # None /\ v.source = p.current THEN v
  ELSE IF p.queue # <<>> THEN None
  ELSE [source |-> p.current, status |-> IF l = "much" THEN "loading" ELSE "skipped", rerolls |-> 0]

\* A vote takes the place of the present one; rerolls of that are in vain.
TakeVote(v) ==
  /\ vote' = v
  /\ rerolls' = IF v # None /\ vote # None /\ v.source = vote.source THEN rerolls
                ELSE [u \in Listeners |-> IF rerolls[u] = "no" THEN "no" ELSE "gone"]

\* publishStateChange, with the player and the position as they are now.
Publish == TakeVote(SyncedVote(vote, player', left'))

Ready(v) == v # None /\ v.status = "ready"

\* requireOpenAutoQueueVote
OpenVote ==
  /\ Ready(vote) /\ vote.source = player.current
  /\ player.queue = <<>> /\ player.autoQueue /\ left # "last"

\* The options of the vote were found, or not.
OptionsFound ==
  /\ vote # None /\ vote.status = "loading"
  /\ \E s \in {"ready", "unavailable"} :
         TakeVote(SyncedVote([vote EXCEPT !.status = s], player, left))
  /\ UNCHANGED <<player, left, workVars, lyricVars, idleTimer, roomVars>>

\* MUTANT of MayReroll: a listener waits for their own click only.
MayRerollAtOnce(u) == rerolls[u] = "no"

\* Clicks on the panel of a guild take turns (guildLocks).
MayReroll(u) == \A other \in Listeners : rerolls[other] = "no"

\* A listener asks for other options.
Reroll(u) ==
  /\ MayReroll(u) /\ OpenVote /\ vote.rerolls < RerollLimit
  /\ rerolls' = [rerolls EXCEPT ![u] = "this"]
  /\ UNCHANGED <<player, left, vote, workVars, lyricVars, idleTimer, roomVars>>

\* The other options were found - or too few, or the vote is gone.
RerollEnds(u) ==
  /\ rerolls[u] # "no"
  /\ \/ /\ rerolls[u] = "this"
        /\ LET v == SyncedVote([vote EXCEPT !.rerolls = @ + 1], player, left)
           IN vote' = v /\ rerolls' = [w \in Listeners |->
                IF w = u \/ rerolls[w] = "no" THEN "no"
                ELSE IF v # None /\ v.source = vote.source THEN rerolls[w] ELSE "gone"]
     \/ rerolls' = [rerolls EXCEPT ![u] = "no"] /\ UNCHANGED vote
  /\ UNCHANGED <<player, left, workVars, lyricVars, idleTimer, roomVars>>

\* The answers to these lookups will be of another play.
InVain(ls) == {[l EXCEPT !.own = FALSE, !.retry = 0] : l \in ls}

---------------------------------------------------------------------------
(* The end of the session *)

\* MUTANT of Scheduled: the settings of the session are not asked.
ScheduledAnyway(p) == IF Idle(p) /\ ~StaysConnected THEN TRUE ELSE idleTimer

\* scheduleEmptyQueueAction
Scheduled(p) ==
  IF Idle(p) /\ ~p.alwaysOn /\ ~StaysConnected THEN TRUE ELSE idleTimer

\* MUTANT of LyricsCleared: which track they were of is kept.
LyricsClearedOnly == [lyrics EXCEPT !.shown = "none"]

LyricsCleared == NoLyrics

\* player.destroy and the playerDestroy event: what is out is in vain.
Destroyed ==
  /\ player' = NoPlayer /\ left' = "much"
  /\ TakeVote(None)
  /\ search' = FALSE /\ skipping' = FALSE /\ ending' = FALSE
  /\ lyrics' = LyricsCleared /\ lookups' = InVain(lookups)
  /\ retryTimer' = 0 /\ idleTimer' = FALSE /\ aloneTimer' = FALSE
  /\ UNCHANGED occupied

\* Stopped by a listener, thrown out or moved by somebody (reconcileVoiceState).
Stop == player.there /\ Destroyed

IdleTimerFires == idleTimer /\ Destroyed

AloneTimerFires ==
  /\ aloneTimer
  /\ IF EmptyChannelAction = "leave" THEN Destroyed
     ELSE /\ player' = [player EXCEPT !.paused = TRUE, !.autoPaused = TRUE]
          /\ aloneTimer' = FALSE
          /\ UNCHANGED <<left, vote, rerolls, workVars, lyricVars, idleTimer, occupied>>

\* handleVoiceChannelOccupancy: somebody came, or nobody is left.
SomebodyComes ==
  /\ occupied' = TRUE /\ aloneTimer' = FALSE
  /\ player' = IF ResumeWhenOccupied /\ player.autoPaused
               THEN [player EXCEPT !.autoPaused = FALSE, !.paused = FALSE] ELSE player
  /\ UNCHANGED <<left, vote, rerolls, workVars, lyricVars, idleTimer>>

NobodyIsLeft ==
  /\ occupied' = FALSE
  /\ aloneTimer' = IF player.there /\ ~player.alwaysOn /\ EmptyChannelAction # "continue"
                   THEN TRUE ELSE aloneTimer
  /\ UNCHANGED <<player, left, vote, rerolls, workVars, lyricVars, idleTimer>>

---------------------------------------------------------------------------
(* Tracks end and begin: the library and the node *)

\* enqueueAutoQueueNext: the vote closes and its winner is queued, if it was ready;
\* if it was not, or that fails, another track is looked for.
Winners == IF Ready(vote) /\ vote.source = player.current THEN Tracks \ {player.current} ELSE {}

\* The queue is empty, and stays so.
QueueEnds(p) ==
  /\ player' = p /\ UNCHANGED left
  /\ idleTimer' = Scheduled(p) /\ Publish

TrackEnds ==
  /\ player.current # None /\ UNCHANGED <<search, skipping, lyricVars, roomVars>>
  /\ LET stopped == [player EXCEPT !.current = None, !.starting = FALSE] IN
     \/ /\ player.queue # <<>> /\ player' = PlayingNext(player) /\ Begins
        /\ UNCHANGED <<vote, rerolls, ending, idleTimer>>
     \/ /\ player.queue = <<>> /\ ~player.autoQueue /\ QueueEnds(stopped)
        /\ UNCHANGED ending
     \/ /\ player.queue = <<>> /\ player.autoQueue /\ ~ending
        /\ TakeVote(None) /\ UNCHANGED idleTimer
        /\ \/ \E t \in Winners : player' = Playing(player, t) /\ Begins /\ UNCHANGED ending
           \/ player' = stopped /\ ending' = TRUE /\ UNCHANGED left

\* autoPlayFunction is done.  Should a listener's track have begun meanwhile, the
\* library goes on with it or with the one found.
EndingEnds ==
  /\ ending /\ ending' = FALSE
  /\ UNCHANGED <<search, skipping, lyricVars, roomVars>>
  /\ \E p \in {player} \cup {WithTrack(player, t) : t \in Tracks} :
       \/ /\ p.queue # <<>> /\ player' = PlayingNext(p) /\ Begins
          /\ UNCHANGED <<vote, rerolls, idleTimer>>
       \/ /\ p.current # None /\ player' = p
          /\ UNCHANGED <<left, vote, rerolls, idleTimer>>
       \/ Idle(p) /\ QueueEnds(p)

\* The entry of the lyrics maps is of a new play of the track.
NewEntry(t) ==
  /\ lyrics' = [NoLyrics EXCEPT !.track = t]
  /\ lookups' = InVain(lookups) \cup {[track |-> t, retry |-> 0, own |-> TRUE]}
  /\ retryTimer' = 0

\* The trackStart event, which may be repeated (a reconnected node replays it).
TrackStarts ==
  /\ player.current # None
  /\ player' = [player EXCEPT !.starting = FALSE] /\ UNCHANGED left
  /\ idleTimer' = FALSE /\ Publish
  /\ IF lyrics.track = player.current THEN UNCHANGED lyricVars ELSE NewEntry(player.current)
  /\ UNCHANGED <<workVars, roomVars>>

TimePasses ==
  /\ player.current # None /\ ~player.starting /\ ~player.paused
  /\ left' = IF left = "much" THEN "little" ELSE "last"
  /\ UNCHANGED <<player, vote, rerolls, workVars, lyricVars, idleTimer, roomVars>>

---------------------------------------------------------------------------
(* Commands *)

\* /play: a player is made if there is none, and a search goes out.
Play ==
  /\ ~search /\ search' = TRUE
  /\ player' = [player EXCEPT !.there = TRUE]
  /\ UNCHANGED <<left, vote, rerolls, skipping, ending, lyricVars, idleTimer, roomVars>>

\* The track found is queued, and played if nothing plays and nothing is paused.
SearchEnds(t) ==
  /\ search /\ Len(player.queue) < MaxQueue /\ search' = FALSE
  /\ LET p == WithTrack(player, t) IN
     IF p.current = None /\ ~p.paused THEN player' = PlayingNext(p) /\ Begins
                                      ELSE player' = p /\ UNCHANGED left
  /\ Publish
  /\ UNCHANGED <<skipping, ending, lyricVars, idleTimer, roomVars>>

\* The search throws, or finds nothing while a track plays.
SearchFails ==
  /\ search /\ search' = FALSE
  /\ UNCHANGED <<player, left, vote, rerolls, skipping, ending, lyricVars, idleTimer, roomVars>>

NothingFound == search /\ player.current = None /\ Destroyed

\* player.skip of the library: refused when there is nothing to skip to.
SkipsTo(p) ==
  IF p.queue = <<>> THEN player' = p /\ UNCHANGED <<left, vote, rerolls>>
  ELSE player' = PlayingNext(p) /\ Begins /\ Publish

\* skip: with autoqueue and nothing queued the next track is looked for first.
Skip ==
  /\ player.there /\ ~skipping
  /\ \/ /\ player.current = None \/ ~player.autoQueue \/ player.queue # <<>>
        /\ SkipsTo(player) /\ UNCHANGED skipping
     \/ /\ player.current # None /\ player.autoQueue /\ player.queue = <<>>
        /\ \/ \E t \in Winners : SkipsTo(WithTrack(player, t)) /\ UNCHANGED skipping
           \/ TakeVote(None) /\ skipping' = TRUE /\ UNCHANGED <<player, left>>
  /\ UNCHANGED <<search, ending, lyricVars, idleTimer, roomVars>>

SkipEnds ==
  /\ skipping /\ skipping' = FALSE
  /\ \E p \in {player} \cup {WithTrack(player, t) : t \in Tracks} : SkipsTo(p)
  /\ UNCHANGED <<search, ending, lyricVars, idleTimer, roomVars>>

\* skipTo a track of the queue; previous goes back to one played before.
SkipTo ==
  /\ \E i \in DOMAIN player.queue :
       player' = [Playing(player, player.queue[i]) EXCEPT
                    !.queue = SubSeq(@, i + 1, Len(@))]
  /\ Begins /\ Publish
  /\ UNCHANGED <<workVars, lyricVars, idleTimer, roomVars>>

Previous ==
  /\ player.there /\ \E t \in Tracks : player' = Playing(player, t)
  /\ Begins /\ Publish
  /\ UNCHANGED <<workVars, lyricVars, idleTimer, roomVars>>

\* A command that changes the player at once, and nothing else but the vote.
Changes(p) ==
  /\ player.there /\ player' = p /\ UNCHANGED left /\ Publish
  /\ UNCHANGED <<workVars, lyricVars, roomVars>>

PauseOrResume == Changes([player EXCEPT !.paused = ~@]) /\ UNCHANGED idleTimer
RemoveQueueTrack ==
  /\ \E i \in DOMAIN player.queue : Changes([player EXCEPT !.queue = RemoveAt(@, i)])
  /\ UNCHANGED idleTimer
ClearQueue == Changes([player EXCEPT !.queue = <<>>]) /\ UNCHANGED idleTimer
ToggleAutoQueue == Changes([player EXCEPT !.autoQueue = ~@]) /\ UNCHANGED idleTimer

ToggleTwentyFourSeven ==
  LET p == [player EXCEPT !.alwaysOn = ~@]
  IN Changes(p) /\ idleTimer' = IF p.alwaysOn THEN FALSE ELSE Scheduled(p)

Seek ==
  /\ player.current # None /\ left' \in {"much", "little", "last"} /\ UNCHANGED player /\ Publish
  /\ UNCHANGED <<workVars, lyricVars, idleTimer, roomVars>>

---------------------------------------------------------------------------
(* Lyrics *)

\* The lookup is for the play in the map, and that track is current.
isCurrentLyricsRequest(l) == l.own /\ player.current = l.track

\* The lookup of a track is over, for all who asked meanwhile: found, there are
\* none, or the providers could not be asked.
Answered(t) ==
  /\ \E l \in lookups : l.track = t
  /\ lookups' = {l \in lookups : l.track # t}
  /\ \/ \E l \in lookups :
          /\ l.track = t /\ isCurrentLyricsRequest(l)
          /\ \/ \E shown \in {"lines", "notFound", "unavailable"} :
                   lyrics' = [lyrics EXCEPT !.shown = shown] /\ UNCHANGED retryTimer
             \/ /\ l.retry < MaxRetries
                /\ lyrics' = [lyrics EXCEPT !.shown = "retrying"] /\ retryTimer' = l.retry + 1
          /\ TakeVote(SyncedVote(vote, player, left))
     \/ /\ \A l \in lookups : l.track = t => ~isCurrentLyricsRequest(l)
        /\ lyrics' = [lyrics EXCEPT !.discarded = @ \/ \E l \in lookups : l.track = t /\ l.own]
        /\ UNCHANGED <<retryTimer, vote, rerolls>>
  /\ UNCHANGED <<player, left, workVars, idleTimer, roomVars>>

RetryFires ==
  /\ retryTimer > 0 /\ retryTimer' = 0
  /\ LET l == [track |-> lyrics.track, retry |-> retryTimer, own |-> TRUE] IN
     IF isCurrentLyricsRequest(l) THEN lookups' = lookups \cup {l} /\ UNCHANGED lyrics
     ELSE lyrics' = [lyrics EXCEPT !.discarded = TRUE] /\ UNCHANGED lookups
  /\ UNCHANGED <<player, left, vote, rerolls, workVars, idleTimer, roomVars>>

---------------------------------------------------------------------------
Next ==
  \/ OptionsFound \/ (\E u \in Listeners : Reroll(u) \/ RerollEnds(u))
  \/ Stop \/ IdleTimerFires \/ AloneTimerFires \/ SomebodyComes \/ NobodyIsLeft
  \/ TrackEnds \/ EndingEnds \/ TrackStarts \/ TimePasses
  \/ Play \/ (\E t \in Tracks : SearchEnds(t)) \/ SearchFails \/ NothingFound
  \/ Skip \/ SkipEnds \/ SkipTo \/ Previous
  \/ PauseOrResume \/ RemoveQueueTrack \/ ClearQueue \/ ToggleAutoQueue \/ ToggleTwentyFourSeven \/ Seek
  \/ (\E t \in Tracks : Answered(t)) \/ RetryFires

Spec == Init /\ [][Next]_vars

---------------------------------------------------------------------------
(* Correctness *)

\* TypeOK: the player, the vote, the lyrics and what is under way are well formed.
TypeOK ==
  /\ player \in [there : BOOLEAN, current : Tracks \cup {None}, starting : BOOLEAN,
                 queue : Seq(Tracks), paused : BOOLEAN, autoQueue : BOOLEAN,
                 alwaysOn : BOOLEAN, autoPaused : BOOLEAN]
  /\ left \in {"much", "little", "last"}
  /\ vote \in Votes \cup {None}
  /\ rerolls \in [Listeners -> {"no", "this", "gone"}]
  /\ search \in BOOLEAN /\ skipping \in BOOLEAN /\ ending \in BOOLEAN
  /\ lyrics \in [track : Tracks \cup {None}, discarded : BOOLEAN,
                 shown : {"none", "lines", "notFound", "retrying", "unavailable"}]
  /\ lookups \subseteq [track : Tracks, retry : 0..MaxRetries, own : BOOLEAN]
  /\ retryTimer \in 0..MaxRetries
  /\ idleTimer \in BOOLEAN /\ aloneTimer \in BOOLEAN /\ occupied \in BOOLEAN

Started == player.current # None /\ ~player.starting

\* VoteInOrder: options are swapped no oftener than the limit says, whoever
\* clicks while a search for others is out (lavalink-player-gateway.ts:840);
\* once a track has started the vote is about what follows that track, and
\* autoqueue is on (:714), whatever ended, was skipped or was queued meanwhile.
VoteInOrder ==
  /\ vote # None => vote.rerolls <= RerollLimit
  /\ \A u \in Listeners : rerolls[u] = "this" => vote # None
  /\ Started /\ vote # None => vote.source = player.current /\ player.autoQueue

\* LyricsSettle: the lyrics of a track that has started were found, or not, or are
\* being looked for: no panel is "stuck on 'Looking for lyrics...' for this track
\* forever" (:421) because an answer, a retry or the start of a track was taken
\* for one of another play.  Not so for an answer or a retry that came while
\* nothing played, or while another track was current and had not started yet,
\* should the same track be played again next.
LyricsSettle ==
  Started /\ lyrics.shown \in {"none", "retrying"} /\ ~lyrics.discarded =>
    retryTimer > 0 \/ \E l \in lookups : l.own

\* SessionEndsIdle: the timers that end or pause a session run only for the player
\* they were armed for, the one on the empty queue only while no track has started
\* and not in 24/7 mode, the other only while nobody listens (:1159, :1302).
SessionEndsIdle ==
  /\ TypeOK
  /\ idleTimer => player.there /\ ~player.alwaysOn /\ ~Started
  /\ aloneTimer => player.there /\ ~occupied
=============================================================================
