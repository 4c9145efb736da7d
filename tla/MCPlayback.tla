----------------------------- MODULE MCPlayback -----------------------------
EXTENDS Playback, TLC

Symmetric == Permutations(Tracks) \cup Permutations(Listeners)
=============================================================================
