------------------------------ MODULE MCLobby ------------------------------
(* More people than seats.  For the run of the properties u1 organizes the *)
(* game and may play, u2 applies or is invited and a third person comes to *)
(* the lobby only; for the claim the organizer o does not play.            *)
EXTENDS Lobby

CONSTANTS o, u1, u2, h1, h2

Everybody == {o, u1, u2}
Guests == {u1, u2}
AllHeroes == {h1, h2}
============================================================================
