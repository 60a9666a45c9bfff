--------------------------- MODULE MCBoardServer ---------------------------
(* Two HTTP clients, the console and two queries.  Between the encode, the *)
(* cross K/V and the decode step of one task the others may run.           *)
EXTENDS BoardServer

CONSTANTS alice, bob, weather, timer

MCClients == {alice, bob}
MCQueries == {weather, timer}
=============================================================================
