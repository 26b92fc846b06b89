----------------------------- MODULE MCNTPServer -----------------------------
(* Two NTP messages, and an empty datagram that makes the size of one with a *)
(* datagram of 40 bytes, in whichever order they come.                       *)
EXTENDS NTPServer, TLC

CONSTANTS r1, r2, empty, short

MCRawSize == r1 :> 56 @@ r2 :> 56 @@ empty :> 8 @@ short :> 48
=============================================================================
