--------------------------- MODULE MCLiveOperations ---------------------------
(* Two requests of one account, which may be of one nonce in two modes, of
   one nonce and its successor, or made after each other. *)
EXTENDS LiveOperations, TLC

MCRequests == 1..2
===============================================================================
