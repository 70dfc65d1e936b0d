-------------------------- MODULE MCSubmitterJournal --------------------------
(* Three contexts: in one process, as the reference server opens them for
   concurrent submissions, or as separate commands. *)
EXTENDS SubmitterJournal, TLC

CONSTANTS c1, c2, c3, server, command, id1, id2, pay, other

MCOneHost == [c \in Contexts |-> server]
MCTwoHosts == [c \in Contexts |-> IF c = c1 THEN server ELSE command]
MCWork == [c \in Contexts |->
             IF c = c1 THEN {[id |-> id1, intent |-> pay], [id |-> id2, intent |-> pay]}
             ELSE IF c = c2 THEN {[id |-> id1, intent |-> pay]}
             ELSE {[id |-> id2, intent |-> pay], [id |-> id1, intent |-> other]}]
===============================================================================
