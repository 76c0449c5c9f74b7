---------------------------- MODULE MCUDPSession ----------------------------
(* UDPSession for one source and two destinations: a fake address of a host *)
(* with two servers, and one of a host that shares a server with it.        *)
EXTENDS UDPSession

CONSTANTS w1, f1, t1, t2

MCWorkerOf == [k \in Keys |-> w1]
MCAnswers  == [o \in Origins |-> IF o = f1 THEN {t1, t2} ELSE {t1}]
=============================================================================
