--------------------------- MODULE MCDeletePipeline ---------------------------
(* Instances of DeletePipeline for TLC. *)
EXTENDS DeletePipeline

CONSTANTS c1, c2, c3, w1, w2, u1, u2, s1, s2

\* Two calls of one user that overlap on s2, and a call of another user that
\* names s1 as well.
MCReqUser   == [c \in Callers |-> IF c = c3 THEN u2 ELSE u1]
MCReqShorts == [c \in Callers |-> IF c = c1 THEN {s1, s2}
                                  ELSE IF c = c2 THEN {s2} ELSE {s1}]

\* The call c3 comes from a context without a user; c1 and c2 ask for one short.
MCAnonUser  == [c \in Callers |-> IF c = c3 THEN NoUser ELSE u1]
MCOneShort  == [c \in Callers |-> {s1}]
===============================================================================
