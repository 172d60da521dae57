----------------------------- MODULE MCShortening -----------------------------
(* Instances of Shortening for TLC. *)
EXTENDS Shortening, TLC

CONSTANTS r1, r2, r3, o1, o2, u1, u2

Input(k, os, u) == [kind |-> k, originals |-> os, user |-> u]

\* o2 is no valid URL: only a batch, which does not validate, stores it.
MCValid  == {o1}
MCInputs == {Input("http", <<o1>>, u1), Input("http", <<o2>>, u2),
             Input("grpc", <<o1>>, u2), Input("grpc", <<o2>>, u1),
             Input("batch", <<o1, o2, o1>>, u1), Input("batch", <<o2, o1>>, u2)}

MCBatches == {Input("batch", <<o1>>, u1), Input("batch", <<o1, o2>>, u2)}

\* u1 also names a link it may not own; both may name one not issued yet.
MCDeletions == {[user |-> u1, shorts |-> {1, 2}], [user |-> u2, shorts |-> {2}]}

MCSymmetry == Permutations(Requests)
===============================================================================
