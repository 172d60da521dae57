------------------------- MODULE MCDatabaseRepository -------------------------
(* Instances of DatabaseRepository for TLC. *)
EXTENDS DatabaseRepository, TLC

CONSTANTS save1, save2, batch, del1, del2, o1, o2, o3, u1, u2

Save(s, o, u)  == [kind |-> "save", urls |-> <<[short |-> s, original |-> o]>>,
                   user |-> u, shorts |-> {}]
Batch(urls, u) == [kind |-> "batch", urls |-> urls, user |-> u, shorts |-> {}]
Delete(S, u)   == [kind |-> "delete", urls |-> <<>>, user |-> u, shorts |-> S]

\* Two saves of the same original, which the handlers let pass when they look it up
\* at the same time; a batch; a deletion of one's own link that also names one of the
\* batch, and one that names a link of another user.
AllWork ==
  save1 :> Save(1, o1, u1) @@ save2 :> Save(2, o1, u2)
  @@ batch :> Batch(<<[short |-> 3, original |-> o2], [short |-> 4, original |-> o3]>>, u1)
  @@ del1 :> Delete({1, 3}, u1) @@ del2 :> Delete({1, 2}, u2)

MCWork == [c \in Calls |-> AllWork[c]]
===============================================================================
