--------------------------- MODULE MCFileRepository ---------------------------
(* Instances of FileRepository for TLC. *)
EXTENDS FileRepository, TLC

CONSTANTS save1, save2, batch1, batch2, close1, o1, o2, o3, u1

\* A batch of two, one that repeats an original of the first, two saves and Close.
AllWork ==
  save1 :> [kind |-> "save", urls |-> <<Url(1, o1, u1, FALSE)>>]
  @@ save2 :> [kind |-> "save", urls |-> <<Url(2, o2, u1, FALSE)>>]
  @@ batch1 :> [kind |-> "batch", urls |-> <<Url(3, o1, u1, FALSE), Url(4, o3, u1, FALSE)>>]
  @@ batch2 :> [kind |-> "batch", urls |-> <<Url(5, o3, u1, FALSE)>>]
  @@ close1 :> [kind |-> "close", urls |-> <<>>]

MCWork == [c \in Calls |-> AllWork[c]]
===============================================================================
