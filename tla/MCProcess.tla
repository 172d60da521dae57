------------------------------ MODULE MCProcess -------------------------------
(* Instances of Process for TLC. *)
EXTENDS Process, TLC

CONSTANTS c1, c2, e1, g1, u1, s1, s2

MCReqUser   == c1 :> u1 @@ c2 :> u1
MCReqShorts == c1 :> {s1} @@ c2 :> {s2}

Source(flags, env, flagFile, envFile) ==
  [flags |-> flags, env |-> env, flagFile |-> flagFile, envFile |-> envFile]

\* One field, set in any way by each of the sources.
Set(f, v) == {<<>>} \cup {f :> x : x \in {Empty, v, Bad}}
OneField ==
  UNION {{Source(a, b, c, NoFile) :
            a \in IF f \in FlagFields THEN Set(f, "flag") ELSE {<<>>},
            b \in Set(f, "env"), c \in Set(f, "file") \cup {NoFile}} : f \in Fields}

\* The two fields that choose the repository, together.
Stores(v) == {<<>>, "dsn" :> v, "dsn" :> Empty, "storage" :> v, "storage" :> Empty,
              "dsn" :> v @@ "storage" :> Empty, "dsn" :> Empty @@ "storage" :> Empty}
TwoFields ==
  {Source(a, b, c, NoFile) : a \in Stores("flag"), b \in Stores("env"), c \in Stores("file")}

\* Files named by the flag, by CONFIG, or by both.
Files == {NoFile, Broken, <<>>, "dsn" :> "file", "dsn" :> Empty}
TwoFiles == {Source(<<>>, <<>>, c, d) : c \in Files, d \in Files}

MCSources == OneField \cup TwoFields \cup TwoFiles
===============================================================================
