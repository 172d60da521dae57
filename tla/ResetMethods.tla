----------------------------- MODULE ResetMethods -----------------------------
(***************************************************************************)
(* What the Reset methods that cmd/reset/main.go writes do when they run:  *)
(* which parts a value of a marked type has, which of the statements are   *)
(* executed for it, and which of its parts they reset.                     *)
(***************************************************************************)
EXTENDS ResetGenerator, SequencesExt

(* What a value of a marked type is made of *)

Inside(p, l) ==
  LET t == Resolve(TypeByName(p), l.type) IN
  CASE t.kind = "struct"  -> {[at |-> Append(l.at, f.name), type |-> f.type] : f \in t.fields}
    [] t.kind = "pointer" -> {[at |-> Append(l.at, "*"), type |-> t.elem]}
    [] OTHER              -> {}

Locations(p, n) ==
  LET in[d \in 0 .. MaxDepth] ==
        IF d = 0 THEN {[at |-> <<>>, type |-> TypeByName(p)[n]]}
        ELSE UNION {Inside(p, l) : l \in in[d - 1]}
  IN  UNION {in[d] : d \in 0 .. MaxDepth}

Kind(p, l) == Resolve(TypeByName(p), l.type).kind

\* A value of n may hold another value of a type that holds it.
SelfReferring(p, n) ==
  \E l, m \in Locations(p, n) :
    /\ IsStrictPrefix(l.at, m.at)
    /\ Resolve(TypeByName(p), l.type) = Resolve(TypeByName(p), m.type)

\* Ways from a variable to what a Reset of its address resets, by embedded fields, one
\* set for each number of them. A Reset hides those that are embedded more deeply than
\* itself, and two that are equally deep hide one another.
Methods(p) == Marked(p) \cup UNION {f.methods : f \in Files(p)}

PromotedPaths(p, t, paths) ==
  LET u == Resolve(TypeByName(p), t) IN
  UNION {IF f.type.kind = "pointer" THEN {<<f.name, "*">> \o q : q \in paths[f.type.elem]}
         ELSE {<<f.name>> \o q : q \in paths[f.type]}
         : f \in IF u.kind = "struct" THEN {g \in u.fields : g.embedded} ELSE {}}

ResetPaths(p, t) ==
  LET paths[d \in 0 .. MaxDepth] ==
        [u \in Exprs |->
           IF d > 0 THEN PromotedPaths(p, u, paths[d - 1])
           ELSE IF u.kind \in {"ident", "foreign"} /\ u.name \in Methods(p) THEN {<<>>} ELSE {}]
      depths == {d \in 0 .. MaxDepth : paths[d][t] # {}}
      least == UNION {paths[d][t] : d \in {e \in depths : \A c \in depths : e <= c}}
  IN  {q \in least : least = {q}}

\* Statements that are executed when the pointers in nil are nil, and their targets.
Executed(p, n, stmts, nil) ==
  {s \in stmts : /\ s.of = n /\ s.notNil \cap nil = {}
                 /\ s.op = "call" => ResetPaths(p, s.own) # {}
                 /\ \A t \in s.unless : ResetPaths(p, t) = {}}
Target(p, s) == IF s.op = "call" THEN s.at \o (CHOOSE q \in ResetPaths(p, s.own) : TRUE)
                ELSE s.at

\* A promoted Reset is called whether or not the embedded pointers on the way to it are nil.
NilOnTheWay(p, n, stmts, nil) ==
  \E s \in Executed(p, n, stmts, nil), q \in nil :
    IsPrefix(s.at, q) /\ IsPrefix(Append(q, "*"), Target(p, s))

\* Where an unmarked struct embeds a type with a Reset and gets it by promotion, the
\* rest of it is passed over.
PassedOver(p, n, stmts, nil, l) ==
  \E s \in Executed(p, n, stmts, nil) :
    s.op = "call" /\ IsPrefix(s.at, l.at) /\ ~IsPrefix(Target(p, s), l.at)

\* A struct or foreign type that has a Reset of its own, unless the way to it is a
\* pointer type with a name.
Resets(p, n, l) ==
  /\ l.at # <<>> /\ Kind(p, l) \in {"struct", "foreign"} /\ ResetPaths(p, l.type) = {<<>>}
  /\ ~ \E m \in Locations(p, n) : l.at = Append(m.at, "*") /\ m.type.kind = "ident"

\* Reset of n resets everything in its value once, what has a Reset by that, and
\* keeps the pointers; it follows no nil pointer.
ResetsAll(p, n, stmts, nil) ==
  LET present == {l \in Locations(p, n) :
                    \A q \in nil : ~IsPrefix(Append(q, "*"), l.at)}
      done  == Executed(p, n, stmts, nil)
      by(l) == {s \in done : IsPrefix(Target(p, s), l.at)}
      calls == {s \in done : s.op = "call"}
  IN  /\ \A s \in done : /\ \E l \in present : l.at = s.at
                         /\ \A q \in nil : ~IsPrefix(Append(q, "*"), Target(p, s))
      /\ \A l \in present :
           /\ Resets(p, n, l) => by(l) \cap calls # {} \/ PassedOver(p, n, stmts, nil, l)
           /\ Kind(p, l) = "pointer" => by(l) \subseteq calls
           /\ Kind(p, l) \notin {"pointer", "struct"} =>
                IF by(l) = {} THEN PassedOver(p, n, stmts, nil, l) ELSE Cardinality(by(l)) = 1

-----------------------------------------------------------------------------
(* Properties *)

\* After a run that reports success the file of each directory resets every marked
\* type of its last package completely, whatever was there before, for every
\* choice of nil pointers: no field is left as it was, none is reset twice, and
\* no nil pointer is followed. This is not said of values in which an embedded
\* pointer on the way to a promoted Reset is nil: lines 278-279 call that Reset
\* with no check of the pointer, and unless it takes a nil receiver they panic.
FilesReset ==
  stage = "done" =>
    \A p \in Packages :
      Marked(p) # {} /\ (\A q \in Packages : q[1] = p[1] /\ Marked(q) # {} => ~Before(p, q)) =>
        /\ disk[p[1]].pkg = p[2]
        /\ \A n \in Marked(p) :
             LET pointers == {l.at : l \in {m \in Locations(p, n) : Kind(p, m) = "pointer"}} IN
             \A nil \in SUBSET pointers :
               ~NilOnTheWay(p, n, disk[p[1]].code, nil) => ResetsAll(p, n, disk[p[1]].code, nil)

\* The recursion ends exactly where no marked type refers to itself through fields
\* and pointers, be it by way of types that have a Reset.
EndlessIffSelfReferring ==
  /\ stage = "overflow" => \E n \in Marked(pkg) : SelfReferring(pkg, n)
  /\ stage = "done" => \A p \in Packages : \A n \in Marked(p) : ~SelfReferring(p, n)
===============================================================================
