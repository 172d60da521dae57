-------------------------- MODULE ResetGeneratorProofs --------------------------
(***************************************************************************)
(* Proofs about ResetGenerator, for any source trees, any depth of types   *)
(* and any number of runs.                                                 *)
(***************************************************************************)
EXTENDS ResetMethods, FiniteSetTheorems, SequenceTheorems, WellFoundedInduction, TLAPS

-----------------------------------------------------------------------------
(* The inductive invariant *)

\* A place is a sequence of these: names of fields, and what a pointer points to.
Part == STRING \cup {"*"}

\* The parts of a job that its statements inherit.
JobOK(j) == j.type \in Exprs /\ j.at \in Seq(Part) /\ Guarded(j)

CodeOK(stmts) ==
  \A s \in stmts : /\ s.at \in Seq(Part) /\ Guarded(s)
                   /\ \A t \in stmts : Disjoint(s, t)

\* The jobs are at places apart, and what has been emitted for a place that is still to be
\* completed is a call to its Reset.
WorkInv ==
  /\ \A j \in jobs : JobOK(j)
  /\ \A j, k \in jobs : j.of = k.of /\ j # k => Apart(j.at, k.at)
  /\ \A j \in jobs, s \in code : j.of = s.of => Apart(j.at, s.at) \/ YieldsTo(j, s)
  /\ CodeOK(code)

RunInv ==
  /\ root \in Roots /\ runs \in 1 .. MaxRuns
  /\ stage \in Over \cup {"scan", "next", "generate", "create", "write", "rename"}
  /\ left \subseteq Packages
  /\ stage = "generate" => pkg \in Packages
  /\ stage = "scan" => left = {}

DiskInv ==
  /\ DOMAIN disk = Dirs
  /\ \A d \in Dirs : disk[d] # NoFile => disk[d].whole /\ CodeOK(disk[d].code)

IInv == RunInv /\ WorkInv /\ DiskInv

-----------------------------------------------------------------------------
(* Repeating a step *)

LEMMA Least ==
  ASSUME NEW S \in SUBSET Nat, S # {}
  PROVE  \E x \in S : \A y \in S : x <= y
<1>1. PICK x \in S : \A y \in S : ~(<<y, x>> \in OpToRel(<, Nat))
  BY WFMin, NatLessThanWellFounded, Zenon
<1>2. \A y \in S : y \in Nat /\ x \in Nat => ~(y < x)
  BY <1>1, Zenon DEF OpToRel
<1>3. \A y \in S : x <= y
  BY <1>2
<1>. QED BY <1>1, <1>3

\* What holds at the start and is kept from one number to the next holds up to k.
LEMMA Climb ==
  ASSUME NEW a \in Nat, NEW k \in Nat, NEW G, a \in G,
         \A n \in a + 1 .. k : n - 1 \in G => n \in G
  PROVE  \A n \in a .. k : n \in G
<1>. DEFINE Bad == {n \in a .. k : n \notin G}
<1>1. CASE Bad = {}
  BY <1>1
<1>2. CASE Bad # {}
  <2>1. Bad \in SUBSET Nat
    OBVIOUS
  <2>2. PICK x \in Bad : \A y \in Bad : x <= y
    BY <1>2, <2>1, Least
  <2>3. x \in a + 1 .. k /\ x - 1 \in a .. k /\ ~(x <= x - 1)
    OBVIOUS
  <2>4. x - 1 \in G
    BY <2>2, <2>3
  <2>. QED BY <2>3, <2>4
<1>. QED BY <1>1, <1>2

\* Two functions that start alike and go on alike are alike.
Alike(k, g, h) == g[0] = h[0] /\ \A n \in 1 .. k : g[n - 1] = h[n - 1] => g[n] = h[n]

LEMMA Agree ==
  ASSUME NEW k \in Nat, NEW g, NEW h, Alike(k, g, h)
  PROVE  g[k] = h[k]
<1>. USE DEF Alike
<1>. DEFINE G == {n \in 0 .. k : g[n] = h[n]}
<1>1. 0 \in G
  OBVIOUS
<1>2. \A n \in 0 + 1 .. k : n - 1 \in G => n \in G
  OBVIOUS
<1>. HIDE DEF G
<1>3. \A n \in 0 .. k : n \in G
  BY <1>1, <1>2, Climb
<1>4. k \in 0 .. k
  OBVIOUS
<1>. QED BY <1>3, <1>4 DEF G

\* What a function leads to can be followed any number of times.
Follows(k, next, t, g) == g[0] = t /\ \A n \in 1 .. k : g[n] = next[g[n - 1]]

LEMMA Chain ==
  ASSUME NEW S, NEW next \in [S -> S], NEW t \in S, NEW k \in Nat
  PROVE  \E g \in [0 .. k -> S] : Follows(k, next, t, g)
<1>. USE DEF Follows
<1>. DEFINE Goal(m) == \E g \in [0 .. m -> S] : g[0] = t /\ \A n \in 1 .. m : g[n] = next[g[n - 1]]
            Good == {m \in Nat : Goal(m)}
<1>1. Goal(0)
  <2>1. [n \in 0 .. 0 |-> t] \in [0 .. 0 -> S]
    OBVIOUS
  <2>2. [n \in 0 .. 0 |-> t][0] = t
    OBVIOUS
  <2>3. \A n \in 1 .. 0 : FALSE
    OBVIOUS
  <2>. QED BY <2>1, <2>2, <2>3
<1>2. ASSUME NEW m \in Nat, Goal(m)
      PROVE  Goal(m + 1)
  <2>1. PICK g \in [0 .. m -> S] : g[0] = t /\ \A n \in 1 .. m : g[n] = next[g[n - 1]]
    BY <1>2
  <2>. DEFINE h == [n \in 0 .. m + 1 |-> IF n = m + 1 THEN next[g[m]] ELSE g[n]]
  <2>2. g[m] \in S /\ next[g[m]] \in S
    OBVIOUS
  <2>3. h \in [0 .. m + 1 -> S]
    BY <2>2
  <2>4. h[0] = t /\ h[m + 1] = next[g[m]] /\ \A n \in 0 .. m : h[n] = g[n]
    BY <2>1
  <2>5. \A n \in 1 .. m + 1 : h[n] = next[h[n - 1]]
    BY <2>1, <2>4
  <2>. QED BY <2>3, <2>4, <2>5
<1>. HIDE DEF Goal
<1>3. \A n \in 0 + 1 .. k : n - 1 \in Good => n \in Good
  <2>1. ASSUME NEW n \in 0 + 1 .. k, n - 1 \in Good
        PROVE  n \in Good
    <3>1. n - 1 \in Nat /\ (n - 1) + 1 = n /\ n \in Nat
      OBVIOUS
    <3>2. Goal((n - 1) + 1)
      BY <1>2, <2>1, <3>1
    <3>. QED BY <3>1, <3>2
  <2>. QED BY <2>1
<1>4. 0 \in Good
  BY <1>1
<1>. HIDE DEF Good
<1>5. \A n \in 0 .. k : n \in Good
  BY <1>3, <1>4, Climb
<1>6. k \in Good
  BY <1>5
<1>. QED BY <1>6 DEF Good, Goal

-----------------------------------------------------------------------------
(* Names are resolved to expressions *)

\* The equation behind Resolve.
Resolves(types, t, k, g) ==
  g = [n \in 0 .. k |->
        IF n = 0 THEN t
        ELSE IF g[n - 1].kind = "ident" /\ g[n - 1].name \in DOMAIN types \ Primitives
               THEN types[g[n - 1].name] ELSE g[n - 1]]

LEMMA ResolveType ==
  ASSUME NEW types, IsFiniteSet(DOMAIN types), \A n \in DOMAIN types : types[n] \in Exprs,
         NEW t \in Exprs
  PROVE  Resolve(types, t) \in Exprs /\ (t.kind # "ident" => Resolve(types, t) = t)
<1>. DEFINE k == Cardinality(DOMAIN types)
            next == [u \in Exprs |->
                      IF u.kind = "ident" /\ u.name \in DOMAIN types \ Primitives
                        THEN types[u.name] ELSE u]
<1>1. k \in Nat
  BY FS_CardinalityType
<1>2. next \in [Exprs -> Exprs]
  OBVIOUS
<1>. HIDE DEF k
<1>3. \E g \in [0 .. k -> Exprs] : Follows(k, next, t, g)
  <2>. HIDE DEF next
  <2>. QED BY <1>1, <1>2, Chain
<1>4. PICK g \in [0 .. k -> Exprs] : Resolves(types, t, k, g)
  <2>1. PICK g \in [0 .. k -> Exprs] : g[0] = t /\ \A n \in 1 .. k : g[n] = next[g[n - 1]]
    BY <1>3 DEF Follows
  <2>2. ASSUME NEW n \in 0 .. k
        PROVE  g[n] = IF n = 0 THEN t
                      ELSE IF g[n - 1].kind = "ident" /\ g[n - 1].name \in DOMAIN types \ Primitives
                        THEN types[g[n - 1].name] ELSE g[n - 1]
    <3>1. CASE n = 0
      BY <2>1, <3>1
    <3>2. CASE n # 0
      <4>1. n \in 1 .. k /\ n - 1 \in 0 .. k /\ g[n - 1] \in Exprs
        BY <1>1, <3>2
      <4>2. g[n] = next[g[n - 1]]
        BY <2>1, <4>1
      <4>. QED BY <3>2, <4>1, <4>2
    <3>. QED BY <3>1, <3>2
  <2>. QED BY <2>2 DEF Resolves
<1>5. ASSUME NEW h, Resolves(types, t, k, h)
      PROVE  h[k] = g[k]
  <2>1. h[0] = g[0]
    BY <1>1, <1>4, <1>5 DEF Resolves
  <2>2. \A n \in 1 .. k : h[n - 1] = g[n - 1] => h[n] = g[n]
    BY <1>1, <1>4, <1>5 DEF Resolves
  <2>3. Alike(k, h, g)
    BY <2>1, <2>2 DEF Alike
  <2>. QED BY <1>1, <2>3, Agree
<1>6. Resolve(types, t) = (CHOOSE h : Resolves(types, t, k, h))[k]
  BY Zenon DEF Resolve, Resolves, k
<1>7. Resolves(types, t, k, CHOOSE h : Resolves(types, t, k, h))
  BY <1>4, Zenon
<1>8. Resolve(types, t) = g[k]
  BY <1>5, <1>6, <1>7, Zenon
<1>9. ASSUME t.kind # "ident"
      PROVE  g[k] = t
  <2>. DEFINE same == [n \in 0 .. k |-> t]
  <2>1. g[0] = same[0]
    BY <1>1, <1>4 DEF Resolves
  <2>2. \A n \in 1 .. k : g[n - 1] = same[n - 1] => g[n] = same[n]
    BY <1>1, <1>4, <1>9 DEF Resolves
  <2>3. same[k] = t
    BY <1>1
  <2>. HIDE DEF same
  <2>4. Alike(k, g, same)
    BY <2>1, <2>2 DEF Alike
  <2>. QED BY <1>1, <2>3, <2>4, Agree
<1>. QED BY <1>1, <1>8, <1>9

\* What a package declares, and what its marked types are.
LEMMA Names ==
  ASSUME root \in Roots, NEW p
  PROVE  /\ IsFiniteSet(DOMAIN TypeByName(p))
         /\ \A n \in DOMAIN TypeByName(p) : TypeByName(p)[n] \in Exprs
         /\ \A n \in Marked(p) : n \in DOMAIN TypeByName(p) /\ TypeByName(p)[n].kind = "struct"
<1>1. IsFiniteSet(root) /\ \A f \in Files(p) : f \in root /\ f.dir = p[1] /\ f.pkg = p[2]
  BY SourceAssumption DEF Files, Scanned
<1>2. IsFiniteSet(Files(p))
  BY <1>1, FS_Subset
<1>3. IsFiniteSet({DOMAIN f.types : f \in Files(p)})
  <2>. DEFINE D == {DOMAIN f.types : f \in Files(p)}
              g == [f \in Files(p) |-> DOMAIN f.types]
  <2>1. g \in Surjection(Files(p), D)
    BY DEF Surjection
  <2>. QED BY <1>2, <2>1, FS_Surjection
<1>4. IsFiniteSet(DOMAIN TypeByName(p))
  <2>1. \A f \in Files(p) : IsFiniteSet(DOMAIN f.types)
    BY <1>1, SourceAssumption
  <2>. QED BY <1>3, <2>1, FS_UNION DEF TypeByName
<1>5. ASSUME NEW n \in DOMAIN TypeByName(p)
      PROVE  \E f \in Files(p) : n \in DOMAIN f.types /\ TypeByName(p)[n] = f.types[n]
  <2>. DEFINE f == CHOOSE f \in Files(p) : n \in DOMAIN f.types
  <2>1. f \in Files(p) /\ n \in DOMAIN f.types
    BY DEF TypeByName
  <2>. QED BY <2>1 DEF TypeByName
<1>6. \A n \in DOMAIN TypeByName(p) : TypeByName(p)[n] \in Exprs
  BY <1>1, <1>5, SourceAssumption
<1>7. ASSUME NEW n \in Marked(p)
      PROVE  n \in DOMAIN TypeByName(p) /\ TypeByName(p)[n].kind = "struct"
  <2>1. PICK f \in Files(p) : n \in f.marked
    BY DEF Marked
  <2>2. n \in DOMAIN f.types /\ f.types[n].kind = "struct"
    BY <1>1, <2>1, SourceAssumption
  <2>3. n \in DOMAIN TypeByName(p)
    BY <2>2 DEF TypeByName
  <2>4. PICK g \in Files(p) : n \in DOMAIN g.types /\ TypeByName(p)[n] = g.types[n]
    BY <1>5, <2>3
  <2>5. g = f
    BY <1>1, <2>1, <2>4, SourceAssumption
  <2>. QED BY <2>2, <2>3, <2>4, <2>5
<1>. QED BY <1>4, <1>6, <1>7

-----------------------------------------------------------------------------
(* Places *)

\* q is p or a part of it.
Within(q, p) == DOMAIN p \subseteq DOMAIN q /\ \A i \in DOMAIN p : q[i] = p[i]

LEMMA PartsApart ==
  ASSUME NEW p, NEW q, Apart(p, q), NEW x, NEW y, Within(x, p), Within(y, q)
  PROVE  Apart(x, y)
BY DEF Apart, Within

LEMMA ApartBoth == \A p, q : Apart(p, q) <=> Apart(q, p)
BY DEF Apart

\* The places of the children of a place.
LEMMA Child ==
  ASSUME NEW at \in Seq(Part), NEW name \in Part
  PROVE  /\ Append(at, name) \in Seq(Part)
         /\ DOMAIN Append(at, name) = 1 .. Len(at) + 1
         /\ Append(at, name)[Len(at) + 1] = name
         /\ Within(Append(at, name), at)
         /\ \A i \in DOMAIN at : SubSeq(Append(at, name), 1, i - 1) = SubSeq(at, 1, i - 1)
         /\ SubSeq(Append(at, name), 1, Len(at)) = at
<1>. DEFINE c == Append(at, name)
<1>1. c \in Seq(Part) /\ DOMAIN c = 1 .. Len(at) + 1 /\ c[Len(at) + 1] = name
      /\ DOMAIN at = 1 .. Len(at) /\ Len(at) \in Nat /\ \A i \in 1 .. Len(at) : c[i] = at[i]
  OBVIOUS
<1>. HIDE DEF c
<1>2. ASSUME NEW m \in 0 .. Len(at)
      PROVE  SubSeq(c, 1, m) = SubSeq(at, 1, m)
  <2>1. /\ SubSeq(c, 1, m) \in Seq(Part) /\ Len(SubSeq(c, 1, m)) = m
        /\ \A i \in 1 .. m : SubSeq(c, 1, m)[i] = c[i]
    BY <1>1, SubSeqProperties
  <2>2. /\ SubSeq(at, 1, m) \in Seq(Part) /\ Len(SubSeq(at, 1, m)) = m
        /\ \A i \in 1 .. m : SubSeq(at, 1, m)[i] = at[i]
    BY <1>1, SubSeqProperties
  <2>3. \A i \in 1 .. m : c[i] = at[i]
    BY <1>1
  <2>. QED BY <2>1, <2>2, <2>3
<1>3. SubSeq(c, 1, Len(at)) = at
  BY <1>1, <1>2, SubSeqFull
<1>4. \A i \in DOMAIN at : i - 1 \in 0 .. Len(at)
  BY <1>1
<1>5. Within(c, at)
  BY <1>1 DEF Within
<1>. QED BY <1>1, <1>2, <1>3, <1>4, <1>5 DEF c

-----------------------------------------------------------------------------
(* What a Reset resets *)

\* The equation behind ResetPaths.
OwnPaths(p, u) == IF u.kind \in {"ident", "foreign"} /\ u.name \in Methods(p) THEN {<<>>} ELSE {}

Layer(p, d, shallower) ==
  [u \in Exprs |-> IF d > 0 THEN PromotedPaths(p, u, shallower) ELSE OwnPaths(p, u)]

PathsOf(p, h) == h = [d \in 0 .. MaxDepth |-> Layer(p, d, h[d - 1])]

\* The ways of the least number of embeddings, if there is only one.
Shallowest(h, t) ==
  LET depths == {d \in 0 .. MaxDepth : h[d][t] # {}}
      least  == UNION {h[d][t] : d \in {e \in depths : \A c \in depths : e <= c}}
  IN  {q \in least : least = {q}}

\* One place at most.
AtMostOne == {P \in SUBSET Seq(Part) : P = {} \/ \E q \in P : P = {q}}

LEMMA Promotion ==
  ASSUME root \in Roots, NEW p, NEW u \in Exprs, NEW paths \in [Exprs -> SUBSET Seq(Part)]
  PROVE  PromotedPaths(p, u, paths) \in SUBSET Seq(Part)
<1>. DEFINE r == Resolve(TypeByName(p), u)
            P == PromotedPaths(p, u, paths)
<1>1. r \in Exprs
  BY Names, ResolveType
<1>. DEFINE F == IF r.kind = "struct" THEN {g \in r.fields : g.embedded} ELSE {}
            Of(f) == IF f.type.kind = "pointer"
                       THEN {<<f.name, "*">> \o q : q \in paths[f.type.elem]}
                       ELSE {<<f.name>> \o q : q \in paths[f.type]}
<1>2. ASSUME NEW f \in F
      PROVE  Of(f) \in SUBSET Seq(Part)
  <2>1. f.type \in Exprs /\ f.name \in Part /\ "*" \in Part
    BY <1>1, ExprAssumption DEF Part
  <2>2. f.type.kind = "pointer" => f.type.elem \in Exprs
    BY <2>1, ExprAssumption
  <2>3. <<f.name, "*">> \in Seq(Part) /\ <<f.name>> \in Seq(Part)
    BY <2>1
  <2>4. \A x \in Exprs : paths[x] \in SUBSET Seq(Part)
    OBVIOUS
  <2>5. \A a, b \in Seq(Part) : a \o b \in Seq(Part)
    BY ConcatProperties
  <2>6. CASE f.type.kind = "pointer"
    BY <2>2, <2>3, <2>4, <2>5, <2>6
  <2>7. CASE f.type.kind # "pointer"
    BY <2>1, <2>3, <2>4, <2>5, <2>7
  <2>. QED BY <2>6, <2>7
<1>3. P = UNION {Of(f) : f \in F}
  BY DEF PromotedPaths
<1>. HIDE DEF P, Of, F
<1>4. P \in SUBSET Seq(Part)
  BY <1>2, <1>3
<1>. QED BY <1>4 DEF P

\* The Reset of an address resets one place at most, and a type that does not stand for a
\* struct has none but its own.
LEMMA Paths ==
  ASSUME root \in Roots, NEW p, NEW t \in Exprs
  PROVE  /\ ResetPaths(p, t) \in AtMostOne
         /\ Resolve(TypeByName(p), t).kind # "struct" => ResetPaths(p, t) \subseteq {<<>>}
<1>. DEFINE S == [Exprs -> SUBSET Seq(Part)]
            next == [f \in S |-> [u \in Exprs |-> PromotedPaths(p, u, f)]]
            own == [u \in Exprs |-> OwnPaths(p, u)]
<1>1. MaxDepth \in Nat
  BY BoundAssumption
<1>2. \A u : OwnPaths(p, u) \in SUBSET Seq(Part) /\ OwnPaths(p, u) \subseteq {<<>>}
  <2>1. <<>> \in Seq(Part)
    OBVIOUS
  <2>. QED BY <2>1 DEF OwnPaths
<1>3. own \in S
  BY <1>2
<1>4. next \in [S -> S]
  <2>1. ASSUME NEW f \in S
        PROVE  [u \in Exprs |-> PromotedPaths(p, u, f)] \in S
    BY Promotion
  <2>. QED BY <2>1
<1>5. \E g \in [0 .. MaxDepth -> S] : Follows(MaxDepth, next, own, g)
  <2>. HIDE DEF next, own, S
  <2>. QED BY <1>1, <1>3, <1>4, Chain
<1>6. PICK g \in [0 .. MaxDepth -> S] : PathsOf(p, g)
  <2>1. PICK g \in [0 .. MaxDepth -> S] :
          g[0] = own /\ \A n \in 1 .. MaxDepth : g[n] = next[g[n - 1]]
    BY <1>5 DEF Follows
  <2>2. ASSUME NEW d \in 0 .. MaxDepth
        PROVE  g[d] = Layer(p, d, g[d - 1])
    <3>. USE DEF Layer
    <3>1. CASE d = 0
      BY <2>1, <3>1
    <3>2. CASE d # 0
      <4>1. d \in 1 .. MaxDepth /\ d - 1 \in 0 .. MaxDepth /\ g[d - 1] \in S /\ d > 0
        BY <1>1, <3>2
      <4>2. g[d] = next[g[d - 1]]
        BY <2>1, <4>1
      <4>3. next[g[d - 1]] = [u \in Exprs |-> PromotedPaths(p, u, g[d - 1])]
        BY <4>1
      <4>. HIDE DEF S, next
      <4>. QED BY <4>1, <4>2, <4>3
    <3>. QED BY <3>1, <3>2
  <2>. QED BY <2>2 DEF PathsOf
<1>7. ASSUME NEW h, PathsOf(p, h)
      PROVE  \A d \in 0 .. MaxDepth : h[d] = g[d]
  <2>1. h[0] = g[0]
    <3>1. Layer(p, 0, h[0 - 1]) = Layer(p, 0, g[0 - 1])
      BY DEF Layer
    <3>. QED BY <1>1, <1>6, <1>7, <3>1 DEF PathsOf
  <2>2. ASSUME NEW d \in 0 .. MaxDepth
        PROVE  h[d] = g[d]
    <3>1. \A n \in 1 .. d : h[n - 1] = g[n - 1] => h[n] = g[n]
      BY <1>1, <1>6, <1>7 DEF PathsOf
    <3>2. Alike(d, h, g)
      BY <2>1, <3>1 DEF Alike
    <3>. QED BY <1>1, <3>2, Agree
  <2>. QED BY <2>2
<1>. DEFINE chosen == CHOOSE h : PathsOf(p, h)
<1>8. ResetPaths(p, t) = Shallowest(chosen, t)
  BY Zenon DEF ResetPaths, Shallowest, PathsOf, Layer, OwnPaths
<1>9. PathsOf(p, chosen)
  BY <1>6, Zenon
<1>10. \A d \in 0 .. MaxDepth : chosen[d] = g[d]
  BY <1>7, <1>9
<1>. HIDE DEF chosen
<1>. DEFINE ways == UNION {chosen[d][t] : d \in 0 .. MaxDepth}
<1>11. /\ Shallowest(chosen, t) \subseteq ways
       /\ \A q, r \in Shallowest(chosen, t) : q = r
  BY DEF Shallowest
<1>12. ways \in SUBSET Seq(Part)
  <2>1. \A d \in 0 .. MaxDepth : g[d][t] \in SUBSET Seq(Part)
    OBVIOUS
  <2>. QED BY <1>10, <2>1
<1>13. ASSUME Resolve(TypeByName(p), t).kind # "struct"
       PROVE  ways \subseteq {<<>>}
  <2>1. \A f : PromotedPaths(p, t, f) = {}
    BY <1>13 DEF PromotedPaths
  <2>2. ASSUME NEW d \in 0 .. MaxDepth
        PROVE  g[d][t] \subseteq {<<>>}
    <3>1. g[d] = Layer(p, d, g[d - 1])
      BY <1>6 DEF PathsOf
    <3>2. g[d][t] = IF d > 0 THEN {} ELSE OwnPaths(p, t)
      BY <2>1, <3>1 DEF Layer
    <3>. QED BY <1>2, <3>2
  <2>. QED BY <1>10, <2>2
<1>. HIDE DEF ways
<1>. QED BY <1>8, <1>11, <1>12, <1>13 DEF AtMostOne

-----------------------------------------------------------------------------
(* The parts of a value *)

Place == [at : Seq(Part), type : Exprs]
Root(p, n) == [at |-> <<>>, type |-> TypeByName(p)[n]]

LEMMA Insides ==
  ASSUME root \in Roots, NEW p, NEW l \in Place
  PROVE  /\ Resolve(TypeByName(p), l.type) \in Exprs
         /\ Inside(p, l) # {} => Kind(p, l) \in {"struct", "pointer"}
         /\ \A c \in Inside(p, l) :
              /\ c \in Place
              /\ \E x \in Part : c.at = Append(l.at, x) /\ (x = "*" <=> Kind(p, l) = "pointer")
              /\ \A d \in Inside(p, l) : c.at = d.at => c = d
<1>. DEFINE t == Resolve(TypeByName(p), l.type)
<1>1. t \in Exprs /\ Kind(p, l) = t.kind
  BY Names, ResolveType DEF Place, Kind
<1>2. l.at \in Seq(Part)
  BY DEF Place
<1>3. Inside(p, l) = CASE t.kind = "struct"  -> {[at |-> Append(l.at, f.name), type |-> f.type] :
                                                  f \in t.fields}
                       [] t.kind = "pointer" -> {[at |-> Append(l.at, "*"), type |-> t.elem]}
                       [] OTHER              -> {}
  BY DEF Inside
<1>. HIDE DEF t
<1>4. CASE t.kind = "struct"
  <2>1. Inside(p, l) = {[at |-> Append(l.at, f.name), type |-> f.type] : f \in t.fields}
    BY <1>3, <1>4
  <2>2. \A f \in t.fields : /\ f.type \in Exprs /\ f.name \in Part /\ f.name # "*"
                            /\ \A g \in t.fields : f.name = g.name => f = g
    BY <1>1, <1>4, ExprAssumption DEF Part
  <2>3. ASSUME NEW c \in Inside(p, l)
        PROVE  /\ c \in Place
               /\ \E x \in Part : c.at = Append(l.at, x) /\ (x = "*" <=> Kind(p, l) = "pointer")
               /\ \A d \in Inside(p, l) : c.at = d.at => c = d
    <3>1. PICK f \in t.fields : c = [at |-> Append(l.at, f.name), type |-> f.type]
      BY <2>1
    <3>2. f.type \in Exprs /\ f.name \in Part /\ f.name # "*"
      BY <2>2
    <3>3. Append(l.at, f.name) \in Seq(Part)
      BY <1>2, <3>2, AppendProperties
    <3>4. c \in Place
      BY <3>1, <3>2, <3>3 DEF Place
    <3>5. ASSUME NEW d \in Inside(p, l), c.at = d.at
          PROVE  c = d
      <4>1. PICK g \in t.fields : d = [at |-> Append(l.at, g.name), type |-> g.type]
        BY <2>1
      <4>2. Append(l.at, f.name) = Append(l.at, g.name)
        BY <3>1, <3>5, <4>1
      <4>3. f.name = g.name
        <5>1. \A x \in Part : Append(l.at, x)[Len(l.at) + 1] = x
          BY <1>2
        <5>. QED BY <2>2, <4>2, <5>1
      <4>. QED BY <2>2, <3>1, <4>1, <4>3
    <3>. QED BY <1>1, <1>4, <3>1, <3>2, <3>4, <3>5
  <2>. QED BY <1>1, <1>4, <2>3 DEF t
<1>5. CASE t.kind = "pointer"
  <2>1. Inside(p, l) = {[at |-> Append(l.at, "*"), type |-> t.elem]}
    BY <1>3, <1>5
  <2>2. t.elem \in Exprs /\ "*" \in Part
    BY <1>1, <1>5, ExprAssumption DEF Part
  <2>3. Append(l.at, "*") \in Seq(Part)
    BY <1>2, <2>2, AppendProperties
  <2>. QED BY <1>1, <1>5, <2>1, <2>2, <2>3 DEF Place, t
<1>6. CASE t.kind \notin {"struct", "pointer"}
  <2>1. Inside(p, l) = {}
    BY <1>3, <1>6
  <2>. QED BY <1>1, <2>1 DEF t
<1>. QED BY <1>4, <1>5, <1>6

\* The equation behind Locations.
Deeper(p, n, d, L) ==
  IF d = 0 THEN {[at |-> <<>>, type |-> TypeByName(p)[n]]} ELSE UNION {Inside(p, l) : l \in L}

PlacesAt(p, n, h) == h = [d \in 0 .. MaxDepth |-> Deeper(p, n, d, h[d - 1])]

\* The places of a value are its root and what is inside other places of it; they are
\* followed down to MaxDepth.
Located(p, n) ==
  /\ Locations(p, n) \subseteq Place /\ Root(p, n) \in Locations(p, n)
  /\ \A l \in Locations(p, n) :
       /\ l = Root(p, n) \/ \E m \in Locations(p, n) : l \in Inside(p, m)
       /\ Len(l.at) <= MaxDepth
       /\ Len(l.at) < MaxDepth => Inside(p, l) \subseteq Locations(p, n)

LEMMA LocatedIn ==
  ASSUME root \in Roots, NEW p, NEW n \in Marked(p)
  PROVE  Located(p, n)
<1>. DEFINE S == SUBSET Place
            next == [L \in S |-> UNION {Inside(p, l) : l \in L}]
            start == {Root(p, n)}
<1>1. MaxDepth \in Nat
  BY BoundAssumption
<1>2. start \in S
  <2>1. TypeByName(p)[n] \in Exprs
    BY Names
  <2>. QED BY <2>1 DEF Root, Place
<1>3. next \in [S -> S]
  <2>1. ASSUME NEW L \in S
        PROVE  UNION {Inside(p, l) : l \in L} \in S
    <3>1. \A l \in L : Inside(p, l) \subseteq Place
      BY Insides
    <3>. QED BY <3>1
  <2>. QED BY <2>1
<1>4. \E g \in [0 .. MaxDepth -> S] : Follows(MaxDepth, next, start, g)
  <2>. HIDE DEF next, start, S
  <2>. QED BY <1>1, <1>2, <1>3, Chain
<1>5. PICK g \in [0 .. MaxDepth -> S] :
        /\ g[0] = {Root(p, n)}
        /\ \A d \in 1 .. MaxDepth : g[d] = UNION {Inside(p, l) : l \in g[d - 1]}
  <2>1. PICK g \in [0 .. MaxDepth -> S] :
          g[0] = start /\ \A d \in 1 .. MaxDepth : g[d] = next[g[d - 1]]
    BY <1>4 DEF Follows
  <2>2. ASSUME NEW d \in 1 .. MaxDepth
        PROVE  g[d] = UNION {Inside(p, l) : l \in g[d - 1]}
    <3>1. d - 1 \in 0 .. MaxDepth /\ g[d - 1] \in S
      BY <1>1
    <3>2. g[d] = next[g[d - 1]]
      BY <2>1
    <3>. HIDE DEF S
    <3>. QED BY <3>1, <3>2
  <2>. QED BY <2>1, <2>2
<1>. HIDE DEF next, start
<1>6. PlacesAt(p, n, g)
  <2>1. \A d \in 0 .. MaxDepth : g[d] = Deeper(p, n, d, g[d - 1])
    BY <1>1, <1>5 DEF Root, Deeper
  <2>. QED BY <2>1 DEF PlacesAt
<1>7. ASSUME NEW h, PlacesAt(p, n, h)
      PROVE  \A d \in 0 .. MaxDepth : h[d] = g[d]
  <2>1. h[0] = g[0]
    <3>1. Deeper(p, n, 0, h[0 - 1]) = Deeper(p, n, 0, g[0 - 1])
      BY DEF Deeper
    <3>. QED BY <1>1, <1>6, <1>7, <3>1 DEF PlacesAt
  <2>2. \A d \in 1 .. MaxDepth : h[d - 1] = g[d - 1] => h[d] = g[d]
    BY <1>1, <1>6, <1>7 DEF PlacesAt
  <2>3. ASSUME NEW d \in 0 .. MaxDepth
        PROVE  h[d] = g[d]
    <3>1. Alike(d, h, g)
      BY <1>1, <2>1, <2>2 DEF Alike
    <3>2. d \in Nat
      OBVIOUS
    <3>. QED BY <3>1, <3>2, Agree
  <2>. QED BY <2>3
<1>. DEFINE in == CHOOSE h : PlacesAt(p, n, h)
<1>8. Locations(p, n) = UNION {in[d] : d \in 0 .. MaxDepth}
  BY Zenon DEF Locations, PlacesAt, Deeper
<1>9. PlacesAt(p, n, in)
  BY <1>6, Zenon
<1>10. Locations(p, n) = UNION {g[d] : d \in 0 .. MaxDepth}
  <2>1. \A d \in 0 .. MaxDepth : in[d] = g[d]
    BY <1>7, <1>9, Zenon
  <2>. HIDE DEF in
  <2>. QED BY <1>8, <2>1
<1>11. Locations(p, n) \subseteq Place /\ Root(p, n) \in Locations(p, n)
  BY <1>1, <1>5, <1>10
<1>12. \A d \in 0 .. MaxDepth : \A l \in g[d] : Len(l.at) = d
  <2>. DEFINE G == {d \in 0 .. MaxDepth : \A l \in g[d] : Len(l.at) = d}
  <2>1. 0 \in G
    BY <1>1, <1>5 DEF Root
  <2>2. ASSUME NEW d \in 0 + 1 .. MaxDepth, d - 1 \in G
        PROVE  d \in G
    <3>1. ASSUME NEW c \in g[d]
          PROVE  Len(c.at) = d
      <4>1. PICK l \in g[d - 1] : c \in Inside(p, l)
        BY <1>5
      <4>2. l \in Place /\ Len(l.at) = d - 1 /\ l.at \in Seq(Part)
        BY <1>1, <2>2, <4>1 DEF Place
      <4>3. PICK x \in Part : c.at = Append(l.at, x)
        BY <4>1, <4>2, Insides
      <4>4. Len(Append(l.at, x)) = Len(l.at) + 1
        BY <4>2
      <4>. QED BY <4>2, <4>3, <4>4
    <3>. QED BY <3>1
  <2>. HIDE DEF G
  <2>3. \A d \in 0 .. MaxDepth : d \in G
    BY <1>1, <2>1, <2>2, Climb
  <2>. QED BY <2>3 DEF G
<1>13. ASSUME NEW l \in Locations(p, n)
       PROVE  /\ l = Root(p, n) \/ \E m \in Locations(p, n) : l \in Inside(p, m)
              /\ Len(l.at) <= MaxDepth
              /\ Len(l.at) < MaxDepth => Inside(p, l) \subseteq Locations(p, n)
  <2>1. PICK d \in 0 .. MaxDepth : l \in g[d]
    BY <1>10
  <2>2. Len(l.at) = d
    BY <1>12, <2>1
  <2>3. CASE d = 0
    BY <1>1, <1>5, <1>10, <2>1, <2>2, <2>3
  <2>4. CASE d # 0
    <3>1. d \in 1 .. MaxDepth /\ d - 1 \in 0 .. MaxDepth
      BY <1>1, <2>4
    <3>2. PICK m \in g[d - 1] : l \in Inside(p, m)
      BY <1>5, <2>1, <3>1
    <3>3. m \in Locations(p, n)
      BY <1>10, <3>1, <3>2
    <3>4. Len(l.at) <= MaxDepth
      BY <1>1, <2>2
    <3>5. ASSUME Len(l.at) < MaxDepth
          PROVE  Inside(p, l) \subseteq Locations(p, n)
      <4>1. d + 1 \in 1 .. MaxDepth /\ d + 1 \in 0 .. MaxDepth /\ (d + 1) - 1 = d
        BY <1>1, <2>2, <3>5
      <4>2. g[d + 1] = UNION {Inside(p, x) : x \in g[d]}
        BY <1>5, <4>1
      <4>. QED BY <1>10, <2>1, <4>1, <4>2
    <3>. QED BY <3>2, <3>3, <3>4, <3>5
  <2>. QED BY <2>3, <2>4
<1>. QED BY <1>11, <1>13 DEF Located

\* Places, and what is just beyond the depth to which they are followed.
Reach(p, n) == Locations(p, n) \cup UNION {Inside(p, l) : l \in Locations(p, n)}

LEMMA WithinAll ==
  /\ \A x : Within(x, x)
  /\ \A x, y, z : Within(x, y) /\ Within(y, z) => Within(x, z)
BY DEF Within

LEMMA WithinBoth ==
  ASSUME NEW q \in Seq(Part), NEW r \in Seq(Part)
  PROVE  /\ Within(q, r) => Len(r) <= Len(q) /\ (Len(r) = Len(q) => q = r)
         /\ \A x \in Seq(Part) : Within(x, q) /\ Within(x, r) /\ Len(q) <= Len(r) => Within(r, q)
<1>. USE DEF Within
<1>1. DOMAIN q = 1 .. Len(q) /\ DOMAIN r = 1 .. Len(r) /\ Len(q) \in Nat /\ Len(r) \in Nat
  OBVIOUS
<1>2. ASSUME Within(q, r)
      PROVE  Len(r) <= Len(q) /\ (Len(r) = Len(q) => q = r)
  <2>1. Len(r) <= Len(q)
    <3>1. CASE Len(r) = 0
      BY <1>1, <3>1
    <3>2. CASE Len(r) # 0
      <4>1. Len(r) \in 1 .. Len(q)
        BY <1>1, <1>2, <3>2
      <4>. QED BY <4>1
    <3>. QED BY <3>1, <3>2
  <2>2. Len(r) = Len(q) => q = r
    BY <1>1, <1>2
  <2>. QED BY <2>1, <2>2
<1>3. ASSUME NEW x \in Seq(Part), Within(x, q), Within(x, r), Len(q) <= Len(r)
      PROVE  Within(r, q)
  BY <1>1, <1>3
<1>. QED BY <1>2, <1>3

\* A part of a place is at the next longer place.
LEMMA InsideAt ==
  ASSUME root \in Roots, NEW p, NEW m \in Place, NEW c \in Inside(p, m)
  PROVE  /\ c \in Place /\ Len(c.at) = Len(m.at) + 1 /\ Len(m.at) \in Nat
         /\ Within(c.at, m.at) /\ c.at # m.at /\ c.at # <<>>
         /\ \A q \in Seq(Part) : Within(c.at, q) => q = c.at \/ Within(m.at, q)
<1>1. m.at \in Seq(Part)
  BY DEF Place
<1>2. PICK x \in Part : c.at = Append(m.at, x)
  BY Insides
<1>3. c \in Place /\ c.at \in Seq(Part)
  BY Insides DEF Place
<1>4. Len(c.at) = Len(m.at) + 1 /\ Len(m.at) \in Nat
  BY <1>1, <1>2
<1>5. Within(c.at, m.at)
  BY <1>1, <1>2, Child
<1>6. c.at # m.at /\ c.at # <<>>
  BY <1>1, <1>4
<1>7. ASSUME NEW q \in Seq(Part), Within(c.at, q), q # c.at
      PROVE  Within(m.at, q)
  <2>1. Len(q) <= Len(c.at) /\ Len(q) # Len(c.at) /\ Len(q) \in Nat
    BY <1>3, <1>7, WithinBoth
  <2>2. Len(q) <= Len(m.at)
    BY <1>4, <2>1
  <2>. QED BY <1>1, <1>3, <1>5, <1>7, <2>2, WithinBoth
<1>. QED BY <1>3, <1>4, <1>5, <1>6, <1>7

\* A place is its root or inside exactly one other place; places differ in where they are.
Reaches(p, n) ==
  /\ Reach(p, n) \subseteq Place /\ Locations(p, n) \subseteq Reach(p, n)
  /\ Root(p, n) \in Locations(p, n)
  /\ \A c, d \in Reach(p, n) : c.at = d.at => c = d
  /\ \A c \in Reach(p, n) :
       /\ c = Root(p, n) \/ \E m \in Locations(p, n) : c \in Inside(p, m)
       /\ Len(c.at) <= MaxDepth => c \in Locations(p, n)
       /\ Len(c.at) <= MaxDepth + 1
  /\ \A m \in Locations(p, n) : Len(m.at) <= MaxDepth /\ Inside(p, m) \subseteq Reach(p, n)

LEMMA ReachesAll ==
  ASSUME root \in Roots, NEW p, NEW n \in Marked(p)
  PROVE  Reaches(p, n)
<1>1. Located(p, n) /\ MaxDepth \in Nat
  BY LocatedIn, BoundAssumption
<1>2. Reach(p, n) \subseteq Place
  BY <1>1, Insides DEF Reach, Located
<1>3. /\ Locations(p, n) \subseteq Reach(p, n) /\ Root(p, n) \in Locations(p, n)
      /\ \A m \in Locations(p, n) :
           m \in Place /\ Len(m.at) <= MaxDepth /\ Inside(p, m) \subseteq Reach(p, n)
  BY <1>1 DEF Reach, Located
<1>4. ASSUME NEW c \in Reach(p, n)
      PROVE  /\ c = Root(p, n) \/ \E m \in Locations(p, n) : c \in Inside(p, m)
             /\ Len(c.at) <= MaxDepth => c \in Locations(p, n)
             /\ Len(c.at) <= MaxDepth + 1
  <2>1. CASE c \in Locations(p, n)
    <3>1. Len(c.at) <= MaxDepth /\ Len(c.at) \in Nat
      BY <1>2, <1>3, <2>1 DEF Place
    <3>. QED BY <1>1, <2>1, <3>1 DEF Located
  <2>2. CASE c \notin Locations(p, n)
    <3>1. PICK m \in Locations(p, n) : c \in Inside(p, m)
      BY <2>2 DEF Reach
    <3>2. Len(c.at) = Len(m.at) + 1 /\ Len(m.at) \in Nat
      BY <1>3, <3>1, InsideAt
    <3>3. Len(m.at) <= MaxDepth
      BY <1>3
    <3>4. ~(Len(m.at) < MaxDepth)
      BY <1>1, <2>2, <3>1 DEF Located
    <3>. QED BY <1>1, <3>1, <3>2, <3>3, <3>4
  <2>. QED BY <2>1, <2>2
<1>5. ASSUME NEW c \in Reach(p, n), NEW d \in Reach(p, n), c.at = d.at
      PROVE  c = d
  <2>. DEFINE G == {k \in 0 .. MaxDepth + 1 :
                      \A a, b \in Reach(p, n) : Len(a.at) = k /\ a.at = b.at => a = b}
  <2>1. \A a \in Reach(p, n) : a # Root(p, n) =>
          \E m \in Locations(p, n) : /\ a \in Inside(p, m) /\ Len(a.at) = Len(m.at) + 1
                                     /\ Len(m.at) \in Nat /\ Within(a.at, m.at)
    BY <1>3, <1>4, InsideAt
  <2>2. Len(Root(p, n).at) = 0
    BY DEF Root
  <2>3. 0 \in G
    <3>1. \A a \in Reach(p, n) : Len(a.at) = 0 => a = Root(p, n)
      BY <2>1
    <3>. QED BY <1>1, <3>1
  <2>4. ASSUME NEW k \in 0 + 1 .. MaxDepth + 1, k - 1 \in G
        PROVE  k \in G
    <3>1. ASSUME NEW a \in Reach(p, n), NEW b \in Reach(p, n), Len(a.at) = k, a.at = b.at
          PROVE  a = b
      <4>1. a # Root(p, n) /\ b # Root(p, n)
        BY <1>1, <2>2, <3>1
      <4>2. PICK m \in Locations(p, n) : /\ a \in Inside(p, m) /\ Len(a.at) = Len(m.at) + 1
                                         /\ Len(m.at) \in Nat /\ Within(a.at, m.at)
        BY <2>1, <4>1
      <4>3. PICK o \in Locations(p, n) : /\ b \in Inside(p, o) /\ Len(b.at) = Len(o.at) + 1
                                         /\ Len(o.at) \in Nat /\ Within(b.at, o.at)
        BY <2>1, <4>1
      <4>4. m \in Reach(p, n) /\ o \in Reach(p, n) /\ m.at \in Seq(Part) /\ o.at \in Seq(Part)
            /\ a.at \in Seq(Part)
        BY <1>2, <1>3 DEF Place
      <4>5. Len(m.at) = k - 1 /\ Len(o.at) = k - 1
        BY <3>1, <4>2, <4>3
      <4>6. Within(o.at, m.at)
        BY <3>1, <4>2, <4>3, <4>4, <4>5, WithinBoth
      <4>7. m.at = o.at
        BY <4>4, <4>5, <4>6, WithinBoth
      <4>8. m = o
        BY <2>4, <4>4, <4>5, <4>7
      <4>9. m \in Place
        BY <1>3
      <4>. QED BY <3>1, <4>2, <4>3, <4>8, <4>9, Insides
    <3>. QED BY <1>1, <3>1
  <2>5. MaxDepth + 1 \in Nat
    BY <1>1
  <2>. HIDE DEF G
  <2>6. \A k \in 0 .. MaxDepth + 1 : k \in G
    BY <2>3, <2>4, <2>5, Climb
  <2>7. Len(c.at) \in 0 .. MaxDepth + 1
    <3>1. Len(c.at) \in Nat /\ Len(c.at) <= MaxDepth + 1
      BY <1>2, <1>4 DEF Place
    <3>. QED BY <1>1, <3>1
  <2>8. Len(c.at) \in G
    BY <2>6, <2>7
  <2>. QED BY <1>5, <2>8 DEF G
<1>. QED BY <1>2, <1>3, <1>4, <1>5 DEF Reaches

\* Between two places that are parts of one another lies a place just inside the larger.
LEMMA Way ==
  ASSUME root \in Roots, NEW p, NEW n \in Marked(p), NEW l \in Reach(p, n),
         NEW m \in Locations(p, n), Within(l.at, m.at), l.at # m.at
  PROVE  \E c \in Inside(p, m) : Within(l.at, c.at)
<1>1. Reaches(p, n)
  BY ReachesAll
<1>2. l.at \in Seq(Part) /\ m.at \in Seq(Part) /\ Len(l.at) \in Nat /\ Len(m.at) \in Nat
  BY <1>1 DEF Reaches, Place
<1>3. Len(m.at) < Len(l.at)
  BY <1>2, WithinBoth
<1>. DEFINE G == {k \in 0 .. Len(l.at) : \E c \in Reach(p, n) : /\ Len(c.at) = Len(l.at) - k
                                                                /\ Within(l.at, c.at)}
<1>4. 0 \in G
  BY <1>2, WithinAll
<1>5. ASSUME NEW k \in 0 + 1 .. Len(l.at), k - 1 \in G
      PROVE  k \in G
  <2>1. PICK c \in Reach(p, n) : Len(c.at) = Len(l.at) - (k - 1) /\ Within(l.at, c.at)
    BY <1>5
  <2>2. c # Root(p, n)
    <3>1. Len(Root(p, n).at) = 0
      BY DEF Root
    <3>. QED BY <1>2, <2>1, <3>1
  <2>3. PICK o \in Locations(p, n) : c \in Inside(p, o)
    BY <1>1, <2>2 DEF Reaches
  <2>4. o \in Place /\ o \in Reach(p, n)
    BY <1>1 DEF Reaches
  <2>5. Len(c.at) = Len(o.at) + 1 /\ Len(o.at) \in Nat /\ Within(c.at, o.at)
    BY <2>3, <2>4, InsideAt
  <2>6. Within(l.at, o.at)
    BY <2>1, <2>5, WithinAll
  <2>7. Len(o.at) = Len(l.at) - k
    <3>1. \A a, b, i \in Int : a = b - (i - 1) => a - 1 = b - i
      OBVIOUS
    <3>2. Len(c.at) \in Int /\ Len(c.at) - 1 = Len(o.at) /\ k \in Int /\ Len(l.at) \in Int
      BY <1>2, <2>5
    <3>. QED BY <2>1, <3>1, <3>2, Zenon
  <2>. QED BY <2>4, <2>6, <2>7
<1>. HIDE DEF G
<1>6. \A k \in 0 .. Len(l.at) : k \in G
  BY <1>2, <1>4, <1>5, Climb
<1>7. PICK c \in Reach(p, n) : Len(c.at) = Len(m.at) + 1 /\ Within(l.at, c.at)
  <2>. DEFINE k == Len(l.at) - (Len(m.at) + 1)
  <2>1. k \in 0 .. Len(l.at) /\ Len(l.at) - k = Len(m.at) + 1
    <3>1. \A a, b \in Nat : a < b => b - (a + 1) \in 0 .. b /\ b - (b - (a + 1)) = a + 1
      OBVIOUS
    <3>. QED BY <1>2, <1>3, <3>1, Zenon
  <2>2. k \in G
    BY <1>6, <2>1
  <2>. QED BY <2>1, <2>2 DEF G
<1>8. PICK o \in Locations(p, n) : c \in Inside(p, o)
  <2>1. Len(Root(p, n).at) = 0
    BY DEF Root
  <2>2. c # Root(p, n)
    BY <1>2, <1>7, <2>1
  <2>. QED BY <1>1, <2>2 DEF Reaches
<1>9. o \in Place /\ o \in Reach(p, n) /\ m \in Reach(p, n) /\ o.at \in Seq(Part)
  BY <1>1 DEF Reaches, Place
<1>10. Len(o.at) = Len(m.at) /\ Within(l.at, o.at)
  <2>1. Len(c.at) = Len(o.at) + 1 /\ Len(o.at) \in Nat /\ Within(c.at, o.at)
    BY <1>8, <1>9, InsideAt
  <2>. QED BY <1>2, <1>7, <2>1, WithinAll
<1>11. o.at = m.at
  <2>1. Within(o.at, m.at)
    BY <1>2, <1>9, <1>10, WithinBoth
  <2>. QED BY <1>2, <1>9, <1>10, <2>1, WithinBoth
<1>12. o = m
  BY <1>1, <1>9, <1>11 DEF Reaches
<1>. QED BY <1>7, <1>8, <1>12

-----------------------------------------------------------------------------
(* The calls of emitResetForType *)

\* The type whose address is asked for Reset at the place c.
Own(p, n, c) ==
  LET m == CHOOSE m \in Locations(p, n) : c \in Inside(p, m) IN
  IF Kind(p, m) = "pointer" /\ m.type.kind # "pointer" THEN m.type ELSE c.type

\* The pointers on the way to a place.
Nils(at) == {SubSeq(at, 1, i - 1) : i \in {k \in DOMAIN at : at[k] = "*"}}

\* The structs that c is a part of, without the marked one.
Structs(p, n, c) ==
  {x \in Locations(p, n) : /\ x.at # <<>> /\ Kind(p, x) = "struct"
                           /\ x.at # c.at /\ Within(c.at, x.at)}

Above(p, n, c) == {Own(p, n, x) : x \in Structs(p, n, c)}

\* The call for the place c, and what it emits.
Context(p, n, c) == Job(n, c.at, c.type, Own(p, n, c), Nils(c.at), Above(p, n, c))

Statements(p, j) ==
  LET kind == KindOf(Resolve(TypeByName(p), j.type)) IN
  CASE kind \in {"primitive", "array", "opaque"} -> {Stmt(j, "zero", j.unless)}
    [] kind = "slice"  -> {Stmt(j, "cut", j.unless)}
    [] kind = "map"    -> {Stmt(j, "clear", j.unless)}
    [] kind = "struct" -> {Stmt(j, "call", j.unless)}
    [] kind \in {"ident", "foreign"} ->
         {Stmt(j, "call", j.unless), Stmt(j, "zero", j.unless \cup {j.own})}
    [] OTHER           -> {}

LEMMA NilsOf ==
  ASSUME NEW at \in Seq(Part), NEW x \in Part
  PROVE  Nils(Append(at, x)) = Nils(at) \cup (IF x = "*" THEN {at} ELSE {})
<1>. DEFINE c == Append(at, x)
<1>1. /\ DOMAIN c = 1 .. Len(at) + 1 /\ c[Len(at) + 1] = x /\ Within(c, at)
      /\ \A i \in DOMAIN at : SubSeq(c, 1, i - 1) = SubSeq(at, 1, i - 1)
      /\ SubSeq(c, 1, Len(at)) = at
  BY Child
<1>2. Len(at) \in Nat /\ DOMAIN at = 1 .. Len(at) /\ (Len(at) + 1) - 1 = Len(at)
  OBVIOUS
<1>. HIDE DEF c
<1>3. \A i \in DOMAIN c : i \in DOMAIN at \/ i = Len(at) + 1
  BY <1>1, <1>2
<1>4. \A i \in DOMAIN at : i \in DOMAIN c /\ c[i] = at[i]
  BY <1>1 DEF Within
<1>5. Nils(c) \subseteq Nils(at) \cup (IF x = "*" THEN {at} ELSE {})
  <2>1. ASSUME NEW i \in DOMAIN c, c[i] = "*"
        PROVE  SubSeq(c, 1, i - 1) \in Nils(at) \cup (IF x = "*" THEN {at} ELSE {})
    <3>1. CASE i \in DOMAIN at
      <4>1. SubSeq(c, 1, i - 1) = SubSeq(at, 1, i - 1) /\ at[i] = "*"
        BY <1>1, <1>4, <2>1, <3>1
      <4>. QED BY <3>1, <4>1 DEF Nils
    <3>2. CASE i = Len(at) + 1
      BY <1>1, <1>2, <2>1, <3>2
    <3>. QED BY <1>3, <3>1, <3>2
  <2>. QED BY <2>1 DEF Nils
<1>6. Nils(at) \subseteq Nils(c)
  BY <1>1, <1>4 DEF Nils
<1>7. x = "*" => at \in Nils(c)
  <2>1. Len(at) + 1 \in DOMAIN c
    BY <1>1, <1>2
  <2>2. SubSeq(c, 1, (Len(at) + 1) - 1) = at
    BY <1>1, <1>2
  <2>. QED BY <1>1, <2>1, <2>2 DEF Nils
<1>. QED BY <1>5, <1>6, <1>7 DEF c

\* The structs above a part of m are those above m, and m.
LEMMA AboveOf ==
  ASSUME root \in Roots, NEW p, NEW n \in Marked(p), NEW m \in Locations(p, n),
         NEW c \in Inside(p, m)
  PROVE  Above(p, n, c) = Above(p, n, m) \cup
                          (IF m.at # <<>> /\ Kind(p, m) = "struct" THEN {Own(p, n, m)} ELSE {})
<1>1. Reaches(p, n)
  BY ReachesAll
<1>2. m \in Place /\ m \in Reach(p, n) /\ Locations(p, n) \subseteq Reach(p, n)
  BY <1>1 DEF Reaches
<1>3. c.at # m.at /\ Within(c.at, m.at)
      /\ \A q \in Seq(Part) : Within(c.at, q) => q = c.at \/ Within(m.at, q)
  BY <1>2, InsideAt
<1>4. ASSUME NEW x \in Locations(p, n)
      PROVE  x \in Structs(p, n, c) <=>
               x \in Structs(p, n, m) \/ (x = m /\ m.at # <<>> /\ Kind(p, m) = "struct")
  <2>1. x.at \in Seq(Part) /\ x \in Reach(p, n) /\ x \in Place
    BY <1>1, <1>2 DEF Reaches, Place
  <2>2. x.at = m.at => x = m
    BY <1>1, <1>2, <2>1 DEF Reaches
  <2>3. x.at # c.at /\ Within(c.at, x.at) <=> Within(m.at, x.at)
    <3>1. ASSUME Within(m.at, x.at)
          PROVE  x.at # c.at /\ Within(c.at, x.at)
      <4>1. Len(x.at) <= Len(m.at) /\ Len(c.at) = Len(m.at) + 1 /\ Len(m.at) \in Nat
        <5>1. m.at \in Seq(Part)
          BY <1>2 DEF Place
        <5>. QED BY <1>2, <2>1, <3>1, <5>1, InsideAt, WithinBoth
      <4>2. Len(x.at) # Len(c.at)
        BY <2>1, <4>1
      <4>. QED BY <1>3, <3>1, <4>2, WithinAll
    <3>. QED BY <1>3, <2>1, <3>1
  <2>4. Within(m.at, m.at)
    BY WithinAll
  <2>. QED BY <2>2, <2>3, <2>4 DEF Structs
<1>5. Structs(p, n, c) = Structs(p, n, m) \cup
                         (IF m.at # <<>> /\ Kind(p, m) = "struct" THEN {m} ELSE {})
  <2>1. Structs(p, n, c) \subseteq Locations(p, n) /\ Structs(p, n, m) \subseteq Locations(p, n)
    BY DEF Structs
  <2>. QED BY <1>4, <2>1
<1>. QED BY <1>5 DEF Above

LEMMA OwnOf ==
  ASSUME root \in Roots, NEW p, NEW n \in Marked(p), NEW m \in Locations(p, n),
         NEW c \in Inside(p, m)
  PROVE  Own(p, n, c) = IF Kind(p, m) = "pointer" /\ m.type.kind # "pointer"
                          THEN m.type ELSE c.type
<1>1. Reaches(p, n)
  BY ReachesAll
<1>. DEFINE o == CHOOSE o \in Locations(p, n) : c \in Inside(p, o)
<1>2. o \in Locations(p, n) /\ c \in Inside(p, o)
  OBVIOUS
<1>. HIDE DEF o
<1>3. ASSUME NEW x \in Locations(p, n), c \in Inside(p, x)
      PROVE  /\ Within(c.at, x.at) /\ Len(c.at) = Len(x.at) + 1 /\ Len(x.at) \in Nat
             /\ x.at \in Seq(Part) /\ c.at \in Seq(Part) /\ x \in Reach(p, n)
  <2>1. x \in Place /\ x \in Reach(p, n)
    BY <1>1 DEF Reaches
  <2>2. c \in Place /\ Within(c.at, x.at) /\ Len(c.at) = Len(x.at) + 1 /\ Len(x.at) \in Nat
    BY <1>3, <2>1, InsideAt
  <2>. QED BY <2>1, <2>2 DEF Place
<1>4. Len(o.at) = Len(m.at)
  <2>1. /\ Len(c.at) = Len(o.at) + 1 /\ Len(o.at) \in Nat
        /\ Len(c.at) = Len(m.at) + 1 /\ Len(m.at) \in Nat
    BY <1>2, <1>3
  <2>. QED BY <2>1
<1>5. o.at = m.at
  <2>1. Within(o.at, m.at)
    BY <1>2, <1>3, <1>4, WithinBoth
  <2>. QED BY <1>2, <1>3, <1>4, <2>1, WithinBoth
<1>6. o = m
  BY <1>1, <1>2, <1>3, <1>5 DEF Reaches
<1>. QED BY <1>6 DEF Own, o

\* The calls for the fields of a struct, and for what a pointer points to.
LEMMA ContextOfFields ==
  ASSUME root \in Roots, NEW p, NEW n \in Marked(p), NEW m \in Locations(p, n),
         Kind(p, m) = "struct"
  PROVE  {Context(p, n, c) : c \in Inside(p, m)} =
           FieldJobs(n, m.at, Resolve(TypeByName(p), m.type), Nils(m.at),
                     Above(p, n, m) \cup (IF m.at # <<>> THEN {Own(p, n, m)} ELSE {}))
<1>. DEFINE t == Resolve(TypeByName(p), m.type)
            unless == Above(p, n, m) \cup (IF m.at # <<>> THEN {Own(p, n, m)} ELSE {})
            C(f) == [at |-> Append(m.at, f.name), type |-> f.type]
            J(f) == Job(n, Append(m.at, f.name), f.type, f.type, Nils(m.at), unless)
<1>1. m \in Place /\ m.at \in Seq(Part)
  BY ReachesAll DEF Reaches, Place
<1>2. t \in Exprs /\ t.kind = "struct"
  BY <1>1, Insides DEF Kind
<1>3. Inside(p, m) = {C(f) : f \in t.fields}
  BY <1>2 DEF Inside
<1>4. ASSUME NEW f \in t.fields
      PROVE  Context(p, n, C(f)) = J(f)
  <2>. DEFINE c == C(f)
  <2>1. c \in Inside(p, m) /\ c.at = Append(m.at, f.name) /\ c.type = f.type
    BY <1>3
  <2>2. f.name \in Part /\ f.name # "*"
    BY <1>2, ExprAssumption DEF Part
  <2>. HIDE DEF c, t, unless
  <2>3. Nils(c.at) = Nils(m.at)
    BY <1>1, <2>1, <2>2, NilsOf
  <2>4. Own(p, n, c) = f.type
    BY <2>1, OwnOf
  <2>5. Above(p, n, c) = unless
    BY <2>1, AboveOf DEF unless
  <2>. QED BY <2>1, <2>3, <2>4, <2>5 DEF Context, c
<1>5. FieldJobs(n, m.at, t, Nils(m.at), unless) = {J(f) : f \in t.fields}
  BY DEF FieldJobs
<1>. HIDE DEF t, J, C, unless
<1>6. {Context(p, n, c) : c \in Inside(p, m)} = {J(f) : f \in t.fields}
  BY <1>3, <1>4
<1>. QED BY <1>5, <1>6 DEF t, unless

LEMMA ContextOfElem ==
  ASSUME root \in Roots, NEW p, NEW n \in Marked(p), NEW m \in Locations(p, n),
         Kind(p, m) = "pointer"
  PROVE  LET t == Resolve(TypeByName(p), m.type) IN
         {Context(p, n, c) : c \in Inside(p, m)} =
           {Job(n, Append(m.at, "*"), t.elem, IF m.type.kind = "pointer" THEN t.elem ELSE m.type,
                Nils(m.at) \cup {m.at}, Above(p, n, m))}
<1>. DEFINE t == Resolve(TypeByName(p), m.type)
            c == [at |-> Append(m.at, "*"), type |-> t.elem]
<1>1. m \in Place /\ m.at \in Seq(Part)
  BY ReachesAll DEF Reaches, Place
<1>2. Inside(p, m) = {c}
  BY DEF Inside, Kind
<1>3. c.at = Append(m.at, "*") /\ c.type = t.elem /\ "*" \in Part
  BY DEF Part
<1>. HIDE DEF c, t
<1>4. Nils(c.at) = Nils(m.at) \cup {m.at}
  BY <1>1, <1>3, NilsOf
<1>5. Own(p, n, c) = IF m.type.kind = "pointer" THEN t.elem ELSE m.type
  BY <1>2, <1>3, OwnOf
<1>6. Above(p, n, c) = Above(p, n, m)
  <2>1. c \in Inside(p, m)
    BY <1>2
  <2>2. Kind(p, m) # "struct"
    OBVIOUS
  <2>3. Above(p, n, c) = Above(p, n, m) \cup
                           (IF m.at # <<>> /\ Kind(p, m) = "struct" THEN {Own(p, n, m)} ELSE {})
    BY <2>1, AboveOf, Zenon
  <2>. QED BY <2>2, <2>3
<1>7. Context(p, n, c) = Job(n, Append(m.at, "*"), t.elem,
                             IF m.type.kind = "pointer" THEN t.elem ELSE m.type,
                             Nils(m.at) \cup {m.at}, Above(p, n, m))
  BY <1>3, <1>4, <1>5, <1>6 DEF Context
<1>. QED BY <1>2, <1>7 DEF t

\* Every call and every statement is that of a place.
Origin(p, js, stmts) ==
  /\ \A j \in js : \E n \in Marked(p) : \E c \in Reach(p, n) : c.at # <<>> /\ j = Context(p, n, c)
  /\ \A s \in stmts : \E n \in Marked(p) : \E l \in Locations(p, n) :
       l.at # <<>> /\ s \in Statements(p, Context(p, n, l))

\* No place is lost: it waits for a call, or its statements are there.
Cover(p, js, stmts) ==
  \A n \in Marked(p) : \A c \in Reach(p, n) : c.at # <<>> =>
    \/ \E j \in js : j.of = n /\ Within(c.at, j.at)
    \/ c \in Locations(p, n) /\ Statements(p, Context(p, n, c)) \subseteq stmts

Traced(p, js, stmts) == Origin(p, js, stmts) /\ Cover(p, js, stmts)

LEMMA ContextParts ==
  ASSUME NEW p, NEW n, NEW c
  PROVE  /\ Context(p, n, c).of = n /\ Context(p, n, c).at = c.at
         /\ Context(p, n, c).type = c.type /\ Context(p, n, c).own = Own(p, n, c)
         /\ Context(p, n, c).notNil = Nils(c.at) /\ Context(p, n, c).unless = Above(p, n, c)
BY DEF Context, Job

\* A call is replaced by its statements and by the calls for the parts of its place.
LEMMA TraceStep ==
  ASSUME root \in Roots, NEW p, NEW js, NEW stmts, Traced(p, js, stmts),
         NEW n \in Marked(p), NEW l \in Locations(p, n), l.at # <<>>, Context(p, n, l) \in js
  PROVE  Traced(p, (js \ {Context(p, n, l)}) \cup {Context(p, n, c) : c \in Inside(p, l)},
                stmts \cup Statements(p, Context(p, n, l)))
<1>. DEFINE j == Context(p, n, l)
            new == {Context(p, n, c) : c \in Inside(p, l)}
            more == Statements(p, j)
<1>1. Reaches(p, n)
  BY ReachesAll
<1>2. l \in Place /\ l \in Reach(p, n) /\ Inside(p, l) \subseteq Reach(p, n)
  BY <1>1 DEF Reaches
<1>3. j.of = n /\ j.at = l.at
  BY ContextParts
<1>4. \A c \in Inside(p, l) : Context(p, n, c) \in new /\ Context(p, n, c).of = n
                              /\ Context(p, n, c).at = c.at
  BY ContextParts
<1>. HIDE DEF more, j
<1>5. ASSUME NEW k \in new
      PROVE  \E c \in Reach(p, n) : c.at # <<>> /\ k = Context(p, n, c)
  <2>1. PICK c \in Inside(p, l) : k = Context(p, n, c)
    OBVIOUS
  <2>2. c.at # <<>>
    BY <1>2, InsideAt
  <2>. QED BY <1>2, <2>1, <2>2
<1>. HIDE DEF new
<1>6. Origin(p, (js \ {j}) \cup new, stmts \cup more)
  <2>1. \A k \in (js \ {j}) \cup new :
          \E x \in Marked(p) : \E c \in Reach(p, x) : c.at # <<>> /\ k = Context(p, x, c)
    BY <1>5 DEF Traced, Origin
  <2>2. \A s \in stmts \cup more :
          \E x \in Marked(p) : \E y \in Locations(p, x) :
            y.at # <<>> /\ s \in Statements(p, Context(p, x, y))
    BY DEF Traced, Origin, more, j
  <2>. QED BY <2>1, <2>2 DEF Origin
<1>7. ASSUME NEW x \in Marked(p), NEW c \in Reach(p, x), c.at # <<>>
      PROVE  \/ \E k \in (js \ {j}) \cup new : k.of = x /\ Within(c.at, k.at)
             \/ /\ c \in Locations(p, x)
                /\ Statements(p, Context(p, x, c)) \subseteq stmts \cup more
  <2>1. \/ \E k \in js : k.of = x /\ Within(c.at, k.at)
        \/ c \in Locations(p, x) /\ Statements(p, Context(p, x, c)) \subseteq stmts
    BY <1>7 DEF Traced, Cover
  <2>2. CASE c \in Locations(p, x) /\ Statements(p, Context(p, x, c)) \subseteq stmts
    BY <2>2
  <2>3. CASE \E k \in js : k.of = x /\ Within(c.at, k.at)
    <3>1. PICK k \in js : k.of = x /\ Within(c.at, k.at)
      BY <2>3
    <3>2. CASE k # j
      BY <3>1, <3>2
    <3>3. CASE k = j
      <4>1. x = n /\ Within(c.at, l.at)
        BY <1>3, <3>1, <3>3
      <4>2. CASE c.at = l.at
        <5>1. c = l
          BY <1>1, <1>2, <4>1, <4>2 DEF Reaches
        <5>. QED BY <4>1, <5>1 DEF more, j
      <4>3. CASE c.at # l.at
        <5>1. c \in Reach(p, n)
          BY <4>1
        <5>2. PICK d \in Inside(p, l) : Within(c.at, d.at)
          BY <4>1, <4>3, <5>1, Way
        <5>. QED BY <1>4, <4>1, <5>2
      <4>. QED BY <4>2, <4>3
    <3>. QED BY <3>2, <3>3
  <2>. QED BY <2>1, <2>2, <2>3
<1>8. Cover(p, (js \ {j}) \cup new, stmts \cup more)
  BY <1>7 DEF Cover
<1>. QED BY <1>6, <1>8 DEF Traced, new, more, j

\* What a package begins with.
LEMMA TraceStart ==
  ASSUME root \in Roots, NEW p
  PROVE  Traced(p, UNION {FieldJobs(n, <<>>, TypeByName(p)[n], {}, {}) : n \in Marked(p)}, {})
<1>. DEFINE js(n) == FieldJobs(n, <<>>, TypeByName(p)[n], {}, {})
            all == UNION {js(n) : n \in Marked(p)}
<1>1. ASSUME NEW n \in Marked(p)
      PROVE  /\ js(n) = {Context(p, n, c) : c \in Inside(p, Root(p, n))}
             /\ \A c \in Inside(p, Root(p, n)) : c \in Reach(p, n) /\ c.at # <<>>
  <2>1. Reaches(p, n)
    BY ReachesAll
  <2>2. Root(p, n) \in Locations(p, n) /\ Root(p, n) \in Place /\ Root(p, n).at = <<>>
        /\ Root(p, n).type = TypeByName(p)[n]
    BY <2>1 DEF Reaches, Root
  <2>3. Resolve(TypeByName(p), Root(p, n).type) = TypeByName(p)[n]
        /\ Kind(p, Root(p, n)) = "struct"
    BY <2>2, Names, ResolveType DEF Kind
  <2>4. Nils(<<>>) = {}
    BY DEF Nils
  <2>5. Above(p, n, Root(p, n)) = {}
    <3>1. ASSUME NEW x \in Locations(p, n), Within(<<>>, x.at)
          PROVE  x.at = <<>>
      <4>1. x.at \in Seq(Part)
        BY <2>1 DEF Reaches, Place
      <4>2. \A i \in DOMAIN x.at : FALSE
        BY <3>1 DEF Within
      <4>3. Len(x.at) = 0
        <5>1. Len(x.at) \in Nat /\ DOMAIN x.at = 1 .. Len(x.at)
          BY <4>1
        <5>2. Len(x.at) # 0 => 1 \in 1 .. Len(x.at)
          BY <5>1
        <5>. QED BY <4>2, <5>1, <5>2
      <4>. QED BY <4>1, <4>3
    <3>2. Structs(p, n, Root(p, n)) = {}
      BY <2>2, <3>1 DEF Structs
    <3>. QED BY <3>2 DEF Above
  <2>6. js(n) = {Context(p, n, c) : c \in Inside(p, Root(p, n))}
    <3>1. {Context(p, n, c) : c \in Inside(p, Root(p, n))} =
            FieldJobs(n, Root(p, n).at, Resolve(TypeByName(p), Root(p, n).type),
                      Nils(Root(p, n).at),
                      Above(p, n, Root(p, n)) \cup
                        (IF Root(p, n).at # <<>> THEN {Own(p, n, Root(p, n))} ELSE {}))
      BY <2>2, <2>3, ContextOfFields
    <3>. QED BY <2>2, <2>3, <2>4, <2>5, <3>1
  <2>7. ASSUME NEW c \in Inside(p, Root(p, n))
        PROVE  c \in Reach(p, n) /\ c.at # <<>>
    BY <2>1, <2>2, InsideAt DEF Reaches
  <2>. QED BY <2>6, <2>7
<1>. HIDE DEF js
<1>2. \A j \in all : \E n \in Marked(p) : j \in js(n)
  OBVIOUS
<1>3. Origin(p, all, {})
  <2>1. ASSUME NEW j \in all
        PROVE  \E n \in Marked(p) : \E c \in Reach(p, n) : c.at # <<>> /\ j = Context(p, n, c)
    <3>1. PICK n \in Marked(p) : j \in js(n)
      BY <1>2
    <3>2. PICK c \in Inside(p, Root(p, n)) : j = Context(p, n, c)
      BY <1>1, <3>1
    <3>. QED BY <1>1, <3>2
  <2>. QED BY <2>1 DEF Origin
<1>4. ASSUME NEW n \in Marked(p), NEW c \in Reach(p, n), c.at # <<>>
      PROVE  \E j \in all : j.of = n /\ Within(c.at, j.at)
  <2>1. Root(p, n) \in Locations(p, n) /\ Root(p, n).at = <<>> /\ Within(c.at, <<>>)
    BY ReachesAll DEF Reaches, Root, Within
  <2>2. PICK d \in Inside(p, Root(p, n)) : Within(c.at, d.at)
    BY <1>4, <2>1, Way
  <2>3. Context(p, n, d) \in js(n)
    BY <1>1
  <2>4. Context(p, n, d).of = n /\ Context(p, n, d).at = d.at
    BY ContextParts
  <2>. QED BY <2>2, <2>3, <2>4
<1>5. Cover(p, all, {})
  BY <1>4 DEF Cover
<1>. QED BY <1>3, <1>5 DEF Traced, js

-----------------------------------------------------------------------------
(* What the statements of a type reset *)

LEMMA PrefixWithin ==
  ASSUME NEW q \in Seq(Part), NEW r \in Seq(Part)
  PROVE  IsPrefix(q, r) <=> Within(r, q)
<1>1. /\ Len(q) \in Nat /\ Len(r) \in Nat /\ DOMAIN q = 1 .. Len(q) /\ DOMAIN r = 1 .. Len(r)
      /\ SubSeq(q, 1, Len(q)) = q
  BY SubSeqFull
<1>2. ASSUME Len(q) <= Len(r)
      PROVE  /\ SubSeq(r, 1, Len(q)) \in Seq(Part) /\ Len(SubSeq(r, 1, Len(q))) = Len(q)
             /\ \A i \in 1 .. Len(q) : SubSeq(r, 1, Len(q))[i] = r[i]
  <2>1. \A i \in 1 .. Len(q) : r[i] \in Part
    BY <1>1, <1>2
  <2>. QED BY <1>1, <2>1, SubSeqProperties
<1>3. ASSUME IsPrefix(q, r)
      PROVE  Within(r, q)
  <2>1. Len(q) <= Len(r) /\ SubSeq(r, 1, Len(q)) = q
    BY <1>1, <1>3 DEF IsPrefix
  <2>. QED BY <1>1, <1>2, <2>1 DEF Within
<1>4. ASSUME Within(r, q)
      PROVE  IsPrefix(q, r)
  <2>1. Len(q) <= Len(r) /\ \A i \in 1 .. Len(q) : r[i] = q[i]
    BY <1>1, <1>4, WithinBoth DEF Within
  <2>2. SubSeq(r, 1, Len(q)) = q
    BY <1>2, <2>1
  <2>. QED BY <1>1, <2>1, <2>2 DEF IsPrefix
<1>. QED BY <1>3, <1>4

\* The way to a place leads through a nil pointer when one of the tested ones is nil.
LEMMA NilsTested ==
  ASSUME NEW at \in Seq(Part), NEW q \in Seq(Part)
  PROVE  q \in Nils(at) <=> Within(at, Append(q, "*"))
<1>. DEFINE c == Append(q, "*")
<1>1. /\ Len(q) \in Nat /\ DOMAIN q = 1 .. Len(q) /\ Len(at) \in Nat /\ DOMAIN at = 1 .. Len(at)
      /\ DOMAIN c = 1 .. Len(q) + 1 /\ c[Len(q) + 1] = "*" /\ \A i \in 1 .. Len(q) : c[i] = q[i]
  OBVIOUS
<1>. HIDE DEF c
<1>2. ASSUME NEW i \in DOMAIN at
      PROVE  /\ SubSeq(at, 1, i - 1) \in Seq(Part) /\ Len(SubSeq(at, 1, i - 1)) = i - 1
             /\ \A k \in 1 .. i - 1 : SubSeq(at, 1, i - 1)[k] = at[k]
  <2>1. i \in 1 .. Len(at) /\ i - 1 \in 0 .. Len(at)
    BY <1>1
  <2>2. \A k \in 1 .. i - 1 : at[k] \in Part
    BY <1>1, <2>1
  <2>. QED BY <2>1, <2>2, SubSeqProperties
<1>3. ASSUME q \in Nils(at)
      PROVE  Within(at, c)
  <2>1. PICK i \in DOMAIN at : at[i] = "*" /\ q = SubSeq(at, 1, i - 1)
    BY <1>3 DEF Nils
  <2>2. Len(q) = i - 1 /\ \A k \in 1 .. i - 1 : q[k] = at[k]
    BY <1>2, <2>1
  <2>3. i \in 1 .. Len(at) /\ Len(q) + 1 = i
    BY <1>1, <2>1, <2>2
  <2>. QED BY <1>1, <2>1, <2>2, <2>3 DEF Within
<1>4. ASSUME Within(at, c)
      PROVE  q \in Nils(at)
  <2>. DEFINE i == Len(q) + 1
  <2>1. i \in DOMAIN at /\ at[i] = "*" /\ i - 1 = Len(q) /\ \A k \in 1 .. Len(q) : at[k] = q[k]
    BY <1>1, <1>4 DEF Within
  <2>2. q = SubSeq(at, 1, i - 1)
    BY <1>1, <1>2, <2>1, SeqEqual
  <2>. QED BY <2>1, <2>2 DEF Nils
<1>. QED BY <1>3, <1>4 DEF c

LEMMA StatementParts ==
  ASSUME root \in Roots, NEW p, NEW n, NEW l \in Place, NEW s \in Statements(p, Context(p, n, l))
  PROVE  /\ s.of = n /\ s.at = l.at /\ s.own = Own(p, n, l) /\ s.notNil = Nils(l.at)
         /\ Above(p, n, l) \subseteq s.unless
         /\ s.op = "call" => s.unless = Above(p, n, l)
         /\ Kind(p, l) # "pointer" /\ (Kind(p, l) = "struct" => s.op = "call")
<1>. DEFINE j == Context(p, n, l)
            kind == KindOf(Resolve(TypeByName(p), j.type))
<1>1. /\ j.of = n /\ j.at = l.at /\ j.type = l.type /\ j.own = Own(p, n, l)
      /\ j.notNil = Nils(l.at) /\ j.unless = Above(p, n, l)
  BY ContextParts
<1>2. /\ kind \in {"primitive", Kind(p, l)}
      /\ kind = "primitive" => Kind(p, l) \in {"ident", "primitive"}
  <2>1. kind = KindOf(Resolve(TypeByName(p), l.type))
    BY <1>1
  <2>. QED BY <2>1 DEF KindOf, Kind
<1>. HIDE DEF j, kind
<1>3. s \in CASE kind \in {"primitive", "array", "opaque"} -> {Stmt(j, "zero", j.unless)}
              [] kind = "slice"  -> {Stmt(j, "cut", j.unless)}
              [] kind = "map"    -> {Stmt(j, "clear", j.unless)}
              [] kind = "struct" -> {Stmt(j, "call", j.unless)}
              [] kind \in {"ident", "foreign"} ->
                   {Stmt(j, "call", j.unless), Stmt(j, "zero", j.unless \cup {j.own})}
              [] OTHER -> {}
  BY Zenon DEF Statements, kind, j
<1>4. /\ kind # "pointer"
      /\ \E op \in {"zero", "cut", "clear", "call"}, unless \in {j.unless, j.unless \cup {j.own}} :
           /\ s = Stmt(j, op, unless)
           /\ (op = "call" \/ kind = "struct") => op = "call" /\ unless = j.unless
  BY <1>3
<1>5. PICK op \in {"zero", "cut", "clear", "call"}, unless \in {j.unless, j.unless \cup {j.own}} :
           /\ s = Stmt(j, op, unless)
           /\ (op = "call" \/ kind = "struct") => op = "call" /\ unless = j.unless
  BY <1>4
<1>6. s.of = j.of /\ s.at = j.at /\ s.own = j.own /\ s.notNil = j.notNil /\ s.op = op
      /\ s.unless = unless
  BY <1>5 DEF Stmt
<1>. QED BY <1>1, <1>2, <1>4, <1>5, <1>6

\* The type asked for Reset stands for a struct only at the place of a struct.
LEMMA OwnType ==
  ASSUME root \in Roots, NEW p, NEW n \in Marked(p), NEW l \in Locations(p, n), l.at # <<>>
  PROVE  /\ Own(p, n, l) \in Exprs
         /\ Kind(p, l) # "struct" => Resolve(TypeByName(p), Own(p, n, l)).kind # "struct"
<1>1. Reaches(p, n)
  BY ReachesAll
<1>2. Root(p, n).at = <<>> /\ l \in Reach(p, n) /\ l \in Place
  BY <1>1 DEF Root, Reaches
<1>3. PICK m \in Locations(p, n) : l \in Inside(p, m)
  BY <1>1, <1>2 DEF Reaches
<1>4. Own(p, n, l) = IF Kind(p, m) = "pointer" /\ m.type.kind # "pointer" THEN m.type ELSE l.type
  BY <1>3, OwnOf
<1>5. m.type \in Exprs /\ l.type \in Exprs
  BY <1>1, <1>2 DEF Reaches, Place
<1>. QED BY <1>4, <1>5 DEF Kind

Has(p, n, l) == ResetPaths(p, Own(p, n, l)) # {}

\* What a statement resets is at its place or a part of it.
LEMMA TargetOf ==
  ASSUME root \in Roots, NEW p, NEW n \in Marked(p), NEW l \in Locations(p, n), l.at # <<>>,
         NEW s \in Statements(p, Context(p, n, l)), s.op = "call" => Has(p, n, l)
  PROVE  /\ Target(p, s) \in Seq(Part) /\ Within(Target(p, s), l.at)
         /\ s.op # "call" \/ Kind(p, l) # "struct" \/ ResetPaths(p, Own(p, n, l)) = {<<>>}
              => Target(p, s) = l.at
<1>1. l \in Place /\ l.at \in Seq(Part)
  BY ReachesAll DEF Reaches, Place
<1>2. s.at = l.at /\ s.own = Own(p, n, l)
  BY <1>1, StatementParts
<1>3. CASE s.op # "call"
  BY <1>1, <1>2, <1>3, WithinAll DEF Target
<1>4. CASE s.op = "call"
  <2>. DEFINE P == ResetPaths(p, Own(p, n, l))
              q == CHOOSE q \in P : TRUE
  <2>1. P \in AtMostOne /\ P # {} /\ (Kind(p, l) # "struct" => P \subseteq {<<>>})
    BY <1>4, OwnType, Paths DEF Has
  <2>. HIDE DEF P
  <2>2. q \in P /\ q \in Seq(Part) /\ (P \subseteq {<<>>} => q = <<>>)
    BY <2>1 DEF AtMostOne
  <2>3. Target(p, s) = l.at \o q
    BY <1>2, <1>4 DEF Target, P
  <2>. HIDE DEF q
  <2>4. /\ l.at \o q \in Seq(Part) /\ Len(l.at \o q) = Len(l.at) + Len(q)
        /\ \A i \in 1 .. Len(l.at) : (l.at \o q)[i] = l.at[i]
    BY <1>1, <2>2, ConcatProperties
  <2>5. Within(l.at \o q, l.at)
    BY <1>1, <2>2, <2>4 DEF Within
  <2>6. l.at \o <<>> = l.at
    BY <1>1, ConcatEmptySeq
  <2>7. Kind(p, l) # "struct" \/ P = {<<>>} => q = <<>>
    BY <2>1, <2>2
  <2>8. Kind(p, l) # "struct" \/ ResetPaths(p, Own(p, n, l)) = {<<>>} => Target(p, s) = l.at
    BY <2>3, <2>6, <2>7 DEF P
  <2>9. Target(p, s) \in Seq(Part) /\ Within(Target(p, s), l.at)
    BY <2>3, <2>4, <2>5
  <2>. QED BY <1>4, <2>8, <2>9
<1>. QED BY <1>3, <1>4

\* When a statement of a place is executed, and that no other statements are.
LEMMA Executes ==
  ASSUME root \in Roots, NEW p, NEW n \in Marked(p), NEW stmts, Traced(p, {}, stmts), NEW nil
  PROVE  /\ \A s \in Executed(p, n, stmts, nil) : \E x \in Locations(p, n) :
              /\ x.at # <<>> /\ s \in Statements(p, Context(p, n, x))
              /\ s.op = "call" => Has(p, n, x)
              /\ Nils(x.at) \cap nil = {}
              /\ \A t \in s.unless : ResetPaths(p, t) = {}
         /\ \A x \in Locations(p, n) : \A s \in Statements(p, Context(p, n, x)) :
              /\ x.at # <<>> /\ Nils(x.at) \cap nil = {}
              /\ s.op = "call" => Has(p, n, x)
              /\ \A t \in s.unless : ResetPaths(p, t) = {}
              => s \in Executed(p, n, stmts, nil)
<1>1. ASSUME NEW s \in Executed(p, n, stmts, nil)
      PROVE  \E x \in Locations(p, n) :
               /\ x.at # <<>> /\ s \in Statements(p, Context(p, n, x))
               /\ s.op = "call" => Has(p, n, x)
               /\ Nils(x.at) \cap nil = {}
               /\ \A t \in s.unless : ResetPaths(p, t) = {}
  <2>1. /\ s \in stmts /\ s.of = n /\ s.notNil \cap nil = {}
        /\ s.op = "call" => ResetPaths(p, s.own) # {}
        /\ \A t \in s.unless : ResetPaths(p, t) = {}
    BY DEF Executed
  <2>2. PICK k \in Marked(p) : \E x \in Locations(p, k) :
               x.at # <<>> /\ s \in Statements(p, Context(p, k, x))
    BY <2>1 DEF Traced, Origin
  <2>3. PICK x \in Locations(p, k) : x.at # <<>> /\ s \in Statements(p, Context(p, k, x))
    BY <2>2
  <2>4. x \in Place
    BY ReachesAll DEF Reaches
  <2>5. s.of = k /\ s.own = Own(p, k, x) /\ s.notNil = Nils(x.at)
    BY <2>3, <2>4, StatementParts
  <2>. QED BY <2>1, <2>3, <2>5 DEF Has
<1>2. ASSUME NEW x \in Locations(p, n), NEW s \in Statements(p, Context(p, n, x)),
             x.at # <<>>, Nils(x.at) \cap nil = {}, s.op = "call" => Has(p, n, x),
             \A t \in s.unless : ResetPaths(p, t) = {}
      PROVE  s \in Executed(p, n, stmts, nil)
  <2>1. x \in Place /\ x \in Reach(p, n)
    BY ReachesAll DEF Reaches
  <2>2. s.of = n /\ s.own = Own(p, n, x) /\ s.notNil = Nils(x.at)
    BY <2>1, StatementParts
  <2>3. s \in stmts
    BY <1>2, <2>1 DEF Traced, Cover
  <2>. QED BY <1>2, <2>2, <2>3 DEF Executed, Has
<1>. QED BY <1>1, <1>2

\* Where no struct on the way has a Reset, only the statements of the place itself reset it.
LEMMA ResetByOwn ==
  ASSUME root \in Roots, NEW p, NEW n \in Marked(p), NEW stmts, Traced(p, {}, stmts), NEW nil,
         NEW l \in Locations(p, n), \A x \in Structs(p, n, l) : ~Has(p, n, x),
         NEW s \in Executed(p, n, stmts, nil), IsPrefix(Target(p, s), l.at)
  PROVE  l.at # <<>> /\ s \in Statements(p, Context(p, n, l))
<1>1. Reaches(p, n)
  BY ReachesAll
<1>2. PICK x \in Locations(p, n) : /\ x.at # <<>> /\ s \in Statements(p, Context(p, n, x))
                                   /\ s.op = "call" => Has(p, n, x)
  BY Executes
<1>3. /\ x \in Place /\ x.at \in Seq(Part) /\ l.at \in Seq(Part)
      /\ x \in Reach(p, n) /\ l \in Reach(p, n)
  BY <1>1 DEF Reaches, Place
<1>4. Within(l.at, x.at)
  <2>1. Target(p, s) \in Seq(Part) /\ Within(Target(p, s), x.at)
    BY <1>2, TargetOf
  <2>2. Within(l.at, Target(p, s))
    BY <1>3, <2>1, PrefixWithin
  <2>. QED BY <2>1, <2>2, WithinAll
<1>5. CASE x.at = l.at
  <2>1. x = l
    BY <1>1, <1>3, <1>5 DEF Reaches
  <2>. QED BY <1>2, <2>1
<1>6. CASE x.at # l.at
  <2>1. Inside(p, x) # {}
    BY <1>3, <1>4, <1>6, Way
  <2>2. Kind(p, x) \in {"struct", "pointer"}
    BY <1>3, <2>1, Insides
  <2>3. Kind(p, x) = "struct" /\ s.op = "call"
    BY <1>2, <1>3, <2>2, StatementParts
  <2>4. x \in Structs(p, n, l)
    BY <1>2, <1>4, <1>6, <2>3 DEF Structs
  <2>. QED BY <1>2, <2>3, <2>4
<1>. QED BY <1>5, <1>6

\* Otherwise it is left to the Reset of the first struct that has one.
LEMMA ResetByStruct ==
  ASSUME root \in Roots, NEW p, NEW n \in Marked(p), NEW stmts, Traced(p, {}, stmts), NEW nil,
         NEW l \in Locations(p, n), \E x \in Structs(p, n, l) : Has(p, n, x),
         \A x \in Locations(p, n) : Within(l.at, x.at) => Nils(x.at) \cap nil = {}
  PROVE  \E c \in Executed(p, n, stmts, nil) :
           /\ c.op = "call" /\ IsPrefix(c.at, l.at)
           /\ \A s \in Executed(p, n, stmts, nil) : IsPrefix(Target(p, s), l.at) => s = c
<1>1. Reaches(p, n)
  BY ReachesAll
<1>2. /\ \A x \in Locations(p, n) : /\ x \in Place /\ x.at \in Seq(Part) /\ x \in Reach(p, n)
                                    /\ Len(x.at) \in Nat
      /\ l.at \in Seq(Part)
  BY <1>1 DEF Reaches, Place
<1>3. \A x \in Structs(p, n, l) : x \in Locations(p, n) /\ x.at # <<>> /\ Kind(p, x) = "struct"
                                  /\ x.at # l.at /\ Within(l.at, x.at)
  BY DEF Structs
<1>4. PICK m \in Structs(p, n, l) :
        Has(p, n, m) /\ \A x \in Structs(p, n, l) : Has(p, n, x) => Len(m.at) <= Len(x.at)
  <2>. DEFINE L == {Len(x.at) : x \in {y \in Structs(p, n, l) : Has(p, n, y)}}
  <2>1. L \in SUBSET Nat /\ L # {}
    BY <1>2, <1>3
  <2>2. PICK k \in L : \A i \in L : k <= i
    BY <2>1, Least
  <2>. QED BY <2>2
<1>5. m \in Locations(p, n) /\ m \in Place
  BY <1>2, <1>3
<1>6. ASSUME NEW x \in Structs(p, n, m)
      PROVE  ~Has(p, n, x)
  <2>1. /\ x \in Locations(p, n) /\ x.at # <<>> /\ Kind(p, x) = "struct"
        /\ x.at # m.at /\ Within(m.at, x.at)
    BY DEF Structs
  <2>2. Len(x.at) < Len(m.at)
    BY <1>2, <1>5, <2>1, WithinBoth
  <2>3. Within(l.at, x.at) /\ x.at # l.at
    <3>1. Within(l.at, x.at)
      BY <1>3, <2>1, WithinAll
    <3>2. Len(m.at) <= Len(l.at)
      BY <1>2, <1>3, WithinBoth
    <3>. QED BY <1>2, <1>5, <2>1, <2>2, <3>1, <3>2
  <2>4. x \in Structs(p, n, l)
    BY <2>1, <2>3 DEF Structs
  <2>. QED BY <1>2, <1>4, <1>5, <2>1, <2>2, <2>4
<1>. DEFINE c == Stmt(Context(p, n, m), "call", Above(p, n, m))
<1>7. Statements(p, Context(p, n, m)) = {c}
  <2>1. Context(p, n, m).unless = Above(p, n, m) /\ Context(p, n, m).type = m.type
    BY ContextParts
  <2>2. KindOf(Resolve(TypeByName(p), Context(p, n, m).type)) = "struct"
    BY <1>3, <2>1 DEF KindOf, Kind
  <2>. QED BY <2>1, <2>2 DEF Statements
<1>8. c.op = "call" /\ c.at = m.at /\ c.unless = Above(p, n, m)
  BY ContextParts DEF Stmt
<1>. HIDE DEF c
<1>9. c \in Executed(p, n, stmts, nil)
  <2>1. \A t \in c.unless : ResetPaths(p, t) = {}
    BY <1>6, <1>8 DEF Above, Has
  <2>2. Nils(m.at) \cap nil = {} /\ m.at # <<>>
    BY <1>3, <1>5
  <2>. QED BY <1>4, <1>5, <1>7, <2>1, <2>2, Executes
<1>10. ASSUME NEW s \in Executed(p, n, stmts, nil), IsPrefix(Target(p, s), l.at)
       PROVE  s = c
  <2>1. PICK x \in Locations(p, n) : /\ x.at # <<>> /\ s \in Statements(p, Context(p, n, x))
                                     /\ s.op = "call" => Has(p, n, x)
                                     /\ \A t \in s.unless : ResetPaths(p, t) = {}
    BY Executes
  <2>2. Within(l.at, x.at)
    <3>1. Target(p, s) \in Seq(Part) /\ Within(Target(p, s), x.at)
      BY <2>1, TargetOf
    <3>2. Within(l.at, Target(p, s))
      BY <1>2, <1>10, <3>1, PrefixWithin
    <3>. QED BY <3>1, <3>2, WithinAll
  <2>3. Above(p, n, x) \subseteq s.unless
    BY <1>2, <2>1, StatementParts
  <2>4. ~(Len(m.at) < Len(x.at))
    <3>1. SUFFICES ASSUME Len(m.at) < Len(x.at) PROVE FALSE
      OBVIOUS
    <3>2. Within(x.at, m.at) /\ x.at # m.at
      BY <1>2, <1>3, <1>5, <2>2, <3>1, WithinBoth
    <3>3. m \in Structs(p, n, x)
      BY <1>3, <1>5, <3>2 DEF Structs
    <3>4. Own(p, n, m) \in Above(p, n, x)
      BY <3>3 DEF Above
    <3>. QED BY <1>4, <2>1, <2>3, <3>4 DEF Has
  <2>5. Len(x.at) <= Len(m.at) /\ x.at # l.at
    <3>1. Len(m.at) < Len(l.at)
      BY <1>2, <1>3, <1>5, WithinBoth
    <3>. QED BY <1>2, <1>5, <2>4, <3>1
  <2>6. Kind(p, x) = "struct" /\ s.op = "call"
    <3>1. Inside(p, x) # {}
      BY <1>2, <2>2, <2>5, Way
    <3>2. Kind(p, x) \in {"struct", "pointer"}
      BY <1>2, <3>1, Insides
    <3>. QED BY <1>2, <2>1, <3>2, StatementParts
  <2>7. x \in Structs(p, n, l) /\ Has(p, n, x)
    BY <2>1, <2>2, <2>5, <2>6 DEF Structs
  <2>8. Len(x.at) = Len(m.at)
    BY <1>2, <1>4, <1>5, <2>5, <2>7
  <2>9. x.at = m.at
    <3>1. Within(x.at, m.at)
      BY <1>2, <1>3, <1>5, <2>2, <2>8, WithinBoth
    <3>. QED BY <1>2, <1>5, <2>8, <3>1, WithinBoth
  <2>10. x = m
    BY <1>1, <1>2, <1>5, <2>9 DEF Reaches
  <2>. QED BY <1>7, <2>1, <2>10
<1>11. IsPrefix(c.at, l.at)
  BY <1>2, <1>3, <1>5, <1>8, PrefixWithin
<1>. QED BY <1>8, <1>9, <1>10, <1>11

\* What is not behind a nil pointer, and that no test on the way to it fails.
Present(p, n, nil) ==
  {l \in Locations(p, n) : \A q \in nil : ~IsPrefix(Append(q, "*"), l.at)}

LEMMA Tests ==
  ASSUME root \in Roots, NEW p, NEW n \in Marked(p), NEW nil \in SUBSET Seq(Part)
  PROVE  /\ \A l \in Present(p, n, nil) : \A x \in Locations(p, n) :
              Within(l.at, x.at) => Nils(x.at) \cap nil = {}
         /\ \A x \in Locations(p, n) : Nils(x.at) \cap nil = {} => x \in Present(p, n, nil)
<1>1. \A x \in Locations(p, n) : x.at \in Seq(Part)
  BY ReachesAll DEF Reaches, Place
<1>2. \A q \in nil : q \in Seq(Part) /\ Append(q, "*") \in Seq(Part)
  BY DEF Part
<1>3. \A q \in nil, x \in Locations(p, n) :
        q \in Nils(x.at) <=> Within(x.at, Append(q, "*"))
  BY <1>1, <1>2, NilsTested
<1>4. \A q \in nil, x \in Locations(p, n) :
        IsPrefix(Append(q, "*"), x.at) <=> Within(x.at, Append(q, "*"))
  BY <1>1, <1>2, PrefixWithin
<1>5. ASSUME NEW l \in Present(p, n, nil), NEW x \in Locations(p, n), Within(l.at, x.at)
      PROVE  Nils(x.at) \cap nil = {}
  <2>1. SUFFICES ASSUME NEW q \in nil, q \in Nils(x.at) PROVE FALSE
    OBVIOUS
  <2>2. Within(x.at, Append(q, "*"))
    BY <1>3, <2>1
  <2>3. Within(l.at, Append(q, "*"))
    BY <1>5, <2>2, WithinAll, Zenon
  <2>. QED BY <1>4, <2>3 DEF Present
<1>6. \A x \in Locations(p, n) : Nils(x.at) \cap nil = {} => x \in Present(p, n, nil)
  BY <1>3, <1>4 DEF Present
<1>. QED BY <1>5, <1>6

\* What has a Reset of its own is asked for it.
LEMMA OwnReset ==
  ASSUME root \in Roots, NEW p, NEW n \in Marked(p), NEW l \in Locations(p, n), Resets(p, n, l)
  PROVE  l.at # <<>> /\ Own(p, n, l) = l.type /\ ResetPaths(p, Own(p, n, l)) = {<<>>}
<1>1. Reaches(p, n)
  BY ReachesAll
<1>2. l.at # <<>> /\ ResetPaths(p, l.type) = {<<>>}
      /\ \A m \in Locations(p, n) : l.at = Append(m.at, "*") => m.type.kind # "ident"
  BY DEF Resets
<1>3. Root(p, n).at = <<>> /\ l \in Reach(p, n) /\ l \in Place
  BY <1>1 DEF Root, Reaches
<1>4. PICK m \in Locations(p, n) : l \in Inside(p, m)
  BY <1>1, <1>2, <1>3 DEF Reaches
<1>5. Own(p, n, l) = IF Kind(p, m) = "pointer" /\ m.type.kind # "pointer" THEN m.type ELSE l.type
  BY <1>4, OwnOf
<1>6. m \in Place /\ m.type \in Exprs
  BY <1>1 DEF Reaches, Place
<1>7. Kind(p, m) = "pointer" => m.type.kind = "pointer"
  <2>1. SUFFICES ASSUME Kind(p, m) = "pointer", m.type.kind # "pointer" PROVE FALSE
    OBVIOUS
  <2>2. m.type.kind # "ident" => Resolve(TypeByName(p), m.type) = m.type
    BY <1>6, Names, ResolveType
  <2>3. m.type.kind = "ident"
    BY <2>1, <2>2 DEF Kind
  <2>4. l.at = Append(m.at, "*")
    BY <1>4, <1>6, <2>1, Insides
  <2>. QED BY <1>2, <2>3, <2>4
<1>. QED BY <1>2, <1>5, <1>7

\* One statement resets a place that is neither a struct nor a pointer.
LEMMA OneStatement ==
  ASSUME root \in Roots, NEW p, NEW n \in Marked(p), NEW stmts, Traced(p, {}, stmts), NEW nil,
         NEW l \in Locations(p, n), \A x \in Structs(p, n, l) : ~Has(p, n, x),
         Nils(l.at) \cap nil = {}, Kind(p, l) \notin {"pointer", "struct"}
  PROVE  \E c \in Executed(p, n, stmts, nil) :
           /\ IsPrefix(Target(p, c), l.at)
           /\ \A s \in Executed(p, n, stmts, nil) : IsPrefix(Target(p, s), l.at) => s = c
<1>1. Reaches(p, n)
  BY ReachesAll
<1>2. l \in Place /\ l.at \in Seq(Part) /\ l.type \in Exprs
  BY <1>1 DEF Reaches, Place
<1>3. l.at # <<>>
  <2>1. SUFFICES ASSUME l.at = <<>> PROVE FALSE
    OBVIOUS
  <2>2. l = Root(p, n)
    BY <1>1, <2>1 DEF Reaches, Root
  <2>3. n \in DOMAIN TypeByName(p) /\ TypeByName(p)[n].kind = "struct" /\ TypeByName(p)[n] \in Exprs
    BY Names
  <2>4. Resolve(TypeByName(p), TypeByName(p)[n]) = TypeByName(p)[n]
    BY <2>3, Names, ResolveType
  <2>. QED BY <2>2, <2>3, <2>4 DEF Root, Kind
<1>. DEFINE j == Context(p, n, l)
            t == Resolve(TypeByName(p), l.type)
<1>4. j.type = l.type /\ j.unless = Above(p, n, l) /\ j.own = Own(p, n, l)
  BY ContextParts
<1>5. KindOf(t) \in {"primitive", "array", "opaque", "slice", "map", "ident", "foreign"}
  <2>1. t.kind \in {"ident", "foreign", "array", "slice", "map", "opaque"}
    BY <1>2, Insides, ExprAssumption DEF Kind
  <2>. QED BY <2>1 DEF KindOf
<1>6. Statements(p, j) =
        CASE KindOf(t) \in {"primitive", "array", "opaque"} -> {Stmt(j, "zero", j.unless)}
          [] KindOf(t) = "slice"  -> {Stmt(j, "cut", j.unless)}
          [] KindOf(t) = "map"    -> {Stmt(j, "clear", j.unless)}
          [] KindOf(t) = "struct" -> {Stmt(j, "call", j.unless)}
          [] KindOf(t) \in {"ident", "foreign"} ->
               {Stmt(j, "call", j.unless), Stmt(j, "zero", j.unless \cup {j.own})}
          [] OTHER -> {}
  BY <1>4, Zenon DEF Statements
<1>7. \A op, u : Stmt(j, op, u).op = op /\ Stmt(j, op, u).unless = u
  BY DEF Stmt
<1>8. \A x \in Above(p, n, l) : ResetPaths(p, x) = {}
  BY DEF Above, Has
<1>. HIDE DEF j, t
\* The statement is there, and another one of the place is not executed.
<1>9. \E c \in Statements(p, j) :
        /\ c.op = "call" => Has(p, n, l)
        /\ \A x \in c.unless : ResetPaths(p, x) = {}
        /\ \A s \in Statements(p, j) :
             /\ s.op = "call" => Has(p, n, l)
             /\ \A x \in s.unless : ResetPaths(p, x) = {}
             => s = c
  <2>1. CASE KindOf(t) \in {"ident", "foreign"}
    <3>1. Statements(p, j) = {Stmt(j, "call", j.unless), Stmt(j, "zero", j.unless \cup {j.own})}
      BY <1>6, <2>1
    <3>2. CASE Has(p, n, l)
      <4>1. ~ \A x \in j.unless \cup {j.own} : ResetPaths(p, x) = {}
        BY <1>4, <3>2 DEF Has
      <4>. QED BY <1>4, <1>7, <1>8, <3>1, <3>2, <4>1
    <3>3. CASE ~Has(p, n, l)
      <4>1. \A x \in j.unless \cup {j.own} : ResetPaths(p, x) = {}
        BY <1>4, <1>8, <3>3 DEF Has
      <4>. QED BY <1>7, <3>1, <3>3, <4>1
    <3>. QED BY <3>2, <3>3
  <2>2. CASE KindOf(t) \notin {"ident", "foreign"}
    <3>1. \E op \in {"zero", "cut", "clear"} : Statements(p, j) = {Stmt(j, op, j.unless)}
      BY <1>5, <1>6, <2>2
    <3>. QED BY <1>4, <1>7, <1>8, <3>1
  <2>. QED BY <2>1, <2>2
<1>10. PICK c \in Statements(p, j) :
        /\ c.op = "call" => Has(p, n, l)
        /\ \A x \in c.unless : ResetPaths(p, x) = {}
        /\ \A s \in Statements(p, j) :
             /\ s.op = "call" => Has(p, n, l)
             /\ \A x \in s.unless : ResetPaths(p, x) = {}
             => s = c
  BY <1>9
<1>11. c \in Executed(p, n, stmts, nil)
  BY <1>3, <1>10, Executes DEF j
<1>12. IsPrefix(Target(p, c), l.at)
  <2>1. Target(p, c) = l.at
    BY <1>3, <1>10, TargetOf DEF j
  <2>. QED BY <1>2, <2>1, WithinAll, PrefixWithin
<1>13. ASSUME NEW s \in Executed(p, n, stmts, nil), IsPrefix(Target(p, s), l.at)
       PROVE  s = c
  <2>1. s \in Statements(p, j)
    BY <1>13, ResetByOwn DEF j
  <2>2. PICK x \in Locations(p, n) : /\ x.at # <<>> /\ s \in Statements(p, Context(p, n, x))
                                     /\ s.op = "call" => Has(p, n, x)
                                     /\ \A u \in s.unless : ResetPaths(p, u) = {}
    BY Executes
  <2>3. x = l
    <3>1. x \in Place /\ x \in Reach(p, n) /\ l \in Reach(p, n)
      BY <1>1 DEF Reaches
    <3>2. s.at = x.at /\ s.at = l.at
      BY <1>2, <2>1, <2>2, <3>1, StatementParts DEF j
    <3>. QED BY <1>1, <3>1, <3>2 DEF Reaches
  <2>. QED BY <1>10, <2>1, <2>2, <2>3
<1>. QED BY <1>11, <1>12, <1>13

\* The statements of all places of a marked type reset it, whatever is nil.
LEMMA AllReset ==
  ASSUME root \in Roots, NEW p, NEW n \in Marked(p), NEW stmts, Traced(p, {}, stmts),
         NEW nil \in SUBSET Seq(Part), ~NilOnTheWay(p, n, stmts, nil)
  PROVE  ResetsAll(p, n, stmts, nil)
<1>. DEFINE done  == Executed(p, n, stmts, nil)
            by(l) == {s \in done : IsPrefix(Target(p, s), l.at)}
            calls == {s \in done : s.op = "call"}
<1>1. Reaches(p, n)
  BY ReachesAll
<1>2. \A x \in Locations(p, n) : x \in Place /\ x.at \in Seq(Part)
  BY <1>1 DEF Reaches, Place
<1>3. ASSUME NEW s \in done
      PROVE  /\ \E l \in Present(p, n, nil) : l.at = s.at
             /\ \A q \in nil : ~IsPrefix(Append(q, "*"), Target(p, s))
  <2>1. PICK x \in Locations(p, n) :
          /\ x.at # <<>> /\ s \in Statements(p, Context(p, n, x)) /\ Nils(x.at) \cap nil = {}
          /\ s.op = "call" => Has(p, n, x)
    BY Executes
  <2>2. x.at = s.at /\ s.at \in Seq(Part)
    BY <1>2, <2>1, StatementParts
  <2>3. Target(p, s) \in Seq(Part) /\ Within(Target(p, s), s.at)
    BY <2>1, <2>2, TargetOf
  <2>4. ASSUME NEW q \in nil, IsPrefix(Append(q, "*"), Target(p, s))
        PROVE  FALSE
    <3>1. q \in Seq(Part) /\ Append(q, "*") \in Seq(Part)
      BY <2>4 DEF Part
    <3>2. Within(Target(p, s), Append(q, "*"))
      BY <2>3, <2>4, <3>1, PrefixWithin
    <3>3. ~Within(s.at, Append(q, "*"))
      BY <2>1, <2>2, <3>1, NilsTested
    <3>4. Len(Append(q, "*")) = Len(q) + 1 /\ Len(q) \in Nat /\ Len(s.at) \in Nat
      BY <2>2, <3>1
    <3>5. Within(Append(q, "*"), q)
      BY <3>1 DEF Within
    <3>6. Within(Target(p, s), q)
      BY <3>2, <3>5, WithinAll
    <3>7. Within(q, s.at)
      <4>1. Len(Append(q, "*")) <= Len(s.at) => Within(s.at, Append(q, "*"))
        BY <2>2, <2>3, <3>1, <3>2, WithinBoth
      <4>2. Len(s.at) <= Len(q) => Within(q, s.at)
        BY <2>2, <2>3, <3>1, <3>6, WithinBoth
      <4>. QED BY <3>3, <3>4, <4>1, <4>2
    <3>8. IsPrefix(s.at, q)
      BY <2>2, <3>1, <3>7, PrefixWithin
    <3>. QED BY <2>4, <3>8 DEF NilOnTheWay, done
  <2>5. \E l \in Present(p, n, nil) : l.at = s.at
    BY <2>1, <2>2, Tests
  <2>. QED BY <2>4, <2>5
<1>4. ASSUME NEW l \in Present(p, n, nil)
      PROVE  /\ Resets(p, n, l) => by(l) \cap calls # {} \/ PassedOver(p, n, stmts, nil, l)
             /\ Kind(p, l) = "pointer" => by(l) \subseteq calls
             /\ Kind(p, l) \notin {"pointer", "struct"} =>
                  IF by(l) = {} THEN PassedOver(p, n, stmts, nil, l) ELSE Cardinality(by(l)) = 1
  <2>1. l \in Locations(p, n) /\ \A x \in Locations(p, n) : Within(l.at, x.at) => Nils(x.at) \cap nil = {}
    BY Tests DEF Present
  <2>2. CASE \E x \in Structs(p, n, l) : Has(p, n, x)
    <3>1. PICK c \in done :
             /\ c.op = "call" /\ IsPrefix(c.at, l.at)
             /\ \A s \in done : IsPrefix(Target(p, s), l.at) => s = c
      BY <2>1, <2>2, ResetByStruct
    <3>2. CASE IsPrefix(Target(p, c), l.at)
      <4>1. by(l) = {c} /\ c \in calls
        BY <3>1, <3>2
      <4>. HIDE DEF by, calls
      <4>. QED BY <4>1, FS_Singleton
    <3>3. CASE ~IsPrefix(Target(p, c), l.at)
      <4>1. by(l) = {}
        BY <3>1, <3>3
      <4>2. PassedOver(p, n, stmts, nil, l)
        BY <3>1, <3>3 DEF PassedOver
      <4>. HIDE DEF by, calls
      <4>. QED BY <4>1, <4>2
    <3>. QED BY <3>2, <3>3
  <2>3. CASE \A x \in Structs(p, n, l) : ~Has(p, n, x)
    <3>1. \A s \in by(l) : l.at # <<>> /\ s \in Statements(p, Context(p, n, l))
      BY <2>1, <2>3, ResetByOwn
    <3>2. Kind(p, l) = "pointer" => by(l) = {}
      BY <1>2, <2>1, <3>1, StatementParts
    <3>3. Nils(l.at) \cap nil = {}
      BY <2>1, WithinAll
    <3>4. ASSUME Kind(p, l) \notin {"pointer", "struct"}
          PROVE  by(l) # {} /\ Cardinality(by(l)) = 1
      <4>1. PICK c \in done : /\ IsPrefix(Target(p, c), l.at)
                              /\ \A s \in done : IsPrefix(Target(p, s), l.at) => s = c
        BY <2>1, <2>3, <3>3, <3>4, OneStatement
      <4>2. by(l) = {c}
        BY <4>1
      <4>. HIDE DEF by
      <4>. QED BY <4>2, FS_Singleton
    <3>5. ASSUME Resets(p, n, l)
          PROVE  by(l) \cap calls # {}
      <4>. DEFINE c == Stmt(Context(p, n, l), "call", Above(p, n, l))
      <4>1. l.at # <<>> /\ Own(p, n, l) = l.type /\ ResetPaths(p, Own(p, n, l)) = {<<>>}
        BY <2>1, <3>5, OwnReset
      <4>2. c \in Statements(p, Context(p, n, l)) /\ c.op = "call" /\ c.unless = Above(p, n, l)
        <5>1. Context(p, n, l).unless = Above(p, n, l) /\ Context(p, n, l).type = l.type
          BY ContextParts
        <5>2. KindOf(Resolve(TypeByName(p), Context(p, n, l).type)) \in {"struct", "foreign"}
          BY <3>5, <5>1 DEF Resets, Kind, KindOf
        <5>. QED BY <5>1, <5>2 DEF Statements, Stmt
      <4>. HIDE DEF c
      <4>3. Has(p, n, l)
        BY <4>1 DEF Has
      <4>4. \A x \in c.unless : ResetPaths(p, x) = {}
        BY <2>3, <4>2 DEF Above, Has
      <4>5. c \in done
        BY <2>1, <3>3, <4>1, <4>2, <4>3, <4>4, Executes
      <4>6. Target(p, c) = l.at
        BY <2>1, <4>1, <4>2, <4>3, TargetOf
      <4>7. IsPrefix(Target(p, c), l.at)
        BY <1>2, <2>1, <4>6, WithinAll, PrefixWithin
      <4>. QED BY <4>2, <4>5, <4>7
    <3>. HIDE DEF by, calls
    <3>. QED BY <3>2, <3>4, <3>5
  <2>. QED BY <2>2, <2>3
<1>. HIDE DEF done
<1>. QED BY <1>3, <1>4 DEF ResetsAll, Present, done

-----------------------------------------------------------------------------
(* Types that refer to themselves *)

Stands(p, l) == Resolve(TypeByName(p), l.type)

\* The places of a marked type do not reach the bound.
Ends(p) == \A n \in Marked(p) : Reach(p, n) \subseteq Locations(p, n)

LEMMA TracedEnds ==
  ASSUME root \in Roots, NEW p, NEW stmts, Traced(p, {}, stmts)
  PROVE  Ends(p)
<1>1. ASSUME NEW n \in Marked(p), NEW c \in Reach(p, n)
      PROVE  c \in Locations(p, n)
  <2>1. CASE c.at = <<>>
    <3>1. Reaches(p, n)
      BY ReachesAll
    <3>2. Root(p, n).at = <<>> /\ Root(p, n) \in Locations(p, n) /\ Root(p, n) \in Reach(p, n)
      BY <3>1 DEF Root, Reaches
    <3>. QED BY <2>1, <3>1, <3>2 DEF Reaches
  <2>2. CASE c.at # <<>>
    BY <1>1, <2>2 DEF Traced, Cover
  <2>. QED BY <2>1, <2>2
<1>. QED BY <1>1 DEF Ends

\* What is inside a place depends on its type only.
LEMMA Alikes ==
  ASSUME NEW p, NEW x, NEW y, Stands(p, x) = Stands(p, y), NEW c \in Inside(p, x)
  PROVE  \E d \in Inside(p, y) : d.type = c.type
<1>. DEFINE t == Stands(p, x)
<1>1. Inside(p, x) = CASE t.kind = "struct"  -> {[at |-> Append(x.at, f.name), type |-> f.type] :
                                                  f \in t.fields}
                       [] t.kind = "pointer" -> {[at |-> Append(x.at, "*"), type |-> t.elem]}
                       [] OTHER              -> {}
  BY DEF Inside, Stands
<1>2. Inside(p, y) = CASE t.kind = "struct"  -> {[at |-> Append(y.at, f.name), type |-> f.type] :
                                                  f \in t.fields}
                       [] t.kind = "pointer" -> {[at |-> Append(y.at, "*"), type |-> t.elem]}
                       [] OTHER              -> {}
  BY DEF Inside, Stands
<1>. HIDE DEF t
<1>3. CASE t.kind = "struct"
  <2>1. PICK f \in t.fields : c = [at |-> Append(x.at, f.name), type |-> f.type]
    BY <1>1, <1>3
  <2>2. [at |-> Append(y.at, f.name), type |-> f.type] \in Inside(p, y)
    BY <1>2, <1>3
  <2>. QED BY <2>1, <2>2
<1>4. CASE t.kind = "pointer"
  <2>1. c = [at |-> Append(x.at, "*"), type |-> t.elem]
    BY <1>1, <1>4
  <2>2. [at |-> Append(y.at, "*"), type |-> t.elem] \in Inside(p, y)
    BY <1>2, <1>4
  <2>. QED BY <2>1, <2>2
<1>5. CASE t.kind \notin {"struct", "pointer"}
  BY <1>1, <1>5
<1>. QED BY <1>3, <1>4, <1>5

\* A place whose type stands for that of a place it is a part of has parts at every depth.
LEMMA Endless ==
  ASSUME root \in Roots, NEW p, NEW n \in Marked(p), SelfReferring(p, n)
  PROVE  ~Ends(p)
<1>. SUFFICES ASSUME Ends(p) PROVE FALSE
  OBVIOUS
<1>1. Reaches(p, n) /\ Reach(p, n) \subseteq Locations(p, n) /\ MaxDepth \in Nat
  BY ReachesAll, BoundAssumption DEF Ends
<1>2. \A x \in Locations(p, n) : /\ x \in Place /\ x \in Reach(p, n) /\ x.at \in Seq(Part)
                                 /\ Len(x.at) \in Nat /\ Len(x.at) <= MaxDepth
  BY <1>1 DEF Reaches, Place
<1>3. PICK l \in Locations(p, n) : \E m \in Locations(p, n) :
        IsStrictPrefix(l.at, m.at) /\ Stands(p, l) = Stands(p, m)
  BY DEF SelfReferring, Stands
<1>4. PICK m \in Locations(p, n) :
        IsStrictPrefix(l.at, m.at) /\ Stands(p, l) = Stands(p, m)
  BY <1>3
<1>5. Within(m.at, l.at) /\ m.at # l.at
  BY <1>2, <1>4, PrefixWithin DEF IsStrictPrefix
<1>. DEFINE On(x) == Within(m.at, x.at) /\ m.at # x.at
            Type(y) == \E x \in Locations(p, n) : On(x) /\ Stands(p, x) = Stands(p, y)
<1>6. ASSUME NEW y \in Locations(p, n), Type(y)
      PROVE  \E d \in Locations(p, n) : Len(d.at) = Len(y.at) + 1 /\ Type(d)
  <2>1. PICK x \in Locations(p, n) : On(x) /\ Stands(p, x) = Stands(p, y)
    BY <1>6
  <2>2. PICK c \in Inside(p, x) : Within(m.at, c.at)
    BY <1>2, <2>1, Way
  <2>3. PICK d \in Inside(p, y) : d.type = c.type
    BY <2>1, Alikes
  <2>4. c \in Locations(p, n) /\ d \in Locations(p, n)
    BY <1>1, <2>2, <2>3 DEF Reaches
  <2>5. Len(d.at) = Len(y.at) + 1
    BY <1>2, <2>3, InsideAt
  <2>6. Stands(p, d) = Stands(p, c)
    BY <2>3 DEF Stands
  <2>7. CASE c.at = m.at
    <3>1. c = m
      BY <1>1, <1>2, <2>4, <2>7 DEF Reaches
    <3>. QED BY <1>4, <1>5, <2>4, <2>5, <2>6, <3>1
  <2>8. CASE c.at # m.at
    BY <2>2, <2>4, <2>5, <2>6, <2>8
  <2>. QED BY <2>7, <2>8
<1>. DEFINE G == {k \in Nat : \E y \in Locations(p, n) : Len(y.at) = k /\ Type(y)}
            a == Len(l.at)
<1>7. a \in G /\ a \in Nat /\ a <= MaxDepth
  BY <1>2, <1>5
<1>. HIDE DEF Type
<1>8. ASSUME NEW k \in a + 1 .. MaxDepth + 1, k - 1 \in G
      PROVE  k \in G
  <2>1. PICK y \in Locations(p, n) : Len(y.at) = k - 1 /\ Type(y)
    BY <1>8
  <2>2. PICK d \in Locations(p, n) : Len(d.at) = Len(y.at) + 1 /\ Type(d)
    BY <1>6, <2>1
  <2>3. \A i \in Int : (i - 1) + 1 = i
    OBVIOUS
  <2>4. k \in Nat
    BY <1>1, <1>7
  <2>5. Len(d.at) = k
    BY <2>1, <2>2, <2>3, <2>4
  <2>. QED BY <2>2, <2>4, <2>5
<1>. HIDE DEF G, a
<1>9. \A k \in a .. MaxDepth + 1 : k \in G
  BY <1>1, <1>7, <1>8, Climb
<1>10. MaxDepth + 1 \in G
  BY <1>1, <1>7, <1>9
<1>11. \A i \in Nat : ~(i + 1 <= i)
  OBVIOUS
<1>. QED BY <1>1, <1>2, <1>10, <1>11 DEF G

\* Where the places reach the bound, two on the way to the deepest one have the same type.
LEMMA Deep ==
  ASSUME root \in Roots, NEW p, NEW n \in Marked(p), NEW c \in Reach(p, n), Len(c.at) > MaxDepth
  PROVE  SelfReferring(p, n)
<1>1. Reaches(p, n) /\ MaxDepth \in Nat
  BY ReachesAll, BoundAssumption
<1>2. \A x \in Reach(p, n) : x \in Place /\ x.at \in Seq(Part) /\ Len(x.at) \in Nat
  BY <1>1 DEF Reaches, Place
<1>3. \A x \in Locations(p, n) : x \in Reach(p, n) /\ Len(x.at) <= MaxDepth
  BY <1>1 DEF Reaches
<1>4. Len(c.at) = MaxDepth + 1
  BY <1>1, <1>2 DEF Reaches
<1>. DEFINE Up(k) == \E x \in Locations(p, n) : Len(x.at) = MaxDepth - k /\ Within(c.at, x.at)
            G == {k \in Nat : Up(k)}
<1>5. ASSUME NEW x \in Reach(p, n), NEW k \in Nat, Len(x.at) = k + 1
      PROVE  \E m \in Locations(p, n) : Len(m.at) = k /\ Within(x.at, m.at)
  <2>1. x # Root(p, n)
    BY <1>2, <1>5 DEF Root
  <2>2. PICK m \in Locations(p, n) : x \in Inside(p, m)
    BY <1>1, <2>1 DEF Reaches
  <2>3. Len(x.at) = Len(m.at) + 1 /\ Within(x.at, m.at) /\ Len(m.at) \in Nat
    BY <1>2, <1>3, <2>2, InsideAt
  <2>4. \A i, j \in Nat : i + 1 = j + 1 => i = j
    OBVIOUS
  <2>5. Len(m.at) = k
    BY <1>5, <2>3, <2>4
  <2>. QED BY <2>3, <2>5
<1>6. Up(0)
  <2>1. PICK m \in Locations(p, n) : Len(m.at) = MaxDepth /\ Within(c.at, m.at)
    BY <1>1, <1>4, <1>5
  <2>. QED BY <1>1, <2>1
<1>7. ASSUME NEW k \in 0 + 1 .. MaxDepth, k - 1 \in G
      PROVE  k \in G
  <2>1. PICK x \in Locations(p, n) : Len(x.at) = MaxDepth - (k - 1) /\ Within(c.at, x.at)
    BY <1>7
  <2>2. MaxDepth - k \in Nat /\ MaxDepth - (k - 1) = (MaxDepth - k) + 1 /\ k \in Nat
    BY <1>1
  <2>3. PICK m \in Locations(p, n) : Len(m.at) = MaxDepth - k /\ Within(x.at, m.at)
    BY <1>3, <1>5, <2>1, <2>2
  <2>4. Within(c.at, m.at)
    BY <2>1, <2>3, WithinAll, Zenon
  <2>. QED BY <2>2, <2>3, <2>4
<1>8. 0 \in G
  BY <1>6
<1>. HIDE DEF G
<1>9. \A k \in 0 .. MaxDepth : k \in G
  BY <1>1, <1>7, <1>8, Climb
<1>10. \A d \in 0 .. MaxDepth : \E x \in Locations(p, n) : Len(x.at) = d /\ Within(c.at, x.at)
  <2>1. ASSUME NEW d \in 0 .. MaxDepth
        PROVE  \E x \in Locations(p, n) : Len(x.at) = d /\ Within(c.at, x.at)
    <3>1. MaxDepth - d \in 0 .. MaxDepth /\ MaxDepth - (MaxDepth - d) = d
      BY <1>1
    <3>2. MaxDepth - d \in G
      BY <1>9, <3>1
    <3>. QED BY <3>1, <3>2 DEF G
  <2>. QED BY <2>1
<1>. DEFINE at(d) == CHOOSE x \in Locations(p, n) : Len(x.at) = d /\ Within(c.at, x.at)
            T == {t \in Exprs : t.kind \in {"struct", "pointer"}}
            f == [d \in 0 .. MaxDepth |-> Stands(p, at(d))]
<1>11. ASSUME NEW d \in 0 .. MaxDepth
       PROVE  at(d) \in Locations(p, n) /\ Len(at(d).at) = d /\ Within(c.at, at(d).at)
  BY <1>10
<1>. HIDE DEF at
<1>12. ASSUME NEW d \in 0 .. MaxDepth
       PROVE  Stands(p, at(d)) \in T
  <2>1. at(d).at # c.at
    BY <1>1, <1>4, <1>11
  <2>2. Inside(p, at(d)) # {}
    BY <1>11, <2>1, Way
  <2>. QED BY <1>2, <1>3, <1>11, <2>2, Insides DEF Stands, Kind
<1>13. f \in [0 .. MaxDepth -> T]
  BY <1>12
<1>14. /\ IsFiniteSet(0 .. MaxDepth) /\ Cardinality(0 .. MaxDepth) = MaxDepth + 1
  <2>1. 0 \in Int /\ MaxDepth \in Int /\ ~(0 > MaxDepth) /\ MaxDepth - 0 + 1 = MaxDepth + 1
    BY <1>1
  <2>. QED BY <2>1, FS_Interval
<1>15. IsFiniteSet(T) /\ Cardinality(T) < Cardinality(0 .. MaxDepth)
  <2>1. IsFiniteSet(T) /\ Cardinality(T) <= MaxDepth
    BY DepthAssumption
  <2>2. Cardinality(T) \in Nat
    BY <2>1, FS_CardinalityType
  <2>. HIDE DEF T
  <2>. QED BY <1>1, <1>14, <2>1, <2>2
<1>. HIDE DEF T
<1>16. \E x, y \in 0 .. MaxDepth : x # y /\ f[x] = f[y]
  <2>. HIDE DEF f
  <2>. QED BY <1>13, <1>14, <1>15, FS_PigeonHole
<1>17. PICK x, y \in 0 .. MaxDepth : x < y /\ Stands(p, at(x)) = Stands(p, at(y))
  <2>1. PICK x, y \in 0 .. MaxDepth : x # y /\ f[x] = f[y]
    BY <1>16
  <2>2. x < y \/ y < x
    BY <2>1
  <2>. QED BY <2>1, <2>2
<1>18. /\ at(x) \in Locations(p, n) /\ at(y) \in Locations(p, n)
       /\ at(x).at \in Seq(Part) /\ at(y).at \in Seq(Part) /\ c.at \in Seq(Part)
       /\ Len(at(x).at) < Len(at(y).at)
       /\ Within(c.at, at(x).at) /\ Within(c.at, at(y).at)
  BY <1>2, <1>3, <1>11, <1>17
<1>19. Within(at(y).at, at(x).at) /\ at(x).at # at(y).at
  <2>1. Len(at(x).at) <= Len(at(y).at)
    BY <1>18
  <2>2. Within(at(y).at, at(x).at)
    BY <1>18, <2>1, WithinBoth
  <2>. QED BY <1>18, <2>2
<1>20. IsStrictPrefix(at(x).at, at(y).at)
  BY <1>18, <1>19, PrefixWithin DEF IsStrictPrefix
<1>. QED BY <1>17, <1>18, <1>20 DEF SelfReferring, Stands

-----------------------------------------------------------------------------
(* The steps of emitResetForType *)

\* The guards of the place at are all in notNil.
Tested(at, notNil) == \A i \in DOMAIN at : at[i] = "*" => SubSeq(at, 1, i - 1) \in notNil

\* Jobs at places of their own within the place at.
Children(new, of, at, unless) ==
  /\ \A j \in new : JobOK(j) /\ j.of = of /\ j.unless = unless /\ Within(j.at, at)
  /\ \A j, k \in new : j # k => Apart(j.at, k.at)

LEMMA Fields ==
  ASSUME NEW st \in Exprs, st.kind = "struct", NEW at \in Seq(Part),
         NEW notNil, Tested(at, notNil), NEW of, NEW unless
  PROVE  Children(FieldJobs(of, at, st, notNil, unless), of, at, unless)
<1>. DEFINE J(f) == Job(of, Append(at, f.name), f.type, f.type, notNil, unless)
<1>1. \A f \in st.fields :
        /\ f.type \in Exprs /\ f.name \in Part /\ f.name # "*"
        /\ \A g \in st.fields : f.name = g.name => f = g
  BY ExprAssumption DEF Part
<1>2. \A f \in st.fields : /\ J(f).type = f.type /\ J(f).at = Append(at, f.name)
                           /\ J(f).notNil = notNil /\ J(f).of = of /\ J(f).unless = unless
  BY DEF Job
<1>3. \A j \in FieldJobs(of, at, st, notNil, unless) : \E f \in st.fields : j = J(f)
  BY DEF FieldJobs
<1>. HIDE DEF J
<1>4. ASSUME NEW f \in st.fields
      PROVE  JobOK(J(f)) /\ Within(J(f).at, at)
  <2>. DEFINE c == Append(at, f.name)
  <2>1. /\ c \in Seq(Part) /\ DOMAIN c = 1 .. Len(at) + 1 /\ c[Len(at) + 1] = f.name
        /\ Within(c, at) /\ \A i \in DOMAIN at : SubSeq(c, 1, i - 1) = SubSeq(at, 1, i - 1)
    BY <1>1, Child
  <2>2. J(f).at = c /\ J(f).notNil = notNil /\ J(f).type = f.type
    BY <1>2
  <2>. HIDE DEF c
  <2>3. \A i \in DOMAIN c : i \in DOMAIN at \/ i = Len(at) + 1
    BY <2>1
  <2>4. ASSUME NEW i \in DOMAIN c, c[i] = "*"
        PROVE  SubSeq(c, 1, i - 1) \in notNil
    <3>1. i \in DOMAIN at
      BY <1>1, <2>1, <2>3, <2>4
    <3>2. at[i] = "*"
      BY <2>1, <2>4, <3>1 DEF Within
    <3>. QED BY <2>1, <3>1, <3>2 DEF Tested
  <2>. QED BY <1>1, <2>1, <2>2, <2>4 DEF JobOK, Guarded
<1>5. ASSUME NEW f \in st.fields, NEW g \in st.fields, J(f) # J(g)
      PROVE  Apart(J(f).at, J(g).at)
  <2>1. f.name # g.name
    BY <1>1, <1>5
  <2>2. \A h \in st.fields : /\ DOMAIN J(h).at = 1 .. Len(at) + 1
                             /\ J(h).at[Len(at) + 1] = h.name
    BY <1>1, <1>2, Child
  <2>3. Len(at) + 1 \in 1 .. Len(at) + 1
    OBVIOUS
  <2>. QED BY <2>1, <2>2, <2>3 DEF Apart
<1>6. \A f \in st.fields : J(f).of = of /\ J(f).unless = unless
  BY <1>2
<1>. QED BY <1>3, <1>4, <1>5, <1>6 DEF Children

\* What comes of a job is for the same type, at its place or a part of it, and under its
\* conditions.
Inherits(s, j) ==
  s.of = j.of /\ Within(s.at, j.at) /\ j.unless \subseteq s.unless

\* The statements and the jobs that a job is replaced by.
Emission(j, stmts, new) ==
  /\ \A s \in stmts : s.at \in Seq(Part) /\ Guarded(s) /\ Inherits(s, j)
  /\ \A k \in new : JobOK(k) /\ Inherits(k, j)
  /\ \A s, t \in stmts : Disjoint(s, t)
  /\ \A k, l \in new : k # l => Apart(k.at, l.at)
  /\ \A k \in new, s \in stmts : Apart(k.at, s.at) \/ YieldsTo(k, s)

LEMMA EmitStep ==
  ASSUME WorkInv, NEW j \in jobs, NEW stmts, NEW new, Emission(j, stmts, new),
         code' = code \cup stmts, jobs' = (jobs \ {j}) \cup new
  PROVE  WorkInv'
<1>. USE DEF WorkInv, Emission
<1>1. \A x : Within(x, x)
  BY DEF Within
<1>2. \A k \in jobs' : JobOK(k)
  OBVIOUS
<1>3. ASSUME NEW k \in jobs \ {j}, NEW x, Inherits(x, j), k.of = x.of
      PROVE  Apart(k.at, x.at) /\ Apart(x.at, k.at)
  <2>1. Apart(k.at, j.at)
    BY <1>3 DEF Inherits
  <2>. QED BY <1>1, <1>3, <2>1, PartsApart, ApartBoth DEF Inherits
<1>4. ASSUME NEW s \in code, NEW x, Inherits(x, j), s.of = x.of
      PROVE  Apart(x.at, s.at) \/ YieldsTo(x, s)
  <2>1. Apart(j.at, s.at) \/ YieldsTo(j, s)
    BY <1>4 DEF Inherits
  <2>2. CASE Apart(j.at, s.at)
    BY <1>1, <1>4, <2>2, PartsApart DEF Inherits
  <2>3. CASE YieldsTo(j, s)
    BY <1>4, <2>3 DEF Inherits, YieldsTo
  <2>. QED BY <2>1, <2>2, <2>3
<1>5. ASSUME NEW k \in jobs', NEW l \in jobs', k.of = l.of, k # l
      PROVE  Apart(k.at, l.at)
  BY <1>3, <1>5
<1>6. ASSUME NEW k \in jobs', NEW s \in code', k.of = s.of
      PROVE  Apart(k.at, s.at) \/ YieldsTo(k, s)
  BY <1>3, <1>4, <1>6
<1>7. ASSUME NEW s \in code', NEW t \in code'
      PROVE  Disjoint(s, t)
  <2>1. CASE s \in code /\ t \in code
    BY <2>1 DEF CodeOK
  <2>2. CASE s \in stmts /\ t \in stmts
    BY <2>2
  <2>3. CASE s \in code /\ t \in stmts
    BY <1>4, <2>3, ApartBoth DEF Disjoint
  <2>4. CASE s \in stmts /\ t \in code
    BY <1>4, <2>4 DEF Disjoint
  <2>. QED BY <2>1, <2>2, <2>3, <2>4
<1>8. \A s \in code' : s.at \in Seq(Part) /\ Guarded(s)
  BY DEF CodeOK
<1>9. CodeOK(code')
  BY <1>7, <1>8 DEF CodeOK
<1>. QED BY <1>2, <1>5, <1>6, <1>9

\* A statement is at the place of the job that emits it.
LEMMA StmtOK ==
  ASSUME NEW j, JobOK(j), NEW op, NEW unless, j.unless \subseteq unless
  PROVE  LET s == Stmt(j, op, unless) IN
         /\ s.at \in Seq(Part) /\ Guarded(s) /\ Inherits(s, j)
         /\ s.op = op /\ s.own = j.own /\ s.unless = unless
<1>. DEFINE s == Stmt(j, op, unless)
<1>1. s.of = j.of /\ s.at = j.at /\ s.own = j.own /\ s.notNil = j.notNil /\ s.op = op
      /\ s.unless = unless
  BY DEF Stmt
<1>. HIDE DEF s
<1>2. s.at \in Seq(Part) /\ Guarded(s)
  BY <1>1 DEF JobOK, Guarded
<1>3. Inherits(s, j)
  BY <1>1 DEF Inherits, Within
<1>. QED BY <1>1, <1>2, <1>3 DEF s

\* The job a step takes up, and the type it finds.
LEMMA JobHere ==
  ASSUME RunInv, WorkInv, NEW kinds, Meets(kinds)
  PROVE  job \in jobs /\ JobOK(job) /\ type \in Exprs
<1>1. job \in jobs
  BY DEF Meets, job
<1>2. JobOK(job)
  BY <1>1 DEF WorkInv
<1>3. type \in Exprs
  BY <1>2, Names, ResolveType DEF RunInv, JobOK, type
<1>. QED BY <1>1, <1>2, <1>3

\* A job that ends in one statement.
LEMMA EmitOne ==
  ASSUME RunInv, WorkInv, NEW kinds, Meets(kinds), NEW op, Emit({Stmt(job, op, job.unless)}, {})
  PROVE  WorkInv'
<1>1. job \in jobs /\ JobOK(job)
  BY JobHere
<1>. DEFINE s == Stmt(job, op, job.unless)
<1>2. s.at \in Seq(Part) /\ Guarded(s) /\ Inherits(s, job)
  BY <1>1, StmtOK
<1>3. Disjoint(s, s)
  BY DEF Disjoint
<1>. HIDE DEF s
<1>4. code' = code \cup {s} /\ jobs' = (jobs \ {job}) \cup {}
  BY DEF Emit, s
<1>5. Emission(job, {s}, {})
  BY <1>2, <1>3 DEF Emission
<1>. QED BY <1>1, <1>4, <1>5, EmitStep

LEMMA PointerStep == RunInv /\ WorkInv /\ EmitPointer => WorkInv'
<1>. SUFFICES ASSUME RunInv, WorkInv, EmitPointer PROVE WorkInv'
  OBVIOUS
<1>1. job \in jobs /\ JobOK(job) /\ type \in Exprs
  BY JobHere DEF EmitPointer
<1>. DEFINE c == Append(job.at, "*")
            k == Job(job.of, c, type.elem,
                     IF job.type.kind = "pointer" THEN type.elem ELSE job.type,
                     job.notNil \cup {job.at}, job.unless)
<1>2. type.elem \in Exprs
  BY <1>1, ExprAssumption DEF EmitPointer, Meets, KindOf
<1>3. k.at = c /\ k.type = type.elem /\ k.notNil = job.notNil \cup {job.at} /\ k.of = job.of
      /\ k.unless = job.unless
  BY DEF Job
<1>4. /\ c \in Seq(Part) /\ DOMAIN c = 1 .. Len(job.at) + 1 /\ Within(c, job.at)
      /\ \A i \in DOMAIN job.at : SubSeq(c, 1, i - 1) = SubSeq(job.at, 1, i - 1)
      /\ SubSeq(c, 1, Len(job.at)) = job.at
      /\ Len(job.at) \in Nat /\ DOMAIN job.at = 1 .. Len(job.at)
  <2>1. job.at \in Seq(Part)
    BY <1>1 DEF JobOK
  <2>2. Len(job.at) \in Nat /\ DOMAIN job.at = 1 .. Len(job.at)
    BY <2>1
  <2>3. "*" \in Part
    BY DEF Part
  <2>4. /\ c \in Seq(Part) /\ DOMAIN c = 1 .. Len(job.at) + 1 /\ Within(c, job.at)
        /\ \A i \in DOMAIN job.at : SubSeq(c, 1, i - 1) = SubSeq(job.at, 1, i - 1)
        /\ SubSeq(c, 1, Len(job.at)) = job.at
    BY <2>1, <2>3, Child, Zenon
  <2>. QED BY <2>2, <2>4
<1>5. code' = code \cup {} /\ jobs' = (jobs \ {job}) \cup {k}
  BY DEF EmitPointer, Emit
<1>. HIDE DEF c, k
<1>6. ASSUME NEW i \in DOMAIN k.at, k.at[i] = "*"
      PROVE  SubSeq(k.at, 1, i - 1) \in k.notNil
  <2>1. i \in DOMAIN job.at \/ i - 1 = Len(job.at)
    BY <1>3, <1>4
  <2>2. CASE i \in DOMAIN job.at
    <3>1. job.at[i] = "*"
      BY <1>3, <1>4, <1>6, <2>2 DEF Within
    <3>2. SubSeq(job.at, 1, i - 1) \in job.notNil
      BY <1>1, <2>2, <3>1 DEF JobOK, Guarded
    <3>. QED BY <1>3, <1>4, <2>2, <3>2
  <2>3. CASE i - 1 = Len(job.at)
    BY <1>3, <1>4, <2>3
  <2>. QED BY <2>1, <2>2, <2>3
<1>7. JobOK(k) /\ Inherits(k, job)
  BY <1>2, <1>3, <1>4, <1>6 DEF JobOK, Guarded, Inherits
<1>8. Emission(job, {}, {k})
  BY <1>7 DEF Emission
<1>. QED BY <1>1, <1>5, <1>8, EmitStep

LEMMA StructStep == RunInv /\ WorkInv /\ EmitStruct => WorkInv'
<1>. SUFFICES ASSUME RunInv, WorkInv, EmitStruct PROVE WorkInv'
  OBVIOUS
<1>1. job \in jobs /\ JobOK(job) /\ type \in Exprs
  BY JobHere DEF EmitStruct
<1>2. type.kind = "struct"
  BY DEF EmitStruct, Meets, KindOf
<1>. DEFINE s == Stmt(job, "call", job.unless)
            unless == job.unless \cup {job.own}
            new == FieldJobs(job.of, job.at, type, job.notNil, unless)
<1>3. /\ s.at \in Seq(Part) /\ Guarded(s) /\ Inherits(s, job)
      /\ s.op = "call" /\ s.own = job.own
  BY <1>1, StmtOK
<1>4. Children(new, job.of, job.at, unless)
  <2>1. job.at \in Seq(Part) /\ Tested(job.at, job.notNil)
    BY <1>1 DEF JobOK, Guarded, Tested
  <2>. QED BY <1>1, <1>2, <2>1, Fields
<1>5. code' = code \cup {s} /\ jobs' = (jobs \ {job}) \cup new
  BY DEF EmitStruct, Emit
<1>. HIDE DEF s, new
<1>6. \A k \in new : Inherits(k, job) /\ YieldsTo(k, s)
  BY <1>3, <1>4 DEF Inherits, YieldsTo, Children
<1>7. Disjoint(s, s)
  BY DEF Disjoint
<1>8. Emission(job, {s}, new)
  BY <1>3, <1>4, <1>6, <1>7 DEF Emission, Children
<1>. QED BY <1>1, <1>5, <1>8, EmitStep

LEMMA CallOrZeroStep == RunInv /\ WorkInv /\ EmitResetCallOrZero => WorkInv'
<1>. SUFFICES ASSUME RunInv, WorkInv, EmitResetCallOrZero PROVE WorkInv'
  OBVIOUS
<1>1. job \in jobs /\ JobOK(job)
  BY JobHere DEF EmitResetCallOrZero
<1>. DEFINE call == Stmt(job, "call", job.unless)
            zero == Stmt(job, "zero", job.unless \cup {job.own})
<1>2. /\ call.at \in Seq(Part) /\ Guarded(call) /\ Inherits(call, job)
      /\ call.op = "call" /\ call.own = job.own
  BY <1>1, StmtOK
<1>3. /\ zero.at \in Seq(Part) /\ Guarded(zero) /\ Inherits(zero, job)
      /\ zero.unless = job.unless \cup {job.own}
  BY <1>1, StmtOK
<1>4. code' = code \cup {call, zero} /\ jobs' = (jobs \ {job}) \cup {}
  BY DEF EmitResetCallOrZero, Emit
<1>. HIDE DEF call, zero
<1>5. YieldsTo(zero, call)
  BY <1>2, <1>3 DEF YieldsTo
<1>6. \A s, t \in {call, zero} : Disjoint(s, t)
  BY <1>5 DEF Disjoint
<1>7. Emission(job, {call, zero}, {})
  BY <1>2, <1>3, <1>6 DEF Emission
<1>. QED BY <1>1, <1>4, <1>7, EmitStep

-----------------------------------------------------------------------------
(* Invariance *)

LEMMA InitInv == Init => IInv
<1>. SUFFICES ASSUME Init PROVE IInv
  OBVIOUS
<1>1. RunInv
  BY BoundAssumption DEF Init, RunInv, Over
<1>2. WorkInv
  BY DEF Init, WorkInv, CodeOK
<1>3. DiskInv
  BY DEF Init, DiskInv
<1>. QED BY <1>1, <1>2, <1>3 DEF IInv

\* The jobs a package begins with: the fields of its marked types.
LEMMA PackageStep == RunInv /\ WorkInv /\ NextPackage => WorkInv' /\ pkg' \in Packages
<1>. SUFFICES ASSUME RunInv, WorkInv, NextPackage PROVE WorkInv' /\ pkg' \in Packages
  OBVIOUS
<1>1. PICK p \in left :
        /\ pkg' = p /\ code' = {}
        /\ jobs' = UNION {FieldJobs(n, <<>>, TypeByName(p)[n], {}, {}) : n \in Marked(p)}
  BY DEF NextPackage
<1>. DEFINE new(n) == FieldJobs(n, <<>>, TypeByName(p)[n], {}, {})
<1>2. ASSUME NEW n \in Marked(p)
      PROVE  Children(new(n), n, <<>>, {})
  <2>1. TypeByName(p)[n] \in Exprs /\ TypeByName(p)[n].kind = "struct"
    BY Names DEF RunInv
  <2>2. <<>> \in Seq(Part) /\ Tested(<<>>, {})
    BY DEF Tested
  <2>. QED BY <2>1, <2>2, Fields
<1>3. \A j \in jobs' : \E n \in Marked(p) : j \in new(n)
  BY <1>1
<1>. HIDE DEF new
<1>4. \A j \in jobs' : JobOK(j)
  BY <1>2, <1>3 DEF Children
<1>5. \A j, k \in jobs' : j.of = k.of /\ j # k => Apart(j.at, k.at)
  BY <1>2, <1>3 DEF Children
<1>6. code' = {} /\ CodeOK(code')
  BY <1>1 DEF CodeOK
<1>7. WorkInv'
  BY <1>4, <1>5, <1>6 DEF WorkInv
<1>8. p \in Packages
  BY DEF RunInv
<1>. QED BY <1>1, <1>7, <1>8

LEMMA WorkStep == IInv /\ [Next]_vars => WorkInv'
<1>. SUFFICES ASSUME IInv, [Next]_vars PROVE WorkInv'
  OBVIOUS
<1>. USE DEF IInv
<1>1. CASE UNCHANGED <<jobs, code>>
  BY <1>1 DEF WorkInv
<1>2. CASE EmitZero \/ EmitSlice \/ EmitClear
  BY <1>2, EmitOne DEF EmitZero, EmitSlice, EmitClear
<1>3. CASE NextPackage \/ EmitPointer \/ EmitStruct \/ EmitResetCallOrZero
  BY <1>3, PackageStep, PointerStep, StructStep, CallOrZeroStep
<1>4. CASE Again
  BY <1>4 DEF Again, WorkInv, CodeOK
<1>5. CASE Scan \/ Overflow \/ Compare \/ CreateTemp \/ Write \/ Rename \/ IOError \/ Done \/ Kill
  <2>1. UNCHANGED <<jobs, code>>
    BY <1>5 DEF Scan, Overflow, Compare, CreateTemp, Write, Rename, IOError, Done, Kill, Go
  <2>. QED BY <1>1, <2>1
<1>6. CASE UNCHANGED vars
  BY <1>1, <1>6 DEF vars
<1>. QED BY <1>2, <1>3, <1>4, <1>5, <1>6 DEF Next

LEMMA DiskStep == IInv /\ [Next]_vars => DiskInv'
<1>. SUFFICES ASSUME IInv, [Next]_vars PROVE DiskInv'
  OBVIOUS
<1>. USE DEF IInv
<1>1. CASE UNCHANGED disk
  BY <1>1 DEF DiskInv
<1>2. CASE Rename
  <2>1. disk' = [disk EXCEPT ![pkg[1]] = Content]
    BY <1>2 DEF Rename
  <2>2. Content.whole /\ Content.code = code /\ CodeOK(code)
    BY DEF Content, WorkInv
  <2>3. CodeOK(Content.code)
    BY <2>2
  <2>. HIDE DEF IInv
  <2>4. DOMAIN disk' = Dirs
    BY <2>1 DEF DiskInv, IInv
  <2>5. \A d \in Dirs : disk'[d] = disk[d] \/ disk'[d] = Content
    BY <2>1 DEF DiskInv, IInv
  <2>6. ASSUME NEW d \in Dirs, disk'[d] # NoFile
        PROVE  disk'[d].whole /\ CodeOK(disk'[d].code)
    <3>1. CASE disk'[d] = disk[d]
      BY <2>6, <3>1 DEF DiskInv, IInv
    <3>2. CASE disk'[d] = Content
      BY <2>2, <2>3, <3>2
    <3>. QED BY <2>5, <3>1, <3>2
  <2>. QED BY <2>4, <2>6 DEF DiskInv
<1>3. CASE UNCHANGED vars
  BY <1>1, <1>3 DEF vars
<1>4. CASE Next /\ ~Rename
  <2>1. UNCHANGED disk
    BY <1>4 DEF Next, Scan, NextPackage, EmitZero, EmitSlice, EmitClear, EmitPointer, EmitStruct,
      EmitResetCallOrZero, Emit, Overflow, Compare, CreateTemp, Write, IOError, Done, Kill, Again
  <2>. QED BY <1>1, <2>1
<1>. QED BY <1>2, <1>3, <1>4

LEMMA RunStep == IInv /\ [Next]_vars => RunInv'
<1>. SUFFICES ASSUME IInv, [Next]_vars PROVE RunInv'
  OBVIOUS
<1>. USE DEF IInv
<1>1. root' = root => Packages' = Packages
  BY DEF Packages, Scanned
<1>2. CASE Scan
  <2>1. left' \subseteq Packages
    BY <1>2 DEF Scan, RunInv
  <2>2. stage' \in {"failed", "next"} /\ UNCHANGED <<root, runs, pkg>>
    BY <1>2 DEF Scan
  <2>3. stage' \in Over \cup {"next"} /\ stage' # "generate" /\ stage' # "scan"
    BY <2>2 DEF Over
  <2>. QED BY <1>1, <2>1, <2>2, <2>3 DEF RunInv
<1>3. CASE NextPackage
  <2>1. pkg' \in Packages
    BY <1>3, PackageStep
  <2>2. left' \subseteq left
    BY <1>3 DEF NextPackage
  <2>. QED BY <1>1, <1>3, <2>1, <2>2 DEF NextPackage, RunInv
<1>4. CASE EmitZero \/ EmitSlice \/ EmitClear \/ EmitPointer \/ EmitStruct \/ EmitResetCallOrZero
  <2>1. UNCHANGED <<root, runs, stage, left, pkg>>
    BY <1>4 DEF EmitZero, EmitSlice, EmitClear, EmitPointer, EmitStruct, EmitResetCallOrZero, Emit
  <2>. QED BY <1>1, <2>1 DEF RunInv
<1>5. CASE Overflow
  BY <1>1, <1>5 DEF Overflow, RunInv, Over
<1>6. CASE Compare \/ CreateTemp \/ Write \/ Rename \/ IOError \/ Done \/ Kill
  <2>1. /\ UNCHANGED <<root, runs, left, pkg>>
        /\ stage' \in Over \cup {"next", "create", "write", "rename"}
    BY <1>6 DEF Compare, CreateTemp, Write, Rename, IOError, Done, Kill, Go, Over
  <2>2. stage' # "generate" /\ stage' # "scan"
    BY <2>1 DEF Over
  <2>. QED BY <1>1, <2>1, <2>2 DEF RunInv
<1>7. CASE Again
  BY <1>7, BoundAssumption DEF Again, RunInv
<1>8. CASE UNCHANGED vars
  BY <1>1, <1>8 DEF vars, RunInv
<1>. QED BY <1>2, <1>3, <1>4, <1>5, <1>6, <1>7, <1>8 DEF Next

\* Whenever it is killed and whatever it is run on, the generator keeps jobs apart and
\* has written only whole files (main.go, emitResetForType and writeFileIfChanged).
THEOREM Invariance == Spec => []IInv
<1>1. IInv /\ [Next]_vars => IInv'
  BY WorkStep, DiskStep, RunStep DEF IInv
<1>. QED BY InitInv, <1>1, PTL DEF Spec

\* Every reset.gen.go is whole, its statements test the pointers on the way to their places,
\* and no two of them reset one place, for any sources, runs, errors and kills
\* (emitResetForType and writeFileIfChanged).
THEOREM TypeSafe == Spec => []TypeOK
<1>1. IInv => TypeOK
  BY DEF IInv, RunInv, DiskInv, CodeOK, TypeOK
<1>. QED BY Invariance, <1>1, PTL
-----------------------------------------------------------------------------
(* Packages are generated in their order, each of them completely *)

Busy == {"generate", "create", "write", "rename"}

\* The packages that are done with.
Generated == {p \in Packages : Marked(p) # {} /\ p \notin left /\ ~(stage \in Busy /\ p = pkg)}

OnDisk(p) == disk[p[1]].pkg = p[2] /\ Traced(p, {}, disk[p[1]].code)

\* The file of a directory is that of its last package generated so far, and the recursion
\* has ended for each package.
GeneratedInv ==
  \A p \in Generated : /\ Ends(p)
                       /\ \A q \in left : Before(p, q)
                       /\ stage \in Busy => Before(p, pkg)
                       /\ OnDisk(p) \/ \E q \in Generated : q[1] = p[1] /\ Before(p, q)

BusyInv ==
  /\ pkg \in Packages /\ Marked(pkg) # {} /\ pkg \notin left
  /\ \A q \in left : Before(pkg, q)
  /\ Traced(pkg, jobs, code)
  /\ stage # "generate" => jobs = {}

OrderInv ==
  stage \in Busy \cup {"next", "done"} =>
    /\ \A p \in left : p \in Packages /\ Marked(p) # {}
    /\ GeneratedInv
    /\ stage \in Busy => BusyInv
    /\ stage = "done" => left = {}

\* As long as the sources are the same, so are the places and their statements.
LEMMA SameSources ==
  ASSUME UNCHANGED root
  PROVE  /\ Packages' = Packages
         /\ \A p : Marked(p)' = Marked(p)
         /\ \A p, js, stmts : Traced(p, js, stmts) => Traced(p, js, stmts)'
         /\ \A p : Ends(p) => Ends(p)'
         /\ \A p, n : SelfReferring(p, n)' = SelfReferring(p, n)
<1>1. \A p : TypeByName(p)' = TypeByName(p)
  BY DEF Files, Scanned, TypeByName
<1>2. \A p, x : Inside(p, x)' = Inside(p, x) /\ Kind(p, x)' = Kind(p, x)
  BY <1>1 DEF Kind, Inside
<1>3. \A p, n : Locations(p, n)' = Locations(p, n)
  BY DEF Locations, Inside, Files, Scanned, TypeByName
<1>4. \A p, n, c : Own(p, n, c)' = Own(p, n, c)
  BY DEF Own, Kind, Locations, Inside, Files, Scanned, TypeByName
<1>5. \A p, n, c : Above(p, n, c)' = Above(p, n, c)
  BY <1>2, <1>3, <1>4 DEF Above, Structs
<1>6. \A p, n, c : Context(p, n, c)' = Context(p, n, c)
  BY <1>4, <1>5 DEF Context
<1>7. \A p, j : Statements(p, j)' = Statements(p, j)
  BY <1>1 DEF Statements
<1>8. \A p, n : Reach(p, n)' = Reach(p, n)
  BY <1>2, <1>3 DEF Reach
<1>9. Packages' = Packages /\ \A p : Marked(p)' = Marked(p)
  BY DEF Packages, Marked, Files, Scanned
<1>10. ASSUME NEW p, NEW js, NEW stmts, Traced(p, js, stmts)
       PROVE  Traced(p, js, stmts)'
  BY <1>3, <1>6, <1>7, <1>8, <1>9, <1>10 DEF Traced, Origin, Cover
<1>11. \A p : Ends(p) => Ends(p)'
  BY <1>3, <1>8, <1>9 DEF Ends
<1>12. \A p, n : SelfReferring(p, n)' = SelfReferring(p, n)
  BY <1>1, <1>3 DEF SelfReferring
<1>. QED BY <1>9, <1>10, <1>11, <1>12

\* Each step of emitResetForType does all that its call stands for.
LEMMA EmitsAll ==
  ASSUME root \in Roots, NEW n \in Marked(pkg), NEW l \in Locations(pkg, n),
         l.at # <<>>, job = Context(pkg, n, l),
         EmitZero \/ EmitSlice \/ EmitClear \/ EmitPointer \/ EmitStruct \/ EmitResetCallOrZero
  PROVE  Emit(Statements(pkg, job), {Context(pkg, n, c) : c \in Inside(pkg, l)})
<1>. DEFINE new == {Context(pkg, n, c) : c \in Inside(pkg, l)}
<1>1. l \in Place
  BY ReachesAll DEF Reaches
<1>2. /\ job.of = n /\ job.at = l.at /\ job.type = l.type /\ job.own = Own(pkg, n, l)
      /\ job.notNil = Nils(l.at) /\ job.unless = Above(pkg, n, l)
  BY ContextParts
<1>3. type = Resolve(TypeByName(pkg), l.type) /\ Kind(pkg, l) = type.kind /\ type \in Exprs
  BY <1>1, <1>2, Insides DEF type, Kind
<1>4. KindOf(type) \in {"primitive", type.kind} /\ (KindOf(type) = "primitive" => type.kind = "ident")
      /\ type.kind \in {"ident", "foreign", "pointer", "struct", "array", "slice", "map", "opaque"}
  BY <1>3, ExprAssumption DEF KindOf
<1>5. type.kind \notin {"struct", "pointer"} => new = {}
  BY <1>1, <1>3, Insides
<1>6. Statements(pkg, job) =
        CASE KindOf(type) \in {"primitive", "array", "opaque"} -> {Stmt(job, "zero", job.unless)}
          [] KindOf(type) = "slice"  -> {Stmt(job, "cut", job.unless)}
          [] KindOf(type) = "map"    -> {Stmt(job, "clear", job.unless)}
          [] KindOf(type) = "struct" -> {Stmt(job, "call", job.unless)}
          [] KindOf(type) \in {"ident", "foreign"} ->
               {Stmt(job, "call", job.unless), Stmt(job, "zero", job.unless \cup {job.own})}
          [] OTHER -> {}
  BY Zenon DEF Statements, type
<1>. HIDE DEF new
<1>7. CASE EmitZero \/ EmitSlice \/ EmitClear \/ EmitResetCallOrZero
  <2>1. /\ KindOf(type) \in {"primitive", "array", "opaque", "slice", "map", "ident", "foreign"}
        /\ Emit(Statements(pkg, job), {})
    BY <1>6, <1>7 DEF EmitZero, EmitSlice, EmitClear, EmitResetCallOrZero, Meets
  <2>2. type.kind \notin {"struct", "pointer"}
    BY <1>4, <2>1
  <2>. QED BY <1>5, <2>1, <2>2 DEF new
<1>8. CASE EmitPointer
  <2>1. KindOf(type) = "pointer" /\ type.kind = "pointer"
    BY <1>4, <1>8 DEF EmitPointer, Meets
  <2>2. new = {Job(n, Append(l.at, "*"), type.elem,
                   IF l.type.kind = "pointer" THEN type.elem ELSE l.type,
                   Nils(l.at) \cup {l.at}, Above(pkg, n, l))}
    BY <1>3, <2>1, ContextOfElem DEF new
  <2>3. Statements(pkg, job) = {}
    BY <1>6, <2>1
  <2>. QED BY <1>2, <1>8, <2>2, <2>3 DEF EmitPointer, new
<1>9. CASE EmitStruct
  <2>1. KindOf(type) = "struct" /\ type.kind = "struct"
    BY <1>4, <1>9 DEF EmitStruct, Meets
  <2>2. new = FieldJobs(n, l.at, type, Nils(l.at), Above(pkg, n, l) \cup {Own(pkg, n, l)})
    BY <1>3, <2>1, ContextOfFields DEF new
  <2>3. Statements(pkg, job) = {Stmt(job, "call", job.unless)}
    BY <1>6, <2>1
  <2>. QED BY <1>2, <1>9, <2>2, <2>3 DEF EmitStruct, new
<1>. QED BY <1>7, <1>8, <1>9

LEMMA EmitTraces ==
  ASSUME RunInv, BusyInv, stage = "generate",
         EmitZero \/ EmitSlice \/ EmitClear \/ EmitPointer \/ EmitStruct \/ EmitResetCallOrZero
  PROVE  BusyInv' /\ UNCHANGED <<root, stage, left, pkg, disk>>
<1>1. \E stmts, new : Emit(stmts, new)
  BY DEF EmitZero, EmitSlice, EmitClear, EmitPointer, EmitStruct, EmitResetCallOrZero
<1>2. UNCHANGED <<root, stage, left, pkg, disk>>
  BY <1>1 DEF Emit
<1>3. job \in jobs /\ Len(job.at) <= MaxDepth
  BY DEF EmitZero, EmitSlice, EmitClear, EmitPointer, EmitStruct, EmitResetCallOrZero, Meets, job
<1>0. PICK n \in Marked(pkg) :
        \E l \in Reach(pkg, n) : l.at # <<>> /\ job = Context(pkg, n, l)
  BY <1>3 DEF BusyInv, Traced, Origin
<1>4. PICK l \in Reach(pkg, n) : l.at # <<>> /\ job = Context(pkg, n, l)
  BY <1>0
<1>5. l \in Locations(pkg, n)
  <2>1. Len(l.at) <= MaxDepth
    BY <1>3, <1>4, ContextParts
  <2>2. Reaches(pkg, n)
    BY ReachesAll DEF RunInv
  <2>. QED BY <2>1, <2>2 DEF Reaches
<1>6. Emit(Statements(pkg, job), {Context(pkg, n, c) : c \in Inside(pkg, l)})
  BY <1>4, <1>5, EmitsAll DEF RunInv
<1>7. Traced(pkg, jobs', code')
  <2>1. Traced(pkg, (jobs \ {Context(pkg, n, l)}) \cup {Context(pkg, n, c) : c \in Inside(pkg, l)},
               code \cup Statements(pkg, Context(pkg, n, l)))
    BY <1>3, <1>4, <1>5, TraceStep DEF RunInv, BusyInv
  <2>2. /\ jobs' = (jobs \ {job}) \cup {Context(pkg, n, c) : c \in Inside(pkg, l)}
        /\ code' = code \cup Statements(pkg, job)
    BY <1>6 DEF Emit
  <2>. QED BY <1>4, <2>1, <2>2
<1>8. Traced(pkg, jobs, code)'
  BY <1>2, <1>7, SameSources
<1>9. Packages' = Packages /\ Marked(pkg)' = Marked(pkg)
  BY <1>2, SameSources
<1>10. (\A q \in left : Before(pkg, q))'
  BY <1>2 DEF BusyInv, Before
<1>. QED BY <1>2, <1>8, <1>9, <1>10 DEF BusyInv

\* A package becomes the last one generated in its directory.
LEMMA PackageDone ==
  ASSUME RunInv, DiskInv, OrderInv, stage \in Busy, jobs = {}, UNCHANGED <<root, left, pkg, jobs, code>>,
         stage' = "next",
         disk' = [disk EXCEPT ![pkg[1]] = Content] \/ (UNCHANGED disk /\ disk[pkg[1]] = Content)
  PROVE  OrderInv'
<1>1. BusyInv /\ GeneratedInv /\ \A p \in left : p \in Packages /\ Marked(p) # {}
  BY DEF OrderInv
<1>2. Packages' = Packages /\ (\A p : Marked(p)' = Marked(p))
      /\ (\A p, js, stmts : Traced(p, js, stmts) => Traced(p, js, stmts)')
      /\ \A p : Ends(p) => Ends(p)'
  BY SameSources
<1>3. Generated' = Generated \cup {pkg}
  BY <1>1, <1>2 DEF Generated, BusyInv, Busy
<1>4. pkg[1] \in Dirs
  <2>1. PICK f \in root : pkg = <<f.dir, f.pkg>>
    BY <1>1 DEF BusyInv, Packages, Scanned
  <2>. QED BY <2>1, SourceAssumption DEF RunInv
<1>5. disk'[pkg[1]] = Content /\ \A d \in Dirs : d # pkg[1] => disk'[d] = disk[d]
  BY <1>4 DEF DiskInv
<1>6. \A p \in Packages : p[1] \in Dirs
  BY SourceAssumption DEF RunInv, Packages, Scanned
<1>7. OnDisk(pkg)'
  <2>1. Content.pkg = pkg[2] /\ Content.code = code
    BY DEF Content
  <2>2. Traced(pkg, {}, code)
    BY <1>1 DEF BusyInv
  <2>. QED BY <1>2, <1>5, <2>1, <2>2 DEF OnDisk
<1>8. Ends(pkg)
  BY <1>1, TracedEnds DEF BusyInv, RunInv
<1>9. ASSUME NEW p \in Generated'
      PROVE  /\ Ends(p)'
             /\ \A q \in left' : Before(p, q)
             /\ OnDisk(p)' \/ \E q \in Generated' : q[1] = p[1] /\ Before(p, q)
  <2>1. CASE p = pkg
    BY <1>1, <1>2, <1>7, <1>8, <2>1 DEF BusyInv
  <2>2. CASE p \in Generated
    <3>1. /\ Ends(p)'
          /\ \A q \in left : Before(p, q)
          /\ Before(p, pkg)
          /\ OnDisk(p) \/ \E q \in Generated : q[1] = p[1] /\ Before(p, q)
      BY <1>1, <1>2, <2>2 DEF GeneratedInv
    <3>2. CASE p[1] = pkg[1]
      BY <1>3, <3>1, <3>2
    <3>3. CASE p[1] # pkg[1]
      <4>1. p[1] \in Dirs
        BY <1>6, <2>2 DEF Generated
      <4>2. OnDisk(p) => OnDisk(p)'
        BY <1>2, <1>5, <3>3, <4>1 DEF OnDisk
      <4>. QED BY <1>3, <3>1, <4>2
    <3>. QED BY <3>2, <3>3
  <2>. QED BY <1>3, <2>1, <2>2
<1>10. GeneratedInv'
  BY <1>9 DEF GeneratedInv, Before, Busy
<1>11. (\A p \in left : p \in Packages /\ Marked(p) # {})'
  BY <1>1, <1>2
<1>. QED BY <1>10, <1>11 DEF OrderInv, Busy

\* Nothing a file depends on is touched.
LEMMA KeepGenerated ==
  ASSUME OrderInv, UNCHANGED <<root, left, pkg, disk>>, stage \in Busy \cup {"next", "done"},
         (stage \in Busy <=> stage' \in Busy)
  PROVE  /\ GeneratedInv'
         /\ (\A p \in left : p \in Packages /\ Marked(p) # {})'
<1>1. Packages' = Packages /\ (\A p : Marked(p)' = Marked(p))
      /\ (\A p, js, stmts : Traced(p, js, stmts) => Traced(p, js, stmts)')
      /\ \A p : Ends(p) => Ends(p)'
  BY SameSources
<1>2. GeneratedInv /\ \A p \in left : p \in Packages /\ Marked(p) # {}
  BY DEF OrderInv
<1>3. Generated' = Generated
  BY <1>1 DEF Generated
<1>4. \A p : OnDisk(p) => OnDisk(p)'
  BY <1>1 DEF OnDisk
<1>5. GeneratedInv'
  BY <1>1, <1>2, <1>3, <1>4 DEF GeneratedInv, Before
<1>. QED BY <1>1, <1>2, <1>5

LEMMA OrderStep == IInv /\ OrderInv /\ [Next]_vars => OrderInv'
<1>. SUFFICES ASSUME IInv, OrderInv, [Next]_vars PROVE OrderInv'
  OBVIOUS
<1>1. RunInv /\ DiskInv
  BY DEF IInv
<1>2. CASE Scan
  <2>1. CASE stage' = "failed"
    BY <2>1 DEF OrderInv, Busy
  <2>2. CASE stage' # "failed"
    <3>1. stage' = "next" /\ left' = {p \in Packages : Marked(p) # {}} /\ UNCHANGED root
      BY <1>2, <2>2 DEF Scan
    <3>2. Packages' = Packages /\ \A p : Marked(p)' = Marked(p)
      BY <3>1, SameSources
    <3>3. Generated' = {}
      BY <3>1, <3>2 DEF Generated
    <3>. QED BY <3>1, <3>2, <3>3 DEF OrderInv, GeneratedInv, Busy
  <2>. QED BY <2>1, <2>2
<1>3. CASE NextPackage
  <2>1. PICK p \in left :
          /\ \A q \in left \ {p} : Before(p, q)
          /\ pkg' = p /\ left' = left \ {p} /\ code' = {} /\ stage' = "generate" /\ stage = "next"
          /\ jobs' = UNION {FieldJobs(n, <<>>, TypeByName(p)[n], {}, {}) : n \in Marked(p)}
          /\ UNCHANGED <<root, disk>>
    BY <1>3 DEF NextPackage
  <2>2. GeneratedInv /\ \A q \in left : q \in Packages /\ Marked(q) # {}
    BY <2>1 DEF OrderInv
  <2>3. Packages' = Packages /\ (\A q : Marked(q)' = Marked(q))
        /\ (\A q, js, stmts : Traced(q, js, stmts) => Traced(q, js, stmts)')
        /\ \A q : Ends(q) => Ends(q)'
    BY <2>1, SameSources
  <2>4. Generated' = Generated
    BY <2>1, <2>2, <2>3 DEF Generated, Busy
  <2>5. \A q : OnDisk(q) => OnDisk(q)'
    BY <2>1, <2>3 DEF OnDisk
  <2>6. ASSUME NEW q \in Generated'
        PROVE  /\ Ends(q)'
               /\ \A r \in left' : Before(q, r)
               /\ Before(q, pkg')
               /\ OnDisk(q)' \/ \E r \in Generated' : r[1] = q[1] /\ Before(q, r)
    BY <2>1, <2>2, <2>3, <2>4, <2>5 DEF GeneratedInv
  <2>7. GeneratedInv'
    BY <2>6 DEF GeneratedInv, Before
  <2>8. Traced(p, jobs', code')
    BY <1>1, <2>1, TraceStart DEF RunInv
  <2>9. BusyInv'
    <3>1. Traced(pkg, jobs, code)'
      BY <2>1, <2>3, <2>8
    <3>2. (pkg \in Packages /\ Marked(pkg) # {} /\ pkg \notin left)'
      BY <2>1, <2>2, <2>3
    <3>3. (\A q \in left : Before(pkg, q))'
      BY <2>1 DEF Before
    <3>. QED BY <2>1, <3>1, <3>2, <3>3 DEF BusyInv
  <2>10. (\A q \in left : q \in Packages /\ Marked(q) # {})'
    BY <2>1, <2>2, <2>3
  <2>. QED BY <2>1, <2>7, <2>9, <2>10 DEF OrderInv
<1>4. CASE EmitZero \/ EmitSlice \/ EmitClear \/ EmitPointer \/ EmitStruct \/ EmitResetCallOrZero
  <2>1. stage = "generate"
    BY <1>4 DEF EmitZero, EmitSlice, EmitClear, EmitPointer, EmitStruct, EmitResetCallOrZero, Meets
  <2>2. BusyInv
    BY <2>1 DEF OrderInv, Busy
  <2>3. BusyInv' /\ UNCHANGED <<root, stage, left, pkg, disk>>
    BY <1>1, <1>4, <2>1, <2>2, EmitTraces
  <2>4. /\ GeneratedInv'
        /\ (\A p \in left : p \in Packages /\ Marked(p) # {})'
    BY <2>1, <2>3, KeepGenerated DEF Busy
  <2>. QED BY <2>1, <2>3, <2>4 DEF OrderInv
<1>5. CASE Overflow \/ IOError \/ Kill \/ Again
  <2>1. stage' \notin Busy \cup {"next", "done"}
    BY <1>5 DEF Overflow, IOError, Kill, Again, Go, Busy
  <2>. QED BY <2>1 DEF OrderInv
<1>6. CASE Compare /\ disk[pkg[1]] = Content
  <2>1. stage \in Busy /\ jobs = {} /\ UNCHANGED <<root, left, pkg, jobs, code, disk>>
        /\ stage' = "next"
    BY <1>6 DEF Compare, Go, Busy
  <2>. QED BY <1>1, <1>6, <2>1, PackageDone
<1>7. CASE CreateTemp \/ Write \/ (Compare /\ disk[pkg[1]] # Content)
  <2>1. /\ UNCHANGED <<root, left, pkg, jobs, code, disk>>
        /\ stage \in Busy /\ stage' \in Busy /\ (stage = "generate" => jobs = {})
    BY <1>7 DEF CreateTemp, Write, Compare, Go, Busy
  <2>2. BusyInv
    BY <2>1 DEF OrderInv
  <2>3. /\ GeneratedInv'
        /\ (\A p \in left : p \in Packages /\ Marked(p) # {})'
    BY <2>1, KeepGenerated
  <2>4. BusyInv'
    <3>1. Packages' = Packages /\ Marked(pkg)' = Marked(pkg)
      BY <2>1, SameSources
    <3>2. Traced(pkg, jobs, code)'
      BY <2>1, <2>2, SameSources DEF BusyInv
    <3>3. (\A q \in left : Before(pkg, q))'
      BY <2>1, <2>2 DEF BusyInv, Before
    <3>. QED BY <2>1, <2>2, <3>1, <3>2, <3>3 DEF BusyInv
  <2>. QED BY <2>1, <2>3, <2>4 DEF OrderInv, Busy
<1>8. CASE Rename
  <2>1. /\ stage \in Busy /\ stage = "rename" /\ UNCHANGED <<root, left, pkg, jobs, code>>
        /\ stage' = "next" /\ disk' = [disk EXCEPT ![pkg[1]] = Content]
    BY <1>8 DEF Rename, Go, Busy
  <2>2. jobs = {}
    BY <2>1 DEF OrderInv, BusyInv
  <2>. QED BY <1>1, <2>1, <2>2, PackageDone
<1>9. CASE Done
  <2>1. stage = "next" /\ stage' = "done" /\ left = {} /\ UNCHANGED <<root, left, pkg, disk>>
    BY <1>9 DEF Done, Go
  <2>2. /\ GeneratedInv'
        /\ (\A p \in left : p \in Packages /\ Marked(p) # {})'
    BY <2>1, KeepGenerated DEF Busy
  <2>. QED BY <2>1, <2>2 DEF OrderInv, Busy
<1>10. CASE UNCHANGED vars
  <2>1. UNCHANGED <<root, left, pkg, jobs, code, disk, stage>>
    BY <1>10 DEF vars
  <2>2. CASE stage \in Busy \cup {"next", "done"}
    <3>1. /\ GeneratedInv'
          /\ (\A p \in left : p \in Packages /\ Marked(p) # {})'
      BY <2>1, <2>2, KeepGenerated
    <3>2. BusyInv => BusyInv'
      <4>1. Packages' = Packages /\ Marked(pkg)' = Marked(pkg)
        BY <2>1, SameSources
      <4>2. Traced(pkg, jobs, code) => Traced(pkg, jobs, code)'
        BY <2>1, SameSources
      <4>3. (\A q \in left : Before(pkg, q)) => (\A q \in left : Before(pkg, q))'
        BY <2>1 DEF Before
      <4>. QED BY <2>1, <4>1, <4>2, <4>3 DEF BusyInv
    <3>. QED BY <2>1, <2>2, <3>1, <3>2 DEF OrderInv
  <2>3. CASE stage \notin Busy \cup {"next", "done"}
    BY <2>1, <2>3 DEF OrderInv
  <2>. QED BY <2>2, <2>3
<1>. QED BY <1>2, <1>3, <1>4, <1>5, <1>6, <1>7, <1>8, <1>9, <1>10 DEF Next

\* When the generator is done, the file of a directory is complete for its last package,
\* whatever was there before (main.go, run and generateFile).
THEOREM Ordered == Spec => []OrderInv
<1>1. Init => OrderInv
  BY DEF Init, OrderInv, Busy
<1>2. IInv /\ OrderInv /\ [Next]_vars => OrderInv'
  BY OrderStep
<1>. QED BY <1>1, <1>2, Invariance, PTL DEF Spec

\* Whoever runs the generator to its end may use the Reset it wrote: it resets every part of
\* a value of each marked type once, or calls the Reset the part has, keeps the pointers and
\* follows no nil pointer, for any sources and whatever files earlier runs have left
\* (emitResetForType and writeFileIfChanged). Values are excepted in which an embedded pointer
\* is nil through which a promoted Reset is called.
THEOREM FilesAreReset == Spec => []FilesReset
<1>1. IInv /\ OrderInv => FilesReset
  <2>1. SUFFICES ASSUME IInv, OrderInv, stage = "done", NEW p \in Packages, Marked(p) # {},
                        \A q \in Packages : q[1] = p[1] /\ Marked(q) # {} => ~Before(p, q)
                 PROVE  /\ disk[p[1]].pkg = p[2]
                        /\ \A n \in Marked(p) :
                             LET pointers == {l.at : l \in {m \in Locations(p, n) : Kind(p, m) = "pointer"}} IN
                             \A nil \in SUBSET pointers :
                               ~NilOnTheWay(p, n, disk[p[1]].code, nil)
                                 => ResetsAll(p, n, disk[p[1]].code, nil)
    BY DEF FilesReset
  <2>2. root \in Roots /\ left = {} /\ GeneratedInv
    BY <2>1 DEF IInv, RunInv, OrderInv
  <2>3. p \in Generated
    BY <2>1, <2>2 DEF Generated, Busy
  <2>4. OnDisk(p)
    <3>1. \A q \in Generated : q[1] = p[1] => ~Before(p, q)
      BY <2>1 DEF Generated
    <3>. QED BY <2>2, <2>3, <3>1 DEF GeneratedInv
  <2>5. ASSUME NEW n \in Marked(p),
               NEW nil \in SUBSET {l.at : l \in {m \in Locations(p, n) : Kind(p, m) = "pointer"}}
        PROVE  ~NilOnTheWay(p, n, disk[p[1]].code, nil) => ResetsAll(p, n, disk[p[1]].code, nil)
    <3>1. \A l \in Locations(p, n) : l.at \in Seq(Part)
      BY <2>2, ReachesAll DEF Reaches, Place
    <3>2. nil \in SUBSET Seq(Part)
      BY <3>1
    <3>. QED BY <2>2, <2>4, <3>2, AllReset DEF OnDisk
  <2>6. disk[p[1]].pkg = p[2]
    BY <2>4 DEF OnDisk
  <2>. QED BY <2>5, <2>6, Zenon
<1>. QED BY <1>1, Invariance, Ordered, PTL

\* The generator overflows its stack for sources in which a marked type refers to itself
\* through fields and pointers, and for no others (emitResetForType has no end of its own).
THEOREM EndsUnlessSelfReferring == Spec => []EndlessIffSelfReferring
<1>1. Init => EndlessIffSelfReferring
  BY DEF Init, EndlessIffSelfReferring
<1>2. ASSUME IInv, OrderInv, EndlessIffSelfReferring, [Next]_vars, stage' = "overflow"
      PROVE  (\E n \in Marked(pkg) : SelfReferring(pkg, n))'
  <2>1. Overflow \/ UNCHANGED vars
    BY <1>2 DEF Next, Scan, NextPackage, EmitZero, EmitSlice, EmitClear, EmitPointer, EmitStruct,
                EmitResetCallOrZero, Meets, Emit, Compare, CreateTemp, Write, Rename, IOError,
                Done, Kill, Again, Go
  <2>2. \E n \in Marked(pkg) : SelfReferring(pkg, n)
    <3>1. CASE Overflow
      <4>1. stage = "generate" /\ job \in jobs /\ Len(job.at) > MaxDepth
        BY <3>1 DEF Overflow, job
      <4>2. Traced(pkg, jobs, code) /\ root \in Roots
        BY <1>2, <4>1 DEF OrderInv, BusyInv, Busy, IInv, RunInv
      <4>3. PICK n \in Marked(pkg) : \E c \in Reach(pkg, n) : c.at # <<>> /\ job = Context(pkg, n, c)
        BY <4>1, <4>2 DEF Traced, Origin
      <4>4. PICK c \in Reach(pkg, n) : job = Context(pkg, n, c)
        BY <4>3
      <4>5. Len(c.at) > MaxDepth
        BY <4>1, <4>4, ContextParts
      <4>. QED BY <4>2, <4>5, Deep
    <3>2. CASE UNCHANGED vars
      BY <1>2, <3>2 DEF EndlessIffSelfReferring, vars
    <3>. QED BY <2>1, <3>1, <3>2
  <2>3. root' = root /\ pkg' = pkg
    BY <2>1 DEF Overflow, vars
  <2>4. Marked(pkg)' = Marked(pkg) /\ \A n : SelfReferring(pkg, n)' = SelfReferring(pkg, n)
    BY <2>3, SameSources
  <2>. QED BY <2>2, <2>3, <2>4
<1>3. ASSUME IInv, OrderInv, stage = "done", NEW p \in Packages, NEW n \in Marked(p)
      PROVE  ~SelfReferring(p, n)
  <2>1. root \in Roots /\ left = {} /\ GeneratedInv
    BY <1>3 DEF IInv, RunInv, OrderInv
  <2>2. p \in Generated
    BY <1>3, <2>1 DEF Generated, Busy
  <2>. QED BY <2>1, <2>2, Endless DEF GeneratedInv
<1>4. IInv /\ OrderInv =>
        (stage = "done" => \A p \in Packages : \A n \in Marked(p) : ~SelfReferring(p, n))
  BY <1>3
<1>5. IInv /\ IInv' /\ OrderInv /\ OrderInv' /\ EndlessIffSelfReferring /\ [Next]_vars
        => EndlessIffSelfReferring'
  <2>1. SUFFICES ASSUME IInv, IInv', OrderInv, OrderInv', EndlessIffSelfReferring, [Next]_vars
                 PROVE  EndlessIffSelfReferring'
    OBVIOUS
  <2>2. (stage = "done" => \A p \in Packages : \A n \in Marked(p) : ~SelfReferring(p, n))'
    BY <1>4, <2>1, PTL
  <2>. QED BY <1>2, <2>1, <2>2 DEF EndlessIffSelfReferring
<1>. QED BY <1>1, <1>5, Invariance, Ordered, PTL DEF Spec

=============================================================================
