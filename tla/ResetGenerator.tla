---------------------------- MODULE ResetGenerator ----------------------------
(***************************************************************************)
(* cmd/reset/main.go: the generator that writes a Reset method for every   *)
(* struct marked generate:reset, one reset.gen.go for each package. A type *)
(* expression is a record, the generated code a set of guarded statements  *)
(* on paths; the process may be killed, and is run again on the same or    *)
(* other sources. What the code does when it runs is in ResetMethods.      *)
(***************************************************************************)
EXTENDS Naturals, FiniteSets, Sequences

CONSTANTS Roots,     \* source trees: sets of files
          Exprs,     \* the type expressions in them
          Dirs,      \* directories, numbered in their order
          NoFile,
          MaxDepth,  \* bound: deeper recursion overflows the stack
          MaxRuns    \* bound on the runs of the generator

ASSUME BoundAssumption == MaxDepth \in Nat /\ MaxRuns \in Nat \ {0} /\ Dirs \subseteq Nat
\* Parts of an expression are expressions, and the fields of a struct have names of their
\* own ("*" stands for what a pointer points to). Blank fields are left out.
ASSUME ExprAssumption ==
  \A t \in Exprs :
    /\ t.kind \in {"ident", "foreign", "pointer", "struct", "array", "slice", "map", "opaque"}
    /\ t.kind = "pointer" => t.elem \in Exprs
    /\ t.kind = "struct" => \A f \in t.fields :
         /\ f.type \in Exprs /\ f.name \in STRING \ {"*"}
         /\ \A g \in t.fields : f.name = g.name => f = g
\* A package declares each of its marked structs once.
ASSUME SourceAssumption ==
  \A files \in Roots : IsFiniteSet(files) /\ \A f \in files :
    /\ f.dir \in Dirs /\ IsFiniteSet(DOMAIN f.types) /\ \A n \in DOMAIN f.types : f.types[n] \in Exprs
    /\ \A n \in f.marked :
         /\ n \in DOMAIN f.types /\ f.types[n].kind = "struct"
         /\ \A g \in files : g.dir = f.dir /\ g.pkg = f.pkg /\ n \in DOMAIN g.types => g = f

\* The stack is deeper than types nest that do not refer to themselves.
ASSUME DepthAssumption ==
  LET nesting == {t \in Exprs : t.kind \in {"struct", "pointer"}} IN
  IsFiniteSet(nesting) /\ Cardinality(nesting) <= MaxDepth

Primitives == {"int", "string"}  \* the predeclared types isPrimitiveIdent lists

VARIABLES
  root,   \* the source tree
  runs,   \* number of runs begun
  stage,  \* where the run is
  left,   \* packages still to be generated
  pkg,    \* the package being generated: its directory and name
  jobs,   \* calls of emitResetForType under way or to come
  code,   \* statements emitted for pkg
  disk    \* reset.gen.go in each directory

vars == <<root, runs, stage, left, pkg, jobs, code, disk>>

Over == {"done", "failed", "overflow", "killed"}

Init ==
  /\ root \in Roots /\ runs = 1 /\ stage = "scan"
  /\ left = {} /\ pkg = <<>> /\ jobs = {} /\ code = {}
  /\ disk = [d \in Dirs |-> NoFile]

-----------------------------------------------------------------------------
(* scanPackages: hidden and vendored directories, tests and generated files *)
(* are "skipped".                                                           *)

Scanned    == {f \in root : f.kind # "skipped"}
Packages   == {<<f.dir, f.pkg>> : f \in Scanned}
Files(p)   == {f \in Scanned : <<f.dir, f.pkg>> = p}
Marked(p)  == UNION {f.marked : f \in Files(p)}
TypeByName(p) ==
  [n \in UNION {DOMAIN f.types : f \in Files(p)} |->
     (CHOOSE f \in Files(p) : n \in DOMAIN f.types).types[n]]

Scan ==
  /\ stage = "scan"
  /\ IF Packages = {} \/ (\E f \in Scanned : f.kind = "broken")
       THEN stage' = "failed" /\ UNCHANGED left
       ELSE stage' = "next" /\ left' = {p \in Packages : Marked(p) # {}}
  /\ UNCHANGED <<root, runs, pkg, jobs, code, disk>>

Before(p, q) == p[1] < q[1] \/ (p[1] = q[1] /\ p[2] < q[2])

Job(of, at, type, own, notNil, unless) ==
  [of |-> of, at |-> at, type |-> type, own |-> own, notNil |-> notNil, unless |-> unless]

FieldJobs(of, at, st, notNil, unless) ==
  {Job(of, Append(at, f.name), f.type, f.type, notNil, unless) : f \in st.fields}

NextPackage ==
  /\ stage = "next"
  /\ \E p \in left :
       /\ \A q \in left \ {p} : Before(p, q)
       /\ pkg' = p /\ left' = left \ {p}
       /\ jobs' = UNION {FieldJobs(n, <<>>, TypeByName(p)[n], {}, {}) : n \in Marked(p)}
  /\ code' = {} /\ stage' = "generate"
  /\ UNCHANGED <<root, runs, disk>>

-----------------------------------------------------------------------------
(* emitResetForType *)

\* resolveType: names of the package are followed to what they stand for.
Resolve(types, t) ==
  LET r[n \in 0 .. Cardinality(DOMAIN types)] ==
        IF n = 0 THEN t
        ELSE IF r[n - 1].kind = "ident" /\ r[n - 1].name \in DOMAIN types \ Primitives
               THEN types[r[n - 1].name] ELSE r[n - 1]
  IN  r[Cardinality(DOMAIN types)]

\* isPrimitiveIdent.
KindOf(t) == IF t.kind = "ident" /\ t.name \in Primitives THEN "primitive" ELSE t.kind

\* Statement: what is done at a path, given the pointers that must not be nil and
\* the types that must not have a Reset; a call is made if *own has one.
Stmt(j, op, unless) ==
  [of |-> j.of, op |-> op, at |-> j.at, own |-> j.own, notNil |-> j.notNil, unless |-> unless]

\* Go's recursion makes the same statements in another order.
job  == CHOOSE j \in jobs : TRUE
type == Resolve(TypeByName(pkg), job.type)

Meets(kinds) ==
  /\ stage = "generate" /\ jobs # {} /\ Len(job.at) <= MaxDepth
  /\ KindOf(type) \in kinds

Emit(stmts, new) ==
  /\ code' = code \cup stmts /\ jobs' = (jobs \ {job}) \cup new
  /\ UNCHANGED <<root, runs, stage, left, pkg, disk>>

EmitZero ==
  Meets({"primitive", "array", "opaque"}) /\ Emit({Stmt(job, "zero", job.unless)}, {})

EmitSlice == Meets({"slice"}) /\ Emit({Stmt(job, "cut", job.unless)}, {})
EmitClear == Meets({"map"}) /\ Emit({Stmt(job, "clear", job.unless)}, {})

\* Mutant: no test for nil.
EmitPointerBlind ==
  /\ Meets({"pointer"})
  /\ Emit({}, {Job(job.of, Append(job.at, "*"), type.elem, type.elem, job.notNil, job.unless)})

\* The pointer itself is asked for Reset; a named pointer type has no methods.
EmitPointer ==
  /\ Meets({"pointer"})
  /\ Emit({}, {Job(job.of, Append(job.at, "*"), type.elem,
                   IF job.type.kind = "pointer" THEN type.elem ELSE job.type,
                   job.notNil \cup {job.at}, job.unless)})

\* Mutant: a struct is left to its Reset.
EmitStructCall ==
  /\ Meets({"struct"})
  /\ Emit({Stmt(job, "call", job.unless)}, {})

\* emitResetStructOrCall. Its fields are emitted also when there is a Reset.
EmitStruct ==
  /\ Meets({"struct"})
  /\ Emit({Stmt(job, "call", job.unless)},
          FieldJobs(job.of, job.at, type, job.notNil, job.unless \cup {job.own}))

\* Names that are not declared here, types of other packages.
EmitResetCallOrZero ==
  /\ Meets({"ident", "foreign"})
  /\ Emit({Stmt(job, "call", job.unless), Stmt(job, "zero", job.unless \cup {job.own})}, {})

Overflow ==
  /\ stage = "generate" /\ jobs # {} /\ Len(job.at) > MaxDepth
  /\ stage' = "overflow"
  /\ UNCHANGED <<root, runs, left, pkg, jobs, code, disk>>

-----------------------------------------------------------------------------
(* writeFileIfChanged *)

Content == [pkg |-> pkg[2], code |-> code, whole |-> TRUE]

Go(from, to) ==
  /\ stage = from /\ stage' = to
  /\ UNCHANGED <<root, runs, left, pkg, jobs, code>>

Compare ==
  /\ jobs = {} /\ Go("generate", IF disk[pkg[1]] = Content THEN "next" ELSE "create")
  /\ UNCHANGED disk

\* Mutant: the file is opened and written in its place.
CreateInPlace ==
  /\ Go("create", "write")
  /\ disk' = [disk EXCEPT ![pkg[1]] = [Content EXCEPT !.whole = FALSE]]

\* A temporary file, which no scan takes for a source, if it is left behind.
CreateTemp == Go("create", "write") /\ UNCHANGED disk
Write      == Go("write", "rename") /\ UNCHANGED disk
Rename     == Go("rename", "next") /\ disk' = [disk EXCEPT ![pkg[1]] = Content]

\* An error of any of these, or of a read in the scan, ends the run; what earlier packages got stays.
IOError ==
  /\ \/ \E s \in {"scan", "create", "write", "rename"} : Go(s, "failed")
     \/ jobs = {} /\ Go("generate", "failed")
  /\ UNCHANGED disk

Done == left = {} /\ Go("next", "done") /\ UNCHANGED disk

Kill == stage \notin Over /\ Go(stage, "killed") /\ UNCHANGED disk

\* The generator is run again, after an edit of the sources perhaps.
Again ==
  /\ stage \in Over /\ runs < MaxRuns
  /\ root' \in Roots /\ runs' = runs + 1 /\ stage' = "scan"
  /\ left' = {} /\ pkg' = <<>> /\ jobs' = {} /\ code' = {}
  /\ UNCHANGED disk

Next ==
  \/ Scan \/ NextPackage
  \/ EmitZero \/ EmitSlice \/ EmitClear \/ EmitPointer \/ EmitStruct
  \/ EmitResetCallOrZero \/ Overflow
  \/ Compare \/ CreateTemp \/ Write \/ Rename \/ IOError \/ Done \/ Kill \/ Again

Spec == Init /\ [][Next]_vars

-----------------------------------------------------------------------------
(* Properties *)

\* A statement is executed only when every pointer on the way to its place is not nil.
Guarded(s) ==
  \A i \in DOMAIN s.at : s.at[i] = "*" => SubSeq(s.at, 1, i - 1) \in s.notNil

\* Neither place is a part of the other.
Apart(p, q) == \E i \in DOMAIN p \cap DOMAIN q : p[i] # q[i]

\* The statement is executed only where the call finds no Reset.
YieldsTo(s, call) == call.op = "call" /\ call.own \in s.unless

\* Two statements never reset the same place both.
Disjoint(s, t) ==
  s.of = t.of /\ s # t => Apart(s.at, t.at) \/ YieldsTo(s, t) \/ YieldsTo(t, s)

\* Every variable keeps its type. A reset.gen.go is whole, whenever the generator is killed,
\* and whatever the sources are, its statements test every pointer on the way to their
\* places (a promoted Reset may follow others) and no two of them reset one place.
TypeOK ==
  /\ root \in Roots /\ runs \in 1 .. MaxRuns
  /\ stage \in Over \cup {"scan", "next", "generate", "create", "write", "rename"}
  /\ left \subseteq Packages
  /\ \A d \in Dirs : disk[d] # NoFile =>
       /\ disk[d].whole
       /\ \A s \in disk[d].code : Guarded(s) /\ \A t \in disk[d].code : Disjoint(s, t)
===============================================================================
