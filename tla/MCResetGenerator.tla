--------------------------- MODULE MCResetGenerator ---------------------------
(* Instances of ResetGenerator for TLC. *)
EXTENDS ResetMethods

Of(kind)      == [kind |-> kind]
Ident(n)      == [kind |-> "ident", name |-> n]
Foreign(n)    == [kind |-> "foreign", name |-> n]
Pointer(t)    == [kind |-> "pointer", elem |-> t]
Struct(fs)    == [kind |-> "struct", fields |-> fs]
Field(n, t)   == [name |-> n, type |-> t, embedded |-> FALSE]
Embed(n, t)   == [name |-> n, type |-> t, embedded |-> TRUE]

Source(dir, p, types, marked, methods) ==
  [dir |-> dir, pkg |-> p, kind |-> "source",
   types |-> types, marked |-> marked, methods |-> methods]

\* Every kind of field; a child with a Reset and one without. The Reset of a named
\* slice is not used.
Kinds == Source(1, 1,
  "S" :> Struct({Field("i", Ident("int")), Field("p", Pointer(Ident("int"))),
                 Field("s", Ident("List")), Field("m", Of("map")), Field("a", Of("array")),
                 Field("e", Ident("error")), Field("o", Of("opaque")),
                 Field("c", Pointer(Ident("Child"))), Field("d", Ident("Plain"))})
  @@ "List" :> Of("slice") @@ "Child" :> Struct({Field("n", Ident("string"))})
  @@ "Plain" :> Struct({Field("n", Ident("Name")), Field("b", Foreign("Buffer"))})
  @@ "Name" :> Ident("Text") @@ "Text" :> Ident("string"),
  {"S"}, {"Child", "Buffer", "List"})

\* Pointers to pointers, a named pointer, a pointer to a type of another package.
Pointers == Source(1, 1,
  "S" :> Struct({Field("q", Pointer(Pointer(Ident("S2")))), Field("r", Ident("Ref")),
                 Field("f", Pointer(Foreign("Other")))})
  @@ "Ref" :> Pointer(Ident("S2")) @@ "S2" :> Struct({Field("i", Ident("int"))}),
  {"S", "S2"}, {})

\* A struct that has its Reset from a marked type it embeds.
Promoted == Source(2, 1,
  "S" :> Struct({Field("w", Ident("Wrap")), Field("v", Ident("Ref"))})
  @@ "Wrap" :> Struct({Embed("Base", Ident("Base")), Field("i", Ident("int"))})
  @@ "Ref" :> Struct({Embed("Base", Pointer(Ident("Base"))), Field("m", Of("map"))})
  @@ "Base" :> Struct({Field("i", Ident("int"))}),
  {"S", "Base"}, {})

\* A Reset that hides a deeper one; two of one depth, which hide one another and a third;
\* one behind two embeddings.
Depths == Source(2, 1,
  "S" :> Struct({Field("h", Ident("Hides")), Field("e", Ident("Equal")), Field("d", Ident("Deep"))})
  @@ "Hides" :> Struct({Embed("Base", Ident("Base")), Embed("Mid", Ident("Mid"))})
  @@ "Equal" :> Struct({Embed("Base", Ident("Base")), Embed("Side", Ident("Side")),
                        Embed("Mid", Ident("Mid"))})
  @@ "Deep" :> Struct({Embed("Mid", Pointer(Ident("Mid")))})
  @@ "Mid"  :> Struct({Embed("Base", Ident("Base")), Field("m", Of("map"))})
  @@ "Side" :> Struct({Field("i", Ident("int"))}) @@ "Base" :> Struct({Field("i", Ident("int"))}),
  {"S", "Base"}, {"Side"})

\* A list, and a pair of types that refer to one another.
Node == Source(1, 2, "Node" :> Struct({Field("next", Pointer(Ident("Node")))}), {"Node"}, {})
Pair == Source(2, 1, "A" :> Struct({Field("b", Pointer(Ident("B")))})
                  @@ "B" :> Struct({Field("a", Pointer(Ident("A")))}), {"A"}, {"B"})

\* Another package in the first directory; nothing marked; a file of no use.
Tool     == Source(1, 2, "T" :> Struct({Field("i", Ident("int"))}), {"T"}, {})
Unmarked == Source(2, 2, "U" :> Struct({Field("i", Ident("int"))}), {}, {})
Skipped  == [Tool EXCEPT !.kind = "skipped"]
Invalid  == [Tool EXCEPT !.kind = "broken"]

MCRoots ==
  {{Kinds, Promoted}, {Pointers, Unmarked}, {Depths}, {Kinds, Tool}, {Promoted, Skipped}, {Pair, Kinds},
   {Node, Pointers}, {Unmarked, Invalid}, {Skipped}}

\* An expression with its parts.
RECURSIVE Parts(_)
Parts(t) ==
  {t} \cup CASE t.kind = "pointer" -> Parts(t.elem)
             [] t.kind = "struct"  -> UNION {Parts(f.type) : f \in t.fields}
             [] OTHER              -> {}

MCExprs == UNION {UNION {Parts(f.types[n]) : n \in DOMAIN f.types} : f \in UNION MCRoots}
===============================================================================
