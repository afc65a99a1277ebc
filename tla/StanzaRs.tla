------------------------------ MODULE StanzaRs ------------------------------
(* The Rust stanza: extract/rs. `imports` of the builder is `namespaces`: the *)
(* names that are modules. A path resolves to a descriptor, of a module when *)
(* it ends in "/" or is a crate's root. A type is the segments of its path.  *)
EXTENDS Stanza, TLC

-----------------------------------------------------------------------------
(* query.scm *)
TypeItems == {"struct_item", "enum_item", "union_item", "trait_item"}
Functions == {"function_item", "function_signature_item"}

\* An inline module has a body; `mod m;` says its module is another file.
Inline(t, n) == Type(t, n) = "mod_item" /\ Field(t, n, "body") # 0

Scopes ==
  [x \in Functions \cup {"closure_expression"} |-> "function"]
  @@ [x \in TypeItems \cup {"impl_item"} |-> "type"]
  @@ [source_file |-> "file"] @@ [block |-> "block"] @@ [inline_mod |-> "package"]

Captures(t) ==
  { c \in Matches(t, { <<x, "name", "identifier", "function">> : x \in Functions }
        \cup { <<x, "name", "type_identifier", "type">> : x \in TypeItems \cup {"type_item"} }
        \cup { <<x, "name", "identifier", "constant">> : x \in {"const_item", "static_item"} }
        \cup { <<x, "pattern", "identifier", "variable">> : x \in {"let_declaration", "for_expression"} }
        \cup { <<"mod_item", "name", "identifier", "package">>,
               <<"field_declaration", "name", "field_identifier", "field">>,
               <<"enum_variant", "name", "identifier", "field">>,
               <<"parameter", "pattern", "identifier", "parameter">>,
               <<"type_parameter", "name", "type_identifier", "parameter">> }) :
      c.as = "package" => Inline(t, c.node) }

Uses(t) ==
  Matches(t, { <<"call_expression", "function", "identifier", "call">>,
               <<"field_expression", "value", "identifier", "read">>,
               <<"field_expression", "field", "field_identifier", "read">>,
               <<"scoped_identifier", "path", "identifier", "read">>,
               <<"scoped_identifier", "name", "identifier", "read">>,
               <<"scoped_type_identifier", "name", "type_identifier", "type">>,
               <<"struct_expression", "name", "type_identifier", "type">> })
  \cup Matches2(t, { <<"call_expression", "function", "field_expression", "field", "field_identifier", "call">>,
                     <<"call_expression", "function", "scoped_identifier", "name", "identifier", "call">> })
  \cup Leaves(t, {"type_identifier"}, "type")

-----------------------------------------------------------------------------
(* Names: an uppercase one is a type's. *)
Capitals == {"A", "B", "C", "D", "E", "F", "G", "H", "I", "J", "K", "L", "M",
             "N", "O", "P", "Q", "R", "S", "T", "U", "V", "W", "X", "Y", "Z"}
isTypeName(s) == SubSeq(s, 1, 1) \in Capitals

selfType         == <<"Self">>
rustExternCrates == {"std", "core"}
rustPrelude      == {"Some", "Vec", "println"}
rustPrimitives   == {"u32"}
builtin          == <<"std">>

srcDir     == "src"
modModule  == "mod"
libModule  == "lib"
mainModule == "main"

\* src is layout, a directory's mod.rs is the directory, the crate's root has
\* no segment.
moduleNamespace(path) ==
  LET under == IF Len(path) > 1 /\ path[1] = srcDir THEN Tail(path) ELSE path
      named == IF Len(under) > 1 /\ Last(under) = modModule THEN Front(under) ELSE under
  IN IF named \in {<<>>, <<modModule>>, <<libModule>>, <<mainModule>>} THEN <<>> ELSE NS(named)

\* super of the root stays there.
parentNamespace(ns) == IF ns = <<>> THEN <<>> ELSE Front(ns)

-----------------------------------------------------------------------------
(* Paths. *)
moduleSuffix(b, n) ==
  FoldLeft(LAMBDA s, p : Append(s, <<FieldText(b.tree, p, "name"), "/">>), b.ns,
           InOrder({ p \in Ancestors(b.tree, n) : Inline(b.tree, p) }))

isModule(target) == target.suffix = <<>> \/ Last(target.suffix)[2] = "/"

\* The members of a type are its own, a module's are modules or types.
extend(base, seg) == Hang(base, seg, IF isModule(base) /\ ~isTypeName(seg) THEN "/" ELSE "#")

\* What the name a `use` bound is, where it is declared.
Exported(b, name, mark) == Hang(b.bindings[name].module, b.bindings[name].orig, mark)

\* A path's first segment: what the file bound, a known crate, this crate's.
firstSegment(b, n, name) ==
  IF name \in DOMAIN b.imports THEN b.imports[name]
  ELSE IF name \in DOMAIN b.bindings THEN Exported(b, name, "#")
  ELSE IF name \in rustExternCrates THEN Desc(<< name >>, <<>>)
  ELSE IF name \in rustPrelude THEN Top(builtin, name, "#")
  ELSE Desc(b.coord, Append(moduleSuffix(b, n), <<name, IF isTypeName(name) THEN "#" ELSE "/">>))

\* A path, from the module of the list it is in or from nothing.
pathIn(b, node, base) ==
  LET t == b.tree
      p[n \in 0 .. Len(t)] ==
        LET parent == p[Field(t, n, "path")]
            name   == FieldText(t, n, "name") IN
        CASE n = 0 -> base
          [] Type(t, n) \in {"scoped_identifier", "scoped_type_identifier"} ->
               IF parent = NoTarget \/ name = "" THEN NoTarget ELSE extend(parent, name)
          [] Type(t, n) \in {"identifier", "type_identifier"} ->
               IF base = NoTarget THEN firstSegment(b, n, t[n].text) ELSE extend(base, t[n].text)
          [] Type(t, n) = "crate" -> Desc(b.coord, <<>>)
          [] Type(t, n) = "self"  -> Desc(b.coord, moduleSuffix(b, n))
          [] Type(t, n) = "super" -> Desc(b.coord, parentNamespace(moduleSuffix(b, n)))
          [] Type(t, n) \in {"generic_type", "bracketed_type"} -> p[Field(t, n, "type")]
          [] OTHER -> NoTarget
  IN p[node]

-----------------------------------------------------------------------------
(* Types, as far as the syntax states them. *)
unwrapType(t, node) ==
  LET u[n \in 0 .. Len(t)] ==
        CASE Type(t, n) \in {"reference_type", "pointer_type", "generic_type", "bracketed_type"} ->
               u[Field(t, n, "type")]
          [] Type(t, n) \in {"type_identifier", "scoped_type_identifier", "primitive_type"} -> Words(t, n)
          [] OTHER -> NoType
  IN u[node]

pathText(t, n) ==
  IF Type(t, n) \in {"identifier", "type_identifier", "scoped_identifier", "scoped_type_identifier"}
  THEN Words(t, n) ELSE NoType

\* A literal's type, and the one an associated function is called through.
inferredType(t, expr) ==
  LET e == Bare(t, expr, {"reference_expression", "unary_expression", "parenthesized_expression",
                          "try_expression", "await_expression"})
      fn == Field(t, e, "function")
      path == pathText(t, Field(t, fn, "path"))
  IN CASE Type(t, e) = "struct_expression" -> Words(t, Field(t, e, "name"))
       [] Type(t, e) = "call_expression" /\ Type(t, fn) = "scoped_identifier" /\ path # NoType ->
            IF isTypeName(Last(path)) THEN path ELSE NoType
       [] OTHER -> NoType

declaredType(t, node) ==
  LET stated == unwrapType(t, Field(t, node, "type")) IN
  CASE Type(t, node) = "let_declaration" /\ stated = NoType -> inferredType(t, Field(t, node, "value"))
    [] Type(t, node) \in {"let_declaration", "parameter", "const_item", "static_item", "field_declaration"} ->
         stated
    [] OTHER -> NoType

\* A type's descriptor; its path's text is read, where crate, self and super
\* are names like any other.
typeTarget(b, n, type) ==
  IF Len(type) > 1 THEN FoldLeft(extend, firstSegment(b, n, type[1]), Tail(type))
  ELSE IF type[1] \in DOMAIN b.bindings THEN Exported(b, type[1], "#")
  ELSE IF type[1] \in rustPrelude \cup rustPrimitives THEN Top(builtin, type[1], "#")
  ELSE Desc(b.coord, Append(moduleSuffix(b, n), <<type[1], "#">>))

\* The type an impl is for; Self is not one.
implTarget(b, impl) ==
  LET type == unwrapType(b.tree, Field(b.tree, impl, "type"))
  IN typeTarget(b, impl, IF type = NoType THEN << Unknown >> ELSE type)

containerMark(t, p) ==
  CASE Type(t, p) \in TypeItems \cup {"type_item"} -> "#"
    [] Type(t, p) \in Functions -> "()."
    [] Inline(t, p)             -> "/"
    [] OTHER                    -> ""

\* An impl's members are those of the type it is for, whose crate may be another.
containerSuffix(b, node) ==
  LET t == b.tree
      c[n \in 0 .. Len(t)] ==
        LET p == IF n = 0 THEN 0 ELSE t[n].parent
            name == FieldText(t, p, "name")
        IN CASE p = 0 -> Desc(b.coord, b.ns)
             [] Type(t, p) = "impl_item" -> implTarget(b, p)
             [] containerMark(t, p) # "" /\ name # "" -> Hang(c[p], name, containerMark(t, p))
             [] OTHER -> c[p]
  IN c[node]

enclosingImpl(t, n) == Nearest(t, n, {"impl_item", "trait_item"})

\* Self, and the receiver: the type of the impl, or the trait itself.
selfTarget(b, n) ==
  LET p == enclosingImpl(b.tree, n)
      name == FieldText(b.tree, p, "name")
  IN CASE Type(b.tree, p) = "impl_item" -> implTarget(b, p)
       [] Type(b.tree, p) = "trait_item" /\ name # "" -> Hang(containerSuffix(b, p), name, "#")
       [] OTHER -> NoTarget

resolveTypeName(b, n, type) ==
  IF type = selfType THEN OrElse(selfTarget(b, n), typeTarget(b, n, type)) ELSE typeTarget(b, n, type)

-----------------------------------------------------------------------------
(* Definitions. *)
nearestContainer(t, n) ==
  Nearest(t, n, TypeItems \cup Functions \cup {"impl_item", "closure_expression", "mod_item"})

refineKind(t, c) ==
  IF c.as = "function" /\ Type(t, nearestContainer(t, c.node)) \in {"impl_item", "trait_item"}
  THEN "method"
  ELSE IF t[c.node].type = "trait_item" THEN "interface"
  ELSE c.as

definitionDescriptor(b, c) ==
  LET kind == refineKind(b.tree, c)
      mark == CASE kind \in {"function", "method"} -> "()."
                [] kind \in {"type", "interface"}  -> "#"
                [] kind = "parameter"              -> "()"
                [] kind = "package"                -> "/"
                [] OTHER                           -> "."
  IN Hang(containerSuffix(b, c.node), Text(b.tree, c.name), mark)

-----------------------------------------------------------------------------
(* References. *)
enclosingScope(b, span) == Enclosing(b, span)

lookup(b, name, pos) == Visible(b, name, pos, {})

localTypeAt(b, name, pos) ==
  LET d == lookup(b, name, pos) IN IF d = 0 THEN NoType ELSE b.defs[d].type

\* What a value's members hang off.
valueTarget(b, value, pos) ==
  LET name == Text(b.tree, value)
      type == localTypeAt(b, name, pos)
  IN CASE Type(b.tree, value) = "self" -> selfTarget(b, value)
       [] Type(b.tree, value) = "identifier" /\ type # NoType -> resolveTypeName(b, value, type)
       [] Type(b.tree, value) = "identifier" /\ type = NoType /\ name \in DOMAIN b.bindings ->
            IF isTypeName(b.bindings[name].orig) THEN Exported(b, name, "#") ELSE NoTarget
       [] OTHER -> NoTarget

InModule(b, n, name, mark) == Desc(b.coord, Append(moduleSuffix(b, n), <<name, mark>>))
Member(b, target, n, name, mark) ==
  IF target # NoTarget THEN Hang(target, name, mark)
  ELSE Hang(InModule(b, n, Unknown, "#"), name, mark)

\* `.` reaches a member of a value, `::` an item of a path.
callDescriptor(b, r) ==
  LET t == b.tree
      name == Text(t, r.name)
      fn == Field(t, r.node, "function")
      target == IF Type(t, fn) = "scoped_identifier" THEN pathIn(b, Field(t, fn, "path"), NoTarget)
                ELSE valueTarget(b, Field(t, fn, "value"), t[r.name].from)
  IN IF Type(t, fn) # "identifier" THEN Member(b, target, r.name, name, "().")
     ELSE IF name \in DOMAIN b.bindings THEN Exported(b, name, "().")
     ELSE IF name \in rustPrelude THEN Top(builtin, name, "().")
     ELSE InModule(b, r.name, name, "().")

starts(t, node, f, n) == Field(t, node, f) # 0 /\ t[Field(t, node, f)].from = t[n].from
isFieldValue(t, r)    == t[r.node].type = "field_expression" /\ starts(t, r.node, "value", r.name)
isPathQualifier(t, r) == t[r.node].type = "scoped_identifier" /\ starts(t, r.node, "path", r.name)
isPathPrefix(t, n)    == Field(t, t[n].parent, "path") = n

readDescriptor(b, r) ==
  LET t == b.tree
      name == Text(t, r.name)
      def == lookup(b, name, t[r.name].from)
      path == pathIn(b, Field(t, r.node, "path"), NoTarget)
      value == valueTarget(b, Field(t, r.node, "value"), t[r.name].from)
  IN CASE isFieldValue(t, r) ->
            IF def # 0 THEN DescriptorOf(b, def)
            ELSE IF name \in DOMAIN b.bindings THEN Exported(b, name, ".")
            ELSE InModule(b, r.name, name, ".")
       [] isPathQualifier(t, r) -> firstSegment(b, r.name, name)
       [] t[r.node].type = "scoped_identifier" /\ ~isPathQualifier(t, r) ->
            IF path # NoTarget /\ isPathPrefix(t, r.node) THEN extend(path, name)
            ELSE Member(b, path, r.name, name, ".")
       [] OTHER -> Member(b, value, r.name, name, ".")

typeReferenceDescriptor(b, r) ==
  LET path == pathIn(b, Field(b.tree, r.node, "path"), NoTarget)
      name == Text(b.tree, r.name)
  IN IF Type(b.tree, r.node) = "scoped_type_identifier" /\ path # NoTarget THEN extend(path, name)
     ELSE resolveTypeName(b, r.name, << name >>)

referenceDescriptor(b, r) ==
  CASE r.as = "call" -> callDescriptor(b, r)
    [] r.as = "type" -> typeReferenceDescriptor(b, r)
    [] OTHER         -> readDescriptor(b, r)

refPriority(role) == CASE role = "call" -> 3 [] role = "type" -> 2 [] OTHER -> 1

\* The role, then the wider node.
moreSpecific(t, c, d) ==
  \/ refPriority(c.as) > refPriority(d.as)
  \/ /\ refPriority(c.as) = refPriority(d.as)
     /\ t[c.node].to - t[c.node].from > t[d.node].to - t[d.node].from

-----------------------------------------------------------------------------
(* The passes. *)
addOccurrence(b, desc, role, kind, span) == Added(b, desc, role, kind, span)

collectScopes(b) ==
  LET marked == [n \in DOMAIN b.tree |->
                   IF Inline(b.tree, n) THEN [b.tree[n] EXCEPT !.type = "inline_mod"] ELSE b.tree[n]]
  IN [Scoped([b EXCEPT !.tree = marked], Scopes) EXCEPT !.tree = b.tree]

\* The module a file is: a definition without width at its start, in the file.
collectModule(b) == PackageDefined(b, <<0, 0>>, fileScope(b))

claimSubtree(b, node) == ClaimSubtree(b, node, {"identifier", "type_identifier", "field_identifier"})

\* A lowercase name may be a module as well.
bindUse(b, local, orig, mod) ==
  [b EXCEPT !.bindings = Bind(@, local, [module |-> mod, orig |-> orig]),
            !.imports = IF isTypeName(orig) THEN @ ELSE Bind(@, local, Hang(mod, orig, "/"))]

emitModule(b, n, mod) ==
  IF n = 0 \/ ~isModule(mod) THEN b
  ELSE addOccurrence(b, mod, "reference", "package", Span(b.tree, n))

\* What a node of a use tree does under a base: the module of the list it is in.
useNode(b, n, base) ==
  LET t == b.tree
      path  == Field(t, n, "path")
      name  == FieldText(t, n, "name")
      mod   == pathIn(b, path, base)
      item  == Type(t, path) = "scoped_identifier"
      from  == Field(t, path, "path")
      of    == pathIn(b, from, base)
      alias == FieldText(t, n, "alias")
      whole == pathIn(b, n, NoTarget)
      glob  == pathIn(b, FirstNamed(t, n), base)
  IN CASE Type(t, n) = "scoped_identifier" /\ mod # NoTarget /\ name # "" ->
            bindUse(emitModule(b, path, mod), name, name, mod)
       [] Type(t, n) = "use_as_clause" /\ item /\ of # NoTarget ->
            bindUse(emitModule(b, from, of), alias, FieldText(t, path, "name"), of)
       [] Type(t, n) = "use_as_clause" /\ Type(t, path) = "identifier" /\ base # NoTarget ->
            bindUse(b, alias, Text(t, path), base)
       [] Type(t, n) = "scoped_use_list" /\ mod # NoTarget -> emitModule(b, path, mod)
       [] Type(t, n) = "use_wildcard" /\ FirstNamed(t, n) # 0 /\ glob # NoTarget ->
            emitModule(b, FirstNamed(t, n), glob)
       [] Type(t, n) = "identifier" /\ base # NoTarget -> bindUse(b, t[n].text, t[n].text, base)
       [] Type(t, n) = "identifier" /\ base = NoTarget ->
            [emitModule(b, n, whole) EXCEPT
               !.imports = IF isModule(whole) THEN Bind(@, t[n].text, whole) ELSE @]
       [] Type(t, n) = "self" /\ base # NoTarget /\ base.suffix # <<>> ->
            [b EXCEPT !.imports = Bind(@, Last(base.suffix)[1], base)]
       [] OTHER -> b

\* The nodes it leads to, and their base.
useList(b, n, base) ==
  LET t == b.tree
      mod == pathIn(b, Field(t, n, "path"), base)
      listed(l, m) == [c \in { c \in Kids(t, l) : t[c].named } |-> m]
  IN CASE Type(t, n) = "scoped_use_list" /\ mod # NoTarget -> listed(Field(t, n, "list"), mod)
       [] Type(t, n) = "use_list" -> listed(n, base)
       [] OTHER -> <<>>

\* A use is a tree, walked in preorder from what is used; `under` is the base
\* of each node the walk leads to.
useStep(u, n) ==
  IF n \notin DOMAIN u.under THEN u
  ELSE [b |-> useNode(u.b, n, u.under[n]), under |-> u.under @@ useList(u.b, n, u.under[n])]
useTree(b, node) ==
  FoldLeft(useStep, [b |-> b, under |-> node :> NoTarget],
           InOrder({node} \cup Within(b.tree, node))).b

\* mod m; the module is another file's, under this one's.
modDeclaration(b, stmt, name) ==
  LET mod == InModule(b, stmt, Text(b.tree, name), "/")
  IN addOccurrence([b EXCEPT !.imports = Bind(@, Text(b.tree, name), mod)], mod,
                   "reference", "package", Span(b.tree, name))

externCrate(b, name) ==
  LET crate == Desc(<< Text(b.tree, name) >>, <<>>)
  IN addOccurrence([b EXCEPT !.imports = Bind(@, Text(b.tree, name), crate)], crate,
                   "reference", "package", Span(b.tree, name))

importStatement(b, stmt) ==
  LET t == b.tree
      name == Field(t, stmt, IF t[stmt].type = "use_declaration" THEN "argument" ELSE "name")
      c == claimSubtree(b, name)
  IN CASE t[stmt].type = "use_declaration" -> useTree(c, name)
       [] t[stmt].type = "mod_item"        -> modDeclaration(c, stmt, name)
       [] OTHER                            -> externCrate(c, name)

collectImports(b) ==
  LET t == b.tree IN
  FoldLeft(importStatement, collectModule(b),
    InOrder({ n \in DOMAIN t : /\ t[n].type \in {"use_declaration", "mod_item", "extern_crate_declaration"}
                               /\ ~Inline(t, n) }))

\* An inline module is a name the paths after it may start with.
define(a, c) ==
  LET t == a.tree
      s == Span(t, c.name)
      desc == definitionDescriptor(a, c)
  IN [Defined(a, desc, refineKind(t, c), Text(t, c.name), s, enclosingScope(a, s), declaredType(t, c.node))
        EXCEPT !.imports = IF c.as = "package" THEN Bind(@, Text(t, c.name), desc) ELSE @]
collectDefinitions(b) == Define(b, Captures(b.tree), define)

refer(a, r) ==
  LET s == Span(a.tree, r.name)
  IN Referred(a, referenceDescriptor(a, r), r.as, s, enclosingScope(a, s))

collectReferences(b) ==
  LET cands == Uses(b.tree)
  IN Refer(b, cands, { p \in cands \X cands : moreSpecific(b.tree, p[1], p[2]) }, refer)

\* The module's namespace is the file's path under the crate's root.
Parse(coord, file) ==
  NewBuilder(coord, moduleNamespace(Front(file.path)), Front(Front(file.path)), file.tree)
=============================================================================
