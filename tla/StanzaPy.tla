------------------------------ MODULE StanzaPy ------------------------------
(* The Python stanza: extract/py. A path's extension is a segment of its own; *)
(* `imports` of the builder is `namespaces`.                                  *)
EXTENDS Stanza

-----------------------------------------------------------------------------
(* query.scm *)
Scopes == [module |-> "file", function_definition |-> "function", lambda |-> "function",
           list_comprehension |-> "function", set_comprehension |-> "function",
           dictionary_comprehension |-> "function", generator_expression |-> "function",
           class_definition |-> "type"]

Captures(t) ==
  Matches(t, { <<"function_definition", "name", "identifier", "function">>,
               <<"class_definition", "name", "identifier", "type">>,
               <<"assignment", "left", "identifier", "variable">>,
               <<"for_statement", "left", "identifier", "variable">>,
               <<"for_in_clause", "left", "identifier", "variable">> })
  \cup { m \in Matches2(t, { <<"assignment", "left", "attribute", "attribute", "identifier", "field">>,
                             <<"as_pattern", "alias", "as_pattern_target", AnyField, "identifier", "variable">> }) :
           m.as = "field" => Type(t, Field(t, Field(t, m.node, "left"), "object")) = "identifier" }
  \cup { m \in Leaves(t, {"identifier"}, "parameter") :
           Type(t, t[m.node].parent) \in {"parameters", "lambda_parameters"} }
  \cup { m \in Matches(t, { <<"typed_parameter", AnyField, "identifier", "parameter">>,
                            <<"default_parameter", "name", "identifier", "parameter">>,
                            <<"typed_default_parameter", "name", "identifier", "parameter">>,
                            <<"list_splat_pattern", AnyField, "identifier", "parameter">>,
                            <<"dictionary_splat_pattern", AnyField, "identifier", "parameter">> }) :
           \/ Type(t, t[m.node].parent) = "parameters"
           \/ Type(t, t[m.node].parent) = "lambda_parameters" /\ t[m.node].type = "default_parameter" }

Uses(t) ==
  Matches(t, { <<"call", "function", "identifier", "call">>,
               <<"attribute", "object", "identifier", "read">>,
               <<"attribute", "attribute", "identifier", "read">>,
               <<"type", AnyField, "identifier", "type">>,
               <<"generic_type", AnyField, "identifier", "type">> })
  \cup Matches2(t, { <<"call", "function", "attribute", "attribute", "identifier", "call">>,
                     <<"class_definition", "superclasses", "argument_list", AnyField, "identifier", "type">> })

-----------------------------------------------------------------------------
(* Modules: a package is the module whose file is __init__, so it is its     *)
(* directory, and dotted paths map to file paths segment by segment.         *)
moduleExts == {".pyi", ".py"}

moduleNamespace(path) ==
  LET bare == IF path # <<>> /\ Last(path) \in moduleExts THEN Front(path) ELSE path
  IN  NS(IF bare # <<>> /\ Last(bare) = "__init__" THEN Front(bare) ELSE bare)

pyStdlib == {"abc", "os", "typing"}

\* A top-level name is the standard library's or else this package's.
resolveModule(b, words) ==
  IF Head(words) \in pyStdlib THEN Desc(<< Head(words) >>, moduleNamespace(Tail(words)))
                              ELSE Desc(b.coord, moduleNamespace(words))

\* One leading dot is the file's package, each further one a directory up; an
\* import that climbs out of the root is foreign. A prefix's `path` is its dots.
resolveFromModule(b, module) ==
  LET t == b.tree
      dots == t[OfType(t, module, "import_prefix")].path
      up == Len(dots) - 1
      tail == Words(t, OfType(t, module, "dotted_name"))
  IN IF Type(t, module) # "relative_import" THEN resolveModule(b, Words(t, module))
     ELSE IF up > Len(b.dir) THEN Desc(dots \o tail, <<>>)
     ELSE Desc(b.coord, moduleNamespace(SubSeq(b.dir, 1, Len(b.dir) - up) \o tail))

-----------------------------------------------------------------------------
(* Types, as far as the syntax states them. *)
unwrapType(t, node) ==
  LET u[n \in 0 .. Len(t)] ==
        CASE Type(t, n) \in {"type", "generic_type"}    -> u[FirstNamed(t, n)]
          [] Type(t, n) \in {"identifier", "attribute"} -> Words(t, n)
          [] Type(t, n) = "string" /\ OfType(t, n, "string_content") # 0 ->
               t[OfType(t, n, "string_content")].path
          [] OTHER -> NoType
  IN u[node]

\* A call of a name is taken for the construction of that type.
inferredType(t, node) ==
  LET v[n \in 0 .. Len(t)] ==
        CASE Type(t, n) = "parenthesized_expression" -> v[FirstNamed(t, n)]
          [] Type(t, n) = "call" /\ Type(t, Field(t, n, "function")) \in {"identifier", "attribute"} ->
               Words(t, Field(t, n, "function"))
          [] OTHER -> NoType
  IN v[node]

annotationText(t, node) ==
  IF Type(t, node) \in {"assignment", "typed_parameter", "typed_default_parameter"}
  THEN unwrapType(t, Field(t, node, "type")) ELSE NoType

declaredType(t, node) ==
  LET stated == annotationText(t, node) IN
  IF stated = NoType /\ Type(t, node) = "assignment" THEN inferredType(t, Field(t, node, "right"))
                                                     ELSE stated

-----------------------------------------------------------------------------
(* Descriptors. *)
nearestContainer(t, node) ==
  CASE Type(t, Nearest(t, node, {"class_definition", "function_definition", "lambda"})) =
         "class_definition" -> "class"
    [] OTHER -> ""

bareName(words) == IF words = <<>> THEN "" ELSE Last(words)

isProtocol(t, node) ==
  \E base \in Range(NamedKids(t, Field(t, node, "superclasses"))) :
    bareName(Words(t, base)) \in {"Protocol", "ABC"}

refineKind(t, c) ==
  IF c.as = "function" /\ nearestContainer(t, c.node) = "class" THEN "method"
  ELSE IF c.as = "type" /\ isProtocol(t, c.node) THEN "interface"
  ELSE IF c.as = "variable" /\ nearestContainer(t, c.node) = "class" THEN "field"
  ELSE IF c.as = "variable" /\ bareName(annotationText(t, c.node)) = "Final" THEN "constant"
  ELSE c.as

containerSuffix(b, node) ==
  LET t == b.tree
      c[n \in 0 .. Len(t)] ==
        LET p == IF n = 0 THEN 0 ELSE t[n].parent
            name == FieldText(t, p, "name")
        IN IF p = 0 THEN b.ns
           ELSE IF Type(t, p) = "class_definition" /\ name # "" THEN Append(c[p], <<name, "#">>)
           ELSE IF Type(t, p) = "function_definition" /\ name # "" THEN Append(c[p], <<name, "().">>)
           ELSE c[p]
  IN c[node]

enclosingClass(t, node) == Nearest(t, node, {"class_definition"})
enclosingTypeSuffix(b, node) ==
  LET p == enclosingClass(b.tree, node)
  IN Append(containerSuffix(b, p), <<FieldText(b.tree, p, "name"), "#">>)

isReceiver(name) == name \in {"self", "cls"}

\* `x.y = ...`; through the receiver, and in a class, it declares a member.
isAttributeAssignment(t, node) ==
  Type(t, node) = "assignment" /\ Type(t, Field(t, node, "left")) = "attribute"
assignsThroughReceiver(t, node) ==
  enclosingClass(t, node) # 0 /\ isReceiver(FieldText(t, Field(t, node, "left"), "object"))

definitionSuffix(b, c) ==
  LET name == Text(b.tree, c.name)
      kind == refineKind(b.tree, c)
      member == isAttributeAssignment(b.tree, c.node)
      container == IF member THEN enclosingTypeSuffix(b, c.node) ELSE containerSuffix(b, c.node)
  IN CASE kind \in {"function", "method"} -> Append(container, <<name, "().">>)
       [] kind \in {"type", "interface"}  -> Append(container, <<name, "#">>)
       [] kind = "parameter"              -> Append(container, <<name, "()">>)
       [] OTHER                           -> Append(container, <<name, ".">>)

builtins       == <<"builtins">>
pyBuiltins     == {"print", "len", "str", "super"}
pyBuiltinTypes == {"str", "int", "Exception"}

\* The module or the symbol a name was bound to by an import.
module(b, name) == name \in DOMAIN b.imports
bound(b, name)  == name \in DOMAIN b.bindings
Exported(b, name, mark) ==
  Hang(b.bindings[name].module, b.bindings[name].orig, mark)

typeSuffix(b, type) ==
  IF Len(type) > 1 /\ module(b, type[1]) THEN Hang(b.imports[type[1]], Dotted(Tail(type)), "#")
  ELSE IF Len(type) > 1 THEN Own(b, Unknown, "#")
  ELSE IF bound(b, type[1]) THEN Exported(b, type[1], "#")
  ELSE IF type[1] \in pyBuiltinTypes THEN Top(builtins, type[1], "#")
  ELSE Own(b, type[1], "#")

enclosingScope(b, span) == Enclosing(b, span)

lookup(b, name, pos) == Visible(b, name, pos, {})

localTypeAt(b, name, pos) ==
  LET d == lookup(b, name, pos) IN IF d = 0 THEN NoType ELSE b.defs[d].type

attributeObject(t, node) ==
  LET a == IF Type(t, node) = "call" THEN Field(t, node, "function") ELSE node
  IN IF Type(t, a) = "attribute" THEN Field(t, a, "object") ELSE 0

isObjectSide(t, r) == Type(t, r.node) = "attribute" /\ Field(t, r.node, "object") = r.name

\* What an attribute's object resolves to: the receiver's class, a module, an
\* imported symbol, the type of a value in scope.
qualifierOf(b, r) ==
  LET t == b.tree
      object == attributeObject(t, r.node)
      name == Text(t, object)
      type == localTypeAt(b, name, t[r.name].from)
  IN IF Type(t, object) # "identifier" THEN NoTarget
     ELSE IF isReceiver(name) /\ enclosingClass(t, object) # 0 THEN Desc(b.coord, enclosingTypeSuffix(b, object))
     ELSE IF module(b, name) THEN b.imports[name]
     ELSE IF bound(b, name) THEN Exported(b, name, "#")
     ELSE IF type # NoType THEN typeSuffix(b, type)
     ELSE IF name \in pyBuiltins THEN Top(builtins, name, "#")
     ELSE NoTarget

member(b, r, mark) ==
  LET q == qualifierOf(b, r)
      name == Text(b.tree, r.name)
  IN IF q = NoTarget THEN OfUnknown(b, name, mark) ELSE Hang(q, name, mark)

callDescriptor(b, r) ==
  LET name == Text(b.tree, r.name) IN
  IF Type(b.tree, Field(b.tree, r.node, "function")) # "identifier" THEN member(b, r, "().")
  ELSE IF bound(b, name) THEN Exported(b, name, "().")
  ELSE IF name \in pyBuiltins THEN Top(builtins, name, "().")
  ELSE Own(b, name, "().")

readDescriptor(b, r) ==
  LET name == Text(b.tree, r.name)
      def == lookup(b, name, b.tree[r.name].from)
  IN IF ~isObjectSide(b.tree, r) THEN member(b, r, ".")
     ELSE IF module(b, name) THEN b.imports[name]
     ELSE IF bound(b, name) THEN Exported(b, name, ".")
     ELSE IF def # 0 THEN DescriptorOf(b, def)
     ELSE IF name \in pyBuiltins THEN Top(builtins, name, ".")
     ELSE Own(b, name, ".")

typeReferenceDescriptor(b, r) == typeSuffix(b, << Text(b.tree, r.name) >>)

referenceDescriptor(b, r) ==
  CASE r.as = "call" -> callDescriptor(b, r)
    [] r.as = "type" -> typeReferenceDescriptor(b, r)
    [] OTHER         -> readDescriptor(b, r)

refPriority(role) == CASE role = "call" -> 3 [] role = "type" -> 2 [] OTHER -> 1
moreSpecific(c, d) == refPriority(c.as) > refPriority(d.as)

-----------------------------------------------------------------------------
(* The passes. *)
addOccurrence(b, desc, role, kind, span) == Added(b, desc, role, kind, span)

collectScopes(b) == Scoped(b, Scopes)

\* The module a file is: a definition without width at its start, in the file.
collectModule(b) == PackageDefined(b, <<0, 0>>, fileScope(b))

\* `import a.b` binds a, `import a.b as x` binds the module a.b to x.
plainImport(b, name) ==
  LET t == b.tree
      aliased == Type(t, name) = "aliased_import"
      words == Words(t, IF aliased THEN Field(t, name, "name") ELSE name)
      mod == resolveModule(b, words)
      bind == IF aliased THEN Bind(b.imports, FieldText(t, name, "alias"), mod)
                         ELSE Bind(b.imports, Head(words), resolveModule(b, << Head(words) >>))
  IN addOccurrence([b EXCEPT !.imports = bind], mod, "reference", "package",
                   Span(t, name))

\* `from m import x, y as z` names m and binds x and z.
fromImport(b, stmt) ==
  LET t == b.tree
      module_name == Field(t, stmt, "module_name")
      mod == resolveFromModule(b, module_name)
      aliased(c) == t[c].type = "aliased_import"
      orig(c)  == IF aliased(c) THEN Dotted(Words(t, Field(t, c, "name"))) ELSE Dotted(Words(t, c))
      local(c) == IF aliased(c) THEN FieldText(t, c, "alias") ELSE orig(c)
      names == InOrder({ c \in Kids(t, stmt) :
                           t[c].field = "name" /\ t[c].type \in {"dotted_name", "aliased_import"} })
      bind == FoldLeft(LAMBDA f, c : Bind(f, local(c), [module |-> mod, orig |-> orig(c)]),
                       b.bindings, names)
      a == addOccurrence(b, mod, "reference", "package", Span(t, module_name))
  IN [a EXCEPT !.bindings = bind]

importStep(b, n) ==
  IF b.tree[n].type = "import_from_statement" THEN fromImport(b, n) ELSE plainImport(b, n)

collectImports(b) ==
  LET t == b.tree IN
  FoldLeft(importStep, collectModule(b),
    InOrder({ n \in DOMAIN t : \/ t[n].type = "import_from_statement"
                               \/ Type(t, t[n].parent) = "import_statement" /\ t[n].field = "name" }))

define(a, c) ==
  LET s == Span(a.tree, c.name)
  IN Defined(a, Desc(a.coord, definitionSuffix(a, c)), refineKind(a.tree, c), Text(a.tree, c.name), s,
             enclosingScope(a, s), declaredType(a.tree, c.node))

\* An assignment to an attribute of another object declares nothing.
collectDefinitions(b) ==
  Define(b, { c \in Captures(b.tree) : isAttributeAssignment(b.tree, c.node)
                                         => assignsThroughReceiver(b.tree, c.node) }, define)

refer(a, r) ==
  LET s == Span(a.tree, r.name)
  IN Referred(a, referenceDescriptor(a, r), r.as, s, enclosingScope(a, s))

collectReferences(b) ==
  LET cands == Uses(b.tree)
  IN Refer(b, cands, { p \in cands \X cands : moreSpecific(p[1], p[2]) }, refer)

\* The module's namespace is the file's path under the coordinate's root.
Parse(coord, file) ==
  NewBuilder(coord, moduleNamespace(file.path), Front(Front(file.path)), file.tree)
=============================================================================
