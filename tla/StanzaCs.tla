------------------------------ MODULE StanzaCs ------------------------------
(* The C# stanza: extract/cs. A namespace is a file's, or a block's of it;   *)
(* `imports` of the builder is `types`, what aliases bind. Of a using, the   *)
(* builder keeps the namespaces it was told of and those that are this       *)
(* artifact's.                                                               *)
EXTENDS Stanza, TLC

-----------------------------------------------------------------------------
(* query.scm *)
Types     == {"class_declaration", "struct_declaration", "record_declaration",
              "interface_declaration", "enum_declaration"}
Callables == {"method_declaration", "constructor_declaration", "destructor_declaration",
              "operator_declaration", "conversion_operator_declaration", "local_function_statement"}

Scopes ==
  [x \in Types |-> "type"]
  @@ [x \in Callables \cup {"indexer_declaration", "accessor_declaration", "lambda_expression",
                            "anonymous_method_expression"} |-> "function"]
  @@ [x \in {"block", "for_statement", "foreach_statement", "catch_clause", "switch_section"} |-> "block"]
  @@ [compilation_unit |-> "file"] @@ [namespace_declaration |-> "package"]

\* The declarations that hold a variable_declaration.
Declarators == [field_declaration |-> "field", event_field_declaration |-> "field",
                local_declaration_statement |-> "variable", using_statement |-> "variable"]

Declared3(t) ==
  { [as |-> Declarators[Type(t, t[c.node].parent)], node |-> t[c.node].parent, name |-> c.name] :
      c \in { c \in Matches2(t, { <<"variable_declaration", AnyField, "variable_declarator", "name", "identifier", "declarator">> }) :
                Type(t, t[c.node].parent) \in DOMAIN Declarators } }

Captures(t) ==
  Declared3(t) \cup
  Matches(t, { <<x, "name", "identifier", "type">> :
                 x \in (Types \ {"interface_declaration"}) \cup {"delegate_declaration"} }
        \cup { <<x, "name", "identifier", "field">> :
                 x \in {"property_declaration", "event_declaration", "enum_member_declaration"} }
        \cup { <<x, "name", "identifier", "method">> : x \in {"method_declaration", "constructor_declaration"} }
        \cup { <<x, "name", "identifier", "parameter">> : x \in {"parameter", "catch_declaration", "type_parameter"} }
        \cup { <<"interface_declaration", "name", "identifier", "interface">>,
               <<"local_function_statement", "name", "identifier", "function">>,
               <<"foreach_statement", "left", "identifier", "variable">> })

\* Where a type is written: the grammar has no node of its own for one.
TypePositions ==
  { <<x, "type">> : x \in {"variable_declaration", "parameter", "local_function_statement",
      "property_declaration", "indexer_declaration", "catch_declaration", "foreach_statement",
      "object_creation_expression", "cast_expression", "array_type", "nullable_type"} }
  \cup { <<x, "returns">> : x \in {"method_declaration", "delegate_declaration"} }
  \cup { <<x, "right">> : x \in {"as_expression", "is_expression"} }
  \cup { <<x, AnyField>> : x \in {"base_list", "type_argument_list", "explicit_interface_specifier"} }
  \cup { <<"attribute", "name">> }

\* The identifier a type is named by: not its qualifier, not its arguments.
Wrapped == {"array_type", "nullable_type", "pointer_type", "ref_type"}

typeNameNode(t, node) ==
  LET u[n \in 0 .. Len(t)] ==
        CASE Type(t, n) \in Wrapped          -> u[Field(t, n, "type")]
          [] Type(t, n) = "qualified_name"   -> u[Field(t, n, "name")]
          [] Type(t, n) = "generic_name"     -> u[FirstNamed(t, n)]
          [] Type(t, n) = "identifier"       -> n
          [] OTHER                           -> 0
  IN u[node]

TypeUses(t) ==
  { c \in { [as |-> "type", node |-> n, name |-> typeNameNode(t, n)] :
              n \in { n \in DOMAIN t : t[n].named /\ \E p \in TypePositions :
                        Type(t, t[n].parent) = p[1] /\ p[2] \in {AnyField, t[n].field} } } : c.name # 0 }

Uses(t) ==
  Matches(t, { <<"invocation_expression", "function", "identifier", "call">> }
        \cup { <<x[1], x[2], "identifier", "read">> :
                 x \in { <<"member_access_expression", "expression">>, <<"member_access_expression", "name">>,
                         <<"qualified_name", "qualifier">>, <<"qualified_name", "name">> } })
  \cup Matches2(t, { <<"invocation_expression", "function", "member_access_expression", "name", "identifier", "call">> })
  \cup TypeUses(t)

-----------------------------------------------------------------------------
(* Paths. A few names stand for the platform's roots and types. *)
foreignRoots == {"System", "Microsoft"}
systemTypes  == {"Object", "Console", "Action"}
builtin      == <<"System">>
ObjectTarget == Desc(builtin, << <<"Object", "#">> >>)

qualifier(t, n) == OrNode(Field(t, n, "qualifier"), Field(t, n, "expression"))
nameText(t, n) == CASE Type(t, n) = "identifier"   -> Text(t, n)
                    [] Type(t, n) = "generic_name" -> Text(t, FirstNamed(t, n))
                    [] OTHER                       -> ""

\* The prefixes of a dotted name: of each its last segment and its node.
pathSegments(t, node) ==
  LET s[n \in 0 .. Len(t)] ==
        LET own == << [name |-> nameText(t, n), node |-> n] >>
            last == nameText(t, Field(t, n, "name"))
        IN IF Type(t, n) \in {"qualified_name", "member_access_expression"}
           THEN IF s[qualifier(t, n)] = <<>> \/ last = "" THEN <<>>
                ELSE Append(s[qualifier(t, n)], [name |-> last, node |-> n])
           ELSE SelectSeq(own, LAMBDA seg : seg.name # "")
  IN s[node]
Names(segs) == [i \in DOMAIN segs |-> segs[i].name]
Path(t, node) == Names(pathSegments(t, node))

namespaceOf(segs) == NS(segs)

\* A namespace is what the file was told is one; the longest such prefix.
splitPath(b, segs) ==
  LET known == { i \in 1 .. Len(segs) - 1 : SubSeq(segs, 1, i) \in b.namespaces }
      n == IF Len(segs) > 1 /\ segs[1] \in foreignRoots THEN Len(segs) - 1 ELSE Greatest(known)
  IN [pkg |-> SubSeq(segs, 1, n), types |-> Sub(segs, n + 1)]

namespaceTarget(b, pkg) ==
  IF pkg # <<>> /\ pkg[1] \in foreignRoots THEN Desc(<< pkg[1] >>, namespaceOf(Tail(pkg)))
                                           ELSE Desc(b.coord, namespaceOf(pkg))

Nested(target, types) == [target EXCEPT !.suffix = @ \o [i \in DOMAIN types |-> <<types[i], "#">>]]

-----------------------------------------------------------------------------
(* Containers: a namespace block, a type, a callable, a property. *)
containerMark(type) ==
  CASE type \in Callables            -> "()."
    [] type = "property_declaration" -> "."
    [] OTHER                         -> "#"
containerTypes == Types \cup Callables \cup {"delegate_declaration", "property_declaration", "namespace_declaration"}

\* What a container adds to the names inside it.
component(t, p) ==
  IF Type(t, p) = "namespace_declaration" THEN namespaceOf(Path(t, Field(t, p, "name")))
  ELSE IF FieldText(t, p, "name") = "" THEN <<>>
  ELSE << <<FieldText(t, p, "name"), containerMark(Type(t, p))>> >>

Around(b, node, types) ==
  LET c[n \in 0 .. Len(b.tree)] ==
        LET p == IF n = 0 THEN 0 ELSE b.tree[n].parent IN
        IF p = 0 THEN b.ns ELSE c[p] \o (IF Type(b.tree, p) \in types THEN component(b.tree, p) ELSE <<>>)
  IN c[node]

containerSuffix(b, node) == Around(b, node, containerTypes)

\* The namespace a name written at the node falls back to.
namespaceSuffix(b, node) == Around(b, node, {"namespace_declaration"})

isRecordComponent(t, node) ==
  LET list == t[node].parent IN
  /\ Type(t, node) = "parameter"
  /\ Type(t, list) = "parameter_list"
  /\ Type(t, t[list].parent) = "record_declaration"

hasToken(t, n, word) ==
  \E c \in Kids(t, n) : t[c].type = word \/ (t[c].type = "modifier" /\ t[c].text = word)

refineKind(t, c) ==
  IF c.as = "parameter" /\ isRecordComponent(t, c.node) THEN "field"
  ELSE IF c.as = "field" /\ hasToken(t, c.node, "const") THEN "constant" ELSE c.as

definitionDescriptor(b, c) ==
  LET kind == refineKind(b.tree, c)
      mark == IF kind \in {"function", "method"} THEN "()."
              ELSE IF kind \in {"type", "interface"} THEN "#"
              ELSE IF kind = "parameter" THEN "()" ELSE "."
  IN Desc(b.coord, Append(containerSuffix(b, c.node), <<Text(b.tree, c.name), mark>>))

\* A name the file declares, in the innermost container that declares it.
Containers == Types \cup {"namespace_declaration", "method_declaration", "constructor_declaration",
                          "local_function_statement"}
localDeclared(b, node, name, mark) ==
  LET t == b.tree
      candidate(p) == Desc(b.coord, Append(IF p = 0 THEN b.ns ELSE containerSuffix(b, p) \o component(t, p),
                                           <<name, mark>>))
      around == { p \in Ancestors(t, node) \cup {node} : t[p].type \in Containers } \cup {0}
      found == { x \in { [at |-> p, desc |-> candidate(p)] : p \in around } : Indexed(b, x.desc) # 0 }
  IN NearestOf(found, NoTarget)

-----------------------------------------------------------------------------
(* Types, as far as the syntax states them. *)
typeSegments(t, node) ==
  LET u[n \in 0 .. Len(t)] ==
        CASE Type(t, n) \in Wrapped -> u[Field(t, n, "type")]
          [] Type(t, n) \in {"qualified_name", "identifier", "generic_name"} -> Path(t, n)
          [] OTHER -> NoType
  IN u[node]

declaredType(t, node) ==
  CASE Type(t, node) \in DOMAIN Declarators ->
         typeSegments(t, Field(t, OfType(t, node, "variable_declaration"), "type"))
    [] Type(t, node) \in {"parameter", "property_declaration", "catch_declaration", "foreach_statement",
                          "local_function_statement", "indexer_declaration"} ->
         typeSegments(t, Field(t, node, "type"))
    [] OTHER -> NoType

\* An alias's type, the file's, the platform's, that of the one namespace of
\* this artifact that is used, or else the enclosing namespace's.
resolveTypeName(b, node, name) ==
  LET elsewhere == IF Len(b.projectUsings) = 1 THEN b.projectUsings[1] ELSE namespaceSuffix(b, node)
  IN IF name \in DOMAIN b.imports THEN b.imports[name]
     ELSE OrElse(localDeclared(b, node, name, "#"),
                 IF name \in systemTypes THEN Desc(builtin, << <<name, "#">> >>)
                 ELSE Desc(b.coord, Append(elsewhere, <<name, "#">>)))

\* A type by its path: below its namespace, or below what its first name is.
typePath(b, node, segs) ==
  LET path == splitPath(b, segs)
  IN IF path.pkg # <<>> THEN Nested(namespaceTarget(b, path.pkg), path.types)
     ELSE Nested(resolveTypeName(b, node, segs[1]), Tail(segs))

OfSegments(b, node, segs, otherwise) == IF segs = NoType THEN otherwise ELSE typePath(b, node, segs)

enclosingType(t, node) == Nearest(t, node, Types)

thisTarget(b, node) ==
  LET decl == enclosingType(b.tree, node)
  IN IF FieldText(b.tree, decl, "name") = "" THEN NoTarget
     ELSE Desc(b.coord, Append(containerSuffix(b, decl), <<FieldText(b.tree, decl, "name"), "#">>))

\* `base`: the first of the base list, System.Object when there is none.
baseTarget(b, node) ==
  LET t == b.tree
      decl == enclosingType(t, node)
      first == FirstNamed(t, OfType(t, decl, "base_list"))
  IN IF decl = 0 THEN NoTarget ELSE OfSegments(b, first, typeSegments(t, first), ObjectTarget)

enclosingScope(b, span) == Enclosing(b, span)

lookup(b, name, pos) == Visible(b, name, pos, {"type"})

isNamespace(b, segs) == segs \in b.namespaces \/ segs[1] \in foreignRoots

\* A name on the left of a dot: a value of a stated type, or a type.
identifierTarget(b, value, pos) ==
  LET name == Text(b.tree, value)
      def == lookup(b, name, pos)
  IN IF def # 0 THEN IF b.defs[def].type = NoType THEN NoTarget ELSE typePath(b, value, b.defs[def].type)
     ELSE IF name \in DOMAIN b.imports THEN b.imports[name]
     ELSE IF isNamespace(b, <<name>>) THEN NoTarget
     ELSE resolveTypeName(b, value, name)

dottedTarget(b, value, segs, pos) ==
  IF segs = <<>> THEN NoTarget
  ELSE IF lookup(b, segs[1], pos) # 0 THEN NoTarget
  ELSE typePath(b, value, segs)

\* What the left of a dot stands for: the type its members hang off.
valueTarget(b, node, pos) ==
  LET t == b.tree
      value == Bare(t, node, {"parenthesized_expression"})
      created == OfSegments(b, value, typeSegments(t, Field(t, value, "type")), NoTarget)
  IN CASE Type(t, value) = "this"       -> thisTarget(b, value)
       [] Type(t, value) = "base"       -> baseTarget(b, value)
       [] Type(t, value) = "identifier" -> identifierTarget(b, value, pos)
       [] Type(t, value) = "object_creation_expression" -> created
       [] Type(t, value) \in {"member_access_expression", "qualified_name"} -> dottedTarget(b, value, Path(t, value), pos)
       [] OTHER -> NoTarget

-----------------------------------------------------------------------------
(* References. *)
callDescriptor(b, r) ==
  LET t == b.tree
      name == Text(t, r.name)
      fn == Field(t, r.node, "function")
      receiver == IF Type(t, fn) = "member_access_expression" THEN Field(t, fn, "expression") ELSE 0
      target == valueTarget(b, receiver, t[r.name].from)
  IN IF receiver # 0 THEN HangOr(target, name, "().", OfUnknown(b, name, "()."))
     ELSE OrElse(localDeclared(b, r.name, name, "()."),
                 HangOr(thisTarget(b, r.name), name, "().", Own(b, name, "().")))

\* The left of a dot: a binding in scope, an alias, a namespace, a type.
qualifierDescriptor(b, r) ==
  LET name == Text(b.tree, r.name)
      def == lookup(b, name, b.tree[r.name].from)
  IN IF def # 0 THEN DescriptorOf(b, def)
     ELSE IF name \in DOMAIN b.imports THEN b.imports[name]
     ELSE IF isNamespace(b, <<name>>) THEN namespaceTarget(b, <<name>>)
     ELSE resolveTypeName(b, r.name, name)

isQualifier(t, r) ==
  \E f \in {"expression", "qualifier"} :
    Field(t, r.node, f) # 0 /\ t[Field(t, r.node, f)].from = t[r.name].from

\* How many segments follow a node in the name it is of; is the whole called?
pathTail(t, node) ==
  LET tail[n \in 0 .. Len(t)] ==
        LET p == IF n = 0 THEN 0 ELSE t[n].parent IN
        CASE Type(t, p) \in {"qualified_name", "member_access_expression"} /\ qualifier(t, p) = n ->
               [tail[p] EXCEPT !.trailing = @ + 1]
          [] OTHER -> [trailing |-> 0, call |-> /\ Type(t, p) = "invocation_expression"
                                                /\ Field(t, p, "function") = n]
  IN tail[node]

\* The right of a dot: of a namespace a deeper one or a type, of a type a member.
readDescriptor(b, r) ==
  LET t == b.tree
      name == Text(t, r.name)
      object == OrNode(Field(t, r.node, "expression"), Field(t, r.node, "qualifier"))
      segs == Path(t, object)
      tail == pathTail(t, r.node)
      deeper == \/ Append(segs, name) \in b.namespaces
                \/ /\ segs[1] \in foreignRoots
                   /\ tail.trailing >= 2 \/ (tail.trailing = 1 /\ ~tail.call)
      target == valueTarget(b, object, t[r.name].from)
  IN IF isQualifier(t, r) THEN qualifierDescriptor(b, r)
     ELSE IF segs # <<>> /\ isNamespace(b, segs)
          THEN Hang(namespaceTarget(b, segs), name, IF deeper THEN "/" ELSE "#")
     ELSE HangOr(target, name, ".", OfUnknown(b, name, "."))

typeReferenceDescriptor(b, r) ==
  LET segs == typeSegments(b.tree, r.node)
  IN IF Len(segs) > 1 THEN typePath(b, r.node, segs) ELSE resolveTypeName(b, r.name, Text(b.tree, r.name))

referenceDescriptor(b, r) ==
  CASE r.as = "call" -> callDescriptor(b, r)
    [] r.as = "type" -> typeReferenceDescriptor(b, r)
    [] OTHER         -> readDescriptor(b, r)

refPriority(role) == CASE role = "call" -> 3 [] role = "type" -> 2 [] OTHER -> 1

\* The role, then the wider node.
moreSpecific(t, c, d) ==
  \/ refPriority(c.as) > refPriority(d.as)
  \/ /\ refPriority(c.as) = refPriority(d.as)
     /\ t[c.node].to - t[c.node].from > t[d.node].to - t[d.node].from

-----------------------------------------------------------------------------
(* The passes. *)
addOccurrence(b, desc, role, kind, span) == Added(b, desc, role, kind, span)

collectScopes(b) == Scoped(b, Scopes)

claimSubtree(b, node) == ClaimSubtree(b, node, {"identifier"})

\* A namespace and, having been told of it, those around it.
rememberNamespace(b, segs) ==
  [b EXCEPT !.namespaces = @ \cup { SubSeq(segs, 1, i) : i \in DOMAIN segs }]

definePackage(b, suffix, span, scope) ==
  [PackageDefined([b EXCEPT !.ns = suffix], span, scope) EXCEPT !.ns = b.ns]

\* A block's namespace is below those around it, a file-scoped one the file's.
declareNamespace(b, decl) ==
  LET t == b.tree
      name == Field(t, decl, "name")
      segs == Path(t, name)
      suffix == containerSuffix(b, decl) \o namespaceOf(segs)
      ofFile == t[decl].type = "file_scoped_namespace_declaration" /\ b.ns = <<>>
      c == rememberNamespace(claimSubtree(b, name), [i \in DOMAIN suffix |-> suffix[i][1]])
  IN IF segs = <<>> THEN b
     ELSE definePackage([c EXCEPT !.ns = IF ofFile THEN suffix ELSE @], suffix, Span(t, name),
                        enclosingScope(b, Span(t, name)))

\* The namespaces a file declares; the global one, at its start, if none.
collectNamespaces(b) ==
  LET decls == { n \in DOMAIN b.tree :
                   b.tree[n].type \in {"file_scoped_namespace_declaration", "namespace_declaration"} }
  IN IF decls = {} THEN definePackage(b, <<>>, <<0, 0>>, fileScope(b))
     ELSE FoldLeft(declareNamespace, b, InOrder(decls))

\* What a using says of a namespace, and of a type of it.
usesNamespace(b, ns, pkg, span) ==
  LET told == rememberNamespace(b, pkg)
  IN IF pkg = <<>> THEN told ELSE addOccurrence(told, ns, "reference", "package", span)

usesType(b, target, alias, span) ==
  [addOccurrence(b, target, "reference", "type", span) EXCEPT
     !.imports = IF alias = 0 THEN @ ELSE Bind(@, Text(b.tree, alias), target)]

\* A using names a namespace, or with an alias or `static` a type of one.
usingPath(b, alias, segs, pkg, ns) ==
  LET c == usesNamespace(b, ns, pkg, Span(b.tree, segs[Len(pkg)].node))
      target == Hang(ns, Last(segs).name, "#")
  IN IF Len(pkg) < Len(segs) THEN usesType(c, target, alias, Span(b.tree, Last(segs).node))
     ELSE [c EXCEPT !.projectUsings = IF ns.coord = b.coord THEN Append(@, ns.suffix) ELSE @]

usingDirective(b, stmt) ==
  LET t == b.tree
      alias == Field(t, stmt, "name")
      path == LastNamed(t, stmt)
      segs == pathSegments(t, path)
      ofType == alias # 0 \/ hasToken(t, stmt, "static")
      pkg == Names(IF ofType THEN Front(segs) ELSE segs)
      claimed == claimSubtree(IF alias = 0 THEN b ELSE claimSubtree(b, alias), path)
  IN IF path = 0 \/ path = alias THEN b
     ELSE IF segs = <<>> THEN claimed
     ELSE usingPath(claimed, alias, segs, pkg, namespaceTarget(b, pkg))

collectImports(b) ==
  FoldLeft(usingDirective, collectNamespaces(b),
           InOrder({ n \in DOMAIN b.tree : b.tree[n].type = "using_directive" }))

define(a, c) ==
  LET s == Span(a.tree, c.name)
  IN Defined(a, definitionDescriptor(a, c), refineKind(a.tree, c), Text(a.tree, c.name), s,
             enclosingScope(a, s), declaredType(a.tree, c.node))
collectDefinitions(b) == Define(b, Captures(b.tree), define)

refer(a, r) ==
  LET s == Span(a.tree, r.name)
  IN Referred(a, referenceDescriptor(a, r), r.as, s, enclosingScope(a, s))

collectReferences(b) ==
  LET cands == Uses(b.tree)
  IN Refer(b, cands, { p \in cands \X cands : moreSpecific(b.tree, p[1], p[2]) }, refer)

\* The namespace is the file's to state.
Parse(coord, file) ==
  LET b == NewBuilder(coord, <<>>, <<>>, file.tree)
  IN [x \in DOMAIN b \cup {"namespaces", "projectUsings"} |->
        CASE x = "namespaces" -> {} [] x = "projectUsings" -> <<>> [] OTHER -> b[x]]
=============================================================================
