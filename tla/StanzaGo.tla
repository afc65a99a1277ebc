------------------------------ MODULE StanzaGo ------------------------------
(* The Go stanza: extract/golang. *)
EXTENDS Stanza

-----------------------------------------------------------------------------
(* query.scm *)
Scopes == [source_file |-> "file", function_declaration |-> "function",
           method_declaration |-> "function", func_literal |-> "function",
           struct_type |-> "type", interface_type |-> "type", block |-> "block"]

Captures(t) ==
  Matches(t, { <<"package_clause", AnyField, "package_identifier", "package">>,
               <<"function_declaration", "name", "identifier", "function">>,
               <<"method_declaration", "name", "field_identifier", "method">>,
               <<"method_elem", "name", "field_identifier", "method">>,
               <<"type_spec", "name", "type_identifier", "type">>,
               <<"type_alias", "name", "type_identifier", "type">>,
               <<"field_declaration", "name", "field_identifier", "field">>,
               <<"const_spec", "name", "identifier", "constant">>,
               <<"var_spec", "name", "identifier", "variable">>,
               <<"parameter_declaration", "name", "identifier", "parameter">>,
               <<"type_parameter_declaration", "name", "identifier", "parameter">> })
  \cup Matches2(t, { <<"short_var_declaration", "left", "expression_list", AnyField, "identifier", "variable">> })

Uses(t) ==
  Matches(t, { <<"call_expression", "function", "identifier", "call">>,
               <<"selector_expression", "operand", "identifier", "read">>,
               <<"selector_expression", "field", "field_identifier", "read">> })
  \cup Matches2(t, { <<"call_expression", "function", "selector_expression", "field", "field_identifier", "call">> })
  \cup Leaves(t, {"type_identifier"}, "type")

-----------------------------------------------------------------------------
(* Types, as far as the syntax states them. *)
unwrapType(t, node) ==
  LET u[n \in 0 .. Len(t)] ==
        CASE Type(t, n) = "type_identifier" -> << t[n].text >>
          [] Type(t, n) = "qualified_type"  ->
               << FieldText(t, n, "package"), FieldText(t, n, "name") >>
          [] Type(t, n) \in {"pointer_type", "parenthesized_type"} -> u[FirstNamed(t, n)]
          [] Type(t, n) = "generic_type"    -> u[Field(t, n, "type")]
          [] OTHER                         -> NoType
  IN u[node]

inferredType(t, node) ==
  LET v[n \in 0 .. Len(t)] ==
        CASE Type(t, n) \in {"expression_list", "parenthesized_expression"} -> v[FirstNamed(t, n)]
          [] Type(t, n) = "unary_expression"  -> v[Field(t, n, "operand")]
          [] Type(t, n) = "composite_literal" -> unwrapType(t, Field(t, n, "type"))
          [] Type(t, n) = "call_expression" /\ FieldText(t, n, "function") = "new" ->
               unwrapType(t, FirstNamed(t, Field(t, n, "arguments")))
          [] OTHER -> NoType
  IN v[node]

declaredType(t, node, name) ==
  CASE Type(t, node) \in {"parameter_declaration", "field_declaration", "var_spec", "const_spec"} ->
         IF Field(t, node, "type") # 0 THEN unwrapType(t, Field(t, node, "type"))
                                       ELSE inferredType(t, Field(t, node, "value"))
    [] Type(t, node) = "short_var_declaration" ->
         LET left  == NamedKids(t, Field(t, node, "left"))
             right == NamedKids(t, Field(t, node, "right"))
         IN IF Len(left) # Len(right) THEN NoType
            ELSE inferredType(t, right[CHOOSE i \in DOMAIN left : left[i] = name])
    [] OTHER -> NoType

receiverType(t, method) ==
  LET params == { c \in Kids(t, Field(t, method, "receiver")) : t[c].type = "parameter_declaration" }
  IN unwrapType(t, Field(t, Least(params), "type"))

notEmpty(type) == IF type = NoType THEN Unknown ELSE type[1]

-----------------------------------------------------------------------------
(* Descriptors. *)
methodSuffix(b, method) ==
  b.ns \o << <<notEmpty(receiverType(b.tree, method)), "#">>,
             <<FieldText(b.tree, method, "name"), "().">> >>

\* The nearest named type, function or method around a node, function
\* literals being transparent; the namespace when there is none.
containerSuffix(b, node) ==
  LET t == b.tree
      c[n \in 0 .. Len(t)] ==
        LET p == IF n = 0 THEN 0 ELSE t[n].parent
            name == FieldText(t, p, "name")
        IN IF p = 0 THEN b.ns
           ELSE IF Type(t, p) \in {"type_spec", "type_alias"} /\ name # "" THEN Append(c[p], <<name, "#">>)
           ELSE IF Type(t, p) = "function_declaration" /\ name # "" THEN Append(c[p], <<name, "().">>)
           ELSE IF Type(t, p) = "method_declaration" /\ name # "" THEN methodSuffix(b, p)
           ELSE c[p]
  IN c[node]

definitionSuffix(b, c) ==
  LET container == containerSuffix(b, c.node)
      name == Text(b.tree, c.name)
  IN CASE c.as = "package" -> b.ns
       [] c.as = "method" /\ Type(b.tree, c.node) = "method_declaration" -> methodSuffix(b, c.node)
       [] c.as \in {"function", "method"} -> Append(container, <<name, "().">>)
       [] c.as = "type" -> Append(container, <<name, "#">>)
       [] c.as = "parameter" /\ Type(b.tree, c.node) = "type_parameter_declaration" ->
            Append(container, <<name, "[]">>)
       [] c.as = "parameter" -> Append(container, <<name, "()">>)
       [] OTHER -> Append(container, <<name, ".">>)

refineKind(b, c) ==
  IF c.as = "type" /\ Type(b.tree, Field(b.tree, c.node, "type")) = "interface_type"
  THEN "interface" ELSE c.as

Predeclared == {"any", "bool", "error", "int", "string"}
Builtins    == {"append", "len", "make", "new", "panic"}

\* The package a qualifier names: coord.Import's coordinate and namespace.
Imported(b, name) == name \in DOMAIN b.imports

typeSuffix(b, type) ==
  IF Len(type) = 2 /\ Imported(b, type[1]) THEN Hang(b.imports[type[1]], type[2], "#")
  ELSE IF Len(type) = 2 THEN Own(b, Unknown, "#")
  ELSE IF type[1] \in Predeclared THEN Top(Builtin, type[1], "#")
  ELSE Own(b, type[1], "#")

enclosingScope(b, span) == Enclosing(b, span)

lookup(b, name, pos) == Visible(b, name, pos, {})

localTypeAt(b, name, pos) ==
  LET d == lookup(b, name, pos) IN IF d = 0 THEN NoType ELSE b.defs[d].type

selectorOperand(t, node) ==
  LET sel == IF Type(t, node) = "call_expression" THEN Field(t, node, "function") ELSE node
  IN IF Type(t, sel) = "selector_expression" THEN Field(t, sel, "operand") ELSE 0

\* What a selector's field hangs off: an imported package, the type of a value
\* in scope, or SCIP's "." for a type the file does not state.
member(b, r, mark) ==
  LET t == b.tree
      name == Text(t, r.name)
      operand == selectorOperand(t, r.node)
      q == IF Type(t, operand) = "identifier" THEN Text(t, operand) ELSE ""
      type == IF q = "" THEN NoType ELSE localTypeAt(b, q, t[operand].from)
  IN IF Imported(b, q) THEN Hang(b.imports[q], name, mark)
     ELSE IF type # NoType THEN Hang(typeSuffix(b, type), name, mark)
     ELSE OfUnknown(b, name, mark)

callDescriptor(b, r) ==
  LET name == Text(b.tree, r.name) IN
  IF Type(b.tree, r.name) # "identifier" THEN member(b, r, "().")
  ELSE IF name \in Builtins THEN Top(Builtin, name, "().")
  ELSE Own(b, name, "().")

readDescriptor(b, r) ==
  LET name == Text(b.tree, r.name)
      def == lookup(b, name, b.tree[r.name].from)
  IN IF Type(b.tree, r.name) # "identifier" THEN member(b, r, ".")
     ELSE IF Imported(b, name) THEN b.imports[name]
     ELSE IF def # 0 THEN DescriptorOf(b, def)
     ELSE Own(b, name, ".")

typeReferenceDescriptor(b, r) ==
  LET t == b.tree
      p == t[r.name].parent
      q == FieldText(t, p, "package")
  IN IF Type(t, p) = "qualified_type" THEN typeSuffix(b, << q, Text(t, r.name) >>)
                                      ELSE typeSuffix(b, << Text(t, r.name) >>)

referenceDescriptor(b, r) ==
  CASE r.as = "call" -> callDescriptor(b, r)
    [] r.as = "type" -> typeReferenceDescriptor(b, r)
    [] OTHER         -> readDescriptor(b, r)

refPriority(role) == CASE role = "call" -> 3 [] role = "type" -> 2 [] OTHER -> 1
moreSpecific(c, d) == refPriority(c.as) > refPriority(d.as)

-----------------------------------------------------------------------------
(* The passes. *)
addOccurrence(b, desc, role, kind, span) == Added(b, desc, role, kind, span)

collectScopes(b) == Scoped(b, Scopes)

\* An unaliased import binds its last segment, a major-version segment aside.
MajorOnly == {"v2"}
lastSegment(path) ==
  IF Len(path) > 1 /\ Last(path) \in MajorOnly THEN path[Len(path) - 1] ELSE Last(path)

\* coord.Import.
Import(b, path) == IF IsPrefix(b.coord, path) THEN Desc(b.coord, NS(Sub(path, Len(b.coord) + 1)))
                                              ELSE Desc(path, <<>>)

\* One import: what it binds, unless blank or dotted, and the package it names.
importSpec(b, spec) ==
  LET t == b.tree
      path == t[Field(t, spec, "path")].path
      alias == FieldText(t, spec, "name")
      rec == Import(b, path)
      bound == CASE alias \in {"_", "."} -> b.imports
                 [] alias = ""           -> Bind(b.imports, lastSegment(path), rec)
                 [] OTHER                -> Bind(b.imports, alias, rec)
  IN addOccurrence([b EXCEPT !.imports = bound], rec, "reference", "package",
                   Span(t, spec))

collectImports(b) ==
  FoldLeft(importSpec, b, InOrder({ n \in DOMAIN b.tree : b.tree[n].type = "import_spec" }))

define(a, c) ==
  LET s == Span(a.tree, c.name)
  IN Defined(a, Desc(a.coord, definitionSuffix(a, c)), refineKind(a, c), Text(a.tree, c.name), s,
             enclosingScope(a, s), declaredType(a.tree, c.node, c.name))
collectDefinitions(b) == Define(b, Captures(b.tree), define)

refer(a, r) ==
  LET s == Span(a.tree, r.name)
  IN Referred(a, referenceDescriptor(a, r), r.as, s, enclosingScope(a, s))

collectReferences(b) ==
  LET cands == Uses(b.tree)
  IN Refer(b, cands, { p \in cands \X cands : moreSpecific(p[1], p[2]) }, refer)

\* coord.Namespace of the file's directory; the passes follow in Extract.
Parse(coord, file) == NewBuilder(coord, NS(Front(file.path)), Front(file.path), file.tree)
=============================================================================
