------------------------------ MODULE StanzaTs ------------------------------
(* The TypeScript stanza: extract/ts. A path's extension is a segment of its *)
(* own; `imports` of the builder is `namespaces`.                            *)
EXTENDS Stanza, TLC

-----------------------------------------------------------------------------
(* query.scm *)
Classes   == {"class_declaration", "abstract_class_declaration", "interface_declaration"}
Functions == {"function_declaration", "generator_function_declaration"}
Methods   == {"method_definition", "method_signature", "abstract_method_signature"}

Scopes ==
  [x \in Functions \cup {"function_expression", "arrow_function", "method_definition"} |-> "function"]
  @@ [x \in Classes \cup {"enum_declaration"} |-> "type"]
  @@ [program |-> "file", internal_module |-> "package", statement_block |-> "block"]

Captures(t) ==
  Matches(t, { <<x, "name", "identifier", "function">> : x \in Functions }
        \cup { <<x, "name", "property_identifier", "method">> : x \in Methods }
        \cup { <<"class_declaration", "name", "type_identifier", "type">>,
               <<"abstract_class_declaration", "name", "type_identifier", "type">>,
               <<"type_alias_declaration", "name", "type_identifier", "type">>,
               <<"enum_declaration", "name", "identifier", "type">>,
               <<"interface_declaration", "name", "type_identifier", "interface">>,
               <<"internal_module", "name", "identifier", "module">>,
               <<"public_field_definition", "name", "property_identifier", "field">>,
               <<"property_signature", "name", "property_identifier", "field">>,
               <<"enum_assignment", "name", "property_identifier", "field">>,
               <<"enum_body", AnyField, "property_identifier", "field">>,
               <<"variable_declarator", "name", "identifier", "variable">>,
               <<"required_parameter", "pattern", "identifier", "parameter">>,
               <<"optional_parameter", "pattern", "identifier", "parameter">>,
               <<"type_parameter", "name", "type_identifier", "parameter">> })

Uses(t) ==
  Matches(t, { <<"call_expression", "function", "identifier", "call">>,
               <<"new_expression", "constructor", "identifier", "type">>,
               <<"member_expression", "object", "identifier", "read">>,
               <<"member_expression", "property", "property_identifier", "read">> })
  \cup Matches2(t, { <<"call_expression", "function", "member_expression", "property", "property_identifier", "call">> })
  \cup Leaves(t, {"type_identifier"}, "type")

-----------------------------------------------------------------------------
(* Module paths, normalised so that an import and the file it names agree.  *)
moduleExts == {".d.ts", ".tsx", ".mts", ".cts", ".ts", ".js", ".mjs", ".cjs", ".jsx"}

(* Mutant: the module of a directory keeps its index file's name. *)
moduleNamespace_Index(path) ==
  NS(IF path # <<>> /\ Last(path) \in moduleExts THEN Front(path) ELSE path)

moduleNamespace(path) ==
  LET bare == IF path # <<>> /\ Last(path) \in moduleExts THEN Front(path) ELSE path
  IN  NS(IF bare # <<>> /\ Last(bare) = "index" THEN Front(bare) ELSE bare)

isRelative(spec) == Head(spec) \in {".", ".."}

\* path.Join, path.Clean: `.` is nothing, `..` takes the segment before it.
Join(dir, spec) ==
  FoldLeft(LAMBDA p, s : CASE s = "."                                     -> p
                           [] s = ".." /\ p # <<>> /\ Last(p) # ".." -> Front(p)
                           [] OTHER                                       -> Append(p, s),
           dir, spec)

Scoped2 == {"@scope"}     \* first segments of scoped package names
splitPackage(spec) ==
  LET n == IF Head(spec) \in Scoped2 /\ Len(spec) > 1 THEN 2 ELSE 1
  IN  [name |-> SubSeq(spec, 1, n), sub |-> Sub(spec, n + 1)]

\* Relative specifiers stay in the package unless they escape its root; a
\* package may also name itself; any other is foreign.
resolveSpecifier(b, spec) ==
  LET joined == Join(b.dir, spec)
      pkg == splitPackage(spec)
  IN IF isRelative(spec) /\ joined # <<>> /\ Head(joined) = ".." THEN Desc(spec, <<>>)
     ELSE IF isRelative(spec) THEN Desc(b.coord, moduleNamespace(joined))
     ELSE IF b.coord \notin {<<>>, <<Unknown>>} /\ pkg.name = b.coord THEN Desc(b.coord, moduleNamespace(pkg.sub))
     ELSE Desc(pkg.name, moduleNamespace(pkg.sub))

-----------------------------------------------------------------------------
(* Types, as far as the syntax states them. *)
unwrapType(t, node) ==
  LET u[n \in 0 .. Len(t)] ==
        CASE Type(t, n) \in {"type_annotation", "parenthesized_type"} -> u[FirstNamed(t, n)]
          [] Type(t, n) \in {"type_identifier", "nested_type_identifier", "predefined_type"} ->
               Words(t, n)
          [] Type(t, n) = "generic_type" -> u[Field(t, n, "name")]
          [] OTHER -> NoType
  IN u[node]

inferredType(t, node) ==
  LET v[n \in 0 .. Len(t)] ==
        CASE Type(t, n) = "parenthesized_expression" -> v[FirstNamed(t, n)]
          [] Type(t, n) = "new_expression" ->
               LET ctor == Field(t, n, "constructor")
               IN IF Type(t, ctor) \in {"identifier", "member_expression", "nested_identifier"}
                  THEN Words(t, ctor) ELSE NoType
          [] OTHER -> NoType
  IN v[node]

declaredType(t, node) ==
  IF Type(t, node) \notin {"required_parameter", "optional_parameter", "public_field_definition",
                           "property_signature", "variable_declarator"} THEN NoType
  ELSE IF Field(t, node, "type") # 0 THEN unwrapType(t, Field(t, node, "type"))
       ELSE inferredType(t, Field(t, node, "value"))

-----------------------------------------------------------------------------
(* Descriptors. *)
containerMark(type) ==
  CASE type \in Classes \cup {"type_alias_declaration", "enum_declaration"} -> "#"
    [] type \in Functions \cup Methods -> "()."
    [] type = "internal_module"        -> "/"
    [] OTHER                           -> ""

containerSuffix(b, node) ==
  LET t == b.tree
      c[n \in 0 .. Len(t)] ==
        LET p == IF n = 0 THEN 0 ELSE t[n].parent
            name == FieldText(t, p, "name")
        IN IF p = 0 THEN b.ns
           ELSE IF containerMark(Type(t, p)) # "" /\ name # "" THEN Append(c[p], <<name, containerMark(Type(t, p))>>)
           ELSE c[p]
  IN c[node]

definitionSuffix(b, c) ==
  LET mark == IF c.as \in {"function", "method"} THEN "()."
              ELSE IF c.as \in {"type", "interface"} THEN "#"
              ELSE IF c.as = "module" THEN "/"
              ELSE IF c.as = "parameter" /\ Type(b.tree, c.node) = "type_parameter" THEN "[]"
              ELSE IF c.as = "parameter" THEN "()"
              ELSE "."
  IN Append(containerSuffix(b, c.node), <<Text(b.tree, c.name), mark>>)

\* A declarator of a `const` declaration is a constant.
refineKind(b, c) ==
  LET p == b.tree[c.node].parent IN
  IF /\ c.as = "variable" /\ Type(b.tree, p) = "lexical_declaration"
     /\ \E k \in Kids(b.tree, p) : b.tree[k].type = "const"
  THEN "constant" ELSE c.as

tsGlobals     == {"console", "Math", "JSON", "Promise", "parseInt"}
tsGlobalTypes == {"Array", "Promise", "Map", "string", "number", "void"}

\* The module or the symbol a name was bound to by an import clause.
module(b, name) == name \in DOMAIN b.imports
bound(b, name)  == name \in DOMAIN b.bindings
Exported(b, name, mark) ==
  Hang(b.bindings[name].module, b.bindings[name].orig, mark)

typeSuffix(b, type) ==
  IF Len(type) > 1 /\ module(b, type[1]) THEN Hang(b.imports[type[1]], Dotted(Tail(type)), "#")
  ELSE IF Len(type) > 1 THEN Own(b, Unknown, "#")
  ELSE IF bound(b, type[1]) THEN Exported(b, type[1], "#")
  ELSE IF type[1] \in tsGlobalTypes THEN Top(Builtin, type[1], "#")
  ELSE Own(b, type[1], "#")

enclosingScope(b, span) == Enclosing(b, span)

lookup(b, name, pos) == Visible(b, name, pos, {})

localTypeAt(b, name, pos) ==
  LET d == lookup(b, name, pos) IN IF d = 0 THEN NoType ELSE b.defs[d].type

memberObject(t, node) ==
  LET m == IF Type(t, node) = "call_expression" THEN Field(t, node, "function") ELSE node
  IN IF Type(t, m) = "member_expression" THEN Field(t, m, "object") ELSE 0

\* `this` is the class around it, which the file holds.
enclosingTypeSuffix(b, node) ==
  LET p == Nearest(b.tree, node, Classes)
  IN Append(containerSuffix(b, p), <<FieldText(b.tree, p, "name"), "#">>)

qualifierOf(b, r) ==
  LET t == b.tree
      object == memberObject(t, r.node)
      name == Text(t, object)
      type == localTypeAt(b, name, t[r.name].from)
  IN IF Type(t, object) = "this" /\ Nearest(t, object, Classes) # 0
     THEN Desc(b.coord, enclosingTypeSuffix(b, object))
     ELSE IF Type(t, object) # "identifier" THEN NoTarget
     ELSE IF module(b, name) THEN b.imports[name]
     ELSE IF bound(b, name) THEN Exported(b, name, "#")
     ELSE IF type # NoType THEN typeSuffix(b, type)
     ELSE IF name \in tsGlobals THEN Top(Builtin, name, "#")
     ELSE NoTarget

\* A member of what the object resolves to, or of SCIP's "." for a type the
\* file does not state.
member(b, r, mark) ==
  LET q == qualifierOf(b, r)
      name == Text(b.tree, r.name)
  IN IF q = NoTarget THEN OfUnknown(b, name, mark) ELSE Hang(q, name, mark)

callDescriptor(b, r) ==
  LET name == Text(b.tree, r.name) IN
  IF Type(b.tree, r.name) # "identifier" THEN member(b, r, "().")
  ELSE IF bound(b, name) THEN Exported(b, name, "().")
  ELSE IF name \in tsGlobals THEN Top(Builtin, name, "().")
  ELSE Own(b, name, "().")

readDescriptor(b, r) ==
  LET name == Text(b.tree, r.name)
      def == lookup(b, name, b.tree[r.name].from)
  IN IF Type(b.tree, r.name) # "identifier" THEN member(b, r, ".")
     ELSE IF module(b, name) THEN b.imports[name]
     ELSE IF bound(b, name) THEN Exported(b, name, ".")
     ELSE IF def # 0 THEN DescriptorOf(b, def)
     ELSE IF name \in tsGlobals THEN Top(Builtin, name, ".")
     ELSE Own(b, name, ".")

typeReferenceDescriptor(b, r) ==
  LET t == b.tree
      p == t[r.name].parent
      q == Text(t, FirstNamed(t, p))
      name == Text(t, r.name)
  IN typeSuffix(b, IF Type(t, p) = "nested_type_identifier" THEN <<q, name>> ELSE <<name>>)

referenceDescriptor(b, r) ==
  CASE r.as = "call" -> callDescriptor(b, r)
    [] r.as = "type" -> typeReferenceDescriptor(b, r)
    [] OTHER         -> readDescriptor(b, r)

refPriority(role) == CASE role = "call" -> 3 [] role = "type" -> 2 [] OTHER -> 1
moreSpecific(c, d) == refPriority(c.as) > refPriority(d.as)

-----------------------------------------------------------------------------
(* The passes. *)
addOccurrence(b, desc, role, kind, span) == Added(b, desc, role, kind, span)

collectScopes(b) == Scoped(b, Scopes)

\* The module a file is: a definition without width at its start.
collectModule(b) == PackageDefined(b, <<0, 0>>, Enclosing(b, <<0, 0>>))

\* The names a clause binds: to an export under the exporter's name, or to the
\* module as a whole.
bindClause(b, stmt, mod) ==
  LET t == b.tree
      clause == OfType(t, stmt, "import_clause")
      bind(local, orig) == <<local, [module |-> mod, orig |-> orig]>>
      specs == { s \in Within(t, clause) : t[s].type = "import_specifier" }
      local(s) == IF Field(t, s, "alias") # 0 THEN FieldText(t, s, "alias") ELSE FieldText(t, s, "name")
      pairs == { bind(t[c].text, "default") : c \in { k \in Kids(t, clause) : t[k].type = "identifier" } }
               \cup { bind(local(s), FieldText(t, s, "name")) : s \in specs }
      star == OfType(t, clause, "namespace_import")
  IN [b EXCEPT !.bindings = [k \in { p[1] : p \in pairs } |->
                               (CHOOSE p \in pairs : p[1] = k)[2]] @@ @,
               !.imports = IF star = 0 THEN @ ELSE Bind(@, Text(t, FirstNamed(t, star)), mod)]

importStatement(b, stmt) ==
  LET mod == resolveSpecifier(b, b.tree[Field(b.tree, stmt, "source")].path)
  IN addOccurrence(bindClause(b, stmt, mod), mod, "reference", "package",
                   Span(b.tree, stmt))

collectImports(b) ==
  FoldLeft(importStatement, collectModule(b),
           InOrder({ n \in DOMAIN b.tree : b.tree[n].type = "import_statement" }))

define(a, c) ==
  LET s == Span(a.tree, c.name)
  IN Defined(a, Desc(a.coord, definitionSuffix(a, c)), refineKind(a, c), Text(a.tree, c.name), s,
             enclosingScope(a, s), declaredType(a.tree, c.node))
collectDefinitions(b) == Define(b, Captures(b.tree), define)

refer(a, r) ==
  LET s == Span(a.tree, r.name)
  IN Referred(a, referenceDescriptor(a, r), r.as, s, enclosingScope(a, s))

collectReferences(b) ==
  LET cands == Uses(b.tree)
  IN Refer(b, cands, { p \in cands \X cands : moreSpecific(p[1], p[2]) }, refer)

\* The module's namespace is the file's path under the coordinate's root.
Parse(coord, file) ==
  NewBuilder(coord, moduleNamespace(file.path), Front(Front(file.path)), file.tree)
=============================================================================
