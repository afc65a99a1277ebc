----------------------------- MODULE StanzaJava -----------------------------
(* The Java stanza: extract/java. The namespace is the package clause's;     *)
(* `imports` of the builder is `types`, `bindings` is `members`, and a       *)
(* member's binding is the type that owns it.                                *)
EXTENDS Stanza, TLC

-----------------------------------------------------------------------------
(* query.scm *)
TypeDeclarations == {"class_declaration", "interface_declaration", "enum_declaration",
                     "record_declaration", "annotation_type_declaration"}
Callables == {"method_declaration", "constructor_declaration", "compact_constructor_declaration"}

Scopes ==
  [x \in TypeDeclarations |-> "type"]
  @@ [x \in Callables \cup {"lambda_expression", "static_initializer"} |-> "function"]
  @@ [x \in {"block", "for_statement", "enhanced_for_statement", "catch_clause"} |-> "block"]
  @@ [program |-> "file"]

Captures(t) ==
  Matches(t, { <<x, "name", "identifier", "type">> :
                 x \in {"class_declaration", "enum_declaration", "record_declaration"} }
        \cup { <<x, "name", "identifier", "interface">> :
                 x \in {"interface_declaration", "annotation_type_declaration"} }
        \cup { <<x, "name", "identifier", "method">> : x \in Callables }
        \cup { <<x, "name", "identifier", "field">> :
                 x \in {"enum_constant", "annotation_type_element_declaration"} }
        \cup { <<x, "name", "identifier", "variable">> : x \in {"enhanced_for_statement", "resource"} }
        \cup { <<x, "name", "identifier", "parameter">> :
                 x \in {"formal_parameter", "catch_formal_parameter"} }
        \cup { <<"inferred_parameters", AnyField, "identifier", "parameter">>,
               <<"type_parameter", AnyField, "type_identifier", "parameter">> })
  \cup Matches2(t,
         { <<x[1], "declarator", "variable_declarator", "name", "identifier", x[2]>> :
             x \in { <<"field_declaration", "field">>, <<"constant_declaration", "constant">>,
                     <<"local_variable_declaration", "variable">> } }
         \cup { <<"spread_parameter", AnyField, "variable_declarator", "name", "identifier", "parameter">> })

Uses(t) ==
  Matches(t, { <<"method_invocation", "name", "identifier", "call">> }
        \cup { <<x[1], x[2], "identifier", "read">> :
                 x \in { <<"method_invocation", "object">>, <<"field_access", "object">>,
                         <<"field_access", "field">>, <<"scoped_identifier", "scope">>,
                         <<"scoped_identifier", "name">> } })
  \cup Leaves(t, {"type_identifier"}, "type")
  \cup { [c EXCEPT !.name = OrNode(LastNamed(t, c.node), c.node)] : c \in Leaves(t, {"scoped_type_identifier"}, "type") }

-----------------------------------------------------------------------------
(* Names: lowercase segments are a package, the first capitalised one begins *)
(* the type, and what follows the type is a member.                          *)
Capitals == {"A", "B", "C", "D", "E", "F", "G", "H", "I", "J", "K", "L", "M",
             "N", "O", "P", "Q", "R", "S", "T", "U", "V", "W", "X", "Y", "Z"}
isTypeName(s) == SubSeq(s, 1, 1) \in Capitals

varType == "var"

splitPath(segs) ==
  LET i == Least({ k \in DOMAIN segs : isTypeName(segs[k]) } \cup {Len(segs) + 1})
      j == Least({ k \in i .. Len(segs) : ~isTypeName(segs[k]) } \cup {Len(segs) + 1})
  IN [pkg |-> SubSeq(segs, 1, i - 1), types |-> SubSeq(segs, i, j - 1), members |-> Sub(segs, j)]

\* The prefixes of a dotted name: of each its last segment and its node.
pathSegments(t, node) ==
  LET s[n \in 0 .. Len(t)] ==
        LET field(f, g) == OrNode(Field(t, n, f), Field(t, n, g))
            named == field("scope", "object") # 0 /\ field("name", "field") # 0
            scope == IF named THEN field("scope", "object") ELSE FirstNamed(t, n)
            name  == IF named THEN field("name", "field") ELSE LastNamed(t, n)
        IN CASE Type(t, n) \in {"scoped_identifier", "scoped_type_identifier", "field_access"}
                  /\ scope # name /\ s[scope] # <<>> ->
                  Append(s[scope], [name |-> Text(t, name), node |-> n])
             [] Type(t, n) \in {"identifier", "type_identifier"} ->
                  << [name |-> Text(t, n), node |-> n] >>
             [] Type(t, n) = "generic_type" -> s[FirstNamed(t, n)]
             [] OTHER -> <<>>
  IN s[node]
Names(segs) == [i \in DOMAIN segs |-> segs[i].name]

namespaceOf(segs) == NS(segs)
jdkRoots == {"java", "javax", "jakarta", "jdk", "sun"}
javaLang == {"Object", "String", "System", "Runnable"}
builtin  == <<"java">>

namespaceTarget(b, pkg) ==
  IF pkg # <<>> /\ pkg[1] \in jdkRoots THEN Desc(<< pkg[1] >>, namespaceOf(Tail(pkg)))
                                       ELSE Desc(b.coord, namespaceOf(pkg))

\* A type by its package and the types around it.
TypeAt(b, path) ==
  LET ns == namespaceTarget(b, path.pkg)
  IN  [ns EXCEPT !.suffix = @ \o [i \in DOMAIN path.types |-> <<path.types[i], "#">>]]

-----------------------------------------------------------------------------
(* Types, as far as the syntax states them. *)
unwrapType(t, node) ==
  LET u[n \in 0 .. Len(t)] ==
        CASE Type(t, n) = "array_type"                     -> u[Field(t, n, "element")]
          [] Type(t, n) \in {"generic_type", "catch_type"} -> u[FirstNamed(t, n)]
          [] Type(t, n) = "annotated_type"                 -> u[LastNamed(t, n)]
          [] Type(t, n) \in {"type_identifier", "scoped_type_identifier"} /\ t[n].text # varType ->
               Words(t, n)
          [] OTHER -> NoType
  IN u[node]

declaredType(t, node) ==
  CASE Type(t, node) \in {"local_variable_declaration", "field_declaration", "constant_declaration",
                          "formal_parameter", "enhanced_for_statement", "resource"} ->
         unwrapType(t, Field(t, node, "type"))
    [] Type(t, node) = "catch_formal_parameter" -> unwrapType(t, OfType(t, node, "catch_type"))
    [] Type(t, node) = "spread_parameter"       -> unwrapType(t, FirstNamed(t, node))
    [] OTHER -> NoType

-----------------------------------------------------------------------------
(* Descriptors. *)
containerMark(type) ==
  CASE type \in TypeDeclarations -> "#"
    [] type \in Callables        -> "()."
    [] OTHER                     -> ""

containerSuffix(b, node) ==
  LET t == b.tree
      c[n \in 0 .. Len(t)] ==
        LET p == IF n = 0 THEN 0 ELSE t[n].parent
            name == FieldText(t, p, "name")
        IN IF p = 0 THEN b.ns
           ELSE IF containerMark(Type(t, p)) # "" /\ name # "" THEN Append(c[p], <<name, containerMark(Type(t, p))>>)
           ELSE c[p]
  IN c[node]

\* A record's component is a field.
isRecordComponent(t, node) ==
  LET list == t[node].parent IN
  /\ Type(t, node) = "formal_parameter"
  /\ Type(t, list) = "formal_parameters"
  /\ Type(t, t[list].parent) = "record_declaration"

refineKind(t, c) == IF c.as = "parameter" /\ isRecordComponent(t, c.node) THEN "field" ELSE c.as

definitionDescriptor(b, c) ==
  LET kind == refineKind(b.tree, c)
      mark == IF kind = "method" THEN "()."
              ELSE IF kind \in {"type", "interface"} THEN "#"
              ELSE IF kind = "parameter" THEN "()"
              ELSE "."
  IN Desc(b.coord, Append(containerSuffix(b, c.node), <<Text(b.tree, c.name), mark>>))

enclosingType(t, node) == Nearest(t, node, TypeDeclarations)

\* A type name the file declares, in the innermost container that declares it.
localType(b, node, name) ==
  LET t == b.tree
      under(p) == IF p = 0 THEN b.ns ELSE
        LET own == FieldText(t, p, "name")
        IN containerSuffix(b, p) \o (IF own = "" THEN <<>> ELSE << <<own, containerMark(t[p].type)>> >>)
      candidate(p) == Desc(b.coord, Append(under(p), <<name, "#">>))
      around == { p \in Ancestors(t, node) \cup {node} : containerMark(t[p].type) # "" } \cup {0}
      found == { x \in { [at |-> p, desc |-> candidate(p)] : p \in around } : Indexed(b, x.desc) # 0 }
  IN NearestOf(found, NoTarget)

\* An import's type, the file's, java.lang's, or else the package's.
resolveTypeName(b, node, type) ==
  LET name == type[1]
  IN IF Len(type) > 1 THEN TypeAt(b, splitPath(type))
     ELSE IF name \in DOMAIN b.imports THEN b.imports[name]
     ELSE OrElse(localType(b, node, name),
                 IF name \in javaLang THEN Desc(builtin, << <<"lang", "/">>, <<name, "#">> >>)
                 ELSE Own(b, name, "#"))

thisTarget(b, node) ==
  LET decl == enclosingType(b.tree, node)
  IN IF FieldText(b.tree, decl, "name") = "" THEN NoTarget
     ELSE Desc(b.coord, Append(containerSuffix(b, decl), <<FieldText(b.tree, decl, "name"), "#">>))

\* `super`: the class extended, java.lang.Object when none is.
superTarget(b, node) ==
  LET t == b.tree
      decl == enclosingType(t, node)
      stated == unwrapType(t, FirstNamed(t, Field(t, decl, "superclass")))
  IN IF decl = 0 THEN NoTarget
     ELSE IF stated # NoType THEN resolveTypeName(b, node, stated)
     ELSE Desc(builtin, << <<"lang", "/">>, <<"Object", "#">> >>)

enclosingScope(b, span) == Enclosing(b, span)

(* Mutant: a member is looked for only below its declaration. *)
lookup_Above(b, name, pos) == Visible(b, name, pos, {})

lookup(b, name, pos) == Visible(b, name, pos, {"type"})

localTypeAt(b, name, pos) ==
  LET d == lookup(b, name, pos) IN IF d = 0 THEN NoType ELSE b.defs[d].type

\* A name on the left of a dot: a value of a stated type, or a type.
identifierTarget(b, value, pos) ==
  LET name == Text(b.tree, value)
      type == localTypeAt(b, name, pos)
  IN IF type # NoType THEN resolveTypeName(b, value, type)
     ELSE IF name \in DOMAIN b.imports THEN b.imports[name]
     ELSE IF isTypeName(name) THEN resolveTypeName(b, value, <<name>>)
     ELSE NoTarget

\* A dotted one: a field of `this`, or a qualified type no local shadows.
dottedTarget(b, value, segs, pos) ==
  LET t == b.tree
      path == splitPath(segs)
      type == localTypeAt(b, FieldText(t, value, "field"), pos)
  IN IF segs = <<>>
     THEN IF Type(t, Field(t, value, "object")) = "this" /\ type # NoType
          THEN resolveTypeName(b, value, type) ELSE NoTarget
     ELSE IF lookup(b, segs[1], pos) = 0 /\ path.types # <<>> /\ path.members = <<>>
          THEN TypeAt(b, path) ELSE NoTarget

\* What the left of a dot stands for: the type its members hang off.
valueTarget(b, node, pos) ==
  LET t == b.tree
      value == Bare(t, node, {"parenthesized_expression"})
      created == unwrapType(t, Field(t, value, "type"))
  IN CASE Type(t, value) = "this"       -> thisTarget(b, value)
       [] Type(t, value) = "super"      -> superTarget(b, value)
       [] Type(t, value) = "identifier" -> identifierTarget(b, value, pos)
       [] Type(t, value) = "object_creation_expression" /\ created # NoType ->
            resolveTypeName(b, value, created)
       [] Type(t, value) \in {"field_access", "scoped_identifier", "scoped_type_identifier"} ->
            dottedTarget(b, value, Names(pathSegments(t, value)), pos)
       [] OTHER -> NoTarget

packageTarget(b, path) ==
  IF path.types # <<>> \/ path.pkg = <<>> THEN NoTarget ELSE namespaceTarget(b, path.pkg)

callDescriptor(b, r) ==
  LET name == Text(b.tree, r.name)
      object == Field(b.tree, r.node, "object")
      target == valueTarget(b, object, b.tree[r.name].from)
  IN IF object # 0 THEN HangOr(target, name, "().", OfUnknown(b, name, "()."))
     ELSE IF name \in DOMAIN b.bindings THEN Hang(b.bindings[name], name, "().")
     ELSE HangOr(thisTarget(b, r.name), name, "().", Own(b, name, "()."))

\* The left of a dot: a binding in scope, a type, the root of a package.
qualifierDescriptor(b, r) ==
  LET name == Text(b.tree, r.name)
      def == lookup(b, name, b.tree[r.name].from)
  IN IF def # 0 THEN DescriptorOf(b, def)
     ELSE IF name \in DOMAIN b.imports THEN b.imports[name]
     ELSE IF isTypeName(name) THEN resolveTypeName(b, r.name, <<name>>)
     ELSE namespaceTarget(b, <<name>>)

isQualifier(t, r) ==
  \E f \in {"object", "scope"} : Field(t, r.node, f) # 0 /\ t[Field(t, r.node, f)].from = t[r.name].from

readDescriptor(b, r) ==
  LET t == b.tree
      name == Text(t, r.name)
      left == OrNode(Field(t, r.node, "object"), Field(t, r.node, "scope"))
      target == valueTarget(b, left, t[r.name].from)
      pkg == packageTarget(b, splitPath(Names(pathSegments(t, left))))
  IN IF isQualifier(t, r) THEN qualifierDescriptor(b, r)
     ELSE HangOr(target, name, ".",
            HangOr(pkg, name, IF isTypeName(name) THEN "#" ELSE "/", OfUnknown(b, name, ".")))

isTypeQualifier(t, n) ==
  LET p == t[n].parent
  IN Type(t, p) = "scoped_type_identifier" /\ Span(t, FirstNamed(t, p)) = Span(t, n)

typeReferenceDescriptor(b, r) ==
  LET t == b.tree
      name == Text(t, r.name)
      root == ~isTypeName(name) /\ isTypeQualifier(t, r.name)
      segs == Names(pathSegments(t, r.node))
      qualified == Type(t, r.node) = "scoped_type_identifier" /\ segs # <<>>
  IN IF root THEN namespaceTarget(b, <<name>>)
     ELSE IF qualified THEN TypeAt(b, splitPath(segs))
     ELSE resolveTypeName(b, r.name, <<name>>)

referenceDescriptor(b, r) ==
  CASE r.as = "call" -> callDescriptor(b, r)
    [] r.as = "type" -> typeReferenceDescriptor(b, r)
    [] OTHER         -> readDescriptor(b, r)

refPriority(role) == CASE role = "call" -> 3 [] role = "type" -> 2 [] OTHER -> 1

\* The role, then the wider node.
moreSpecific(t, c, d) ==
  \/ refPriority(c.as) > refPriority(d.as)
  \/ /\ refPriority(c.as) = refPriority(d.as)
     /\ t[c.node].to - t[c.node].from > t[d.node].to - t[d.node].from

-----------------------------------------------------------------------------
(* The passes. *)
addOccurrence(b, desc, role, kind, span) == Added(b, desc, role, kind, span)

collectScopes(b) == Scoped(b, Scopes)

claimSubtree(b, node) == ClaimSubtree(b, node, {"identifier", "type_identifier"})

\* The package a file is of: its clause, or the default one at the file's start.
collectPackage(b) ==
  LET t == b.tree
      clause == Least({ n \in DOMAIN t : t[n].type = "package_declaration" })
      decl == LastNamed(t, clause)
      ns == IF decl = 0 THEN <<>> ELSE namespaceOf(Words(t, decl))
      c == [(IF decl = 0 THEN b ELSE claimSubtree(b, decl)) EXCEPT !.ns = ns]
  IN PackageDefined(c, IF decl = 0 THEN <<0, 0>> ELSE Span(t, decl), fileScope(b))

\* An import names a package and, but for a package's own, a type; without a
\* wildcard it binds the type or, when static, the type's member.
importsPackage(b, segs, pkg) ==
  IF pkg = <<>> THEN b
  ELSE addOccurrence(b, namespaceTarget(b, pkg), "reference", "package", Span(b.tree, segs[Len(pkg)].node))

importsType(b, segs, path, wildcard, target) ==
  LET c == addOccurrence(b, target, "reference", "type", Span(b.tree, segs[Len(path.pkg) + Len(path.types)].node))
      member == path.members # <<>>
  IN [c EXCEPT !.imports  = IF wildcard \/ member  THEN @ ELSE Bind(@, Last(path.types), target),
               !.bindings = IF wildcard \/ ~member THEN @ ELSE Bind(@, Last(path.members), target)]

importPath(b, segs, path, wildcard) ==
  LET c == importsPackage(b, segs, path.pkg)
  IN IF path.types = <<>> THEN c ELSE importsType(c, segs, path, wildcard, TypeAt(b, path))

importDeclaration(b, stmt) ==
  LET name == FirstNamed(b.tree, stmt)
      segs == pathSegments(b.tree, name)
  IN importPath(claimSubtree(b, name), segs, splitPath(Names(segs)), OfType(b.tree, stmt, "asterisk") # 0)

collectImports(b) ==
  FoldLeft(importDeclaration, collectPackage(b),
           InOrder({ n \in DOMAIN b.tree : b.tree[n].type = "import_declaration" }))

define(a, c) ==
  LET s == Span(a.tree, c.name)
  IN Defined(a, definitionDescriptor(a, c), refineKind(a.tree, c), Text(a.tree, c.name), s,
             enclosingScope(a, s), declaredType(a.tree, c.node))
collectDefinitions(b) == Define(b, Captures(b.tree), define)

refer(a, r) ==
  LET s == Span(a.tree, r.name)
  IN Referred(a, referenceDescriptor(a, r), r.as, s, enclosingScope(a, s))

\* `var` is no type's name.
collectReferences(b) ==
  LET cands == { r \in Uses(b.tree) : ~(r.as = "type" /\ Text(b.tree, r.name) = varType) }
  IN Refer(b, cands, { p \in cands \X cands : moreSpecific(b.tree, p[1], p[2]) }, refer)

\* The namespace is the file's to state.
Parse(coord, file) == NewBuilder(coord, <<>>, <<>>, file.tree)
=============================================================================
