----------------------------- MODULE CallMeaning -----------------------------
(***************************************************************************)
(* What MATLAB calls, said of the files themselves and not of the registry *)
(* and the index: the candidates in order of precedence, each a set of     *)
(* functions with their files.  What the lowering of calls (Specialization)*)
(* is held against.                                                        *)
(***************************************************************************)
EXTENDS Specialization

Others == {project[i] : i \in 2..Len(project)}
Roots == IF SearchPaths = {} THEN {<<>>} ELSE SearchPaths
Own(file, n) == {[ast |-> fn, file |-> file] : fn \in {x \in Range(file.functions) : x.name = n}}
Primary(file) == {[ast |-> file.functions[i], file |-> file] : i \in {1} \cap DOMAIN file.functions}

\* The file that defines a qualified name.
FileOf(name) ==
  {f \in Others : \E root \in Roots : f.dir = root \o [i \in DOMAIN Front(name) |-> <<"+", name[i]>>] /\ f.base = Last(name)}
FunctionNamed(name) == UNION {Primary(f) : f \in {g \in FileOf(name) : g.classes = <<>>}}

ClassDefs == {[name |-> <<d.name>>, file |-> mainFile, def |-> d] : d \in Range(mainFile.classes)}
        \cup {[name |-> <<f.base>>, file |-> f, def |-> f.classes[1]] :
                f \in {g \in Others : g.dir \in Roots \cup {Append(root, <<"@", g.base>>) : root \in Roots} /\ g.classes # <<>>}}
InClass(d, n) == {[ast |-> fn, file |-> d.file] :
                    fn \in {x \in Methods(d.def, FALSE) \cup Methods(d.def, TRUE) : x.name = n}}

RECURSIVE Inherited(_, _)
Inherited(c, n) ==
  UNION {IF InClass(d, n) # {} THEN InClass(d, n) ELSE Inherited(d.def.superClass, n) :
         d \in {x \in ClassDefs : x.name = c}}
Constructors(c) == UNION {InClass(d, d.def.name) : d \in {x \in ClassDefs : x.name = c}}

\* Of several objects, one no other is superior to, the leftmost.
Dispatched(classes, n) ==
  LET able == {i \in DOMAIN classes : classes[i] # NoName /\ Inherited(classes[i], n) # {}}
      Beaten(i) == \E j \in able, d \in ClassDefs : d.name = classes[j] /\ classes[i] \in d.def.inferior
  IN  UNION {Inherited(classes[i], n) : i \in {j \in able : ~Beaten(j) /\ \A m \in able : m < j => Beaten(m)}}

ImportedAs(file, n, wildcard) ==
  UNION {IF wildcard THEN FunctionNamed(Append(imp.path, n))
         ELSE IF Last(imp.path) = n THEN FunctionNamed(imp.path) ELSE {} :
         imp \in {x \in Range(file.imports) : x.wildcard = wildcard}}

\* The private functions of the caller's directory, and those beside a private caller.
Private(file, n) ==
  LET home == IF file.dir # <<>> /\ Last(file.dir) = PRIVATE THEN file.dir ELSE Append(file.dir, PRIVATE)
  IN  UNION {Primary(f) : f \in {g \in Others : g.dir = home /\ g.base = n}}

Meant(c) ==
  LET n == c.stmt.name
      file == c.site.file
  IN  CASE c.stmt.k = "call" ->
             FirstOf(<<ImportedAs(file, n, FALSE), Own(file, n), ImportedAs(file, n, TRUE), Private(file, n),
                       Dispatched(c.classes, n), FunctionNamed(<<n>>), Constructors(<<n>>)>>)
        [] c.stmt.k = "method" -> Inherited(IF c.receiver = NoName THEN <<c.stmt.base>> ELSE c.receiver, n)
        [] c.stmt.k = "super" -> FirstOf(<<Inherited(c.stmt.parent, n), Constructors(c.stmt.parent)>>)

-----------------------------------------------------------------------------
Identity(functions) == {<<x.ast.name, x.ast.body, x.file.dir, x.file.base>> : x \in functions}

\* Every call that is lowered runs the function MATLAB's order of precedence
\* gives the name where it stands, or a builtin when there is none: imports,
\* functions of the calling file, private functions, methods of an argument's
\* class, functions of the project, constructors (functionResolve.ts).  What
\* mtoc cannot lower it may refuse, but never take for something else.
CallsWhatMatlabCalls ==
  \A c \in called :
    (c.stmt.k # "call" \/ c.stmt.name \notin c.site.variables) => Identity(c.got) = Identity(Meant(c))
=============================================================================
