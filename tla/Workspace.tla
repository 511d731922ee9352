------------------------------ MODULE Workspace ------------------------------
(***************************************************************************)
(* Which function a name means (src/workspace/workspace.ts over the        *)
(* vendored src/numbl-core: functionResolve.ts, lowering/loweringContext.ts*)
(* and classInfo.ts).  The files of a project are registered one by one    *)
(* under the names their places give them, an index of the names is built  *)
(* once, and every call is resolved in the index.                          *)
(*                                                                         *)
(* A file is [dir, base, functions, classes, imports]: dir is a sequence   *)
(* of parts <<mark, name>> with mark "+" for a package, "@" for a class    *)
(* folder and "" otherwise; base is its name without ".m".  A function is  *)
(* [name, params, outputs, body].  A class is [name, superClass, methods,  *)
(* inferior], methods a sequence of blocks [static, body, signatures].     *)
(* An import is [path, wildcard].  Names are sequences: pkg.f is           *)
(* <<"pkg", "f">>, and <<>> is no name.                                    *)
(***************************************************************************)
EXTENDS Integers, FiniteSets, SequencesExt

CONSTANTS SearchPaths,         \* the directories on the search path
          ExprBuiltins,        \* builtins that have a value
          StatementBuiltins,   \* builtins lowered where they stand as a statement
          OperatorNames        \* method names that overload an operator

VARIABLES project,    \* the files in the order they were given, the main file first
          unread,     \* those not registered yet
          registry,
          index       \* the function index, <<>> until it is built

wsVars == <<project, unread, registry, index>>

mainFile == project[1]
Builtins == ExprBuiltins \cup StatementBuiltins

PRIVATE == <<"", "private">>
NoName == <<>>

\* The first alternative that has an answer.
FirstOf(alternatives) ==
  LET found == {i \in DOMAIN alternatives : alternatives[i] # {}}
  IN  IF found = {} THEN {} ELSE alternatives[Min(found)]

\* Map.get of a map of sets; the empty map is <<>>.
At(map, key) == IF key \in DOMAIN map THEN map[key] ELSE {}
Names(functions) == {<<functions[i].name>> : i \in DOMAIN functions}

-----------------------------------------------------------------------------
(* Paths.                                                                   *)

getRelativePath(dir) ==
  LET roots == {sp \in SearchPaths : IsPrefix(sp, dir)}
  IN  IF roots = {} THEN dir
      ELSE SubSeq(dir, Max({Len(sp) : sp \in roots}) + 1, Len(dir))

getEffectiveDir(dir) ==
  LET rel == getRelativePath(dir)
  IN  IF rel # <<>> /\ Last(rel) = PRIVATE THEN Front(rel) ELSE rel

Position(dir, Test(_)) == LET at == {i \in DOMAIN dir : Test(dir[i])}
                          IN  IF at = {} THEN 0 ELSE Min(at)
Packages(dir) == [i \in DOMAIN dir |-> dir[i][2]]

-----------------------------------------------------------------------------
(* Registration: the maps of the registry, and the class folders found.     *)

EmptyRegistry == [filesByFuncName |-> <<>>, fileToFuncName |-> <<>>, classesByName |-> <<>>,
                  localClassesByName |-> <<>>, privateFilesByDir |-> <<>>, folders |-> <<>>]

Set(map, key, value) == [k \in DOMAIN map \cup {key} |-> IF k = key THEN value ELSE map[k]]
SetIfNew(map, key, value) == IF key \in DOMAIN map THEN map ELSE Set(map, key, value)

\* Functions of the class's method blocks, static or not.
Methods(def, static) ==
  UNION {Range(def.methods[i].body) : i \in {j \in DOMAIN def.methods : def.methods[j].static = static}}
Declared(def, static) ==
  {<<f.name>> : f \in Methods(def, static)}
    \cup UNION {{<<n>> : n \in Range(def.methods[i].signatures)} :
                i \in {j \in DOMAIN def.methods : def.methods[j].static = static}}

extractClassInfo(def, qualifiedName, file) ==
  LET constructors == {<<def.name>>, <<Last(qualifiedName)>>}
  IN  [name |-> qualifiedName, file |-> file, superClass |-> def.superClass, def |-> def,
       methodNames |-> Declared(def, FALSE) \ constructors,
       staticMethodNames |-> Declared(def, TRUE),
       constructorName |-> LET own == Declared(def, FALSE) \cap constructors
                           IN  IF own = {} THEN NoName ELSE CHOOSE n \in own : TRUE,
       inferior |-> def.inferior, external |-> <<>>]

registerWorkspaceClass(r, name, file) ==
  IF file.classes = <<>> THEN [r EXCEPT !.filesByFuncName = Set(@, name, file)]
  ELSE [r EXCEPT !.classesByName = SetIfNew(@, name, extractClassInfo(file.classes[1], name, file))]

\* A file below a private directory is filed under the directory above.
RegisterPrivate(r, rel, file) ==
  LET at == Position(rel, LAMBDA p : p = PRIVATE)
  IN  [r EXCEPT !.privateFilesByDir = Set(@, <<SubSeq(rel, 1, at - 1), file.base>>, file)]

\* A file of a class folder: the class itself, or a method of it.
RegisterInFolder(r, rel, at, file) ==
  LET inside == SelectSeq(SubSeq(rel, 1, at - 1), LAMBDA p : p[1] = "+")
      name == Append(Packages(inside), rel[at][2])
      group == IF name \in DOMAIN r.folders THEN r.folders[name] ELSE [def |-> <<>>, methods |-> <<>>]
  IN  [r EXCEPT !.folders =
         Set(@, name, IF file.base = rel[at][2] THEN [group EXCEPT !.def = <<file>>]
                      ELSE [group EXCEPT !.methods = Append(@, file)])]

\* A file at the top of a search path or in packages: other directories hold none.
RegisterNamed(r, rel, file) ==
  LET name == Append(Packages(rel), file.base)
      named == [r EXCEPT !.fileToFuncName = Set(@, file, name)]
  IN  IF \E i \in DOMAIN rel : rel[i][1] # "+" THEN r
      ELSE IF file.classes # <<>> THEN registerWorkspaceClass(named, name, file)
      ELSE [named EXCEPT !.filesByFuncName = SetIfNew(@, name, file)]

registerWorkspaceFile(r, file) ==
  LET rel == getRelativePath(file.dir)
      at == Position(rel, LAMBDA p : p[1] = "@")
  IN  IF \E i \in DOMAIN rel : rel[i] = PRIVATE THEN RegisterPrivate(r, rel, file)
      ELSE IF at > 0 THEN RegisterInFolder(r, rel, at, file)
      ELSE RegisterNamed(r, rel, file)

\* A class folder with a class in it: its other files are methods of the class.
registerFolder(r, name) ==
  LET group == r.folders[name]
      known == registerWorkspaceClass(r, name, group.def[1])
      external == [m \in {<<f.base>> : f \in Range(group.methods)} |->
                     CHOOSE f \in Range(group.methods) : <<f.base>> = m]
  IN  IF group.def = <<>> THEN r
      ELSE IF name \notin DOMAIN known.classesByName THEN known
      ELSE [known EXCEPT !.classesByName[name].external = external @@ @,
                         !.classesByName[name].methodNames =
                            @ \cup (DOMAIN external \ known.classesByName[name].staticMethodNames)]

\* Each class folder changes what is kept under its own name only, so that all
\* can be registered at once.
registerFolders(r) ==
  LET all == {r} \cup {registerFolder(r, n) : n \in DOMAIN r.folders}
      after(n) == IF n \in DOMAIN r.folders THEN registerFolder(r, n) ELSE r
  IN  [r EXCEPT !.filesByFuncName = [n \in UNION {DOMAIN s.filesByFuncName : s \in all} |-> after(n).filesByFuncName[n]],
                !.classesByName = [n \in UNION {DOMAIN s.classesByName : s \in all} |-> after(n).classesByName[n]]]

\* The names a main file declares itself.
registerLocalClasses(r, file) ==
  [r EXCEPT !.localClassesByName =
     [n \in {<<c.name>> : c \in Range(file.classes)} |->
        extractClassInfo(CHOOSE c \in Range(file.classes) : <<c.name>> = n, n, file)]]

-----------------------------------------------------------------------------
(* Classes.                                                                 *)

ClassNames(r) == DOMAIN r.classesByName \cup DOMAIN r.localClassesByName
getClassInfo(r, c) == IF c \in DOMAIN r.classesByName THEN r.classesByName[c] ELSE r.localClassesByName[c]

\* A class and its known ancestors, nearest first.
Lineage(r, c) ==
  LET up[n \in 0..Cardinality(ClassNames(r))] ==
        IF n = 0 THEN c
        ELSE IF up[n - 1] \in ClassNames(r) THEN getClassInfo(r, up[n - 1]).superClass ELSE NoName
  IN  SelectSeq([n \in 1..Cardinality(ClassNames(r)) |-> up[n - 1]], LAMBDA x : x \in ClassNames(r))

Ancestry(r, c) == {getClassInfo(r, x) : x \in Range(Lineage(r, c))}
classHasMethod(r, c, m) == \E info \in Ancestry(r, c) : m \in info.methodNames

findDefiningClass(r, c, m) ==
  LET line == Lineage(r, c)
      Defines(info) == \/ m \in info.methodNames \cup info.staticMethodNames
                       \/ m \in DOMAIN info.external \cup {info.constructorName}
      at == {i \in DOMAIN line : Defines(getClassInfo(r, line[i]))}
  IN  IF at = {} THEN c ELSE line[Min(at)]

-----------------------------------------------------------------------------
(* The index.                                                               *)

Subfunctions(name, file) == Names(file.functions) \ {name}

ImportEntries(file, statics) ==
  [i \in DOMAIN file.imports |->
     LET p == file.imports[i].path
     IN  [path |-> p, wildcard |-> file.imports[i].wildcard,
          static |-> ~file.imports[i].wildcard /\ Len(p) > 1 /\ <<Last(p)>> \in At(statics, Front(p))]]

\* The helpers in the file of a class, and beside its methods in their own files.
ClassFileSubfunctions(r, c) ==
  LET info == getClassInfo(r, c)
  IN  (Names(info.file.functions) \ (info.methodNames \cup info.staticMethodNames \cup {info.constructorName}))
      \cup UNION {Subfunctions(m, info.external[m]) : m \in DOMAIN info.external}

\* Methods, with those of the ancestors.
ClassInstanceMethods(r, c) ==
  UNION {info.methodNames \cup (DOMAIN info.external \ info.staticMethodNames) : info \in Ancestry(r, c)}
ClassStaticMethods(r, c) == UNION {info.staticMethodNames : info \in Ancestry(r, c)}

WithImports(r, main) ==
  {main} \cup Range(r.filesByFuncName) \cup {info.file : info \in Range(r.classesByName)} \cup Range(r.privateFilesByDir)

buildFunctionIndex(r, main) ==
  LET classes == ClassNames(r)
      statics == [c \in classes |-> ClassStaticMethods(r, c)]
  IN  [mainLocalFunctions |-> Names(main.functions),
       workspaceFunctions |-> DOMAIN r.filesByFuncName,
       workspaceClasses |-> classes,
       workspaceFileSubfunctions |-> [n \in DOMAIN r.filesByFuncName |-> Subfunctions(n, r.filesByFuncName[n])],
       classFileSubfunctions |-> [c \in classes |-> ClassFileSubfunctions(r, c)],
       classInstanceMethods |-> [c \in classes |-> ClassInstanceMethods(r, c)],
       classStaticMethods |-> statics,
       classConstructors |-> [c \in classes |-> getClassInfo(r, c).constructorName],
       privateFunctions |-> DOMAIN r.privateFilesByDir,
       privateFileSubfunctions |-> [k \in DOMAIN r.privateFilesByDir |->
                                      Subfunctions(<<k[2]>>, r.privateFilesByDir[k])],
       classInferiorClasses |-> [c \in classes |-> getClassInfo(r, c).inferior],
       fileToFuncName |-> r.fileToFuncName,
       fileImports |-> [f \in WithImports(r, main) |-> ImportEntries(f, statics)],
       mainFile |-> main]

-----------------------------------------------------------------------------
(* Resolution.  A call site is [file, className, targetClassName]; classes  *)
(* holds, for each argument, its class or NoName.  Each tier answers with   *)
(* at most one target.                                                      *)

Method(c, n, strip) == [k |-> "classMethod", class |-> c, name |-> n, strip |-> strip]

\* 0. A class named at the call: a static method is not handed the instance.
PinnedMethod(n, classes, site, ix) ==
  IF site.targetClassName = NoName THEN {}
  ELSE {Method(site.targetClassName, n,
               /\ n \in At(ix.classStaticMethods, site.targetClassName)
               /\ classes # <<>> /\ classes[1] # NoName)}

\* What one import of the file says of a name.
Imported(imp, n, ix) ==
  LET full == IF imp.wildcard THEN imp.path \o n ELSE imp.path
  IN  IF ~imp.wildcard /\ n # <<Last(imp.path)>> THEN {}
      ELSE IF imp.static THEN {Method(Front(imp.path), n, FALSE)}
      ELSE IF full \in ix.workspaceFunctions THEN {[k |-> "workspaceFunction", name |-> full]}
      ELSE IF full \in ix.workspaceClasses THEN {[k |-> "workspaceClassConstructor", class |-> full]}
      ELSE IF imp.wildcard /\ n \in At(ix.classStaticMethods, imp.path) THEN {Method(imp.path, n, FALSE)}
      ELSE {}

resolveViaImports(n, site, ix, wildcard) ==
  IF site.file \notin DOMAIN ix.fileImports THEN {}
  ELSE LET imports == ix.fileImports[site.file]
       IN  FirstOf([i \in DOMAIN imports |->
                      IF imports[i].wildcard = wildcard THEN Imported(imports[i], n, ix) ELSE {}])

\* 1. Functions of the calling file: of a class, of the main file, of a
\* function's file, of a private one.
LocalInClass(n, site, ix) ==
  LET c == site.className
      isClassMethod == \/ n \in At(ix.classInstanceMethods, c) \cup At(ix.classStaticMethods, c)
                       \/ n \in {ix.classConstructors[x] : x \in {c} \cap DOMAIN ix.classConstructors}
  IN  IF ~isClassMethod /\ n \in At(ix.classFileSubfunctions, c)
      THEN {[k |-> "localFunction", from |-> "classFile"]} ELSE {}

LocalInMain_AnyFile(n, site, ix) ==     \* seeded: the main file's functions are seen from everywhere
  IF n \in ix.mainLocalFunctions THEN {[k |-> "localFunction", from |-> "main"]} ELSE {}

LocalInMain(n, site, ix) ==
  IF site.file = ix.mainFile /\ n \in ix.mainLocalFunctions
  THEN {[k |-> "localFunction", from |-> "main"]} ELSE {}

LocalInWorkspaceFile(n, site, ix) ==
  LET inFolder == site.file.dir # <<>> /\ site.file.dir[1][1] = "@"
      wsName == IF site.file \in DOMAIN ix.fileToFuncName THEN ix.fileToFuncName[site.file]
                ELSE <<site.file.base>>
  IN  IF ~inFolder /\ n \in At(ix.workspaceFileSubfunctions, wsName)
      THEN {[k |-> "localFunction", from |-> "workspaceFile", at |-> wsName]} ELSE {}

\* The file name holds "/private/": the directory is not the name's beginning.
LocalInPrivateFile(n, site, ix) ==
  LET dir == site.file.dir
  IN  IF /\ \E i \in DOMAIN dir : i > 1 /\ dir[i] = PRIVATE
         /\ n \in At(ix.privateFileSubfunctions, <<getEffectiveDir(dir), site.file.base>>)
      THEN {[k |-> "localFunction", from |-> "privateFile"]} ELSE {}

LocalFunction(n, site, ix) ==
  IF site.className # NoName THEN LocalInClass(n, site, ix)
  ELSE FirstOf(<<LocalInMain(n, site, ix), LocalInWorkspaceFile(n, site, ix), LocalInPrivateFile(n, site, ix)>>)

\* 2. Private functions of the caller's directory.
PrivateFunction(n, site, ix) ==
  IF <<getEffectiveDir(site.file.dir), n[1]>> \in ix.privateFunctions
  THEN {[k |-> "privateFunction"]} ELSE {}

\* 3. A method of the class of an argument; of several, of the superior class.
ArgumentMethod(n, classes, ix) ==
  LET HasMethod(c) == n \in At(ix.classInstanceMethods, c) \cup At(ix.classStaticMethods, c)
      candidates == SelectSeq(classes, LAMBDA c : c # NoName /\ HasMethod(c))
      Superior(winner, c) == IF winner \in At(ix.classInferiorClasses, c) THEN c ELSE winner
  IN  IF candidates = <<>> THEN {}
      ELSE {Method(FoldLeft(Superior, candidates[1], candidates), n, FALSE)}

\* 4 to 6. Functions of the project, classes, builtins.
Global(n, ix) ==
  FirstOf(<<IF n \in ix.workspaceFunctions THEN {[k |-> "workspaceFunction", name |-> n]} ELSE {},
            IF n \in ix.workspaceClasses THEN {[k |-> "workspaceClassConstructor", class |-> n]} ELSE {},
            IF n[1] \in Builtins /\ Len(n) = 1 THEN {[k |-> "builtin", name |-> n[1]]} ELSE {}>>)

resolveFunction(n, classes, site, ix) ==
  FirstOf(<<PinnedMethod(n, classes, site, ix), resolveViaImports(n, site, ix, FALSE),
            LocalFunction(n, site, ix), resolveViaImports(n, site, ix, TRUE),
            PrivateFunction(n, site, ix), ArgumentMethod(n, classes, ix), Global(n, ix)>>)

-----------------------------------------------------------------------------
(* What lowering is told (Workspace.resolve): the function itself, with its *)
(* file, or that the target is none it supports.                            *)

Unsupported == [k |-> "unsupported"]
Unresolved == [k |-> "none"]

isHandleClass(info) == info.superClass = <<"handle">>
validateOneClass(info) ==
  ~isHandleClass(info) /\ info.methodNames \cap OperatorNames = {} /\ DOMAIN info.external = {}
validateClassSupported(r, c) == \A info \in Ancestry(r, c) : validateOneClass(info)

findStmtInBody(functions, n) ==
  FirstOf([i \in DOMAIN functions |-> IF <<functions[i].name>> = n THEN {functions[i]} ELSE {}])

\* A constructor is handed the object it returns as its first argument.
lookupClassMethodAST(info, m) ==
  LET blocks == info.def.methods
      found == FirstOf([i \in DOMAIN blocks |-> findStmtInBody(blocks[i].body, m)])
      receiver(fn) == IF fn.outputs = <<>> THEN "obj" ELSE fn.outputs[1]
  IN  IF m = info.constructorName
      THEN {[fn EXCEPT !.params = <<receiver(fn)>> \o @] : fn \in found} ELSE found

userFunction(n, found, file) ==
  IF found = {} THEN Unsupported
  ELSE [k |-> "userFunction", name |-> n[1], ast |-> CHOOSE fn \in found : TRUE, file |-> file]

classTarget(r, c, m, kind, strip) ==
  LET info == getClassInfo(r, c)
      found == lookupClassMethodAST(info, m)
  IN  IF c \notin ClassNames(r) \/ m = NoName THEN Unsupported
      ELSE IF ~validateClassSupported(r, c) \/ found = {} THEN Unsupported
      ELSE [k |-> kind, class |-> c, name |-> m, strip |-> strip, ast |-> CHOOSE fn \in found : TRUE, file |-> info.file]

Resolved(target, n, r) ==
  CASE target.k = "builtin" -> target
    [] target.k = "localFunction" ->
         (CASE target.from = "main" -> userFunction(n, findStmtInBody(mainFile.functions, n), mainFile)
            [] target.from = "workspaceFile" ->
                 LET file == r.filesByFuncName[target.at]
                 IN  userFunction(n, findStmtInBody(file.functions, n), file)
            [] OTHER -> Unsupported)
    [] target.k = "workspaceFunction" ->
         LET file == r.filesByFuncName[target.name]
         IN  userFunction(n, {file.functions[i] : i \in {1} \cap DOMAIN file.functions}, file)
    [] target.k = "privateFunction" -> Unsupported
    [] target.k = "classMethod" ->
         classTarget(r, findDefiningClass(r, target.class, target.name), target.name, "classMethod", target.strip)
    [] target.k = "workspaceClassConstructor" ->
         classTarget(r, target.class, getClassInfo(r, target.class).constructorName, "classConstructor", FALSE)

ResolvedAmong(found, n) ==
  IF found = {} THEN Unresolved ELSE Resolved(CHOOSE t \in found : TRUE, n, registry)
resolve(n, classes, site) ==
  ResolvedAmong(resolveFunction(n, classes, site, index), n)

resolveForTargetClass(n, classes, c, site) == resolve(n, classes, [site EXCEPT !.targetClassName = c])

-----------------------------------------------------------------------------
(* addFile and finalize: the files in their order, then the class folders,  *)
(* the main file's own names, and the index.                                *)

Register ==
  /\ unread # <<>>
  /\ registry' = registerWorkspaceFile(registry, Head(unread))
  /\ unread' = Tail(unread)
  /\ UNCHANGED <<project, index>>

finalize ==
  /\ unread = <<>> /\ index = <<>>
  /\ LET all == registerLocalClasses(registerFolders(registry), mainFile)
     IN  registry' = all /\ index' = buildFunctionIndex(all, mainFile)
  /\ UNCHANGED <<project, unread>>
=============================================================================
