-------------------------------- MODULE Analyzer --------------------------------
(***************************************************************************)
(* The analyzer of the architecture smell scanner                          *)
(* (backend/app/scanner/analyzer.py) and the score made from what it finds *)
(* (services/scan_service.py). Files come in one by one; after each an     *)
(* analysis may be made, by a server whose current directory is the        *)
(* analysed code or, as deployed, its own. A file is what its text says:   *)
(* its imports, classes, functions and blocks of code.                     *)
(***************************************************************************)
EXTENDS Integers, Sequences, FiniteSets, FiniteSetsExt

CONSTANT Files  \* the files there may be, see MCAnalyzer for examples

\* There is only so much in a file; the target of an import is a module.
ASSUME AnalyzerAssumption ==
    \A f \in Files :
        /\ IsFiniteSet(f.classes) /\ IsFiniteSet(f.functions) /\ IsFiniteSet(f.blocks)
        /\ IsFiniteSet(f.imports)
        /\ \A i \in f.imports : i.how \in {"import", "from"} /\ i.target # "none"

MAX_CLASS_LINES == 500
MAX_METHODS_PER_CLASS == 30

VARIABLES
    directory,  \* the files of the analysed code
    analysis    \* the last analysis

analyzerVars == <<directory, analysis>>

Unanalysed == [status |-> "none", cwd |-> "code", smells |-> {}, score |-> 0]

AnalyzerInit == directory = {} /\ analysis = Unanalysed

\* What the code keeps in a list is a set here: the place, a line and what is
\* wrong there, tells two smells of a file apart.
Smell(type, severity, place) == [smell_type |-> type, severity |-> severity, place |-> place]

\* Syntax errors skip a file, silently; anything else the parser raises goes up.
Parsed(fs) == {f \in fs : f.lang = "py" /\ f.parses = "yes"}
analyze_file_raises(fs) == \E f \in fs : f.lang = "py" /\ f.parses = "raises"

-----------------------------------------------------------------------------
(* Imports.                                                                *)

\* relpath is relative to the server, not to the code: a module that it finds
\* at the top is the one that an import names, one under storage is not.
get_module_name(f, cwd) == <<IF cwd = "code" THEN "top" ELSE "storage", f.module>>

\* `import x as y' is taken for an import of y, `from . import x' is left out.
ImportedNames(f) ==
    {<<"top", IF i.alias # "none" THEN i.alias ELSE i.name>> : i \in {j \in f.imports : j.how = "import"}}
    \cup {<<"top", i.name>> : i \in {j \in f.imports : j.how = "from" /\ j.name # "none"}}

import_graph(fs, cwd) ==
    LET edges == UNION {{get_module_name(f, cwd)} \X ImportedNames(f) : f \in fs}
    IN  [node |-> {get_module_name(f, cwd) : f \in fs} \cup {e[2] : e \in edges}, edge |-> edges]

\* The links that there are if paths may pass u as well.
Over(u, links) ==
    links \cup ({l[1] : l \in {e \in links : e[2] = u}} \X {l[2] : l \in {e \in links : e[1] = u}})

\* Which node has a path to which, as Warshall finds them: node after node.
Linked(G) == FoldSet(Over, G.edge \cup {<<n, n>> : n \in G.node}, G.node)

StronglyConnected(G) ==
    LET linked == Linked(G)
    IN  {{n \in G.node : {<<m, n>>, <<n, m>>} \subseteq linked} : m \in G.node}

\* Mutant: a cycle of two is not enough.
CyclesOfThree(fs, cwd) ==
    IF \E scc \in StronglyConnected(import_graph(fs, cwd)) : Cardinality(scc) > 2
    THEN {Smell("CircularDependency", "CRITICAL", {})} ELSE {}

\* One smell for the first component of more than one module, however many there are.
detect_circular_dependencies(fs, cwd) ==
    IF \E scc \in StronglyConnected(import_graph(fs, cwd)) : Cardinality(scc) > 1
    THEN {Smell("CircularDependency", "CRITICAL", {})} ELSE {}

-----------------------------------------------------------------------------
(* Classes, functions and blocks.                                          *)

\* Two smells for a class that is too long and has too many methods.
GodClasses(f) ==
    {Smell("GodClass", "HIGH", {<<f.path, c.line, "lines">>}) :
        c \in {d \in f.classes : d.lines > MAX_CLASS_LINES}}
    \cup {Smell("GodClass", "HIGH", {<<f.path, c.line, "methods">>}) :
        c \in {d \in f.classes : d.method_count > MAX_METHODS_PER_CLASS}}

detect_feature_envy(f) ==
    {Smell("FeatureEnvy", "MEDIUM", {<<f.path, c.line, "envy">>}) :
        c \in {d \in f.classes : d.self_calls > 0 /\ d.external_calls > 2 * d.self_calls}}

\* Three functions with the same names of parameters.
analyze_functions(f) ==
    {Smell("ShotgunSurgery", "MEDIUM", {<<f.path, 0, p>> : p \in params}) :
        params \in {p \in {g.params : g \in f.functions} :
            p # {} /\ Cardinality({g \in f.functions : g.params = p}) >= 3}}

\* What is too short is no block, nor is an asynchronous function.
extract_python_blocks(f) ==
    {[path |-> f.path, block |-> b] :
        b \in {c \in f.blocks : c.kind \in {"def", "class"} /\ c.length > 10}}

\* The similarity of two sets of tokens is at least 0.8.
Similar(b, c) ==
    \/ b.code = c.code
    \/ /\ b.tokens # {} /\ c.tokens # {}
       /\ 10 * Cardinality(b.tokens \cap c.tokens) >= 8 * Cardinality(b.tokens \cup c.tokens)

\* All pairs are compared, of one file as of two; a class may be similar to its method.
find_duplicates(fs) ==
    LET blocks == UNION {extract_python_blocks(f) : f \in fs}
    IN  {Smell("DuplicateCode", "LOW", {<<b.path, b.block.line, "block">> : b \in pair}) :
            pair \in {p \in kSubset(2, blocks) : \A b, c \in p : Similar(b.block, c.block)}}

analyze_java_files(fs) ==
    {Smell("GodClass", "HIGH", {<<f.path, 1, "file">>}) :
        f \in {g \in fs : g.lang = "java" /\ g.folder \notin {"venv", "node_modules"}
                          /\ g.classes # {} /\ g.lines > 500}}

analyze_js_ts_files(fs) ==
    {Smell("GodClass", "MEDIUM", {<<f.path, 1, "file">>}) :
        f \in {g \in fs : g.lang = "js" /\ g.folder # "node_modules" /\ g.lines > 500}}

-----------------------------------------------------------------------------
(* The whole of a directory, and its score.                                *)

\* Any path with "env" in it is skipped, that of an "environment" too; but
\* not by the search for duplicates.
Skipped(f) == f.folder \in {"venv", "env", "environment", "__pycache__"}

analyze_directory(fs, cwd) ==
    LET own == {f \in fs : ~Skipped(f)}
        py == Parsed(own)
    IN  (UNION {GodClasses(f) \cup detect_feature_envy(f) \cup analyze_functions(f) : f \in py})
        \cup detect_circular_dependencies(py, cwd)
        \cup find_duplicates(Parsed(fs))
        \cup analyze_java_files(fs) \cup analyze_js_ts_files(fs)

Penalty == [CRITICAL |-> 15, HIGH |-> 8, MEDIUM |-> 3, LOW |-> 1]

calculate_health_score(smells) ==
    LET score == 100 - MapThenSumSet(LAMBDA s : Penalty[s.severity], smells)
    IN  IF score < 0 THEN 0 ELSE score

AddFile(f) ==
    /\ f \notin directory
    /\ directory' = directory \cup {f}
    /\ UNCHANGED analysis

Analyse(cwd) ==
    /\ analysis' =
          IF analyze_file_raises(directory)
          THEN [Unanalysed EXCEPT !.status = "FAILED", !.cwd = cwd]
          ELSE LET found == analyze_directory(directory, cwd)
               IN  [status |-> "COMPLETED", cwd |-> cwd, smells |-> found,
                    score |-> calculate_health_score(found)]
    /\ UNCHANGED directory

AnalyzerNext ==
    \/ \E f \in Files : AddFile(f)
    \/ \E cwd \in {"code", "server"} : Analyse(cwd)

AnalyzerSpec == AnalyzerInit /\ [][AnalyzerNext]_analyzerVars

AnalyzerTypeOK ==
    /\ directory \subseteq Files
    /\ analysis.status \in {"none", "COMPLETED", "FAILED"}
    /\ analysis.score \in 0 .. 100
    /\ analysis.status # "COMPLETED" => analysis.smells = {}

-----------------------------------------------------------------------------
(* Properties.                                                             *)

\* The modules of fs import one another in a circle, as the interpreter sees it.
InCircle(fs) ==
    \E s \in UNION {[1 .. n -> fs] : n \in 2 .. Cardinality(fs)} :
        /\ \A i, j \in DOMAIN s : s[i] = s[j] => i = j
        /\ \A i \in DOMAIN s : \E import \in s[i].imports : import.target = s[(i % Len(s)) + 1].module

\* The name written is the whole name of the module: no alias, no relative
\* import, and no package, whose module is called __init__. It names one file.
Plain(fs) ==
    /\ \A f \in fs : \A i \in f.imports : i.alias = "none" /\ i.name = i.target
    /\ \A f, g \in fs : f.module = g.module => f = g

Reports(type) == \E s \in analysis.smells : s.smell_type = type

\* What analyze_directory takes for the imports.
Own(fs) == {f \in Parsed(fs) : ~Skipped(f)}

\* If the current directory is that of the code, a circular dependency between
\* plain imports is reported exactly if there is one (analyzer.py:47-67, 175-213).
CyclesShowInCodeDirectory ==
    [][Analyse("code") /\ analysis'.status = "COMPLETED" /\ Plain(Own(directory)) =>
          (Reports("CircularDependency")' <=> InCircle(Own(directory)))]_analyzerVars
=============================================================================
