------------------------------- MODULE MCAnalyzer -------------------------------
(***************************************************************************)
(* The analyzer with eight source files: two that import each other, one   *)
(* that says so under an alias, one with smells of all kinds, one in a     *)
(* folder that is skipped, one that the parser cannot read, and others     *)
(* that are not Python.                                                    *)
(***************************************************************************)
EXTENDS Analyzer

SourceFile(path, lang, lines) ==
    [path |-> path, module |-> path, lang |-> lang, folder |-> "app", parses |-> "yes",
     imports |-> {}, classes |-> {}, functions |-> {}, blocks |-> {}, lines |-> lines]

Import(how, name, alias, target) == [how |-> how, name |-> name, alias |-> alias, target |-> target]
BlockOf(line, code) ==
    [line |-> line, kind |-> "def", length |-> 11, code |-> code, tokens |-> {"t1", "t2", code}]

SmellyClass == [line |-> 1, lines |-> 501, method_count |-> 31, self_calls |-> 1, external_calls |-> 3]
SmellyFile ==
    [SourceFile("smelly", "py", 600) EXCEPT
        !.classes = {SmellyClass},
        !.functions = {[line |-> n, params |-> {"x", "y"}] : n \in {510, 530, 550}},
        !.blocks = {BlockOf(510, "c1"), BlockOf(530, "c1")}]

SourceFiles ==
    {[SourceFile("a", "py", 10) EXCEPT !.imports = {Import("import", "b", "none", "b")}],
     [SourceFile("b", "py", 10) EXCEPT !.imports = {Import("from", "a", "none", "a")}],
     [SourceFile("c", "py", 10) EXCEPT !.imports = {Import("import", "b", "bee", "b")},
                                       !.blocks = {BlockOf(2, "c1")}],
     SmellyFile,
     [SmellyFile EXCEPT !.path = "env/old", !.folder = "environment"],
     [SourceFile("broken", "py", 1) EXCEPT !.parses = "raises"],
     [SourceFile("Big", "java", 501) EXCEPT !.classes = {SmellyClass}],
     SourceFile("big", "js", 501)}
=============================================================================
