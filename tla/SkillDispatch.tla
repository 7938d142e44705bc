----------------------------- MODULE SkillDispatch -----------------------------
(***************************************************************************)
(* The skill demonstration (src/Algorithm/MachineLearning/study/skill).    *)
(* At its start main.py loads the skills of all directories, in the order  *)
(* in which the file system lists them, into a dictionary by name. Then it *)
(* answers queries with the skill whose keyword is in the query, or, if    *)
(* there is an API key, with the one that a language model names.          *)
(***************************************************************************)
EXTENDS Naturals, Sequences, FiniteSets, SequencesExt

CONSTANTS
    SkillDirs,  \* the directories: [dir, name, keywords, script, handler]
    Words       \* the keywords that a query may contain

\* A script defines run(), or does not, or raises when it is executed.
ASSUME SkillAssumption == \A d \in SkillDirs : d.script \in {"run", "no run", "raises"}

VARIABLES
    console,  \* "off", "loading", "waiting", "answered", "ended", "crashed"
    use_llm,
    dirs,     \* the directories that are there when main.py starts
    listed,   \* the directories that are still to be loaded
    skills,   \* the registry's dictionary, in the order of its keys
    asked,    \* the keywords in the query
    result    \* the directory of the skill that was called, and what became of it

skillVars == <<console, use_llm, dirs, listed, skills, asked, result>>

NotFound == [dir |-> "none", text |-> "not found"]

SkillInit ==
    /\ console = "off" /\ use_llm = FALSE /\ dirs = {} /\ listed = {} /\ skills = <<>>
    /\ asked = {} /\ result = NotFound

\* A key in the environment chooses the dispatcher.
SkillStart ==
    /\ console = "off" /\ console' = "loading"
    /\ use_llm' \in BOOLEAN
    /\ dirs' \in SUBSET SkillDirs /\ listed' = dirs'
    /\ UNCHANGED <<skills, asked, result>>

Names == {skills[i].name : i \in DOMAIN skills}

\* A name that is there keeps its place and gets the new skill.
register(d) ==
    skills' = IF d.name \in Names
              THEN [i \in DOMAIN skills |-> IF skills[i].name = d.name THEN d ELSE skills[i]]
              ELSE Append(skills, d)

\* Without a description, a name or keywords there is no skill. The script is
\* executed as it is loaded, and what it raises ends the program. One without
\* run() answers that it has none.
LoadSkill(d) ==
    /\ console = "loading" /\ d \in listed
    /\ listed' = listed \ {d}
    /\ IF d.name = "" \/ d.keywords = {} THEN UNCHANGED <<console, skills>>
       ELSE IF d.script = "raises" THEN console' = "crashed" /\ UNCHANGED skills
       ELSE register(d) /\ UNCHANGED console
    /\ UNCHANGED <<use_llm, dirs, asked, result>>

ShowPrompt ==
    /\ console = "answered" \/ (console = "loading" /\ listed = {})
    /\ console' = "waiting" /\ asked' = {} /\ result' = NotFound
    /\ UNCHANGED <<use_llm, dirs, listed, skills>>

\* exit, quit, the end of the input or an interrupt.
Leave ==
    /\ console = "waiting" /\ console' = "ended"
    /\ UNCHANGED <<use_llm, dirs, listed, skills, asked, result>>

\* An exception of the handler becomes the answer, unless it is sys.exit.
Call(d) ==
    /\ result' = [dir |-> d.dir, text |-> IF d.handler = "raises" THEN "error" ELSE "text"]
    /\ console' = IF d.handler = "exits" THEN "ended" ELSE "answered"

SaysNotFound == result' = NotFound /\ console' = "answered"

Fits(d, query) == d.keywords \cap query # {}

\* Mutant: the search ends with the first skill, whether it fits or not.
LooksAtFirst(query) ==
    /\ console = "waiting" /\ ~use_llm
    /\ asked' = query
    /\ IF skills # <<>> /\ Fits(skills[1], query) THEN Call(skills[1]) ELSE SaysNotFound
    /\ UNCHANGED <<use_llm, dirs, listed, skills>>

\* SkillDispatcher.dispatch: the first skill, as registered, that fits.
dispatch(query) ==
    /\ console = "waiting" /\ ~use_llm
    /\ asked' = query
    /\ LET i == SelectInSeq(skills, LAMBDA d : Fits(d, query)) IN
          IF i = 0 THEN SaysNotFound ELSE Call(skills[i])
    /\ UNCHANGED <<use_llm, dirs, listed, skills>>

\* LLMDispatcher.dispatch: the model may name any skill, or none, or what is
\* none; the call may fail.
dispatch_by_llm(query) ==
    /\ console = "waiting" /\ use_llm
    /\ asked' = query
    /\ SaysNotFound \/ \E i \in DOMAIN skills : Call(skills[i])
    /\ UNCHANGED <<use_llm, dirs, listed, skills>>

SkillNext ==
    \/ SkillStart \/ ShowPrompt \/ Leave
    \/ \E d \in listed : LoadSkill(d)
    \/ \E query \in SUBSET Words : dispatch(query) \/ dispatch_by_llm(query)

SkillSpec == SkillInit /\ [][SkillNext]_skillVars

SkillTypeOK ==
    /\ console \in {"off", "loading", "waiting", "answered", "ended", "crashed"}
    /\ dirs \subseteq SkillDirs /\ listed \subseteq dirs /\ asked \subseteq Words
    /\ ToSet(skills) \subseteq dirs
    /\ Cardinality(Names) = Len(skills)
    /\ result.dir \in {d.dir : d \in SkillDirs} \cup {"none"}

Loadable(d) == d.script \in {"run", "no run"} /\ d.name # "" /\ d.keywords # {}

\* In whatever order the directories are loaded, a query that fits one of
\* them only is answered by that one, if no other has its name; and a query
\* that fits none by none (demo_skill.py:120-142, registry.py:21-35,
\* dispatcher.py:27-55).
OnlyMatchAnswers ==
    console = "answered" /\ ~use_llm =>
        LET fitting == {d \in dirs : Loadable(d) /\ Fits(d, asked)} IN
        /\ fitting = {} => result = NotFound
        /\ \A d \in fitting :
              fitting = {d} /\ (\A e \in dirs : Loadable(e) /\ e.name = d.name => e = d)
                  => result.dir = d.dir
=============================================================================
