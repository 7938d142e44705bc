------------------------------- MODULE HotReload -------------------------------
(***************************************************************************)
(* Hot reload (src/config_watcher.cpp and the reloading half of            *)
(* src/gateway.cpp). An editor changes the configuration file; the watcher *)
(* thread polls its modification time, in whole seconds, and reloads it;   *)
(* meanwhile the pool's threads look up routes. apply_config holds         *)
(* config_mutex_ and rebuilds the router; match_route takes no lock.       *)
(***************************************************************************)
EXTENDS RequestRouter

CONSTANTS
    Configs,        \* the contents of the file that load and validate
    Broken,         \* any other content: cut short, ill-typed, or rejected by validate_config
    Absent,         \* no file
    InitialConfig,  \* what main loaded
    RoutesOf,       \* RoutesOf[c]: the routes of c in the order of the file
    Requests,
    MaxTime,        \* bound: seconds the clock runs
    MaxEdits        \* bound: changes of the file

ASSUME ReloadAssumption ==
    /\ InitialConfig \in Configs
    /\ {Broken, Absent} \cap Configs = {} /\ Broken # Absent
    /\ RoutesOf \in [Configs -> Seq(Rules)]
    /\ MaxTime \in Nat \ {0} /\ MaxEdits \in Nat

VARIABLES
    now,          \* the time in seconds, from 1
    file,         \* the file's content and its mtime, 0 when stat fails
    edits,        \* how often it was changed
    config_,      \* the configuration in force
    last_mtime_,
    running_,     \* of the watcher
    watcher,      \* where the watcher thread is, and the configuration it loaded
    to_add,       \* the routes apply_config has still to add
    lookup        \* lookup[r]: the call of match_route for request r

fileVars == <<now, file, edits>>
watcherVars == <<config_, routes_, last_mtime_, running_, watcher, to_add>>
reloadVars == <<fileVars, watcherVars, lookup>>

At(where) == [at |-> where, loaded |-> Absent]
Loaded(c) == [at |-> "loaded", loaded |-> c]
\* The watcher thread holds config_mutex_ exclusively, inside apply_config.
LockHeld == watcher.at = "adding"

\* config is the configuration in force when the search started, Absent inside
\* apply_config; torn says that the vector was written to meanwhile.
NotYet == [at |-> "queued", path |-> <<>>, config |-> Absent, torn |-> FALSE, found |-> NoRoute]

ReloadTypeOK ==
    /\ now \in 1 .. MaxTime /\ edits \in 0 .. MaxEdits
    /\ file \in [content : Configs \cup {Broken, Absent}, mtime : 0 .. now]
    /\ file.content = Absent <=> file.mtime = 0
    /\ config_ \in Configs
    /\ routes_ \in Seq(Rules) /\ to_add \in Seq(Rules)
    /\ last_mtime_ \in 0 .. now
    /\ running_ \in BOOLEAN
    /\ \/ watcher \in {At(w) : w \in {"unborn", "none", "polling", "stat", "opening", "adding", "ended"}}
       \/ watcher \in {Loaded(c) : c \in Configs}
    /\ watcher.at \in {"unborn", "none"} => ~running_
    /\ lookup \in [Requests -> [at : {"queued", "searching", "matched", "forwarding"},
                                path : Paths \cup {<<>>}, config : Configs \cup {Absent},
                                torn : BOOLEAN, found : Rules \cup {NoRoute}]]

\* main has loaded the file and the gateway's constructor added the routes.
ReloadInit ==
    /\ now = 1 /\ edits = 0
    /\ file = [content |-> InitialConfig, mtime |-> 1]
    /\ config_ = InitialConfig
    /\ routes_ \in sort(RoutesOf[InitialConfig])
    /\ last_mtime_ = 0 /\ running_ = FALSE
    /\ watcher = At("unborn") /\ to_add = <<>>
    /\ lookup = [r \in Requests |-> NotYet]

-----------------------------------------------------------------------------
(* The clock and the editor.                                               *)

Tick ==
    /\ now < MaxTime
    /\ now' = now + 1
    /\ UNCHANGED <<file, edits, watcherVars, lookup>>

\* The file is written in place, in one or several steps of which all but the
\* last leave it broken, or replaced by one that was written earlier.
Edit ==
    /\ edits < MaxEdits
    /\ edits' = edits + 1
    /\ \/ \E c \in Configs \cup {Broken} : file' = [content |-> c, mtime |-> now]
       \/ \E c \in Configs, m \in 1 .. now : file' = [content |-> c, mtime |-> m]
       \/ file' = [content |-> Absent, mtime |-> 0]
    /\ UNCHANGED <<now, watcherVars, lookup>>

-----------------------------------------------------------------------------
(* The main thread: constructor, enable_hot_reload, disable_hot_reload.    *)

ConfigWatcher ==
    /\ watcher.at = "unborn"
    /\ last_mtime_' = file.mtime
    /\ watcher' = At("none")
    /\ UNCHANGED <<fileVars, config_, routes_, running_, to_add, lookup>>

start ==
    /\ watcher.at = "none" /\ ~running_
    /\ running_' = TRUE
    /\ watcher' = At("polling")
    /\ UNCHANGED <<fileVars, config_, routes_, last_mtime_, to_add, lookup>>

\* stop() clears the flag ...
stop ==
    /\ running_
    /\ running_' = FALSE
    /\ UNCHANGED <<fileVars, config_, routes_, last_mtime_, watcher, to_add, lookup>>

\* ... and joins the thread.
join ==
    /\ ~running_ /\ watcher.at = "ended"
    /\ watcher' = At("none")
    /\ UNCHANGED <<fileVars, config_, routes_, last_mtime_, running_, to_add, lookup>>

-----------------------------------------------------------------------------
(* The watcher thread.                                                     *)

\* A poll looks at running_ ...
PollStarts ==
    /\ watcher.at = "polling" /\ running_
    /\ watcher' = At("stat")
    /\ UNCHANGED <<fileVars, config_, routes_, last_mtime_, running_, to_add, lookup>>

\* Mutant: only a later time counts as a change.
PollsForLater ==
    /\ watcher.at = "stat"
    /\ file.mtime > last_mtime_
    /\ last_mtime_' = file.mtime
    /\ watcher' = At("opening")
    /\ UNCHANGED <<fileVars, config_, routes_, running_, to_add, lookup>>

\* ... and then at the file. If it finds another time it stores it, before the
\* file is read; ...
PollSeesChange ==
    /\ watcher.at = "stat"
    /\ file.mtime > 0 /\ file.mtime # last_mtime_
    /\ last_mtime_' = file.mtime
    /\ watcher' = At("opening")
    /\ UNCHANGED <<fileVars, config_, routes_, running_, to_add, lookup>>

\* ... if not it sleeps.
PollSeesNothing ==
    /\ watcher.at = "stat"
    /\ file.mtime \in {0, last_mtime_}
    /\ watcher' = At("polling")
    /\ UNCHANGED <<fileVars, config_, routes_, last_mtime_, running_, to_add, lookup>>

\* Mutant: the flag is looked at only after a change of the file.
PollEndsAfterChange ==
    /\ watcher.at = "polling" /\ ~running_ /\ file.mtime # last_mtime_
    /\ watcher' = At("ended")
    /\ UNCHANGED <<fileVars, config_, routes_, last_mtime_, running_, to_add, lookup>>

PollEnds ==
    /\ watcher.at = "polling" /\ ~running_
    /\ watcher' = At("ended")
    /\ UNCHANGED <<fileVars, config_, routes_, last_mtime_, running_, to_add, lookup>>

\* Mutant: the file is not validated.
LoadsUnchecked ==
    /\ watcher.at = "opening" /\ file.content # Absent
    /\ watcher' = Loaded(file.content)
    /\ UNCHANGED <<fileVars, config_, routes_, last_mtime_, running_, to_add, lookup>>

\* load_from_file returns a configuration, or throws: on_config_changed logs
\* the error and the next attempt waits for another mtime.
LoadSucceeds ==
    /\ watcher.at = "opening" /\ file.content \in Configs
    /\ watcher' = Loaded(file.content)
    /\ UNCHANGED <<fileVars, config_, routes_, last_mtime_, running_, to_add, lookup>>

LoadFails ==
    /\ watcher.at = "opening" /\ file.content \notin Configs
    /\ watcher' = At("polling")
    /\ UNCHANGED <<fileVars, config_, routes_, last_mtime_, running_, to_add, lookup>>

\* Every search that is under way reads the vector while it is written.
Tear == lookup' = [r \in Requests |-> [lookup[r] EXCEPT !.torn = @ \/ lookup[r].at = "searching"]]

\* Mutant: the old routes stay.
ApplyKeeps ==
    /\ watcher.at = "loaded"
    /\ config_' = watcher.loaded
    /\ to_add' = RoutesOf[config_']
    /\ watcher' = At("adding")
    /\ Tear
    /\ UNCHANGED <<fileVars, routes_, last_mtime_, running_>>

\* apply_config takes the lock, assigns config_, empties the router, ...
ApplyClears ==
    /\ watcher.at = "loaded"
    /\ config_' = watcher.loaded
    /\ clear_routes
    /\ to_add' = RoutesOf[config_']
    /\ watcher' = At("adding")
    /\ Tear
    /\ UNCHANGED <<fileVars, last_mtime_, running_>>

\* ... adds the routes one by one ...
ApplyAdds ==
    /\ watcher.at = "adding" /\ to_add # <<>>
    /\ add_route(Head(to_add))
    /\ to_add' = Tail(to_add)
    /\ Tear
    /\ UNCHANGED <<fileVars, config_, last_mtime_, running_, watcher>>

\* ... and releases the lock.
ApplyEnds ==
    /\ watcher.at = "adding" /\ to_add = <<>>
    /\ watcher' = At("polling")
    /\ UNCHANGED <<fileVars, config_, routes_, last_mtime_, running_, to_add, lookup>>

-----------------------------------------------------------------------------
(* The pool's threads: match_route, then forward_request.                  *)

SearchStarts(r) ==
    /\ lookup[r].at = "queued"
    /\ \E path \in Paths : lookup' = [lookup EXCEPT ![r] =
          [@ EXCEPT !.at = "searching", !.path = path, !.config = IF LockHeld THEN Absent ELSE config_]]
    /\ UNCHANGED <<fileVars, watcherVars>>

Found(r, found) ==
    /\ lookup' = [lookup EXCEPT ![r] = [@ EXCEPT !.at = "matched", !.found = found]]
    /\ UNCHANGED <<fileVars, watcherVars>>

SearchEnds(r) ==
    /\ lookup[r].at = "searching"
    /\ \E found \in Rules \cup {NoRoute} : match_route(lookup[r].path, found) /\ Found(r, found)

\* The elements of the vector were destroyed, moved or reallocated under the
\* search: it may find any rule that matches, or none (a crash, which it may
\* cause as well, ends the system).
SearchTorn(r) ==
    /\ lookup[r].at = "searching" /\ lookup[r].torn
    /\ \/ Found(r, NoRoute)
       \/ \E found \in Rules : is_match(lookup[r].path, found) /\ Found(r, found)

\* forward_request reads backend_timeout_ms under the shared lock.
ReadTimeout(r) ==
    /\ lookup[r].at = "matched" /\ lookup[r].found # NoRoute
    /\ ~LockHeld
    /\ lookup' = [lookup EXCEPT ![r] = [@ EXCEPT !.at = "forwarding"]]
    /\ UNCHANGED <<fileVars, watcherVars>>

-----------------------------------------------------------------------------
WatcherThread ==
    \/ PollStarts \/ PollSeesChange \/ PollSeesNothing \/ PollEnds \/ LoadSucceeds \/ LoadFails
    \/ ApplyClears \/ ApplyAdds \/ ApplyEnds
MainThread == ConfigWatcher \/ start \/ stop \/ join

ReloadNext ==
    \/ Tick \/ Edit
    \/ MainThread
    \/ WatcherThread
    \/ \E r \in Requests : SearchStarts(r) \/ SearchEnds(r) \/ SearchTorn(r) \/ ReadTimeout(r)

ReloadSpec == ReloadInit /\ [][ReloadNext]_reloadVars

\* The watcher thread and the pool's threads run; main's join waits for the
\* thread. Nothing makes the editor, the clock or the operator act.
FairReloadSpec ==
    /\ ReloadSpec
    /\ WF_reloadVars(WatcherThread)
    /\ WF_reloadVars(join)
    /\ \A r \in Requests : WF_reloadVars(SearchEnds(r) \/ SearchTorn(r) \/ ReadTimeout(r))

-----------------------------------------------------------------------------
(* Properties.                                                             *)

\* Outside apply_config the router holds the routes of the configuration in
\* force, all of them and no others, sorted by priority (gateway.cpp:192-203).
SortedRoutes == [c \in Configs |-> sort(RoutesOf[c])]

RoutesFollowConfig == LockHeld \/ routes_ \in SortedRoutes[config_]

\* A search that no reload overlaps finds the rule of least priority among
\* those of the configuration in force that match, if one does
\* (request_router.cpp:5-25).
Candidates(c, path) == {route \in ToSet(RoutesOf[c]) : is_match(path, route)}

QuietSearchIsRight ==
    \A r \in Requests :
        lookup[r].at \in {"matched", "forwarding"}
        /\ ~lookup[r].torn /\ lookup[r].config # Absent =>
            LET found == lookup[r].found
                choices == Candidates(lookup[r].config, lookup[r].path) IN
            IF choices = {} THEN found = NoRoute
            ELSE found \in choices /\ \A other \in choices : found.priority <= other.priority

\* A valid file whose time differs from the one the watcher has seen is put
\* in force, unless it is changed again or the watcher is stopped
\* (config_watcher.cpp:83-103, gateway.cpp:175-211).
NewFileIsApplied ==
    \A c \in Configs, m \in 1 .. MaxTime :
        LET version == [content |-> c, mtime |-> m] IN
        (running_ /\ file = version /\ m # last_mtime_)
            ~> (config_ = c \/ file # version \/ ~running_)

\* disable_hot_reload returns, and every lookup that found a route goes on:
\* no one waits for ever on config_mutex_ or in the join.
NobodyHangs ==
    /\ (watcher.at # "none" /\ ~running_ /\ watcher.at # "unborn") ~> (watcher.at = "none")
    /\ \A r \in Requests : (lookup[r].at = "matched" /\ lookup[r].found # NoRoute)
          ~> (lookup[r].at = "forwarding")

-----------------------------------------------------------------------------
(* What the documents say of hot reload.                                   *)

\* "Hot reload without service interruption": a path that has a route before
\* and after a reload is never answered 404.
NoInterruption ==
    \A r \in Requests :
        lookup[r].at = "matched" /\ lookup[r].found = NoRoute =>
            \E c \in Configs : Candidates(c, lookup[r].path) = {}

\* "New connections use the new configuration": while the watcher runs, the
\* content of a file that is no longer edited comes into force.
FileTakesEffect ==
    \A c \in Configs : []<>(running_ /\ file.content = c => config_ = c)
=============================================================================
