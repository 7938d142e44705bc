----------------------------- MODULE MCHotReload -----------------------------
(***************************************************************************)
(* An instance of HotReload for TLC: two configurations. The first has a   *)
(* general rule before a special one of lesser number; the second adds an  *)
(* exact rule and gives the special one the number of the general one. One *)
(* path matches the general rule only, one the special rule too, one all.  *)
(***************************************************************************)
EXTENDS HotReload

Root == <<"/">>
Users == <<"/", "users">>
User == <<"/", "users", "/1">>
MCPaths == {Root, Users, User}

Rule(pattern, type, n) == [path_pattern |-> pattern, match_type |-> type, priority |-> n]
General == Rule(Root, "PREFIX", 2)
Special == Rule(Users, "PREFIX", 1)
Moved == Rule(Users, "PREFIX", 2)
Exact == Rule(User, "EXACT", 0)

MCRules == {General, Special, Moved, Exact}
MCRoutesOf == [c \in Configs |-> IF c = InitialConfig THEN <<General, Special>>
                                                    ELSE <<General, Moved, Exact>>]
=============================================================================
