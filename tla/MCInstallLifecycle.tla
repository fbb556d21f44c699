-------------------------- MODULE MCInstallLifecycle --------------------------
(* Three releases: the second changes the agent, the third drops it and       *)
(* changes the plugin.  A person writes one content of their own, or what a   *)
(* release ships; the first command may find a file of theirs where the agent *)
(* goes, and a configuration.                                                 *)
(*                                                                            *)
(* Places is checked beside it: a behaviour is either the life of one         *)
(* installation, or a walk over four directories, three of them nested, and   *)
(* the global site.  An override leads into the directory below the top,      *)
(* plainly or to its own .skynex/tasks, through a link, or out of the project. *)
(*                                                                            *)
(* Catalog likewise: releases that agree, that exchange two paths, that give  *)
(* a path to another id, and three that do not load or cannot be planned.     *)
EXTENDS InstallLifecycle, Places, Catalog, TLC

CONSTANTS agent, plugin, mine, top, sub, leaf, other, x, y, policy, stray

MCComponent == (agent :> "agents") @@ (plugin :> "plugins")

MCReleases == <<(agent :> "a1") @@ (plugin :> "p1"), (agent :> "a2") @@ (plugin :> "p1"), (plugin :> "p2")>>

MCPolicy == <<1, 2, 2>>

MCEmptyConfig == [registered |-> {}, policy |-> 0, own |-> "nothing"]

MCFound == {[p \in AllPaths |-> None],
            [p \in AllPaths |-> IF p = agent THEN mine
                                ELSE IF p = Config THEN [MCEmptyConfig EXCEPT !.own = mine] ELSE None]}

MCAbove == (top :> {top}) @@ (sub :> {top, sub}) @@ (leaf :> {top, sub, leaf})
               @@ (other :> {top, other})

MCOverrides ==
    {[real |-> sub, own |-> FALSE, direct |-> TRUE], [real |-> sub, own |-> TRUE, direct |-> TRUE],
     [real |-> top, own |-> FALSE, direct |-> FALSE], [real |-> Nowhere, own |-> FALSE, direct |-> TRUE]}

Shipped(id, component, outputs, source) ==
    [id |-> id, version |-> "1", kind |-> component, origin |-> "canonical",
     component |-> component, source |-> source, outputs |-> outputs]

Managed == [Shipped("opencode-config", "configuration", <<"opencode.jsonc">>, policy) EXCEPT !.version = "2"]

Skill(id, outputs, source) == [Shipped(id, "skills", outputs, source) EXCEPT !.kind = "skill"]

Agent(id, outputs, source) == [Shipped(id, "agents", outputs, source) EXCEPT !.kind = "agent"]

Release(version, resources, tree) == [version |-> version, resources |-> resources, tree |-> tree]

Plain == [path \in {x, y, policy} |-> "file"]

MCManifests ==
    LET both == <<Agent("A", <<x>>, x), Skill("B", <<y>>, y), Managed>>
    IN  {Release("1", both, Plain),
         Release("2", <<Agent("A", <<y>>, x), Skill("C", <<x>>, y), Managed>>, Plain),
         Release("2", <<Skill("C", <<x>>, x), Agent("B", <<y>>, y), Managed>>, Plain),
         Release("2", <<Agent("A", <<x>>, x), Managed>>, [path \in {x, policy} |-> "file"]),
         Release("2", <<Agent("A", <<x, y>>, x), Managed>>, Plain),
         Release("2", both, [path \in {x, y, policy, stray} |-> "file"]),
         Release("2", both, [Plain EXCEPT ![y] = "link"])}

ASSUME AsPublished

Unbegun == lock = None /\ edits = 0 /\ \A p \in AllPaths : files[p] = None

MCInit == Init /\ PlacesInit /\ CatalogInit

MCNext == \/ steps = 0 /\ basis = {} /\ Next /\ UNCHANGED <<placesVars, catalogVars>>
          \/ Unbegun /\ basis = {} /\ PlacesNext /\ UNCHANGED <<vars, catalogVars>>
          \/ Unbegun /\ steps = 0 /\ CatalogNext /\ UNCHANGED <<vars, placesVars>>

MCSpec == MCInit /\ [][MCNext]_<<vars, placesVars, catalogVars>>
===============================================================================
