------------------------- MODULE MCInstallTransaction -------------------------
(* A configuration and a plugin it registers, and an agent beside them.       *)
(* A person writes or deletes one of them.                                    *)
EXTENDS InstallTransaction, TLC

CONSTANTS config, plugin, agent,    \* paths
          base, full,               \* configurations: of the user, with Skynex
          v1, v2                    \* two releases of a file

MCRegisters == [c \in MaybeContent |-> IF c = full THEN {plugin} ELSE {}]

MCUnregistered ==
    [parts \in SUBSET Parts |-> [c \in Contents |-> IF c = full /\ "plugins" \in parts THEN base ELSE c]]

Plugin(v) == [wants      |-> (config :> full) @@ (plugin :> v),
              ships      |-> Paths,
              components |-> Parts]

Agent == [wants |-> agent :> v1, ships |-> Paths, components |-> {}]

\* Two releases of the plugin, and the agent selected by itself: after a plugin,
\* that narrows the components.
Lifecycle == {Plugin(v1), Plugin(v2), Agent}

OneRelease == {Plugin(v1)}

\* The agent alone, then a release that brings the plugin and drops the agent.
Upgrade == {[Agent EXCEPT !.ships = {config, agent}], [Plugin(v1) EXCEPT !.ships = {config, plugin}]}

Symmetry == Permutations(Procs)

\* Only the upgrade drops a file.
ASSUME UpgradeDrops == SteadyCatalog <=> Releases # Upgrade
=============================================================================
