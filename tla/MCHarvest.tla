----------------------------- MODULE MCHarvest -------------------------------
(***************************************************************************)
(* Three jars.  "viewer" is re-hosted under its modid; "genuine" is the    *)
(* same mod as Modrinth ships it, its slug the modid in display case, with *)
(* a dependency on a bare file; "addon" names the viewer in display case,  *)
(* references its packages, and Modrinth knows it by hash.                 *)
(***************************************************************************)
EXTENDS Harvest

MCLower == [k \in {"Jei"} |-> "jei"]
MCParents == {<<"cleanroom", "forge">>}
MCNumbered == [v \in {"1", "2", "9", "two", "four", "five"} |->
    CASE v = "1" -> 1 [] v \in {"2", "two"} -> 2 [] v = "four" -> 4 [] v = "five" -> 5 [] OTHER -> 9]
MCCollate == [k \in {"addon", "jei", "JEI", "Just", "Mine", "Named"} |->
    CASE k = "addon" -> 1 [] k \in {"jei", "JEI"} -> 2 [] k = "Just" -> 3 [] k = "Mine" -> 4 [] OTHER -> 5]
MCBridges == [p \in {} |-> "none"]

MCJar == [NoBytes EXCEPT !.loader = "forge", !.mc = {"1.12"}, !.windows = {},
            !.class = [kind |-> "mod", side |-> "both", policy |-> "tolerant", confidence |-> "high",
                       source |-> "derived"]]

MCJarBytes ==
    [s \in {"viewer", "genuine", "addon"} |->
        CASE s = "viewer" -> [MCJar EXCEPT !.modid = "jei", !.version = "1", !.owned = {"mezz"},
                                           !.classes = {"Jei"}, !.name = "JEI"]
          [] s = "genuine" -> [MCJar EXCEPT !.owned = {"mezz"}, !.version = "2", !.providesRt = {"kotlin"}]
          [] OTHER -> [MCJar EXCEPT !.modid = "addon", !.extra = {"addonlib"}, !.version = "1",
                                    !.requires = {"Jei"}, !.hard = {"mezz"}, !.needsRt = {"kotlin"}]]

MCVersion == [NoVersion EXCEPT !.loaders = {"forge"}, !.mc = {"1.12"}, !.channel = "release"]
MCDep == [project |-> None, file |-> None, stem |-> None, type |-> "required", version |-> None]

MCByHash ==
    [s \in {"genuine", "addon"} |->
        IF s = "genuine"
        THEN [MCVersion EXCEPT !.project = "PJEI", !.id = "v2", !.version = "2",
                !.deps = {[MCDep EXCEPT !.file = "base.jar", !.stem = "base"]}]
        ELSE [MCVersion EXCEPT !.project = "PADD", !.id = "v1", !.channel = "beta",
                !.deps = {[MCDep EXCEPT !.project = "PJEI"], [MCDep EXCEPT !.project = "PADD"]}]]

MCProjects ==
    [p \in {"PJEI", "PADD"} |->
        IF p = "PJEI" THEN [slug |-> "Jei", title |-> "Just", env |-> <<"required", "unsupported">>]
        ELSE [slug |-> "addon", title |-> None, env |-> <<"optional", "optional">>]]

Ships(version, mods) == [version |-> version, mods |-> mods]
MCManifests ==
    "pack" :>
        {Ships("1", <<[sha |-> "genuine", file |-> "jei.jar", modrinth |-> <<"PJEI", "v2">>, bad |-> {}],
                      [sha |-> "addon", file |-> "addon.jar", modrinth |-> None, bad |-> {"jei.jar"}]>>),
         Ships("2", <<[sha |-> "addon", file |-> "base.jar", modrinth |-> None, bad |-> {}]>>)}

MCOutcomes == {AllUp, [AllUp EXCEPT !.jars = FALSE], [AllUp EXCEPT !.hashes = "down"]}
Healthy == {AllUp}

\* Four more jars of the viewer's mod, none known to Modrinth: three numbered
\* and one not.
Spelled == {"five", "rv6", "two", "four"}
MCBytes == MCJarBytes @@ [s \in Spelled |-> [MCJar EXCEPT !.modid = "jei", !.version = s]]

Worlds == DOMAIN MCJarBytes
MCBudgets == {<<1, 2, 2, Worlds>>, <<0, 2, 3, Worlds>>, <<0, 4, 1, Spelled>>, <<1, 3, 2, Spelled>>}
FoldBudgets == {<<0, 2, 3, Worlds>>, <<0, 3, 1, Spelled>>}
=============================================================================
