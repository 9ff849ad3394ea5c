----------------------------- MODULE MCPackFill ------------------------------
(***************************************************************************)
(* "tool" is a cached jar that needs a codec (window 2 and up), which needs*)
(* "base"; it touches a HUD its bytecode only mentions and suggests maps.  *)
(* "app" is a Modrinth pin no harvest has read at first; its library needs *)
(* a core, and the newest build of each is unusable.  "view" is a client   *)
(* mod over the HUD, whose own client verdict is a weak one, and a shader  *)
(* whose verdict is firm.                                                  *)
(***************************************************************************)
EXTENDS PackFill

MCLower == [k \in {"Forge", "Codec"} |-> IF k = "Forge" THEN "forge" ELSE "codec"]
MCParents == {<<"cleanroom", "forge">>}
MCNumbered == [v \in {"1", "2"} |-> IF v = "1" THEN 1 ELSE 2]
MCCollate == MCNumbered
MCParts == [v \in {"1", "2", "14"} |-> CASE v = "1" -> <<1>> [] v = "2" -> <<2, 0>> [] OTHER -> <<14, 23>>]
MCBridges == <<>>
MCProvides == [l \in {"cleanroom"} |-> {<<"modid", "mixin">>}]
MCFabric == {<<"modid", "fabricapi">>}
MCForgified == {<<"modid", "forgified">>}
MCLoader == [name |-> "cleanroom", pin |-> "14", mc |-> "1.12"]

AtLeast(parts) == [op |-> ">=", lo |-> parts, hi |-> <<>>, loIn |-> TRUE, hiIn |-> TRUE, exact |-> FALSE]

Modid(k) == <<"modid", k, "">>
Project(k) == <<"modrinth", k, "">>
MCSelectors == <<Modid("base"), Modid("Codec"), Modid("forge"), Modid("hud"), Modid("mixin"), Modid("shade"),
                 Project("PCORE"), Project("PLIB")>>

Dep(project, version, type) == [project |-> project, version |-> version, type |-> type]
MCMrVersions ==
    [v \in {"a1", "l1", "l2", "k1", "k2", "g1"} |->
        CASE v = "a1" -> [project |-> "PAPP", file |-> "app.jar", sha |-> "sha-a1", loaders |-> {"cleanroom"},
                          deps |-> <<Dep("PLIB", "l2", "required"), Dep("PAPP", None, "required"),
                                     Dep("POPT", None, "optional"), Dep(None, None, "required")>>]
          [] v = "l1" -> [project |-> "PLIB", file |-> "lib.jar", sha |-> "sha-l1", loaders |-> {"Forge", "cleanroom"},
                          deps |-> <<Dep("PCORE", "k1", "required")>>]
          [] v = "l2" -> [project |-> "PLIB", file |-> None, sha |-> None, loaders |-> {"cleanroom"}, deps |-> <<>>]
          [] v = "k1" -> [project |-> "PCORE", file |-> "core.jar", sha |-> "sha-k1", loaders |-> {"cleanroom"}, deps |-> <<>>]
          [] v = "g1" -> [project |-> "PGLOW", file |-> "glow.zip", sha |-> "sha-g1", loaders |-> {"iris"}, deps |-> <<>>]
          [] OTHER -> [project |-> "PCORE", file |-> "core2.jar", sha |-> "sha-k2", loaders |-> {"fabric"}, deps |-> <<>>]]
MCMrListing == [p \in {"PAPP", "PLIB", "PCORE"} |->
    CASE p = "PAPP" -> <<"a1">> [] p = "PLIB" -> <<"l2", "l1">> [] OTHER -> <<"k2", "k1">>]

Jar(version, file) == [version |-> version, mc |-> {"1.12"}, filename |-> file, loaders |-> {"forge"}]
Known(db, modid, sha, jar) == UpsertModVersion(UpsertModByAlias(db, {<<"modid", modid>>}).db,
                                               UpsertModByAlias(db, {<<"modid", modid>>}).id, sha, jar)
Pinned(db, project, sha, v, file) ==
    LET at == UpsertModByAlias(db, {<<"modrinth", project>>})
    IN  SetModVersionModrinth(UpsertModVersion(at.db, at.id, sha, Jar("1", file)), sha, v)
Edge(db, sha, target, range, kind, source) ==
    UpsertRelation(db, db.files[sha].mod, db.files[sha].n, target, range, kind, None, source)
Class(side, policy, confidence, kind) ==
    [kind |-> kind, side |-> side, policy |-> policy, confidence |-> confidence, source |-> "derived"]

Jarred == Known(Known(Known(Known(Known(Known(Known(EmptyDb,
    "tool", "t1", Jar("1", "tool.jar")), "codec", "c1", Jar("1", "codec1.jar")), "codec", "c2", Jar("2", None)),
    "base", "b1", Jar("1", "base.jar")), "hud", "h1", Jar("1", "hud.jar")), "view", "w1", Jar("1", "view.jar")), "shade", "s1", Jar("1", "shade.jar"))
Related == Edge(Edge(Edge(Edge(Edge(Edge(Edge(Edge(Jarred,
    "t1", Modid("Codec"), AtLeast(<<2>>), "requires", "jar-meta"),
    "t1", Modid("hud"), None, "requires", "inferred"),
    "t1", Modid("mixin"), None, "requires", "jar-meta"),
    "t1", Modid("maps"), None, "recommends", "modrinth"),
    "c2", Modid("base"), None, "requires", "jar-meta"),
    "c1", Modid("base"), None, "conflicts", "authored"),
    "w1", Modid("hud"), None, "requires", "jar-meta"), "w1", Modid("shade"), None, "requires", "jar-meta")
Classified == SetJarClass(SetJarClass(SetJarClass(SetJarClass(SetJarClass(Related,
    "t1", Class("both", "must_match", "high", "mod")), "h1", Class("client", None, "low", "mod")),
    "w1", Class("client", None, "high", "mod")), "b1", Class(None, None, None, "library")),
    "s1", Class("client", None, "high", "mod"))
Cold == SetMixinNeeds(SetClassDigest(SetModPackages(Classified, 2, {"codec"}), "c2", {"C"}), "w1",
                      {[prefix |-> "codec", class |-> "C"]})
\* The harvest met the core as a cached jar, the second file of its version.
Warm == Edge(Edge(SetModEnvFlags(Pinned(Pinned(Pinned(Cold, "PAPP", "sha-a1", "a1", "app.jar"),
            "PLIB", "sha-l1", "l1", "lib.jar"), "PCORE", "sha-k1-api", "k1", "core-api.jar"),
            [m \in {7} |-> <<"required", "required">>]),
            "sha-a1", Project("PLIB"), None, "requires", "modrinth"),
            "sha-l1", Project("PCORE"), None, "requires", "modrinth")
MCLearned == <<Cold, Warm>>

\* The harvest knows the tool needs the library, and has never met the library.
LearnedGap == <<Edge(Cold, "t1", Project("PLIB"), None, "requires", "modrinth")>>

Declare(file, source, on) == [file |-> file, on |-> on, source |-> source, requires |-> {}, pulled |-> FALSE]
MCCatalogue == {Declare("tool.jar", <<"cache", "t1">>, TRUE), Declare("app.jar", <<"modrinth", "PAPP", "a1">>, TRUE),
                Declare("view.jar", <<"cache", "w1">>, TRUE), Declare("lib.jar", <<"modrinth", "PLIB", "l1">>, FALSE)}
ToolOnly == {Declare("tool.jar", <<"cache", "t1">>, TRUE)}
MCNamedAfter == [k \in {"Codec", "c2"} |-> IF k = "Codec" THEN "Codec.jar" ELSE "c2.jar"]
MCJarWindows == [k \in {"t1", "c2", "a1", "l1"} |->
    IF k = "a1" THEN {<<"cleanroom", AtLeast(<<15>>)>>} ELSE IF k = "t1" THEN {<<"forge", AtLeast(<<15>>)>>} ELSE {}]
MCJars == {"t1", "c1", "c2", "b1", "h1", "w1", "s1"}
MCWeathers == {{}, Endpoints, {"pins"}}
Fair == {Endpoints}

\* A shader pack off Modrinth beside a file of the pack's own.
MCStatics == [f \in {"options.txt"} |-> "sha-o"]
Plain == [a \in {"options.txt"} |-> <<"static", "options.txt">>]
MCExtras == {<<>>, Plain @@ [a \in {"shaderpacks/glow.zip"} |-> <<"modrinth", "PGLOW", "g1">>]}
=============================================================================
