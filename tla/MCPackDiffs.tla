----------------------------- MODULE MCPackDiffs -----------------------------
(***************************************************************************)
(* A Modrinth mod with a re-pin, a rename and a toggle; two cached jars    *)
(* that carry a blank slug, one slug between them, or none; another jar    *)
(* under the first one's file name; a resource pack that moves, changes or *)
(* turns optional, and one more at its path.  The fill pulls one library.  *)
(***************************************************************************)
EXTENDS PackDiffs

Row(file, source, on, slug, display) ==
    [file |-> file, source |-> source, on |-> on, slug |-> slug, display |-> display, pulled |-> FALSE]
Note(n) == [note |-> n, requires |-> {}]

App(v) == <<"modrinth", "P", v>>
Jar(sha) == <<"cache", sha>>
MCRows == {Row("a.jar", App("v2"), TRUE, None, None), Row("b.jar", App("v1"), FALSE, None, None),
           Row("b.jar", Jar("s1"), TRUE, Blank, None), Row("b.jar", Jar("s1"), TRUE, "core", None),
           Row("c.jar", Jar("s2"), TRUE, Blank, None), Row("c.jar", Jar("s2"), FALSE, "core", Note("x")),
           Row("a.jar", Jar("s1"), TRUE, None, None)}
Asset(dest, path, required) == [dest |-> dest, source |-> <<"static", path>>, required |-> required, display |-> None]
Off(dest, project) == [Asset(dest, "one", TRUE) EXCEPT !.source = <<"modrinth", project, "one">>]
MCSources == {App("v1"), App("v2"), App("one"), Jar("s1"), Jar("s2"), Jar("s9"),
              <<"static", "one">>, <<"static", "two">>}
MCAssets == {Asset("t.zip", "one", TRUE), Asset("u.zip", "one", FALSE), Asset("t.zip", "two", TRUE), Off("t.zip", "P")}
MCKeys == <<<<"a", "t.zip">>, <<"a", "u.zip">>, <<"f", "a.jar">>, <<"f", "b.jar">>, <<"f", "c.jar">>,
            <<"f", "lib.jar">>, <<"m", "P">>, <<"s", "core">>>>
Text(t) == <<<<t>>>>
MCValues == [f \in {"loader", "minecraft", "java", "tags", "auth"} |->
    CASE f = "loader" -> {<<<<"forge">>, <<"14">>>>}
      [] f = "minecraft" -> {Text("1.12"), Text("1.16")}
      [] f = "java" -> {Text("8")}
      [] f = "tags" -> {<<<<"old">>, <<"tech">>>>, <<<<"old", "tech">>>>}
      [] OTHER -> {Text("one"), Text("two")}]
MCLibraries == {{}, {[Row("lib.jar", Jar("s9"), TRUE, None, None) EXCEPT !.pulled = TRUE]}}
MCFields == [f \in DOMAIN MCValues |->
    CASE f = "loader" -> <<<<"forge">>, <<"14">>>> [] f = "minecraft" -> Text("1.12") [] f = "java" -> Text("8")
      [] f = "tags" -> <<<<"old">>, <<"tech">>>> [] OTHER -> Text("one")]
MCStarts == {[fields |-> MCFields, visible |-> FALSE, assets |-> {Asset("t.zip", "one", TRUE)},
              mods |-> <<Row("a.jar", App("v1"), TRUE, None, None), Row("c.jar", Jar("s2"), TRUE, Blank, None)>>]}
==============================================================================
