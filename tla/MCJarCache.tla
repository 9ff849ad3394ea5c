----------------------------- MODULE MCJarCache ------------------------------
EXTENDS JarCache

\* Jars 1 and 2 share a directory, 3 has its own; 1 carries an icon.
MCPrefix == [x \in Shas |-> (x + 1) \div 2]
MCIcons == [x \in Shas |-> IF x = 1 THEN "image" ELSE "absent"]
MCRole == [l \in Listeners |-> IF l = "operator" THEN "admin" ELSE "member"]
MCLogin == [t \in Tabs |-> IF t = "bob" THEN "bob" ELSE "ann"]

MCMenus == {
    [put |-> 1, takedown |-> 1, get |-> 1],
    [ingest |-> 1, takedown |-> 1, restore |-> 1],
    [takedown |-> 2, restore |-> 1],
    [restore |-> 1, takedown |-> 1, get |-> 2],
    [icon |-> 2, takedown |-> 1],
    [upload |-> 2, approve |-> 1, reject |-> 1, takedown |-> 1],
    [upload |-> 1, approve |-> 1, reject |-> 1, listen |-> 0],
    [catalog |-> 3, listen |-> 0],
    [upload |-> 1, catalog |-> 1, listen |-> 0],
    [picture |-> 2],
    [walk |-> 1, put |-> 1, delete |-> 2],
    [room |-> 2]}

LagMenus == {[upload |-> 1, catalog |-> 1, listen |-> 0]}
UnreadMenus == {[takedown |-> 1, get |-> 1], [takedown |-> 2]}
RoomMenus == {[room |-> 2]}
=============================================================================
