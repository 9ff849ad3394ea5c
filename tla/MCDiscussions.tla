--------------------------- MODULE MCDiscussions ----------------------------
EXTENDS Reads

\* 1 is on the admin allowlist, 2 owns the namespace of "mine", 3 is a stranger.
MCNamespace == [p \in Packs |-> IF p = "mine" THEN 2 ELSE 0]

MCMenus == {
    [suspend |-> 1, role |-> 1], [role |-> 1, block |-> 1],
    [suspend |-> 1, lift |-> 1], [suspend |-> 1, grant |-> 1],
    [block |-> 1, unblock |-> 1],
    [issue |-> 1, comment |-> 2],
    [issue |-> 1, comment |-> 1, hide |-> 1],
    [issue |-> 1, close |-> 2],
    [issue |-> 1, close |-> 1, reopen |-> 1],
    [proposal |-> 1, merge |-> 2], [proposal |-> 1, merge |-> 1, close |-> 1],
    [visibility |-> 1, issue |-> 1], [delete |-> 1, issue |-> 1], [visibility |-> 1, delete |-> 1],
    [fork |-> 1, terms |-> 1, delete |-> 1],
    [grant |-> 1, revoke |-> 1],
    [issue |-> 1, revoke |-> 1],
    [session |-> 2, feedkey |-> 1, rotate |-> 1],
    [issue |-> 2],
    [issue |-> 1, read |-> 2]}

MCShelves == {
    [p \in Packs |-> IF p = "mine" THEN "draft" ELSE "published"],
    [p \in Packs |-> IF p = "mine" THEN "published" ELSE "draft"],
    [p \in Packs |-> IF p = "mine" THEN "unbuilt" ELSE "published"]}

\* "mine" has two builds of one second, the one `latest` names among them, and a
\* file that no longer parses; its third commit's metadata is damaged.
MCBuilds == [p \in Packs |-> IF p = "mine"
    THEN {[version |-> <<1, 10>>, at |-> 5, channel |-> "beta", snapshot |-> FALSE, from |-> "k1", reads |-> TRUE],
          [version |-> <<1, 2>>, at |-> 5, channel |-> "none", snapshot |-> TRUE, from |-> "k1", reads |-> TRUE],
          [version |-> <<1>>, at |-> 6, channel |-> "none", snapshot |-> FALSE, from |-> "k2", reads |-> FALSE]}
    ELSE {}]
MCLatest == [p \in Packs |-> IF p = "mine" THEN {<<1, 10>>} ELSE {}]
MCStatics == [p \in Packs |-> IF p = "mine" THEN {"banner", "..banner"} ELSE {}]
MCLog == [p \in Packs |-> IF p = "mine" THEN <<"k4", "k3", "k2", "k1">> ELSE <<>>]
MCOwner == [p \in Packs |-> IF p = "mine" THEN 2 ELSE 1]

\* The owner lets somebody in, puts them out again, and a report is opened.
RevokedMenus == {[grant |-> 1, revoke |-> 1, issue |-> 1]}

\* A report on a pack that is off the catalog.
JoinMenus == {[issue |-> 1, visibility |-> 1]}

\* A published pack is cloned and a report opened on the clone.
CloneShelf == {[p \in Packs |-> IF p = "mine" THEN "absent" ELSE "published"]}
CloneMenus == {[terms |-> 1, fork |-> 1, issue |-> 1]}
=============================================================================
