------------------------------- MODULE Semver --------------------------------
(***************************************************************************)
(* Version comparison as the registry does it.  A version is its dotted    *)
(* parts: a sequence of naturals, or None when some part is not a number   *)
(* (a classifier suffix, an embedded Minecraft version).                   *)
(***************************************************************************)
EXTENDS Naturals, Sequences

CONSTANT None       \* an absent value

PartAt(v, i) == IF i <= Len(v) THEN v[i] ELSE 0

\* The first place where they differ decides.
ByFirst(a, b, differ) ==
    IF differ = {} THEN "equal"
    ELSE LET first == CHOOSE i \in differ : \A j \in differ : i <= j
         IN  IF PartAt(a, first) < PartAt(b, first) THEN "less" ELSE "greater"

\* -1, 0 or 1 as "less", "equal", "greater"; None when either is unreadable.
\* A shorter version is padded with zeros.
Cmp(a, b) ==
    IF a = None \/ b = None THEN None
    ELSE ByFirst(a, b, {i \in 1..(Len(a) + Len(b)) : PartAt(a, i) # PartAt(b, i)})

\* What cannot be compared cannot be judged.
IsOneOf(c, accepted) == IF c = None THEN None ELSE c \in accepted

BothEnds(low, high) == IF low # TRUE THEN low ELSE high

\* One end of a Maven interval; an empty end is open.
Within(version, bound, inclusive, far) ==
    IF bound = <<>> THEN TRUE
    ELSE IsOneOf(Cmp(version, bound), {far} \cup (IF inclusive THEN {"equal"} ELSE {}))

\* [lo,hi) and its kin; [v] is exactly v.  The lower end answers first.
Interval(version, r) ==
    IF r.exact THEN IsOneOf(Cmp(version, r.lo), {"equal"})
    ELSE BothEnds(Within(version, r.lo, r.loIn, "greater"), Within(version, r.hi, r.hiIn, "less"))

\* A comparator and its bound.  Tilde, caret and a bare version are only lower
\* bounds; "any" cannot be judged.
InRange(version, r) ==
    IF r.op = "any" THEN None
    ELSE IF r.op = "interval" THEN Interval(version, r)
    ELSE IsOneOf(Cmp(version, r.lo),
                 CASE r.op \in {">=", "~", "^", "bare"} -> {"equal", "greater"}
                   [] r.op = ">" -> {"greater"}
                   [] r.op = "<=" -> {"equal", "less"}
                   [] r.op = "<" -> {"less"}
                   [] OTHER -> {"equal"})
=============================================================================
