-------------------------- MODULE DiscussionsProofs --------------------------
(***************************************************************************)
(* What the accounts and the discussions promise, for any number of        *)
(* people, packs and rows, however requests interleave and wherever the    *)
(* process dies: types, the one gate behind three answers, a decision made *)
(* once, and who is told of a comment.                                     *)
(***************************************************************************)
EXTENDS Discussions, FiniteSetTheorems, WellFoundedInduction, TLAPS

\* What a request carries at each point.
CallOK(c) ==
    /\ c.op \in {"role", "suspend", "lift"} => c.target \in Callers
    /\ c.op = "role" => c.what \in Roles
    /\ c.op = "grant" => c.pack \in Packs /\ c.target \in Callers /\ c.what \in Levels
    /\ c.op \in {"revoke", "block", "unblock"} => c.pack \in Packs /\ c.target \in Uids
    /\ c.op = "visibility" => c.pack \in Packs /\ c.what \in Visibilities
    /\ c.op \in {"delete", "fork", "issue", "proposal"} => c.pack \in Packs
    /\ c.op = "proposal" /\ c.pc # "gate" => c.what \in Packs
    /\ c.op \in {"comment", "close", "reopen", "merge", "hide"} => c.row \in Ids
    /\ c.op \in {"comment", "close", "reopen", "merge"} /\ c.pc # "gate" =>
          c.pack \in Packs /\ c.target \in Callers
    /\ c.op \in {"close", "merge"} /\ c.pc # "gate" => c.what \in {"closed", "merged", "declined", "withdrawn"}
    /\ c.pc \in {"audience", "tell"} =>
          c.row \in Ids /\ c.op \in {"issue", "proposal", "comment", "close", "reopen", "merge"}

CallInv == \A u \in Callers : calls[u] # Idle => CallOK(calls[u])

\* The notifications are numbered, and there is a last one.
NotesBounded == \E b \in Nat : \A x \in notes : x.n <= b

TypeInv == TypeOK /\ CallInv /\ NotesBounded

-----------------------------------------------------------------------------
(* Requests *)

\* What a request may name is of the right kind for its operation.
LEMMA ArgsOK ==
    ASSUME TypeOK, NEW op \in Ops, NEW a \in Args(op)
    PROVE  /\ a.pack \in Packs \cup {"none"} /\ a.target \in Callers \cup {Nobody}
           /\ a.what \in Whats /\ a.row \in Nat
           /\ op \in {"role", "suspend", "lift"} => a.target \in Callers
           /\ op = "role" => a.what \in Roles
           /\ op = "grant" => a.pack \in Packs /\ a.target \in Callers /\ a.what \in Levels
           /\ op \in {"revoke", "block", "unblock"} => a.pack \in Packs /\ a.target \in Uids
           /\ op = "visibility" => a.pack \in Packs /\ a.what \in Visibilities
           /\ op \in {"delete", "fork", "issue", "proposal"} => a.pack \in Packs
           /\ op \in {"comment", "close", "reopen", "merge", "hide"} => a.row \in Ids
<1>i. Ids \subseteq Nat /\ 0 \in Nat /\ Uids \subseteq Callers
  BY RowsAssumption DEF Ids, Callers
<1>n. {x.n : x \in notes} \subseteq Nat
  BY DEF TypeOK, NoteRows
<1>r. RowsOf(threads) \subseteq Ids /\ RowsOf(comments) \subseteq Ids
  BY DEF RowsOf
<1>s. Roles \subseteq Whats /\ Levels \subseteq Whats /\ Visibilities \subseteq Whats
      /\ "nothing" \in Whats /\ "hide" \in Whats /\ "show" \in Whats
  BY DEF Whats
<1>1. CASE op = "role"
  <2>1. Args(op) = Asks({"none"}, Callers, Roles, {0})
    BY <1>1 DEF Args
  <2>2. a.pack \in {"none"} /\ a.target \in Callers /\ a.what \in Roles
        /\ a.row \in {0}
    BY <2>1 DEF Asks
  <2> QED
    BY <1>1, <2>2, <1>i, <1>n, <1>r, <1>s
<1>2. CASE op \in {"suspend", "lift"}
  <2>1. Args(op) = Asks({"none"}, Callers, {"nothing"}, {0})
    BY <1>2 DEF Args
  <2>2. a.pack \in {"none"} /\ a.target \in Callers /\ a.what \in {"nothing"}
        /\ a.row \in {0}
    BY <2>1 DEF Asks
  <2> QED
    BY <1>2, <2>2, <1>i, <1>n, <1>r, <1>s
<1>3. CASE op = "grant"
  <2>1. Args(op) = Asks(Packs, Callers, Levels, {0})
    BY <1>3 DEF Args
  <2>2. a.pack \in Packs /\ a.target \in Callers /\ a.what \in Levels
        /\ a.row \in {0}
    BY <2>1 DEF Asks
  <2> QED
    BY <1>3, <2>2, <1>i, <1>n, <1>r, <1>s
<1>4. CASE op \in {"revoke", "block", "unblock"}
  <2>1. Args(op) = Asks(Packs, Uids, {"nothing"}, {0})
    BY <1>4 DEF Args
  <2>2. a.pack \in Packs /\ a.target \in Uids /\ a.what \in {"nothing"}
        /\ a.row \in {0}
    BY <2>1 DEF Asks
  <2> QED
    BY <1>4, <2>2, <1>i, <1>n, <1>r, <1>s
<1>5. CASE op = "visibility"
  <2>1. Args(op) = Asks(Packs, {Nobody}, Visibilities, {0})
    BY <1>5 DEF Args
  <2>2. a.pack \in Packs /\ a.target \in {Nobody} /\ a.what \in Visibilities
        /\ a.row \in {0}
    BY <2>1 DEF Asks
  <2> QED
    BY <1>5, <2>2, <1>i, <1>n, <1>r, <1>s
<1>6. CASE op \in {"delete", "fork", "issue", "proposal"}
  <2>1. Args(op) = Asks(Packs, {Nobody}, {"nothing"}, {0})
    BY <1>6 DEF Args
  <2>2. a.pack \in Packs /\ a.target \in {Nobody} /\ a.what \in {"nothing"}
        /\ a.row \in {0}
    BY <2>1 DEF Asks
  <2> QED
    BY <1>6, <2>2, <1>i, <1>n, <1>r, <1>s
<1>7. CASE op \in {"comment", "close", "reopen", "merge"}
  <2>1. Args(op) = Asks({"none"}, {Nobody}, {"nothing"}, RowsOf(threads))
    BY <1>7 DEF Args
  <2>2. a.pack \in {"none"} /\ a.target \in {Nobody} /\ a.what \in {"nothing"}
        /\ a.row \in RowsOf(threads)
    BY <2>1 DEF Asks
  <2> QED
    BY <1>7, <2>2, <1>i, <1>n, <1>r, <1>s
<1>8. CASE op = "hide"
  <2>1. Args(op) = Asks({"none"}, {Nobody}, {"hide", "show"}, RowsOf(comments))
    BY <1>8 DEF Args
  <2>2. a.pack \in {"none"} /\ a.target \in {Nobody} /\ a.what \in {"hide", "show"}
        /\ a.row \in RowsOf(comments)
    BY <2>1 DEF Asks
  <2> QED
    BY <1>8, <2>2, <1>i, <1>n, <1>r, <1>s
<1>9. CASE op = "read"
  <2>1. Args(op) = Asks({"none"}, {Nobody}, {"nothing"}, {0} \cup {x.n : x \in notes})
    BY <1>9 DEF Args
  <2>2. a.pack \in {"none"} /\ a.target \in {Nobody} /\ a.what \in {"nothing"}
        /\ a.row \in {0} \cup {x.n : x \in notes}
    BY <2>1 DEF Asks
  <2> QED
    BY <1>9, <2>2, <1>i, <1>n, <1>r, <1>s
<1>10. CASE op \notin {"role", "suspend", "lift", "grant", "revoke", "block", "unblock", "visibility", "delete",
                       "fork", "issue", "proposal", "comment", "close", "reopen", "merge", "hide", "read"}
  <2>1. Args(op) = Asks({"none"}, {Nobody}, {"nothing"}, {0})
    BY <1>10 DEF Args
  <2>2. a.pack \in {"none"} /\ a.target \in {Nobody} /\ a.what \in {"nothing"}
        /\ a.row \in {0}
    BY <2>1 DEF Asks
  <2> QED
    BY <1>10, <2>2, <1>i, <1>n, <1>r, <1>s
<1> QED
  BY <1>1, <1>2, <1>3, <1>4, <1>5, <1>6, <1>7, <1>8, <1>9, <1>10

\* A request that moves leaves the others as they were.
LEMMA CallMoves ==
    ASSUME calls \in [Callers -> CallRecords \cup {Idle}], CallInv, NEW u \in Callers,
           NEW c \in CallRecords \cup {Idle}, c # Idle => CallOK(c), calls' = [calls EXCEPT ![u] = c]
    PROVE  calls' \in [Callers -> CallRecords \cup {Idle}] /\ CallInv'
BY DEF CallInv, CallOK

\* A request that is answered, or refused, is gone.
LEMMA FinishKeeps ==
    ASSUME TypeInv, NEW u \in Callers, Finish(u)
    PROVE  calls' \in [Callers -> CallRecords \cup {Idle}] /\ CallInv'
BY CallMoves DEF Finish, TypeInv, TypeOK

\* A request past its gate goes on to its next step.
LEMMA OnwardKeeps ==
    ASSUME TypeInv, NEW u \in Callers, calls[u] # Idle, calls[u].pc = "write", NEW pc \in {"forget", "audience"},
           Onward(u, pc),
           pc = "audience" => /\ calls[u].row \in Ids
                              /\ calls[u].op \in {"issue", "proposal", "comment", "close", "reopen", "merge"}
    PROVE  calls' \in [Callers -> CallRecords \cup {Idle}] /\ CallInv'
<1> DEFINE c == [calls[u] EXCEPT !.pc = pc]
<1>1. calls[u] \in CallRecords /\ CallOK(calls[u])
  BY DEF TypeInv, TypeOK, CallInv
<1>2. c \in CallRecords
  BY <1>1 DEF CallRecords
<1>3. CallOK(c)
  BY <1>1 DEF CallRecords, CallOK
<1>4. calls' = [calls EXCEPT ![u] = c]
  BY DEF Onward
<1> HIDE DEF c
<1> QED
  BY <1>2, <1>3, <1>4, CallMoves DEF TypeInv, TypeOK

\* A step that only moves a request.
LEMMA OnlyCalls ==
    ASSUME TypeInv, UNCHANGED <<accountVars, threadVars, menu>>,
           calls' \in [Callers -> CallRecords \cup {Idle}], CallInv'
    PROVE  TypeInv'
BY DEF TypeInv, TypeOK, AccountsTypeOK, NotesBounded, accountVars, threadVars

\* A step of the accounts tables alone.
LEMMA OnlyAccounts ==
    ASSUME TypeInv, UNCHANGED threadVars, UNCHANGED menu, AccountsTypeOK',
           calls' \in [Callers -> CallRecords \cup {Idle}], CallInv'
    PROVE  TypeInv'
BY DEF TypeInv, TypeOK, NotesBounded, threadVars

-----------------------------------------------------------------------------
(* Numbers *)

\* A nonempty set of numbers with a bound has a greatest element.
LEMMA HasGreatest ==
    ASSUME NEW S, S \subseteq Nat, S # {}, NEW b \in Nat, \A x \in S : x <= b
    PROVE  \E m \in S : \A x \in S : x <= m
<1> DEFINE R == OpToRel(<, Nat)
           B == {k \in Nat : \A x \in S : x <= k}
<1>1. IsWellFoundedOn(R, Nat)
  BY NatLessThanWellFounded
<1>2. PICK k \in B : \A y \in B : ~ (<<y, k>> \in R)
  <2>1. B \subseteq Nat /\ B # {}
    OBVIOUS
  <2> HIDE DEF R, B
  <2> QED
    BY <1>1, <2>1, WFMin
<1>3. k \in S
  <2> SUFFICES ASSUME k \notin S PROVE FALSE
    OBVIOUS
  <2>0. k \in Nat /\ \A x \in S : x <= k
    BY <1>2
  <2>1. \A x \in S : x \in Nat /\ x < k
    BY <2>0
  <2>2. k - 1 \in Nat /\ k - 1 < k /\ \A x \in S : x <= k - 1
    <3>1. PICK x \in S : TRUE
      OBVIOUS
    <3>2. x \in Nat /\ x < k
      BY <2>1
    <3> QED
      BY <2>0, <2>1, <3>2
  <2>3. k - 1 \in B /\ k \in Nat
    BY <1>2, <2>2
  <2>4. <<k - 1, k>> \in R
    BY <2>2, <2>3, Zenon DEF OpToRel
  <2> QED
    BY <1>2, <2>3, <2>4
<1> QED
  BY <1>2, <1>3

\* The id a new row is given is in use by none, and past every one in use.
LEMMA NextIdFresh ==
    ASSUME NEW table
    PROVE  NextId(table) \in Nat \ {0} /\ \A j \in Ids : table[j] # NoRow => j < NextId(table)
<1>1. CASE \A i \in Ids : table[i] = NoRow
  BY <1>1 DEF NextId
<1>2. CASE ~ \A i \in Ids : table[i] = NoRow
  <2> DEFINE S == {i \in Ids : table[i] # NoRow}
  <2>1. S \subseteq Nat /\ S # {} /\ \A x \in S : x <= MaxRows
    BY <1>2, RowsAssumption DEF Ids
  <2>2. \E m \in S : \A x \in S : x <= m
    <3> HIDE DEF S
    <3> QED
      BY <2>1, RowsAssumption, HasGreatest
  <2> DEFINE m == CHOOSE i \in Ids : /\ table[i] # NoRow
                                     /\ \A j \in Ids : table[j] # NoRow => j <= i
  <2>3. m \in Ids /\ \A j \in Ids : table[j] # NoRow => j <= m
    BY <2>2
  <2>4. NextId(table) = 1 + m
    BY <1>2 DEF NextId
  <2> HIDE DEF m
  <2>5. m \in Nat /\ \A j \in Ids : j \in Nat
    BY <2>3, RowsAssumption DEF Ids
  <2> QED
    BY <2>3, <2>4, <2>5
<1> QED
  BY <1>1, <1>2

-----------------------------------------------------------------------------
(* Types *)

LEMMA TypeInit == Init => TypeInv
<1> SUFFICES ASSUME Init PROVE TypeInv
  OBVIOUS
<1>1. users \in [Uids -> Roles \cup {"nobody"}]
  <2>1. \A u \in Uids : (IF ForcedRole(u) # "none" THEN ForcedRole(u) ELSE "member") \in Roles
    BY DEF ForcedRole, Roles
  <2> QED
    BY <2>1 DEF Init
<1>2. AccountsTypeOK
  BY <1>1, ShelvesAssumption DEF Init, AccountsTypeOK, Levels
<1>3. threads \in [Ids -> ThreadRows \cup {NoRow}] /\ comments \in [Ids -> CommentRows \cup {NoRow}]
  BY DEF Init
<1>4. notes \subseteq NoteRows /\ feedKey \in [Uids -> Nat] /\ minted \in Nat /\ answered \subseteq Ids /\ NotesBounded
  BY DEF Init, NotesBounded
<1>5. calls \in [Callers -> CallRecords \cup {Idle}] /\ CallInv
  BY DEF Init, CallInv
<1>6. DOMAIN menu \subseteq Ops \cup {"session"} /\ \A op \in DOMAIN menu : menu[op] \in Nat
  BY MenusAssumption DEF Init
<1> QED
  BY <1>2, <1>3, <1>4, <1>5, <1>6 DEF TypeInv, TypeOK

\* A request arrives with what its operation needs.
LEMMA ArriveKeeps ==
    ASSUME TypeInv, NEW u \in Callers, Arrive(u)
    PROVE  TypeInv'
<1>1. PICK id \in Identities, op \in DOMAIN menu \ {"session"} :
        /\ menu[op] > 0
        /\ \E a \in Args(op) :
            calls' = [calls EXCEPT ![u] =
                        [op |-> op, id |-> id, pack |-> a.pack, target |-> a.target, what |-> a.what,
                         row |-> a.row, made |-> 0, told |-> {},
                         pc |-> IF op \in GatedOps THEN "gate" ELSE "write"]]
        /\ menu' = [menu EXCEPT ![op] = @ - 1]
  BY DEF Arrive
<1> DEFINE pc == IF op \in GatedOps THEN "gate" ELSE "write"
<1>2. pc \in {"gate", "write"} /\ (pc = "write" => op \notin GatedOps)
  OBVIOUS
<1>3. PICK a \in Args(op) :
        calls' = [calls EXCEPT ![u] =
                    [op |-> op, id |-> id, pack |-> a.pack, target |-> a.target, what |-> a.what,
                     row |-> a.row, made |-> 0, told |-> {}, pc |-> pc]]
  BY <1>1
<1> HIDE DEF pc
<1> DEFINE c == [op |-> op, id |-> id, pack |-> a.pack, target |-> a.target, what |-> a.what,
                 row |-> a.row, made |-> 0, told |-> {}, pc |-> pc]
<1>4. op \in Ops
  BY DEF TypeInv, TypeOK
<1>5. c \in CallRecords
  BY <1>2, <1>4, ArgsOK DEF CallRecords, TypeInv
<1>6. CallOK(c)
  <2>1. pc # "gate" => op \notin GatedOps
    BY <1>2
  <2> HIDE DEF TypeInv
  <2> QED
    BY <1>2, <1>4, <2>1, ArgsOK DEF CallOK, GatedOps, TypeInv
<1>7. calls' \in [Callers -> CallRecords \cup {Idle}] /\ CallInv'
  <2>1. calls' = [calls EXCEPT ![u] = c]
    BY <1>3
  <2> HIDE DEF c
  <2> QED
    BY <2>1, <1>5, <1>6, CallMoves DEF TypeInv, TypeOK
<1>8. DOMAIN menu' \subseteq Ops \cup {"session"} /\ \A o \in DOMAIN menu' : menu'[o] \in Nat
  <2>1. \A o \in DOMAIN menu : menu[o] \in Nat
    BY DEF TypeInv, TypeOK
  <2>2. menu[op] \in Nat /\ menu[op] - 1 \in Nat
    BY <2>1, <1>1
  <2> QED
    BY <1>1, <2>1, <2>2 DEF TypeInv, TypeOK
<1>9. UNCHANGED <<accountVars, threadVars>>
  BY DEF Arrive
<1> QED
  BY <1>7, <1>8, <1>9 DEF TypeInv, TypeOK, AccountsTypeOK, NotesBounded, accountVars, threadVars

PlainGates == {"suspend", "grant", "revoke", "block", "unblock", "visibility", "delete", "fork", "issue", "hide"}

\* A gate that only says yes or no.
LEMMA PlainGateKeeps ==
    ASSUME TypeInv, NEW u \in Callers, calls[u] # Idle, calls[u].op \in PlainGates,
           UNCHANGED <<accountVars, threadVars, menu>>,
           calls' = [calls EXCEPT ![u] = [calls[u] EXCEPT !.pc = "write"]] \/ Finish(u)
    PROVE  TypeInv'
<1>1. CASE Finish(u)
  BY <1>1, FinishKeeps, OnlyCalls
<1>2. CASE calls' = [calls EXCEPT ![u] = [calls[u] EXCEPT !.pc = "write"]]
  <2> DEFINE c == [calls[u] EXCEPT !.pc = "write"]
  <2>1. calls[u] \in CallRecords /\ CallOK(calls[u])
    BY DEF TypeInv, TypeOK, CallInv
  <2>2. c \in CallRecords
    BY <2>1 DEF CallRecords
  <2>3. CallOK(c)
    BY <2>1 DEF CallRecords, CallOK, PlainGates
  <2>4. calls' = [calls EXCEPT ![u] = c]
    BY <1>2
  <2> HIDE DEF c
  <2>5. calls' \in [Callers -> CallRecords \cup {Idle}] /\ CallInv'
    BY <2>2, <2>3, <2>4, CallMoves DEF TypeInv, TypeOK
  <2> QED
    BY <2>5, OnlyCalls
<1> QED
  BY <1>1, <1>2

\* A gate that also settles what is to be done, on which pack and thread.
LEMMA LoadingGateKeeps ==
    ASSUME TypeInv, NEW u \in Callers, calls[u] # Idle,
           UNCHANGED <<accountVars, threadVars, menu>>,
           NEW pack, NEW target, NEW what,
           pack \in Packs, target \in Callers \cup {Nobody}, what \in Whats,
           \/ calls[u].op = "proposal" /\ what \in Packs
           \/ calls[u].op \in {"comment", "reopen"} /\ target \in Callers
           \/ /\ calls[u].op \in {"close", "merge"} /\ target \in Callers
              /\ what \in {"closed", "merged", "declined", "withdrawn"},
           calls' = [calls EXCEPT ![u] = [calls[u] EXCEPT !.pack = pack, !.target = target, !.what = what, !.pc = "write"]]
    PROVE  TypeInv'
<1> DEFINE c == [calls[u] EXCEPT !.pack = pack, !.target = target, !.what = what, !.pc = "write"]
<1>1. calls[u] \in CallRecords /\ CallOK(calls[u])
  BY DEF TypeInv, TypeOK, CallInv
<1>2. c \in CallRecords
  BY <1>1 DEF CallRecords
<1>3. CallOK(c)
  BY <1>1 DEF CallRecords, CallOK
<1> HIDE DEF c
<1>4. calls' = [calls EXCEPT ![u] = c]
  BY DEF c
<1>5. calls' \in [Callers -> CallRecords \cup {Idle}] /\ CallInv'
  BY <1>2, <1>3, <1>4, CallMoves DEF TypeInv, TypeOK
<1> QED
  BY <1>5, OnlyCalls

LEMMA GatesKeep ==
    ASSUME TypeInv, NEW u \in Callers,
           \/ SuspendGate(u) \/ GrantGate(u) \/ RevokeGate(u) \/ BlockGate(u) \/ UnblockGate(u)
           \/ VisibilityGate(u) \/ DeleteGate(u) \/ ForkGate(u) \/ IssueGate(u) \/ HideGate(u)
    PROVE  TypeInv'
<1> SUFFICES /\ calls[u] # Idle /\ calls[u].op \in PlainGates /\ UNCHANGED <<accountVars, threadVars, menu>>
             /\ calls' = [calls EXCEPT ![u] = [calls[u] EXCEPT !.pc = "write"]] \/ Finish(u)
  BY PlainGateKeeps
<1>1. CASE SuspendGate(u)
  BY <1>1 DEF SuspendGate, GateStep, At, PlainGates
<1>2. CASE GrantGate(u)
  BY <1>2 DEF GrantGate, GateStep, At, PlainGates
<1>3. CASE RevokeGate(u)
  BY <1>3 DEF RevokeGate, GateStep, At, PlainGates
<1>4. CASE BlockGate(u)
  BY <1>4 DEF BlockGate, GateStep, At, PlainGates
<1>5. CASE UnblockGate(u)
  BY <1>5 DEF UnblockGate, GateStep, At, PlainGates
<1>6. CASE VisibilityGate(u)
  BY <1>6 DEF VisibilityGate, GateStep, At, PlainGates
<1>7. CASE DeleteGate(u)
  BY <1>7 DEF DeleteGate, GateStep, At, PlainGates
<1>8. CASE ForkGate(u)
  BY <1>8 DEF ForkGate, GateStep, At, PlainGates
<1>9. CASE IssueGate(u)
  BY <1>9 DEF IssueGate, GateStep, At, PlainGates
<1>10. CASE HideGate(u)
  BY <1>10 DEF HideGate, GateStep, At, PlainGates
<1> QED
  BY <1>1, <1>2, <1>3, <1>4, <1>5, <1>6, <1>7, <1>8, <1>9, <1>10

\* The row a request loads.
LEMMA ThreadRow ==
    ASSUME TypeOK, NEW i, Exists(threads, i)
    PROVE  i \in Ids /\ threads[i] \in ThreadRows
BY DEF TypeOK, Exists

LEMMA LoadingGatesKeep ==
    ASSUME TypeInv, NEW u \in Callers,
           ProposalGate(u) \/ CommentGate(u) \/ CloseGate(u) \/ MergeGate(u) \/ ReopenGate(u)
    PROVE  TypeInv'
<1> DEFINE c == calls[u]
           t == threads[c.row]
<1>c. calls[u] # Idle /\ UNCHANGED <<accountVars, threadVars, menu>>
  BY DEF ProposalGate, CommentGate, CloseGate, MergeGate, ReopenGate, GateStep, At
<1>r. calls[u] \in CallRecords
  BY <1>c DEF TypeInv, TypeOK
<1>t. Exists(threads, c.row) => t \in ThreadRows /\ t.pack \in Packs /\ t.by \in Callers
  BY ThreadRow DEF TypeInv, ThreadRows
<1>f. CASE Finish(u)
  BY <1>f, <1>c, FinishKeeps, OnlyCalls
<1>1. CASE ProposalGate(u) /\ ~Finish(u)
  <2>1. PICK source \in Packs : calls' = [calls EXCEPT ![u] = [[c EXCEPT !.what = source] EXCEPT !.pc = "write"]]
    BY <1>1 DEF ProposalGate, GateStep
  <2>2. c.op = "proposal" /\ c.pack \in Packs
    BY <1>1, <1>c DEF ProposalGate, GateStep, At, TypeInv, CallInv, CallOK
  <2>3. [[c EXCEPT !.what = source] EXCEPT !.pc = "write"]
          = [c EXCEPT !.pack = c.pack, !.target = c.target, !.what = source, !.pc = "write"]
    BY <1>r DEF CallRecords
  <2>4. c.target \in Callers \cup {Nobody} /\ source \in Whats
    BY <1>r DEF CallRecords, Whats
  <2> QED
    BY <1>c, <2>1, <2>2, <2>3, <2>4, LoadingGateKeeps
<1>2. CASE (CommentGate(u) \/ ReopenGate(u)) /\ ~Finish(u)
  <2>1. calls' = [calls EXCEPT ![u] = [Loaded(u) EXCEPT !.pc = "write"]] /\ Exists(threads, c.row)
    BY <1>2 DEF CommentGate, ReopenGate, GateStep
  <2>2. c.op \in {"comment", "reopen"}
    BY <1>2 DEF CommentGate, ReopenGate, GateStep, At
  <2>3. [Loaded(u) EXCEPT !.pc = "write"]
          = [c EXCEPT !.pack = t.pack, !.target = t.by, !.what = c.what, !.pc = "write"]
    BY <1>r DEF CallRecords, Loaded
  <2>4. c.what \in Whats
    BY <1>r DEF CallRecords
  <2>5. calls' = [calls EXCEPT ![u] = [calls[u] EXCEPT !.pack = t.pack, !.target = t.by, !.what = c.what, !.pc = "write"]]
    BY <2>1, <2>3
  <2>6. t.pack \in Packs /\ t.by \in Callers
    BY <1>t, <2>1
  <2> HIDE DEF t
  <2> QED
    BY <1>c, <2>2, <2>4, <2>5, <2>6, LoadingGateKeeps
<1>3. CASE CloseGate(u) /\ ~Finish(u)
  <2> DEFINE what == IF t.kind = "issue" THEN "closed" ELSE IF Mine(u) THEN "withdrawn" ELSE "declined"
  <2>0. what \in {"closed", "merged", "declined", "withdrawn"}
    OBVIOUS
  <2>1. calls' = [calls EXCEPT ![u] = [[Loaded(u) EXCEPT !.what = what] EXCEPT !.pc = "write"]]
    BY <1>3 DEF CloseGate, GateStep
  <2>e. Exists(threads, c.row) /\ c.op = "close"
    BY <1>3 DEF CloseGate, GateStep, At
  <2> HIDE DEF what
  <2>3. [[Loaded(u) EXCEPT !.what = what] EXCEPT !.pc = "write"]
          = [c EXCEPT !.pack = t.pack, !.target = t.by, !.what = what, !.pc = "write"]
    BY <1>r DEF CallRecords, Loaded
  <2>4. what \in Whats
    BY <2>0 DEF Whats
  <2>5. calls' = [calls EXCEPT ![u] = [calls[u] EXCEPT !.pack = t.pack, !.target = t.by, !.what = what, !.pc = "write"]]
    BY <2>1, <2>3
  <2>6. t.pack \in Packs /\ t.by \in Callers
    BY <1>t, <2>e
  <2> HIDE DEF t
  <2> QED
    BY <1>c, <2>e, <2>0, <2>4, <2>5, <2>6, LoadingGateKeeps
<1>4. CASE MergeGate(u) /\ ~Finish(u)
  <2>1. calls' = [calls EXCEPT ![u] = [[Loaded(u) EXCEPT !.what = "merged"] EXCEPT !.pc = "write"]]
    BY <1>4 DEF MergeGate, GateStep
  <2>e. Exists(threads, c.row) /\ c.op = "merge"
    BY <1>4 DEF MergeGate, GateStep, At
  <2>3. [[Loaded(u) EXCEPT !.what = "merged"] EXCEPT !.pc = "write"]
          = [c EXCEPT !.pack = t.pack, !.target = t.by, !.what = "merged", !.pc = "write"]
    BY <1>r DEF CallRecords, Loaded
  <2>4. "merged" \in Whats
    BY DEF Whats
  <2>5. calls' = [calls EXCEPT ![u] = [calls[u] EXCEPT !.pack = t.pack, !.target = t.by, !.what = "merged", !.pc = "write"]]
    BY <2>1, <2>3
  <2>6. t.pack \in Packs /\ t.by \in Callers
    BY <1>t, <2>e
  <2> HIDE DEF t
  <2> QED
    BY <1>c, <2>e, <2>4, <2>5, <2>6, LoadingGateKeeps
<1> QED
  BY <1>f, <1>1, <1>2, <1>3, <1>4

\* The accounts tables after each write.
LEMMA AccountWritesKeep ==
    ASSUME TypeInv, NEW u \in Callers,
           \/ SuspendWrite(u) \/ Lift(u) \/ SetUserRole(u) \/ GrantAccess(u) \/ BlockWrite(u) \/ UnblockWrite(u)
           \/ SetPackVisibility(u) \/ ForkPack(u) \/ AcceptRules(u)
    PROVE  TypeInv'
<1> DEFINE c == calls[u]
<1>1. Finish(u) /\ UNCHANGED threadVars /\ UNCHANGED menu /\ c # Idle
  BY DEF SuspendWrite, Lift, SetUserRole, GrantAccess, BlockWrite, UnblockWrite, SetPackVisibility, ForkPack,
         AcceptRules, At
<1>2. calls' \in [Callers -> CallRecords \cup {Idle}] /\ CallInv'
  BY <1>1, FinishKeeps
<1>3. c \in CallRecords /\ CallOK(c) /\ AccountsTypeOK
  BY <1>1 DEF TypeInv, TypeOK, CallInv
<1>4. c.id.uid \in Callers
  BY <1>3 DEF CallRecords, Identities, Callers
<1> SUFFICES AccountsTypeOK'
  BY <1>1, <1>2, OnlyAccounts
<1>5. CASE SuspendWrite(u)
  <2>1. c.target \in Callers
    BY <1>3, <1>5 DEF SuspendWrite, At, CallOK
  <2> QED
    BY <1>3, <1>5, <2>1 DEF SuspendWrite, SuspendAccount, Callers, AccountsTypeOK
<1>6. CASE Lift(u)
  BY <1>3, <1>6 DEF Lift, LiftSuspension, AccountsTypeOK
<1>7. CASE SetUserRole(u)
  <2>1. c.what \in Roles
    BY <1>3, <1>7 DEF SetUserRole, At, CallOK
  <2> QED
    BY <1>3, <1>7, <2>1 DEF SetUserRole, SetRole, AccountsTypeOK
<1>8. CASE GrantAccess(u)
  <2>1. c.what \in Levels /\ c.pack \in Packs /\ c.target \in Callers
    BY <1>3, <1>8 DEF GrantAccess, At, CallOK
  <2> QED
    BY <1>3, <1>8, <2>1 DEF GrantAccess, GrantPackAccess, Callers, AccountsTypeOK
<1>9. CASE BlockWrite(u)
  <2>1. c.pack \in Packs /\ c.target \in Uids
    BY <1>3, <1>9 DEF BlockWrite, At, CallOK
  <2> QED
    BY <1>3, <1>9, <2>1 DEF BlockWrite, BlockFromPack, AccountsTypeOK
<1>10. CASE UnblockWrite(u)
  BY <1>3, <1>10 DEF UnblockWrite, UnblockFromPack, AccountsTypeOK
<1>11. CASE SetPackVisibility(u)
  <2>1. c.pack \in Packs /\ c.what \in Visibilities
    BY <1>3, <1>11 DEF SetPackVisibility, At, CallOK
  <2> QED
    BY <1>3, <1>11, <2>1 DEF SetPackVisibility, AccountsTypeOK
<1>12. CASE ForkPack(u)
  BY <1>3, <1>12 DEF ForkPack, AccountsTypeOK, Visibilities
<1>13. CASE AcceptRules(u)
  BY <1>3, <1>4, <1>13 DEF AcceptRules, AcceptTerms, AccountsTypeOK, Callers
<1> QED
  BY <1>5, <1>6, <1>7, <1>8, <1>9, <1>10, <1>11, <1>12, <1>13

\* A revocation drops the grant, then the list; a deletion the pack, then what hangs from it.
LEMMA RemovalsKeep ==
    ASSUME TypeInv, NEW u \in Callers, RevokeAccess(u) \/ DeletePack(u)
    PROVE  TypeInv'
<1> DEFINE c == calls[u]
<1>1. c # Idle
  BY DEF RevokeAccess, DeletePack, At
<1>2. c \in CallRecords /\ CallOK(c) /\ AccountsTypeOK
  BY <1>1 DEF TypeInv, TypeOK, CallInv
<1>3. CASE At(u, "revoke", "write") /\ RevokeAccess(u)
  <2>1. Onward(u, "forget") /\ RevokePackAccess(c.pack, c.target)
        /\ UNCHANGED <<users, session, terms, suspended, blocks, packs, threadVars, menu>>
    BY <1>3 DEF RevokeAccess, At
  <2>2. calls' \in [Callers -> CallRecords \cup {Idle}] /\ CallInv'
    BY <1>1, <1>3, <2>1, OnwardKeeps DEF At
  <2>3. c.pack \in Packs /\ c.target \in Uids
    BY <1>2, <1>3 DEF At, CallOK
  <2>4. AccountsTypeOK'
    BY <1>2, <2>1, <2>3 DEF AccountsTypeOK, RevokePackAccess
  <2> QED
    BY <2>1, <2>2, <2>4, OnlyAccounts
<1>4. CASE At(u, "revoke", "forget") /\ RevokeAccess(u)
  <2>1. /\ Finish(u) /\ notes' \subseteq notes
        /\ UNCHANGED <<accountVars, threads, comments, feedKey, minted, answered, menu>>
    BY <1>4 DEF RevokeAccess, At, ForgetNotificationsAbout
  <2> QED
    BY <2>1, FinishKeeps DEF TypeInv, TypeOK, AccountsTypeOK, accountVars, NotesBounded
<1>5. CASE At(u, "delete", "write") /\ DeletePack(u)
  <2>1. /\ Finish(u) \/ Onward(u, "forget")
        /\ packs' = [packs EXCEPT ![c.pack] = "absent"]
        /\ UNCHANGED <<users, session, terms, suspended, grants, blocks, threadVars, menu>>
    BY <1>5 DEF DeletePack, At
  <2>2. calls' \in [Callers -> CallRecords \cup {Idle}] /\ CallInv'
    BY <1>1, <1>5, <2>1, OnwardKeeps, FinishKeeps DEF At
  <2>4. AccountsTypeOK'
    BY <1>2, <2>1 DEF AccountsTypeOK
  <2> QED
    BY <2>1, <2>2, <2>4, OnlyAccounts
<1>6. CASE At(u, "delete", "forget") /\ DeletePack(u)
  <2>1. /\ Finish(u) /\ ForgetPackAccess(c.pack) /\ ForgetPackBlocks(c.pack) /\ ForgetPackThreads(c.pack)
        /\ UNCHANGED <<users, session, terms, suspended, packs, feedKey, minted, menu>>
    BY <1>6 DEF DeletePack, At
  <2>2. AccountsTypeOK'
    BY <1>2, <2>1 DEF AccountsTypeOK, ForgetPackAccess, ForgetPackBlocks
  <2>3. /\ threads' \in [Ids -> ThreadRows \cup {NoRow}]
        /\ comments' \in [Ids -> CommentRows \cup {NoRow}]
        /\ notes' \subseteq notes /\ answered' \subseteq answered
    BY <2>1 DEF ForgetPackThreads, TypeInv, TypeOK
  <2> QED
    BY <2>1, <2>2, <2>3, FinishKeeps DEF TypeInv, TypeOK, NotesBounded
<1> QED
  BY <1>3, <1>4, <1>5, <1>6 DEF RevokeAccess, DeletePack

\* A new thread, and the request goes on to tell of it.
LEMMA OpenKeeps ==
    ASSUME TypeInv, NEW u \in Callers, NEW op \in {"issue", "proposal"}, NEW source \in Packs \cup {"none"},
           OpenWrite(u, op, source)
    PROVE  TypeInv'
<1> DEFINE i == NextId(threads)
           c == [calls[u] EXCEPT !.pc = "audience", !.row = i]
           t == [pack |-> calls[u].pack, kind |-> op, by |-> calls[u].id.uid, status |-> "open", recent |-> TRUE,
                 source |-> source, decided |-> Nobody]
<1>1. /\ calls[u] # Idle /\ calls[u].op = op /\ i <= MaxRows
      /\ threads' = [threads EXCEPT ![i] = t] /\ calls' = [calls EXCEPT ![u] = c]
      /\ UNCHANGED <<accountVars, comments, notes, feedKey, minted, answered, menu>>
  BY DEF OpenWrite, OpenThread, At
<1>2. i \in Ids
  BY <1>1, NextIdFresh, RowsAssumption DEF Ids
<1>3. calls[u] \in CallRecords /\ CallOK(calls[u])
  BY <1>1 DEF TypeInv, TypeOK, CallInv
<1>4. t \in ThreadRows
  <2>1. calls[u].id.uid \in Callers
    BY <1>3 DEF CallRecords, Identities, Callers
  <2>2. calls[u].pack \in Packs
    BY <1>1, <1>3 DEF CallOK
  <2> QED
    BY <2>1, <2>2 DEF ThreadRows
<1>5. threads' \in [Ids -> ThreadRows \cup {NoRow}]
  <2> HIDE DEF i, t
  <2> QED
    BY <1>1, <1>2, <1>4 DEF TypeInv, TypeOK
<1>6. c \in CallRecords /\ CallOK(c)
  <2> HIDE DEF i
  <2>1. i \in Nat
    BY <1>2, RowsAssumption DEF Ids
  <2>2. c \in CallRecords
    BY <1>3, <2>1 DEF CallRecords
  <2>3. calls[u].pc # "gate"
    BY DEF OpenWrite, At
  <2>4. c.op = op /\ c.pack = calls[u].pack /\ c.what = calls[u].what /\ c.pc = "audience" /\ c.row = i
    BY <1>1, <1>3 DEF CallRecords
  <2>5. c.pack \in Packs /\ (op = "proposal" => c.what \in Packs)
    BY <1>1, <1>3, <2>3, <2>4 DEF CallOK
  <2> HIDE DEF c
  <2> QED
    BY <1>2, <2>2, <2>4, <2>5 DEF CallOK
<1>7. calls' \in [Callers -> CallRecords \cup {Idle}] /\ CallInv'
  <2> HIDE DEF c
  <2> QED
    BY <1>1, <1>6, CallMoves DEF TypeInv, TypeOK
<1> QED
  BY <1>1, <1>5, <1>7 DEF TypeInv, TypeOK, AccountsTypeOK, accountVars, NotesBounded

LEMMA PostKeeps ==
    ASSUME TypeInv, NEW u \in Callers, PostComment(u)
    PROVE  TypeInv'
<1> DEFINE i == NextId(comments)
           c == [calls[u] EXCEPT !.pc = "audience", !.made = i]
           r == [status |-> "said", thread |-> calls[u].row, by |-> calls[u].id.uid, hidden |-> FALSE, recent |-> TRUE]
<1>1. /\ calls[u] # Idle /\ calls[u].op = "comment" /\ calls[u].pc = "write"
      /\ UNCHANGED <<accountVars, threads, notes, feedKey, minted, answered, menu>>
  BY DEF PostComment, At
<1>2. CASE Finish(u) /\ UNCHANGED comments
  BY <1>1, <1>2, FinishKeeps DEF TypeInv, TypeOK, AccountsTypeOK, accountVars, NotesBounded
<1>3. CASE /\ i <= MaxRows /\ comments' = [comments EXCEPT ![i] = r]
           /\ calls' = [calls EXCEPT ![u] = c]
  <2>1. i \in Ids /\ i \in Nat
    BY <1>3, NextIdFresh, RowsAssumption DEF Ids
  <2>2. calls[u] \in CallRecords /\ CallOK(calls[u])
    BY <1>1 DEF TypeInv, TypeOK, CallInv
  <2>3. r \in CommentRows
    <3>1. calls[u].id.uid \in Callers
      BY <2>2 DEF CallRecords, Identities, Callers
    <3>2. calls[u].row \in Ids
      BY <1>1, <2>2 DEF CallOK
    <3> QED
      BY <3>1, <3>2 DEF CommentRows
  <2>4. comments' \in [Ids -> CommentRows \cup {NoRow}]
    <3> HIDE DEF i, r
    <3> QED
      BY <1>3, <2>1, <2>3 DEF TypeInv, TypeOK
  <2>5. c \in CallRecords /\ CallOK(c)
    <3> HIDE DEF i
    <3>1. c \in CallRecords
      BY <2>1, <2>2 DEF CallRecords
    <3>2. CallOK(c)
      BY <1>1, <2>2 DEF CallRecords, CallOK
    <3> QED
      BY <3>1, <3>2
  <2>6. calls' \in [Callers -> CallRecords \cup {Idle}] /\ CallInv'
    <3> HIDE DEF c
    <3> QED
      BY <1>3, <2>5, CallMoves DEF TypeInv, TypeOK
  <2> QED
    BY <1>1, <2>4, <2>6 DEF TypeInv, TypeOK, AccountsTypeOK, accountVars, NotesBounded
<1> QED
  BY <1>1, <1>2, <1>3 DEF PostComment, Comment

LEMMA ModerateKeeps ==
    ASSUME TypeInv, NEW u \in Callers, ModerateComment(u)
    PROVE  TypeInv'
<1> DEFINE h == (calls[u].what = "hide")
           r == [comments[calls[u].row] EXCEPT !.hidden = h]
<1>1. /\ calls[u] # Idle /\ Finish(u)
      /\ UNCHANGED <<accountVars, threads, notes, feedKey, minted, answered, menu>>
  BY DEF ModerateComment, At
<1>2. comments' \in [Ids -> CommentRows \cup {NoRow}]
  <2>1. CASE UNCHANGED comments
    BY <2>1 DEF TypeInv, TypeOK
  <2>2. CASE ~UNCHANGED comments
    <3>1. Exists(comments, calls[u].row) /\ comments' = [comments EXCEPT ![calls[u].row] = r]
      BY <2>2 DEF ModerateComment, SetCommentHidden
    <3>2. comments[calls[u].row] \in CommentRows
      BY <3>1 DEF Exists, TypeInv, TypeOK
    <3>3. h \in BOOLEAN
      OBVIOUS
    <3> HIDE DEF h
    <3>4. r \in CommentRows
      BY <3>2, <3>3 DEF CommentRows
    <3> HIDE DEF r
    <3> QED
      BY <3>1, <3>4 DEF TypeInv, TypeOK
  <2> QED
    BY <2>1, <2>2
<1> QED
  BY <1>1, <1>2, FinishKeeps DEF TypeInv, TypeOK, AccountsTypeOK, accountVars, NotesBounded

\* A settlement or a reopening of the row, then the telling; or a conflict.
LEMMA SettleKeeps ==
    ASSUME TypeInv, NEW u \in Callers, CloseThread(u) \/ MergeProposal(u) \/ ReopenThread(u)
    PROVE  TypeInv'
<1> DEFINE c == calls[u]
<1>1. /\ c # Idle /\ c.pc = "write" /\ c.op \in {"close", "merge", "reopen"}
      /\ Finish(u) \/ Onward(u, "audience")
      /\ UNCHANGED <<accountVars, comments, notes, feedKey, minted, answered, menu>>
  BY DEF CloseThread, MergeProposal, Settle, ReopenThread, At
<1>2. c \in CallRecords /\ CallOK(c)
  BY <1>1 DEF TypeInv, TypeOK, CallInv
<1>3. c.row \in Ids /\ c.id.uid \in Callers
  BY <1>1, <1>2 DEF CallOK, CallRecords, Identities, Callers
<1>4. calls' \in [Callers -> CallRecords \cup {Idle}] /\ CallInv'
  BY <1>1, <1>3, FinishKeeps, OnwardKeeps
<1>5. threads' \in [Ids -> ThreadRows \cup {NoRow}]
  <2>1. CASE UNCHANGED threads
    BY <2>1 DEF TypeInv, TypeOK
  <2>2. CASE ~UNCHANGED threads /\ (CloseThread(u) \/ MergeProposal(u))
    <3>1. /\ Exists(threads, c.row)
          /\ threads' = [threads EXCEPT ![c.row] = [threads[c.row] EXCEPT !.status = c.what, !.decided = c.id.uid]]
          /\ c.op \in {"close", "merge"}
      BY <2>2 DEF CloseThread, MergeProposal, Settle, SettleThread, At, TypeInv, TypeOK
    <3>2. c.what \in {"closed", "merged", "declined", "withdrawn"}
      BY <1>1, <1>2, <3>1 DEF CallOK
    <3>3. threads[c.row] \in ThreadRows
      BY <3>1, ThreadRow DEF TypeInv
    <3> DEFINE t == threads[c.row]
               by == c.id.uid
               s == c.what
    <3>4. [t EXCEPT !.status = s, !.decided = by] \in ThreadRows
      <4>1. t \in ThreadRows /\ by \in Callers /\ s \in {"closed", "merged", "declined", "withdrawn"}
        BY <1>3, <3>2, <3>3
      <4> HIDE DEF t, by, s
      <4> QED
        BY <4>1 DEF ThreadRows
    <3> QED
      BY <3>1, <3>4 DEF TypeInv, TypeOK
  <2>3. CASE ~UNCHANGED threads /\ ReopenThread(u)
    <3>1. /\ Exists(threads, c.row)
          /\ threads' = [threads EXCEPT ![c.row] = [threads[c.row] EXCEPT !.status = "open", !.decided = Nobody]]
      BY <2>3 DEF ReopenThread, ReopenIssue, TypeInv, TypeOK
    <3>3. [threads[c.row] EXCEPT !.status = "open", !.decided = Nobody] \in ThreadRows
      BY <3>1, ThreadRow DEF TypeInv, ThreadRows
    <3> QED
      BY <3>1, <3>3 DEF TypeInv, TypeOK
  <2> QED
    BY <2>1, <2>2, <2>3
<1> QED
  BY <1>1, <1>4, <1>5 DEF TypeInv, TypeOK, AccountsTypeOK, accountVars, NotesBounded

\* Whoever is told of an act is somebody who may call.
LEMMA AudienceIsPeople ==
    ASSUME TypeInv
    PROVE  /\ \A p \in Packs : KeepersOf(p) \subseteq Callers
           /\ \A i, o : o \in Callers => VoicesIn(i, o) \subseteq Callers
<1>1. ASSUME NEW p \in Packs PROVE KeepersOf(p) \subseteq Callers
  <2>1. OperatorUids \subseteq Callers
    BY DEF OperatorUids, Callers
  <2>2. \A g \in ListPackAccess(p) : g[1] \in Callers
    <3>1. \A v \in Uids : \A l : <<v, l>>[1] \in Callers
      BY DEF Callers
    <3>2. ASSUME NEW g \in ListPackAccess(p) PROVE \E v \in Uids : \E l : g = <<v, l>>
      BY <3>2 DEF ListPackAccess
    <3> QED
      BY <3>1, <3>2
  <2>3. NamespaceUid[p] # 0 => NamespaceUid[p] \in Callers
    BY NamespaceAssumption DEF Callers
  <2> QED
    BY <2>1, <2>2, <2>3 DEF KeepersOf
<1>2. ASSUME NEW i, NEW o \in Callers PROVE VoicesIn(i, o) \subseteq Callers
  <2>1. \A c \in Ids : Exists(comments, c) => comments[c].by \in Callers
    BY DEF TypeInv, TypeOK, Exists, CommentRows
  <2> QED
    BY <2>1 DEF VoicesIn, SpeakersOn
<1> QED
  BY <1>1, <1>2

LEMMA AudienceKeeps ==
    ASSUME TypeInv, NEW u \in Callers, Audience(u)
    PROVE  TypeInv'
<1> DEFINE c == calls[u]
           told == CASE c.op \in {"issue", "proposal"} -> KeepersOf(c.pack)
                     [] c.op = "comment" -> VoicesIn(c.row, c.target) \cup KeepersOf(c.pack)
                     [] OTHER -> VoicesIn(c.row, c.target)
           d == [c EXCEPT !.pc = "tell", !.told = told]
<1>1. c # Idle /\ c.pc = "audience" /\ UNCHANGED <<accountVars, threadVars, menu>>
  BY DEF Audience
<1>2. calls' = [calls EXCEPT ![u] = d]
  BY DEF Audience
<1>3. c \in CallRecords /\ CallOK(c)
  BY <1>1 DEF TypeInv, TypeOK, CallInv
<1>4. told \subseteq Callers
  <2>1. CASE c.op \in {"issue", "proposal"}
    <3>1. c.pack \in Packs
      BY <1>3, <2>1 DEF CallOK
    <3> QED
      BY <2>1, <3>1, AudienceIsPeople
  <2>2. CASE c.op \in {"comment", "close", "reopen", "merge"}
    <3>1. c.pack \in Packs /\ c.target \in Callers
      BY <1>1, <1>3, <2>2 DEF CallOK
    <3>2. VoicesIn(c.row, c.target) \subseteq Callers /\ KeepersOf(c.pack) \subseteq Callers
      BY <3>1, AudienceIsPeople
    <3> QED
      BY <2>2, <3>2
  <2> QED
    BY <1>1, <1>3, <2>1, <2>2 DEF CallOK
<1> HIDE DEF told
<1>5. d \in CallRecords
  BY <1>3, <1>4 DEF CallRecords
<1>6. CallOK(d)
  BY <1>1, <1>3 DEF CallRecords, CallOK
<1> HIDE DEF d
<1>7. calls' \in [Callers -> CallRecords \cup {Idle}] /\ CallInv'
  BY <1>2, <1>5, <1>6, CallMoves DEF TypeInv, TypeOK
<1> QED
  BY <1>1, <1>7, OnlyCalls

\* The rows a telling adds, numbered past the last one.
LEMMA NotifyOK ==
    ASSUME TypeInv, NEW uids \in SUBSET Callers, NEW kind \in {"comment", "opened", "settled"},
           NEW i \in Ids, NEW actor \in Callers
    PROVE  /\ NotifyRows(uids, kind, i, actor) \subseteq NoteRows
           /\ \E b \in Nat : \A x \in notes \cup NotifyRows(uids, kind, i, actor) : x.n <= b
<1> DEFINE told == uids \ {actor, BreakGlassUid}
           base == IF notes = {} THEN 0
                   ELSE CHOOSE m \in {x.n : x \in notes} : \A x \in notes : x.n <= m
           Upto(u) == Cardinality({v \in told : v <= u})
           row(u) == [n |-> base + Upto(u), uid |-> u, kind |-> kind, thread |-> i, actor |-> actor, read |-> FALSE]
<1>1. base \in Nat /\ \A x \in notes : x.n \in Nat /\ x.n <= base
  <2>1. CASE notes = {}
    BY <2>1
  <2>2. CASE notes # {}
    <3> DEFINE S == {x.n : x \in notes}
    <3>1. \A x \in notes : x.n \in Nat
      BY DEF TypeInv, TypeOK, NoteRows
    <3>2. PICK b \in Nat : \A x \in notes : x.n <= b
      BY DEF TypeInv, NotesBounded
    <3>3. S \subseteq Nat /\ S # {} /\ \A n \in S : n <= b
      BY <2>2, <3>1, <3>2
    <3>4. \E m \in S : \A n \in S : n <= m
      <4> HIDE DEF S
      <4> QED
        BY <3>3, HasGreatest
    <3>5. base \in S /\ \A x \in notes : x.n <= base
      BY <2>2, <3>4
    <3> HIDE DEF base
    <3> QED
      BY <3>1, <3>3, <3>5
  <2> QED
    BY <2>1, <2>2
<1>2. told \subseteq Uids
  BY DEF Callers
<1>3. IsFiniteSet(told) /\ Cardinality(told) \in Nat
  BY <1>2, UidAssumption, FS_Subset, FS_CardinalityType
<1>4. \A u \in told : Upto(u) \in Nat /\ Upto(u) <= Cardinality(told)
  <2> TAKE u \in told
  <2>1. {v \in told : v <= u} \subseteq told
    OBVIOUS
  <2> HIDE DEF told
  <2> QED
    BY <1>3, <2>1, FS_Subset, FS_CardinalityType
<1>5. NotifyRows(uids, kind, i, actor) \subseteq {row(u) : u \in told}
  BY DEF NotifyRows
<1> HIDE DEF base, told, Upto
<1>6. \A u \in told : row(u) \in NoteRows /\ row(u).n <= base + Cardinality(told)
  BY <1>1, <1>2, <1>3, <1>4 DEF NoteRows
<1>7. base + Cardinality(told) \in Nat /\ \A x \in notes : x.n <= base + Cardinality(told)
  BY <1>1, <1>3
<1> HIDE DEF row
<1> QED
  BY <1>5, <1>6, <1>7

LEMMA TellKeeps ==
    ASSUME TypeInv, NEW u \in Callers, Tell(u)
    PROVE  TypeInv'
<1> DEFINE c == calls[u]
           N == NotifyRows(c.told, KindOf(c.op), c.row, c.id.uid)
<1>1. /\ c # Idle /\ c.pc = "tell" /\ notes' = notes \cup N /\ Finish(u)
      /\ UNCHANGED <<accountVars, threads, comments, feedKey, minted, menu>>
  BY DEF Tell
<1>2. c \in CallRecords /\ CallOK(c)
  BY <1>1 DEF TypeInv, TypeOK, CallInv
<1>3. c.row \in Ids /\ c.told \in SUBSET Callers /\ c.id.uid \in Callers
  BY <1>1, <1>2 DEF CallOK, CallRecords, Identities, Callers
<1>4. KindOf(c.op) \in {"comment", "opened", "settled"}
  BY DEF KindOf
<1>5. N \subseteq NoteRows /\ \E b \in Nat : \A x \in notes \cup N : x.n <= b
  BY <1>3, <1>4, NotifyOK
<1>6. answered' \subseteq Ids
  BY DEF Tell, Exists, TypeInv, TypeOK
<1> HIDE DEF N
<1> QED
  BY <1>1, <1>5, <1>6, FinishKeeps DEF TypeInv, TypeOK, AccountsTypeOK, accountVars, NotesBounded

LEMMA ReadKeeps ==
    ASSUME TypeInv, NEW u \in Callers, ReadNotifications(u)
    PROVE  TypeInv'
<1>1. /\ Finish(u) /\ MarkRead(calls[u].id.uid, calls[u].row)
      /\ UNCHANGED <<accountVars, threads, comments, feedKey, minted, answered, menu>>
  BY DEF ReadNotifications
<1>2. \A y \in notes' : \E x \in notes : y = x \/ y = [x EXCEPT !.read = TRUE]
  BY <1>1 DEF MarkRead
<1>3. \A x \in notes : x \in NoteRows /\ [x EXCEPT !.read = TRUE] \in NoteRows /\ [x EXCEPT !.read = TRUE].n = x.n
  BY DEF TypeInv, TypeOK, NoteRows
<1>4. notes' \subseteq NoteRows /\ NotesBounded'
  BY <1>2, <1>3 DEF TypeInv, NotesBounded
<1> QED
  BY <1>1, <1>4, FinishKeeps DEF TypeInv, TypeOK, AccountsTypeOK, accountVars

LEMMA FeedKeysKeep ==
    ASSUME TypeInv, NEW u \in Callers, MyFeedKey(u) \/ RotateFeedKey(u)
    PROVE  TypeInv'
<1>1. UNCHANGED <<accountVars, threads, comments, notes, answered, menu>> /\ calls[u] # Idle
  BY DEF MyFeedKey, RotateFeedKey, At
<1>2. calls' \in [Callers -> CallRecords \cup {Idle}] /\ CallInv'
  <2>1. Finish(u) \/ (calls[u].pc = "write" /\ Onward(u, "forget"))
    BY DEF MyFeedKey, RotateFeedKey, At
  <2> QED
    BY <1>1, <2>1, FinishKeeps, OnwardKeeps
<1>3. feedKey' \in [Uids -> Nat] /\ minted' \in Nat
  <2>1. feedKey \in [Uids -> Nat] /\ minted \in Nat /\ minted + 1 \in Nat
    BY DEF TypeInv, TypeOK
  <2>2. \/ UNCHANGED <<feedKey, minted>>
        \/ feedKey' = [feedKey EXCEPT ![u] = minted + 1] /\ minted' = minted + 1
        \/ feedKey' = [feedKey EXCEPT ![u] = 0] /\ UNCHANGED minted
    BY DEF MyFeedKey, RotateFeedKey, FeedKeyOf
  <2> QED
    BY <2>1, <2>2
<1> QED
  BY <1>1, <1>2, <1>3 DEF TypeInv, TypeOK, AccountsTypeOK, accountVars, NotesBounded

LEMMA HandlerKeeps ==
    ASSUME TypeInv, NEW u \in Callers, Handler(u)
    PROVE  TypeInv'
<1>1. CASE OpenIssue(u) \/ OpenProposal(u)
  <2>1. CASE OpenIssue(u)
    BY <2>1, OpenKeeps DEF OpenIssue
  <2>2. CASE OpenProposal(u)
    <3>1. calls[u].what \in Packs
      BY <2>2 DEF OpenProposal, OpenWrite, At, TypeInv, CallInv, CallOK
    <3> QED
      BY <2>2, <3>1, OpenKeeps DEF OpenProposal
  <2> QED
    BY <1>1, <2>1, <2>2
<1>2. CASE \/ SuspendGate(u) \/ GrantGate(u) \/ RevokeGate(u) \/ BlockGate(u) \/ UnblockGate(u)
           \/ VisibilityGate(u) \/ DeleteGate(u) \/ ForkGate(u) \/ IssueGate(u) \/ HideGate(u)
  BY <1>2, GatesKeep
<1>3. CASE ProposalGate(u) \/ CommentGate(u) \/ CloseGate(u) \/ MergeGate(u) \/ ReopenGate(u)
  BY <1>3, LoadingGatesKeep
<1>4. CASE \/ SuspendWrite(u) \/ Lift(u) \/ SetUserRole(u) \/ GrantAccess(u) \/ BlockWrite(u) \/ UnblockWrite(u)
           \/ SetPackVisibility(u) \/ ForkPack(u) \/ AcceptRules(u)
  BY <1>4, AccountWritesKeep
<1>5. CASE RevokeAccess(u) \/ DeletePack(u)
  BY <1>5, RemovalsKeep
<1>6. CASE PostComment(u) \/ ModerateComment(u)
  BY <1>6, PostKeeps, ModerateKeeps
<1>7. CASE CloseThread(u) \/ MergeProposal(u) \/ ReopenThread(u)
  BY <1>7, SettleKeeps
<1>8. CASE Audience(u) \/ Tell(u) \/ ReadNotifications(u)
  BY <1>8, AudienceKeeps, TellKeeps, ReadKeeps
<1>9. CASE MyFeedKey(u) \/ RotateFeedKey(u)
  BY <1>9, FeedKeysKeep
<1> QED
  BY <1>1, <1>2, <1>3, <1>4, <1>5, <1>6, <1>7, <1>8, <1>9 DEF Handler

LEMMA SessionsKeep ==
    ASSUME TypeInv, NEW u \in Uids, SignIn(u) \/ EndSession(u)
    PROVE  TypeInv'
<1>1. UNCHANGED <<threadVars, calls>>
  BY DEF SignIn, EndSession
<1>2. AccountsTypeOK'
  <2>1. CASE SignIn(u)
    <3> DEFINE r == IF ForcedRole(u) # "none" THEN ForcedRole(u)
                    ELSE IF users[u] = "nobody" THEN "member" ELSE users[u]
    <3>1. r \in Roles
      BY DEF ForcedRole, Roles, TypeInv, TypeOK, AccountsTypeOK
    <3>2. /\ users' = [users EXCEPT ![u] = r] /\ session' = [session EXCEPT ![u] = "live"]
          /\ UNCHANGED <<terms, suspended, grants, blocks, packs>>
      BY <2>1 DEF SignIn, GithubCallback, SignInGithub, TypeInv, TypeOK, AccountsTypeOK
    <3> HIDE DEF r
    <3> QED
      BY <3>1, <3>2 DEF TypeInv, TypeOK, AccountsTypeOK
  <2>2. CASE EndSession(u)
    BY <2>2 DEF EndSession, Logout, Lapse, PruneLapsed, TypeInv, TypeOK, AccountsTypeOK
  <2> QED
    BY <2>1, <2>2
<1>3. DOMAIN menu' \subseteq Ops \cup {"session"} /\ \A o \in DOMAIN menu' : menu'[o] \in Nat
  <2>1. CASE SignIn(u)
    BY <2>1 DEF SignIn, TypeInv, TypeOK
  <2>2. CASE EndSession(u)
    <3>1. \A o \in DOMAIN menu : menu[o] \in Nat
      BY DEF TypeInv, TypeOK
    <3>2. menu["session"] - 1 \in Nat /\ menu' = [menu EXCEPT !["session"] = menu["session"] - 1]
      BY <2>2, <3>1 DEF EndSession
    <3> QED
      BY <3>1, <3>2 DEF TypeInv, TypeOK
  <2> QED
    BY <2>1, <2>2
<1> QED
  BY <1>1, <1>2, <1>3 DEF TypeInv, TypeOK, CallInv, NotesBounded, threadVars

LEMMA WindowKeeps ==
    ASSUME TypeInv, WindowPasses
    PROVE  TypeInv'
<1>1. UNCHANGED <<accountVars, notes, feedKey, minted, answered, calls, menu>>
  BY DEF WindowPasses
<1>2. threads' \in [Ids -> ThreadRows \cup {NoRow}]
  <2>1. \A t \in ThreadRows : [t EXCEPT !.recent = FALSE] \in ThreadRows
    BY DEF ThreadRows
  <2>2. \A i \in Ids : Exists(threads, i) => [threads[i] EXCEPT !.recent = FALSE] \in ThreadRows
    BY <2>1, ThreadRow DEF TypeInv
  <2> QED
    BY <2>2 DEF WindowPasses
<1>3. comments' \in [Ids -> CommentRows \cup {NoRow}]
  <2>1. \A t \in CommentRows : [t EXCEPT !.recent = FALSE] \in CommentRows
    BY DEF CommentRows
  <2>2. \A i \in Ids : Exists(comments, i) => [comments[i] EXCEPT !.recent = FALSE] \in CommentRows
    BY <2>1 DEF TypeInv, TypeOK, Exists
  <2> QED
    BY <2>2 DEF WindowPasses
<1> QED
  BY <1>1, <1>2, <1>3 DEF TypeInv, TypeOK, AccountsTypeOK, accountVars, CallInv, NotesBounded

LEMMA TypeStep == TypeInv /\ [Next]_vars => TypeInv'
<1> SUFFICES ASSUME TypeInv, [Next]_vars PROVE TypeInv'
  OBVIOUS
<1>1. CASE \E u \in Callers : Arrive(u) \/ Handler(u)
  BY <1>1, ArriveKeeps, HandlerKeeps
<1>2. CASE \E u \in Uids : SignIn(u) \/ EndSession(u)
  BY <1>2, SessionsKeep
<1>3. CASE WindowPasses
  BY <1>3, WindowKeeps
<1>4. CASE Crash
  <2>1. calls' \in [Callers -> CallRecords \cup {Idle}] /\ CallInv'
    BY <1>4 DEF Crash, CallInv
  <2>2. UNCHANGED <<accountVars, threadVars, menu>>
    BY <1>4 DEF Crash
  <2> QED
    BY <2>1, <2>2, OnlyCalls
<1>5. CASE UNCHANGED vars
  BY <1>5 DEF vars, accountVars, threadVars, TypeInv, TypeOK, AccountsTypeOK, CallInv, NotesBounded
<1> QED
  BY <1>1, <1>2, <1>3, <1>4, <1>5 DEF Next

\* Every table and every request in flight keeps its types: a request that passed
\* its gate carries the pack, thread and addressee its write will use, and the
\* notification numbers can always go on.
THEOREM DiscussionsTypeOK == Spec => []TypeOK
<1>1. Spec => []TypeInv
  BY TypeInit, TypeStep, PTL DEF Spec
<1>2. TypeInv => TypeOK
  BY DEF TypeInv
<1> QED
  BY <1>1, <1>2, PTL

-----------------------------------------------------------------------------
(* A decision is made once *)

\* What may happen to the thread rows in one step: nothing, a new one under an
\* id none has, an open one settled, a closed issue reopened, some forgotten, or
\* all of them ageing.
ThreadsMove(u) ==
    \/ UNCHANGED threads
    \/ \E op \in {"issue", "proposal"}, source \in Packs \cup {"none"} : OpenWrite(u, op, source)
    \/ SettleThread(calls[u].row, calls[u].what, calls[u].id.uid)
    \/ ReopenIssue(calls[u].row)
    \/ At(u, "delete", "forget") /\ ForgetPackThreads(calls[u].pack)

LEMMA HandlerMoves ==
    ASSUME TypeInv, NEW u \in Callers, Arrive(u) \/ Handler(u)
    PROVE  ThreadsMove(u)
<1>1. CASE Arrive(u)
  BY <1>1 DEF Arrive, ThreadsMove, threadVars
<1>2. CASE OpenIssue(u)
  BY <1>2 DEF OpenIssue, ThreadsMove
<1>3. CASE OpenProposal(u)
  <2>1. calls[u].what \in Packs
    BY <1>3 DEF OpenProposal, OpenWrite, At, TypeInv, CallInv, CallOK
  <2> QED
    BY <1>3, <2>1 DEF OpenProposal, ThreadsMove
<1>4. CASE CloseThread(u) \/ MergeProposal(u)
  BY <1>4 DEF CloseThread, MergeProposal, Settle, ThreadsMove
<1>5. CASE ReopenThread(u)
  BY <1>5 DEF ReopenThread, ThreadsMove
<1>6. CASE DeletePack(u)
  BY <1>6 DEF DeletePack, ThreadsMove, threadVars
<1>7. CASE \/ SuspendGate(u) \/ GrantGate(u) \/ RevokeGate(u) \/ BlockGate(u) \/ UnblockGate(u)
           \/ VisibilityGate(u) \/ DeleteGate(u) \/ ForkGate(u) \/ IssueGate(u) \/ HideGate(u)
           \/ ProposalGate(u) \/ CommentGate(u) \/ CloseGate(u) \/ MergeGate(u) \/ ReopenGate(u)
  <2>1. UNCHANGED threadVars
    BY <1>7 DEF SuspendGate, GrantGate, RevokeGate, BlockGate, UnblockGate, VisibilityGate, DeleteGate, ForkGate,
           IssueGate, HideGate, ProposalGate, CommentGate, CloseGate, MergeGate, ReopenGate, GateStep
  <2> QED
    BY <2>1 DEF ThreadsMove, threadVars
<1>8. CASE \/ SuspendWrite(u) \/ Lift(u) \/ SetUserRole(u) \/ GrantAccess(u) \/ BlockWrite(u) \/ UnblockWrite(u)
           \/ SetPackVisibility(u) \/ ForkPack(u) \/ AcceptRules(u)
  <2>1. UNCHANGED threadVars
    BY <1>8 DEF SuspendWrite, Lift, SetUserRole, GrantAccess, BlockWrite, UnblockWrite, SetPackVisibility, ForkPack,
           AcceptRules
  <2> QED
    BY <2>1 DEF ThreadsMove, threadVars
<1>9. CASE \/ RevokeAccess(u) \/ PostComment(u) \/ ModerateComment(u) \/ Audience(u) \/ Tell(u) \/ ReadNotifications(u)
           \/ MyFeedKey(u) \/ RotateFeedKey(u)
  <2>1. UNCHANGED threads
    BY <1>9 DEF RevokeAccess, PostComment, ModerateComment, Audience, Tell, ReadNotifications, MyFeedKey,
           RotateFeedKey, threadVars
  <2> QED
    BY <2>1 DEF ThreadsMove
<1> QED
  BY <1>1, <1>2, <1>3, <1>4, <1>5, <1>6, <1>7, <1>8, <1>9 DEF Handler

\* A settled row, after a step, is still as it was decided or is an issue reopened.
Stands(i) ==
    \/ threads'[i].status = threads[i].status /\ threads'[i].decided = threads[i].decided
    \/ threads[i].kind = "issue" /\ threads[i].status = "closed" /\ threads'[i].status = "open"

LEMMA DecidedStep ==
    ASSUME TypeInv, [Next]_vars, NEW i \in Ids, Exists(threads, i), Exists(threads', i), threads[i].status # "open"
    PROVE  Stands(i)
<1>f. threads \in [Ids -> ThreadRows \cup {NoRow}] /\ threads[i] # NoRow /\ threads'[i] # NoRow
  BY DEF TypeInv, TypeOK, Exists
<1>t. threads[i] \in ThreadRows
  BY <1>f
<1>1. CASE \E u \in Callers : Arrive(u) \/ Handler(u)
  <2>1. PICK u \in Callers : ThreadsMove(u)
    BY <1>1, HandlerMoves
  <2> DEFINE r == calls[u].row
  <2>2. CASE UNCHANGED threads
    BY <2>2 DEF Stands
  <2>3. CASE \E op \in {"issue", "proposal"}, source \in Packs \cup {"none"} : OpenWrite(u, op, source)
    <3>1. i < NextId(threads) /\ NextId(threads) \in Nat /\ i \in Nat
      BY <1>f, NextIdFresh, RowsAssumption DEF Ids
    <3>2. threads'[i] = threads[i]
      BY <2>3, <3>1, <1>f DEF OpenWrite, OpenThread
    <3> QED
      BY <3>2 DEF Stands
  <2>4. CASE SettleThread(r, calls[u].what, calls[u].id.uid)
    <3>1. CASE i = r
      BY <2>4, <3>1 DEF SettleThread, Stands
    <3>2. CASE i # r
      <4>1. threads'[i] = threads[i]
        BY <2>4, <3>2, <1>f DEF SettleThread
      <4> QED
        BY <4>1 DEF Stands
    <3> QED
      BY <3>1, <3>2
  <2>5. CASE ReopenIssue(r)
    <3>1. CASE i = r /\ ~UNCHANGED threads
      <4>1. /\ threads[i].kind = "issue" /\ threads[i].status = "closed"
            /\ threads' = [threads EXCEPT ![i] = [threads[i] EXCEPT !.status = "open", !.decided = Nobody]]
        BY <2>5, <3>1, <1>f DEF ReopenIssue
      <4>2. threads'[i].status = "open"
        BY <4>1, <1>f, <1>t DEF ThreadRows
      <4> QED
        BY <4>1, <4>2 DEF Stands
    <3>2. CASE i # r
      <4>1. threads'[i] = threads[i]
        BY <2>5, <3>2, <1>f DEF ReopenIssue
      <4> QED
        BY <4>1 DEF Stands
    <3> QED
      BY <2>2, <3>1, <3>2
  <2>6. CASE At(u, "delete", "forget") /\ ForgetPackThreads(calls[u].pack)
    <3>1. threads'[i] = NoRow \/ threads'[i] = threads[i]
      BY <2>6 DEF ForgetPackThreads
    <3> QED
      BY <1>f, <3>1 DEF Stands
  <2> QED
    BY <2>1, <2>2, <2>3, <2>4, <2>5, <2>6 DEF ThreadsMove
<1>2. CASE UNCHANGED threads
  BY <1>2 DEF Stands
<1>3. CASE WindowPasses
  <2>1. threads'[i] = [threads[i] EXCEPT !.recent = FALSE]
    BY <1>3 DEF WindowPasses
  <2>2. threads'[i].status = threads[i].status /\ threads'[i].decided = threads[i].decided
    BY <2>1, <1>t DEF ThreadRows
  <2> QED
    BY <2>2 DEF Stands
<1> QED
  BY <1>1, <1>2, <1>3 DEF Next, SignIn, EndSession, Crash, vars, threadVars

\* A decision stands: in no order of settlements, reopenings, deletions and
\* crashes does settle_thread or reopen_issue overwrite another's decision, and
\* a declined, merged or withdrawn proposal stays so.
THEOREM DecisionsStand == Spec => DecidedOnce
<1>1. TypeInv /\ [Next]_vars =>
        [\A i \in Ids : Exists(threads, i) /\ Exists(threads', i) /\ threads[i].status # "open" =>
          \/ /\ threads'[i].status = threads[i].status
             /\ threads'[i].decided = threads[i].decided
          \/ threads[i].kind = "issue" /\ threads[i].status = "closed" /\ threads'[i].status = "open"]_vars
  BY DecidedStep DEF Stands
<1>2. Spec => []TypeInv
  BY TypeInit, TypeStep, PTL DEF Spec
<1> QED
  BY <1>1, <1>2, PTL DEF Spec, DecidedOnce

-----------------------------------------------------------------------------
(* Who is told of a comment *)

\* A request keeps its operation, and a new one is of the workload.
OpStays(u) ==
    \/ calls'[u] = Idle
    \/ calls[u] # Idle /\ calls'[u].op = calls[u].op
    \/ calls'[u].op \in DOMAIN menu

\* What may happen to the comments, the notifications, the comments answered
\* and the requests, in a step of a request that takes nothing away.
TalkMoves(u) ==
    /\ UNCHANGED comments \/ PostComment(u) \/ ModerateComment(u)
    /\ UNCHANGED notes \/ Tell(u) \/ ReadNotifications(u)
    /\ UNCHANGED answered \/ Tell(u)
    /\ \A v \in Callers \ {u} : calls'[v] = calls[v]
    /\ \/ calls'[u] = Idle \/ calls'[u].op # "comment" \/ calls'[u].pc = "gate"
       \/ CommentGate(u) \/ PostComment(u) \/ Audience(u)
    /\ OpStays(u)

Keeping(u) == calls[u] # Idle => calls[u].op \notin {"delete", "revoke"}

\* A gate other than that of a comment.
LEMMA GateTalks ==
    ASSUME TypeInv, NEW u \in Callers, NEW op \in GatedOps \ {"comment"}, NEW c, c \in CallRecords, c.op = op,
           calls[u] # Idle, calls[u].op = op, UNCHANGED threadVars,
           calls' = [calls EXCEPT ![u] = [c EXCEPT !.pc = "write"]] \/ Finish(u)
    PROVE  TalkMoves(u)
<1>1. calls \in [Callers -> CallRecords \cup {Idle}]
  BY DEF TypeInv, TypeOK
<1>2. \A v \in Callers \ {u} : calls'[v] = calls[v]
  BY <1>1 DEF Finish
<1>3. calls'[u] = Idle \/ calls'[u].op = op
  <2>1. CASE Finish(u)
    BY <1>1, <2>1 DEF Finish
  <2>2. CASE calls' = [calls EXCEPT ![u] = [c EXCEPT !.pc = "write"]]
    <3>1. calls'[u] = [c EXCEPT !.pc = "write"]
      BY <1>1, <2>2
    <3>2. [c EXCEPT !.pc = "write"].op = op
      BY DEF CallRecords
    <3> QED
      BY <3>1, <3>2
  <2> QED
    BY <2>1, <2>2
<1> QED
  BY <1>2, <1>3 DEF TalkMoves, OpStays, threadVars

\* A write that ends its request or takes it on, other than of a comment.
LEMMA WriteTalks ==
    ASSUME TypeInv, NEW u \in Callers, calls[u] # Idle, calls[u].op # "comment", UNCHANGED comments,
           UNCHANGED notes \/ ReadNotifications(u), UNCHANGED answered,
           Finish(u) \/ \E pc \in {"forget", "audience"} : Onward(u, pc)
    PROVE  TalkMoves(u)
<1>1. calls \in [Callers -> CallRecords \cup {Idle}] /\ calls[u] \in CallRecords
  BY DEF TypeInv, TypeOK
<1>2. \A v \in Callers \ {u} : calls'[v] = calls[v]
  BY <1>1 DEF Finish, Onward
<1>3. calls'[u] = Idle \/ calls'[u].op = calls[u].op
  BY <1>1 DEF Finish, Onward, CallRecords
<1> QED
  BY <1>2, <1>3 DEF TalkMoves, OpStays

LEMMA GatesTalk ==
    ASSUME TypeInv, NEW u \in Callers,
           \/ SuspendGate(u) \/ GrantGate(u) \/ RevokeGate(u) \/ BlockGate(u) \/ UnblockGate(u)
           \/ VisibilityGate(u) \/ DeleteGate(u) \/ ForkGate(u) \/ IssueGate(u) \/ HideGate(u)
           \/ ProposalGate(u) \/ CloseGate(u) \/ MergeGate(u) \/ ReopenGate(u)
    PROVE  TalkMoves(u)
<1> DEFINE c == calls[u]
<1>1. CASE \/ SuspendGate(u) \/ GrantGate(u) \/ RevokeGate(u) \/ BlockGate(u) \/ UnblockGate(u)
           \/ VisibilityGate(u) \/ DeleteGate(u) \/ ForkGate(u) \/ IssueGate(u) \/ HideGate(u)
  <2>1. /\ c # Idle /\ c.op \in GatedOps \ {"comment"} /\ UNCHANGED threadVars
        /\ calls' = [calls EXCEPT ![u] = [c EXCEPT !.pc = "write"]] \/ Finish(u)
    BY <1>1 DEF SuspendGate, GrantGate, RevokeGate, BlockGate, UnblockGate, VisibilityGate, DeleteGate, ForkGate,
           IssueGate, HideGate, GateStep, At, GatedOps
  <2>2. c \in CallRecords
    BY <2>1 DEF TypeInv, TypeOK
  <2> QED
    BY <2>1, <2>2, GateTalks
<1>2. CASE ProposalGate(u) \/ CloseGate(u) \/ MergeGate(u) \/ ReopenGate(u)
  <2>1. c # Idle /\ c.op \in {"proposal", "close", "merge", "reopen"} /\ UNCHANGED threadVars
    BY <1>2 DEF ProposalGate, CloseGate, MergeGate, ReopenGate, GateStep, At
  <2>2. c \in CallRecords
    BY <2>1 DEF TypeInv, TypeOK
  <2>3. Finish(u) \/ \E d : calls' = [calls EXCEPT ![u] = d] /\ d.op = c.op
    <3>1. \A x : [[c EXCEPT !.what = x] EXCEPT !.pc = "write"].op = c.op
      BY <2>2 DEF CallRecords
    <3>2. \A x : /\ [[Loaded(u) EXCEPT !.what = x] EXCEPT !.pc = "write"].op = c.op
                 /\ [Loaded(u) EXCEPT !.pc = "write"].op = c.op
      BY <2>2 DEF CallRecords, Loaded
    <3>3. CASE ProposalGate(u)
      BY <3>3, <3>1 DEF ProposalGate, GateStep
    <3>4. CASE CloseGate(u)
      <4> DEFINE what == IF threads[c.row].kind = "issue" THEN "closed" ELSE IF Mine(u) THEN "withdrawn" ELSE "declined"
      <4>1. Finish(u) \/ calls' = [calls EXCEPT ![u] = [[Loaded(u) EXCEPT !.what = what] EXCEPT !.pc = "write"]]
        BY <3>4 DEF CloseGate, GateStep
      <4> HIDE DEF what
      <4> QED
        BY <4>1, <3>2
    <3>5. CASE MergeGate(u)
      BY <3>5, <3>2 DEF MergeGate, GateStep
    <3>6. CASE ReopenGate(u)
      BY <3>6, <3>2 DEF ReopenGate, GateStep
    <3> QED
      BY <1>2, <3>3, <3>4, <3>5, <3>6
  <2>4. calls \in [Callers -> CallRecords \cup {Idle}]
    BY DEF TypeInv, TypeOK
  <2>5. \A v \in Callers \ {u} : calls'[v] = calls[v]
    BY <2>3, <2>4 DEF Finish
  <2>6. calls'[u] = Idle \/ calls'[u].op = c.op
    BY <2>1, <2>3, <2>4 DEF Finish
  <2> QED
    BY <2>1, <2>5, <2>6 DEF TalkMoves, OpStays, threadVars
<1> QED
  BY <1>1, <1>2

LEMMA HandlerTalks ==
    ASSUME TypeInv, NEW u \in Callers, Keeping(u), Arrive(u) \/ Handler(u)
    PROVE  TalkMoves(u)
<1> DEFINE c == calls[u]
<1>f. calls \in [Callers -> CallRecords \cup {Idle}]
  BY DEF TypeInv, TypeOK
<1>1. CASE Arrive(u)
  <2>0. PICK id \in Identities, op \in DOMAIN menu \ {"session"} :
          \E a \in Args(op) :
            calls' = [calls EXCEPT ![u] =
                        [op |-> op, id |-> id, pack |-> a.pack, target |-> a.target, what |-> a.what,
                         row |-> a.row, made |-> 0, told |-> {},
                         pc |-> IF op \in GatedOps THEN "gate" ELSE "write"]]
    BY <1>1 DEF Arrive
  <2> DEFINE pc == IF op \in GatedOps THEN "gate" ELSE "write"
  <2>p. op \in GatedOps => pc = "gate"
    OBVIOUS
  <2>a. PICK a \in Args(op) :
          calls' = [calls EXCEPT ![u] =
                      [op |-> op, id |-> id, pack |-> a.pack, target |-> a.target, what |-> a.what,
                       row |-> a.row, made |-> 0, told |-> {}, pc |-> pc]]
    BY <2>0
  <2> HIDE DEF pc
  <2> DEFINE d == [op |-> op, id |-> id, pack |-> a.pack, target |-> a.target, what |-> a.what,
                   row |-> a.row, made |-> 0, told |-> {}, pc |-> pc]
  <2>1. (calls' = [calls EXCEPT ![u] = d]) /\ (d.op = op) /\ (d.pc = pc)
    BY <2>a
  <2> HIDE DEF d
  <2>2. calls'[u] = d /\ \A v \in Callers \ {u} : calls'[v] = calls[v]
    BY <1>f, <2>1
  <2>3. calls'[u].op # "comment" \/ calls'[u].pc = "gate"
    BY <2>1, <2>2, <2>p DEF GatedOps
  <2> QED
    BY <1>1, <2>1, <2>2, <2>3 DEF TalkMoves, OpStays, Arrive, threadVars
<1>2. CASE OpenIssue(u) \/ OpenProposal(u)
  <2>1. /\ c # Idle /\ c.op # "comment"
        /\ calls' = [calls EXCEPT ![u] = [c EXCEPT !.pc = "audience", !.row = NextId(threads)]]
        /\ UNCHANGED <<comments, notes, answered>>
    BY <1>2 DEF OpenIssue, OpenProposal, OpenWrite, At
  <2>2. c \in CallRecords
    BY <1>f, <2>1
  <2>3. [c EXCEPT !.pc = "audience", !.row = NextId(threads)].op = c.op
    BY <2>2 DEF CallRecords
  <2>4. calls'[u].op = c.op /\ \A v \in Callers \ {u} : calls'[v] = calls[v]
    BY <1>f, <2>1, <2>3
  <2> QED
    BY <2>1, <2>4 DEF TalkMoves, OpStays
<1>3. CASE \/ CloseThread(u) \/ MergeProposal(u) \/ ReopenThread(u)
  <2>1. /\ c # Idle /\ c.op # "comment" /\ UNCHANGED <<comments, notes, answered>>
        /\ Finish(u) \/ \E pc \in {"forget", "audience"} : Onward(u, pc)
    BY <1>3 DEF CloseThread, MergeProposal, Settle, ReopenThread, At
  <2> QED
    BY <2>1, WriteTalks
<1>4. CASE DeletePack(u) \/ RevokeAccess(u)
  BY <1>4 DEF DeletePack, RevokeAccess, At, Keeping
<1>5. CASE CommentGate(u)
  <2>0. c # Idle /\ c \in CallRecords /\ UNCHANGED threadVars
    BY <1>f, <1>5 DEF CommentGate, GateStep, At
  <2>1. Finish(u) \/ calls' = [calls EXCEPT ![u] = [Loaded(u) EXCEPT !.pc = "write"]]
    BY <1>5 DEF CommentGate, GateStep
  <2>2. [Loaded(u) EXCEPT !.pc = "write"].op = c.op
    BY <2>0 DEF CallRecords, Loaded
  <2>3. (calls'[u] = Idle \/ calls'[u].op = c.op) /\ \A v \in Callers \ {u} : calls'[v] = calls[v]
    BY <1>f, <2>1, <2>2 DEF Finish
  <2> QED
    BY <1>5, <2>0, <2>3 DEF TalkMoves, OpStays, threadVars
<1>6. CASE PostComment(u)
  <2>0. c # Idle /\ c \in CallRecords /\ UNCHANGED <<notes, answered>>
    BY <1>f, <1>6 DEF PostComment, At
  <2>1. Finish(u) \/ calls' = [calls EXCEPT ![u] = [c EXCEPT !.pc = "audience", !.made = NextId(comments)]]
    BY <1>6 DEF PostComment
  <2>2. [c EXCEPT !.pc = "audience", !.made = NextId(comments)].op = c.op
    BY <2>0 DEF CallRecords
  <2>3. (calls'[u] = Idle \/ calls'[u].op = c.op) /\ \A v \in Callers \ {u} : calls'[v] = calls[v]
    BY <1>f, <2>1, <2>2 DEF Finish
  <2> QED
    BY <1>6, <2>0, <2>3 DEF TalkMoves, OpStays
<1>7. CASE Audience(u)
  <2>0. c # Idle /\ c \in CallRecords /\ UNCHANGED threadVars
    BY <1>f, <1>7 DEF Audience
  <2>1. PICK told : calls' = [calls EXCEPT ![u] = [c EXCEPT !.pc = "tell", !.told = told]]
    BY <1>7 DEF Audience
  <2>2. [c EXCEPT !.pc = "tell", !.told = told].op = c.op
    BY <2>0 DEF CallRecords
  <2>3. calls'[u].op = c.op /\ \A v \in Callers \ {u} : calls'[v] = calls[v]
    BY <1>f, <2>1, <2>2
  <2> QED
    BY <1>7, <2>0, <2>3 DEF TalkMoves, OpStays, threadVars
<1>8. CASE Tell(u) \/ ModerateComment(u) \/ ReadNotifications(u)
  <2>1. /\ Finish(u)
        /\ UNCHANGED comments \/ ModerateComment(u)
        /\ UNCHANGED notes \/ Tell(u) \/ ReadNotifications(u)
        /\ UNCHANGED answered \/ Tell(u)
    BY <1>8 DEF Tell, ModerateComment, ReadNotifications
  <2>2. calls'[u] = Idle /\ \A v \in Callers \ {u} : calls'[v] = calls[v]
    BY <1>f, <2>1 DEF Finish
  <2> QED
    BY <2>1, <2>2 DEF TalkMoves, OpStays
<1>9. CASE \/ SuspendWrite(u) \/ Lift(u) \/ SetUserRole(u) \/ GrantAccess(u) \/ BlockWrite(u) \/ UnblockWrite(u)
           \/ SetPackVisibility(u) \/ ForkPack(u) \/ AcceptRules(u) \/ MyFeedKey(u) \/ RotateFeedKey(u)
  <2>1. /\ c # Idle /\ c.op # "comment" /\ UNCHANGED <<comments, notes, answered>>
        /\ Finish(u) \/ Onward(u, "forget")
    BY <1>9 DEF SuspendWrite, Lift, SetUserRole, GrantAccess, BlockWrite, UnblockWrite, SetPackVisibility, ForkPack,
           AcceptRules, MyFeedKey, RotateFeedKey, At, threadVars
  <2> QED
    BY <2>1, WriteTalks
<1>10. CASE \/ SuspendGate(u) \/ GrantGate(u) \/ RevokeGate(u) \/ BlockGate(u) \/ UnblockGate(u)
            \/ VisibilityGate(u) \/ DeleteGate(u) \/ ForkGate(u) \/ IssueGate(u) \/ HideGate(u)
            \/ ProposalGate(u) \/ CloseGate(u) \/ MergeGate(u) \/ ReopenGate(u)
  BY <1>10, GatesTalk
<1> QED
  BY <1>1, <1>2, <1>3, <1>4, <1>5, <1>6, <1>7, <1>8, <1>9, <1>10 DEF Handler

\* Whoever was in the discussion before comment c: its opener, and who spoke.
SpokeBefore(c) ==
    {comments[d].by : d \in {d \in Ids : d < c /\ Exists(comments, d) /\ comments[d].thread = comments[c].thread}}

ToldOf(c, v) ==
    \E x \in notes : x.uid = v /\ x.thread = comments[c].thread /\ x.actor = comments[c].by /\ x.kind = "comment"

\* Every comment is about a thread; a comment request past its gate keeps the
\* opener of the thread it loaded, then the row it made, then everyone who was
\* there before it; and an answered comment has reached them.
CommentCall(c) ==
    /\ Exists(threads, c.row) /\ c.target = threads[c.row].by
    /\ c.pc \in {"audience", "tell"} =>
          /\ Exists(comments, c.made)
          /\ comments[c.made].thread = c.row /\ comments[c.made].by = c.id.uid
    /\ c.pc = "tell" => SpokeBefore(c.made) \cup {c.target} \subseteq c.told

AllTold(c) ==
    /\ Exists(comments, c)
    /\ \A v \in ({threads[comments[c].thread].by} \cup SpokeBefore(c)) \ {comments[c].by, BreakGlassUid} : ToldOf(c, v)

VoiceInv ==
    /\ \A u \in Callers : Keeping(u)
    /\ {"delete", "revoke"} \cap DOMAIN menu = {}
    /\ \A c \in Ids : Exists(comments, c) => Exists(threads, comments[c].thread)
    /\ \A u \in Callers : calls[u] # Idle /\ calls[u].op = "comment" /\ calls[u].pc # "gate" => CommentCall(calls[u])
    /\ \A c \in answered : AllTold(c)

\* In a run that takes nothing away, rows stay and keep their author and thread,
\* and a new comment has an id past every one there is.
Grown ==
    /\ \A i \in Ids : Exists(threads, i) => Exists(threads', i) /\ threads'[i].by = threads[i].by
    /\ \A c \in Ids : Exists(comments, c) =>
          Exists(comments', c) /\ comments'[c].by = comments[c].by /\ comments'[c].thread = comments[c].thread
    /\ \A c, d \in Ids : Exists(comments', c) /\ ~Exists(comments, c) /\ Exists(comments, d) => d < c
    /\ \A x \in notes : \E y \in notes' : /\ y.uid = x.uid /\ y.thread = x.thread
                                          /\ y.actor = x.actor /\ y.kind = x.kind

\* What was said before a comment, and who was told of it, stays so.
LEMMA EarlierStays ==
    ASSUME TypeInv, Grown, NEW c \in Ids, Exists(comments, c)
    PROVE  /\ SpokeBefore(c)' = SpokeBefore(c)
           /\ \A v : ToldOf(c, v) => ToldOf(c, v)'
<1>1. comments'[c].thread = comments[c].thread /\ comments'[c].by = comments[c].by
  BY DEF Grown
<1>2. ASSUME NEW d \in Ids, d < c
      PROVE  /\ Exists(comments', d) <=> Exists(comments, d)
             /\ Exists(comments, d) => comments'[d].by = comments[d].by /\ comments'[d].thread = comments[d].thread
  <2>1. d \in Nat /\ c \in Nat
    BY RowsAssumption DEF Ids
  <2>2. ~(c < d)
    BY <1>2, <2>1
  <2> QED
    BY <2>2 DEF Grown
<1>3. {d \in Ids : d < c /\ Exists(comments', d) /\ comments'[d].thread = comments'[c].thread}
      = {d \in Ids : d < c /\ Exists(comments, d) /\ comments[d].thread = comments[c].thread}
  BY <1>1, <1>2
<1>4. SpokeBefore(c)' = SpokeBefore(c)
  <2>1. SpokeBefore(c)' = {comments'[d].by : d \in {d \in Ids : d < c /\ Exists(comments', d)
                                                                 /\ comments'[d].thread = comments'[c].thread}}
    BY DEF SpokeBefore, Exists
  <2> DEFINE D == {d \in Ids : d < c /\ Exists(comments, d) /\ comments[d].thread = comments[c].thread}
  <2>2. \A d \in D : comments'[d].by = comments[d].by
    BY <1>2
  <2>3. SpokeBefore(c)' = {comments'[d].by : d \in D} /\ SpokeBefore(c) = {comments[d].by : d \in D}
    BY <2>1, <1>3 DEF SpokeBefore
  <2> HIDE DEF D
  <2> QED
    BY <2>2, <2>3
<1>5. ASSUME NEW v, ToldOf(c, v) PROVE ToldOf(c, v)'
  BY <1>1, <1>5 DEF ToldOf, Grown
<1> QED
  BY <1>4, <1>5

LEMMA ThreadsGrow ==
    ASSUME TypeInv, VoiceInv, [Next]_vars, NEW i \in Ids, Exists(threads, i)
    PROVE  Exists(threads', i) /\ threads'[i].by = threads[i].by
<1>f. threads \in [Ids -> ThreadRows \cup {NoRow}] /\ threads[i] # NoRow /\ threads[i] \in ThreadRows
  BY DEF TypeInv, TypeOK, Exists
<1>n. \A t \in ThreadRows : t # NoRow
  BY DEF ThreadRows, NoRow
<1>1. CASE \E u \in Callers : Arrive(u) \/ Handler(u)
  <2>1. PICK u \in Callers : ThreadsMove(u) /\ ~At(u, "delete", "forget")
    BY <1>1, HandlerMoves DEF VoiceInv, Keeping, At
  <2> DEFINE r == calls[u].row
  <2>2. CASE UNCHANGED threads
    BY <2>2
  <2>3. CASE \E op \in {"issue", "proposal"}, source \in Packs \cup {"none"} : OpenWrite(u, op, source)
    <3>1. i < NextId(threads) /\ NextId(threads) \in Nat /\ i \in Nat
      BY <1>f, NextIdFresh, RowsAssumption DEF Ids
    <3>2. threads'[i] = threads[i]
      BY <2>3, <3>1, <1>f DEF OpenWrite, OpenThread
    <3> QED
      BY <1>f, <3>2 DEF Exists
  <2>4. CASE SettleThread(r, calls[u].what, calls[u].id.uid)
    <3> DEFINE s == calls[u].what
               w == calls[u].id.uid
    <3>1. threads'[i] = threads[i] \/ threads'[i] = [threads[i] EXCEPT !.status = s, !.decided = w]
      BY <2>4, <1>f DEF SettleThread
    <3>2. [threads[i] EXCEPT !.status = s, !.decided = w].by = threads[i].by
      BY <1>f DEF ThreadRows
    <3>3. [threads[i] EXCEPT !.status = s, !.decided = w] # NoRow
      <4>1. "by" \in DOMAIN [threads[i] EXCEPT !.status = s, !.decided = w]
        BY <1>f DEF ThreadRows
      <4>2. "by" \notin DOMAIN NoRow
        BY DEF NoRow
      <4> QED
        BY <4>1, <4>2
    <3> QED
      BY <1>f, <3>1, <3>2, <3>3 DEF Exists
  <2>5. CASE ReopenIssue(r)
    <3>1. threads'[i] = threads[i] \/ threads'[i] = [threads[i] EXCEPT !.status = "open", !.decided = Nobody]
      BY <2>5, <1>f DEF ReopenIssue
    <3>2. [threads[i] EXCEPT !.status = "open", !.decided = Nobody].by = threads[i].by
      BY <1>f DEF ThreadRows
    <3>3. [threads[i] EXCEPT !.status = "open", !.decided = Nobody] # NoRow
      <4>1. "by" \in DOMAIN [threads[i] EXCEPT !.status = "open", !.decided = Nobody]
        BY <1>f DEF ThreadRows
      <4>2. "by" \notin DOMAIN NoRow
        BY DEF NoRow
      <4> QED
        BY <4>1, <4>2
    <3> QED
      BY <1>f, <3>1, <3>2, <3>3 DEF Exists
  <2> QED
    BY <2>1, <2>2, <2>3, <2>4, <2>5 DEF ThreadsMove
<1>2. CASE UNCHANGED threads
  BY <1>2
<1>3. CASE WindowPasses
  <2>1. threads'[i] = [threads[i] EXCEPT !.recent = FALSE]
    BY <1>3 DEF WindowPasses
  <2>2. threads'[i].by = threads[i].by /\ threads'[i] \in ThreadRows
    BY <2>1, <1>f DEF ThreadRows
  <2> QED
    BY <1>n, <2>2 DEF Exists
<1> QED
  BY <1>1, <1>2, <1>3 DEF Next, SignIn, EndSession, Crash, vars, threadVars

\* A step leaves the comments alone, adds one, hides or shows one, or ages all.
LEMMA CommentsGrow ==
    ASSUME TypeInv, VoiceInv, [Next]_vars, NEW c \in Ids
    PROVE  /\ Exists(comments, c) =>
                Exists(comments', c) /\ comments'[c].by = comments[c].by /\ comments'[c].thread = comments[c].thread
           /\ Exists(comments', c) /\ ~Exists(comments, c) =>
                \E u \in Callers : PostComment(u) /\ Exists(threads, calls[u].row) /\ c = NextId(comments)
<1>f. comments \in [Ids -> CommentRows \cup {NoRow}]
  BY DEF TypeInv, TypeOK
<1>n. \A t \in CommentRows : t # NoRow
  BY DEF CommentRows, NoRow
<1>0. CASE UNCHANGED comments
  BY <1>0
<1>1. CASE \E u \in Callers : Arrive(u) \/ Handler(u)
  <2>1. PICK u \in Callers : TalkMoves(u)
    BY <1>1, HandlerTalks DEF VoiceInv
  <2>2. CASE PostComment(u)
    <3>1. CASE ~Exists(threads, calls[u].row)
      BY <1>0, <2>2, <3>1 DEF PostComment
    <3>2. CASE Exists(threads, calls[u].row)
      <4> DEFINE k == NextId(comments)
                 r == [status |-> "said", thread |-> calls[u].row, by |-> calls[u].id.uid, hidden |-> FALSE,
                       recent |-> TRUE]
      <4>1. comments' = [comments EXCEPT ![k] = r]
        BY <2>2, <3>2 DEF PostComment, Comment
      <4>2. Exists(comments, c) => c # k
        BY NextIdFresh, RowsAssumption DEF Exists, Ids
      <4> HIDE DEF k, r
      <4>3. c # k => comments'[c] = comments[c]
        BY <4>1, <1>f
      <4> QED
        BY <2>2, <3>2, <4>2, <4>3 DEF Exists, k
    <3> QED
      BY <3>1, <3>2
  <2>3. CASE ModerateComment(u) /\ ~UNCHANGED comments
    <3> DEFINE h == (calls[u].what = "hide")
               k == calls[u].row
    <3>1. Exists(comments, k) /\ comments' = [comments EXCEPT ![k] = [comments[k] EXCEPT !.hidden = h]]
      BY <2>3, <1>f DEF ModerateComment, SetCommentHidden
    <3>2. comments[k] \in CommentRows /\ k \in Ids
      BY <1>f, <3>1 DEF Exists
    <3>b. h \in BOOLEAN
      OBVIOUS
    <3> HIDE DEF h, k
    <3> DEFINE r == [comments[k] EXCEPT !.hidden = h]
    <3>3. r.by = comments[k].by /\ r.thread = comments[k].thread /\ r \in CommentRows
      BY <3>2, <3>b DEF CommentRows
    <3>4. r # NoRow /\ comments' = [comments EXCEPT ![k] = r]
      BY <1>n, <3>1, <3>3
    <3> HIDE DEF r
    <3>5. IF c = k THEN comments'[c] = r ELSE comments'[c] = comments[c]
      BY <1>f, <3>4
    <3> QED
      BY <3>1, <3>3, <3>4, <3>5 DEF Exists
  <2> QED
    BY <1>0, <2>1, <2>2, <2>3 DEF TalkMoves
<1>3. CASE WindowPasses
  <2>1. Exists(comments, c) => comments'[c] = [comments[c] EXCEPT !.recent = FALSE]
    BY <1>3 DEF WindowPasses
  <2>2. Exists(comments, c) => comments[c] \in CommentRows
    BY <1>f DEF Exists
  <2>3. \A t \in CommentRows : /\ [t EXCEPT !.recent = FALSE].by = t.by
                               /\ [t EXCEPT !.recent = FALSE].thread = t.thread
                               /\ [t EXCEPT !.recent = FALSE] \in CommentRows
    BY DEF CommentRows
  <2>4. ~Exists(comments, c) => comments'[c] = NoRow
    BY <1>3 DEF WindowPasses
  <2> QED
    BY <1>n, <2>1, <2>2, <2>3, <2>4 DEF Exists
<1> QED
  BY <1>0, <1>1, <1>3 DEF Next, SignIn, EndSession, Crash, vars, threadVars

LEMMA NotesGrow ==
    ASSUME TypeInv, VoiceInv, [Next]_vars, NEW x \in notes
    PROVE  \E y \in notes' : y.uid = x.uid /\ y.thread = x.thread /\ y.actor = x.actor /\ y.kind = x.kind
<1>0. CASE x \in notes'
  BY <1>0
<1>1. CASE \E u \in Callers : Arrive(u) \/ Handler(u)
  <2>1. PICK u \in Callers : TalkMoves(u)
    BY <1>1, HandlerTalks DEF VoiceInv
  <2>2. CASE UNCHANGED notes \/ Tell(u)
    BY <1>0, <2>2 DEF Tell
  <2>3. CASE ReadNotifications(u)
    <3>1. x \in notes' \/ [x EXCEPT !.read = TRUE] \in notes'
      BY <2>3 DEF ReadNotifications, MarkRead
    <3>2. x \in NoteRows
      BY DEF TypeInv, TypeOK
    <3> DEFINE y == [x EXCEPT !.read = TRUE]
    <3>3. y.uid = x.uid /\ y.thread = x.thread /\ y.actor = x.actor /\ y.kind = x.kind
      BY <3>2 DEF NoteRows
    <3> HIDE DEF y
    <3> QED
      BY <1>0, <3>1, <3>3 DEF y
  <2> QED
    BY <2>1, <2>2, <2>3 DEF TalkMoves
<1> QED
  BY <1>0, <1>1 DEF Next, SignIn, EndSession, WindowPasses, Crash, vars, threadVars

LEMMA StepGrows == ASSUME TypeInv, VoiceInv, [Next]_vars PROVE Grown
<1>1. ASSUME NEW c \in Ids, NEW d \in Ids, Exists(comments', c), ~Exists(comments, c), Exists(comments, d)
      PROVE  d < c
  <2>1. c = NextId(comments)
    BY <1>1, CommentsGrow
  <2> QED
    BY <1>1, <2>1, NextIdFresh DEF Exists
<1> QED
  BY <1>1, ThreadsGrow, CommentsGrow, NotesGrow DEF Grown

\* A workload keeps its kinds of operation.
LEMMA MenuStays == ASSUME [Next]_vars PROVE DOMAIN menu' = DOMAIN menu
<1>1. ASSUME NEW u \in Callers, Handler(u) PROVE UNCHANGED menu
  <2>1. CASE \/ SuspendGate(u) \/ GrantGate(u) \/ RevokeGate(u) \/ BlockGate(u) \/ UnblockGate(u)
             \/ VisibilityGate(u) \/ DeleteGate(u) \/ ForkGate(u) \/ IssueGate(u) \/ HideGate(u)
             \/ ProposalGate(u) \/ CommentGate(u) \/ CloseGate(u) \/ MergeGate(u) \/ ReopenGate(u)
    BY <2>1 DEF SuspendGate, GrantGate, RevokeGate, BlockGate, UnblockGate, VisibilityGate, DeleteGate, ForkGate,
           IssueGate, HideGate, ProposalGate, CommentGate, CloseGate, MergeGate, ReopenGate, GateStep
  <2>2. CASE \/ SuspendWrite(u) \/ Lift(u) \/ SetUserRole(u) \/ GrantAccess(u) \/ BlockWrite(u) \/ UnblockWrite(u)
             \/ SetPackVisibility(u) \/ ForkPack(u) \/ AcceptRules(u)
    BY <2>2 DEF SuspendWrite, Lift, SetUserRole, GrantAccess, BlockWrite, UnblockWrite, SetPackVisibility, ForkPack,
           AcceptRules
  <2>3. CASE \/ RevokeAccess(u) \/ DeletePack(u) \/ OpenIssue(u) \/ OpenProposal(u) \/ PostComment(u)
             \/ ModerateComment(u) \/ CloseThread(u) \/ MergeProposal(u) \/ ReopenThread(u)
             \/ Audience(u) \/ Tell(u) \/ ReadNotifications(u) \/ MyFeedKey(u) \/ RotateFeedKey(u)
    BY <2>3 DEF RevokeAccess, DeletePack, OpenIssue, OpenProposal, OpenWrite, PostComment, ModerateComment,
           CloseThread, MergeProposal, Settle, ReopenThread, Audience, Tell, ReadNotifications, MyFeedKey, RotateFeedKey
  <2> QED
    BY <1>1, <2>1, <2>2, <2>3 DEF Handler
<1>2. \A u \in Callers : Arrive(u) => DOMAIN menu' = DOMAIN menu
  BY DEF Arrive
<1>3. \A u \in Uids : SignIn(u) \/ EndSession(u) => DOMAIN menu' = DOMAIN menu
  BY DEF SignIn, EndSession
<1> QED
  BY <1>1, <1>2, <1>3 DEF Next, WindowPasses, Crash, vars

\* What a comment request holds stays true while others act.
LEMMA CommentCallStays ==
    ASSUME TypeInv, Grown, NEW c \in CallRecords, CommentCall(c), c.row \in Ids
    PROVE  CommentCall(c)'
<1>1. Exists(threads', c.row) /\ c.target = threads'[c.row].by
  BY DEF CommentCall, Grown
<1>2. CASE c.pc \notin {"audience", "tell"}
  BY <1>1, <1>2 DEF CommentCall, Exists
<1>3. CASE c.pc \in {"audience", "tell"}
  <2>1. c.made \in Ids /\ Exists(comments, c.made)
    BY <1>3 DEF CommentCall, Exists
  <2>2. Exists(comments', c.made) /\ comments'[c.made].thread = c.row /\ comments'[c.made].by = c.id.uid
    BY <1>3, <2>1 DEF CommentCall, Grown
  <2>3. SpokeBefore(c.made)' = SpokeBefore(c.made)
    BY <2>1, EarlierStays
  <2> QED
    BY <1>1, <2>2, <2>3 DEF CommentCall, Exists
<1> QED
  BY <1>2, <1>3

\* The three steps of a comment request, from its gate to its audience.
LEMMA CommentMoves ==
    ASSUME TypeInv, VoiceInv, Grown, NEW u \in Callers, CommentGate(u) \/ PostComment(u) \/ Audience(u),
           calls'[u] # Idle, calls'[u].op = "comment"
    PROVE  CommentCall(calls[u])'
<1> DEFINE c == calls[u]
<1>f. calls \in [Callers -> CallRecords \cup {Idle}] /\ comments \in [Ids -> CommentRows \cup {NoRow}]
  BY DEF TypeInv, TypeOK
<1>1. CASE CommentGate(u)
  <2>1. c # Idle /\ c \in CallRecords /\ UNCHANGED threadVars
    BY <1>f, <1>1 DEF CommentGate, GateStep, At
  <2>2. calls' = [calls EXCEPT ![u] = [Loaded(u) EXCEPT !.pc = "write"]] /\ Exists(threads, c.row)
    BY <1>f, <1>1 DEF CommentGate, GateStep, Finish
  <2> DEFINE d == [Loaded(u) EXCEPT !.pc = "write"]
  <2>3. d.row = c.row /\ d.target = threads[c.row].by /\ d.pc = "write"
    BY <2>1 DEF Loaded, CallRecords
  <2>4. calls'[u] = d
    BY <1>f, <2>2
  <2> HIDE DEF d
  <2> QED
    BY <2>1, <2>2, <2>3, <2>4 DEF CommentCall, Exists, threadVars
<1>2. CASE PostComment(u)
  <2> DEFINE k == NextId(comments)
             d == [c EXCEPT !.pc = "audience", !.made = k]
             r == [status |-> "said", thread |-> c.row, by |-> c.id.uid, hidden |-> FALSE, recent |-> TRUE]
  <2>1. c # Idle /\ c \in CallRecords /\ c.op = "comment" /\ c.pc = "write" /\ UNCHANGED threads
    BY <1>f, <1>2 DEF PostComment, At
  <2>2. calls' = [calls EXCEPT ![u] = d] /\ comments' = [comments EXCEPT ![k] = r] /\ k <= MaxRows
    BY <1>f, <1>2 DEF PostComment, Comment, Finish
  <2>3. k \in Ids
    BY <2>2, NextIdFresh, RowsAssumption DEF Ids
  <2>4. r # NoRow /\ r.thread = c.row /\ r.by = c.id.uid
    <3>1. "by" \in DOMAIN r /\ "by" \notin DOMAIN NoRow
      BY DEF NoRow
    <3> QED
      BY <3>1
  <2> HIDE DEF k, r
  <2>5. d.row = c.row /\ d.target = c.target /\ d.pc = "audience" /\ d.made = k /\ d.id = c.id
    BY <2>1 DEF CallRecords
  <2>6. CommentCall(c)
    BY <2>1 DEF VoiceInv
  <2>7. calls'[u] = d /\ comments'[k] = r
    BY <1>f, <2>2, <2>3
  <2> HIDE DEF d
  <2> QED
    BY <2>1, <2>3, <2>4, <2>5, <2>6, <2>7 DEF CommentCall, Exists
<1>3. CASE Audience(u)
  <2>1. c # Idle /\ c \in CallRecords /\ c.pc = "audience" /\ UNCHANGED threadVars
    BY <1>f, <1>3 DEF Audience
  <2> DEFINE told == CASE c.op \in {"issue", "proposal"} -> KeepersOf(c.pack)
                       [] c.op = "comment" -> VoicesIn(c.row, c.target) \cup KeepersOf(c.pack)
                       [] OTHER -> VoicesIn(c.row, c.target)
             d == [c EXCEPT !.pc = "tell", !.told = told]
  <2>2. calls' = [calls EXCEPT ![u] = d]
    BY <1>3 DEF Audience
  <2>3. c.op = "comment" => VoicesIn(c.row, c.target) \subseteq told
    OBVIOUS
  <2> HIDE DEF told
  <2>4. /\ d.row = c.row /\ d.target = c.target /\ d.pc = "tell" /\ d.made = c.made /\ d.id = c.id
        /\ d.told = told /\ d.op = c.op
    BY <2>1 DEF CallRecords
  <2>5. calls'[u] = d
    BY <1>f, <2>2
  <2> HIDE DEF d
  <2>6. c.op = "comment" /\ CommentCall(c)
    BY <2>1, <2>4, <2>5 DEF VoiceInv
  <2>7. Exists(comments, c.made) /\ comments[c.made].thread = c.row /\ comments[c.made].by = c.id.uid
    BY <2>1, <2>6 DEF CommentCall
  <2>8. SpokeBefore(c.made) \cup {c.target} \subseteq VoicesIn(c.row, c.target)
    BY <2>7 DEF SpokeBefore, VoicesIn, SpeakersOn
  <2>9. UNCHANGED <<threads, comments>> /\ calls'[u].made = c.made
    BY <2>1, <2>4, <2>5 DEF threadVars
  <2>10. SpokeBefore(calls[u].made)' = SpokeBefore(calls[u].made)
    BY <2>9 DEF SpokeBefore, Exists
  <2> QED
    BY <2>3, <2>4, <2>5, <2>6, <2>7, <2>8, <2>9, <2>10 DEF CommentCall, Exists
<1> QED
  BY <1>1, <1>2, <1>3

\* A comment answered has reached everyone who was there before it.
LEMMA AnswerTold ==
    ASSUME TypeInv, VoiceInv, Grown, NEW u \in Callers, Tell(u), calls[u].op = "comment",
           NEW m, m = calls[u].made
    PROVE  AllTold(m)'
<1> DEFINE c == calls[u]
<1>1. c # Idle /\ c \in CallRecords /\ c.pc = "tell" /\ UNCHANGED <<threads, comments>>
  BY DEF Tell, TypeInv, TypeOK
<1>2. /\ Exists(threads, c.row) /\ c.target = threads[c.row].by
      /\ Exists(comments, m) /\ comments[m].thread = c.row /\ comments[m].by = c.id.uid
      /\ SpokeBefore(m) \cup {c.target} \subseteq c.told
  BY <1>1 DEF VoiceInv, CommentCall
<1>3. ASSUME NEW v \in c.told \ {c.id.uid, BreakGlassUid}
      PROVE  \E x \in notes' : x.uid = v /\ x.thread = c.row /\ x.actor = c.id.uid /\ x.kind = "comment"
  <2>1. KindOf(c.op) = "comment"
    BY DEF KindOf
  <2>2. NotifyRows(c.told, "comment", c.row, c.id.uid) \subseteq notes'
    BY <2>1 DEF Tell
  <2> DEFINE told == c.told \ {c.id.uid, BreakGlassUid}
             base == IF notes = {} THEN 0
                     ELSE CHOOSE b \in {x.n : x \in notes} : \A x \in notes : x.n <= b
             num(w) == base + Cardinality({y \in told : y <= w})
             row(w) == [n |-> num(w), uid |-> w, kind |-> "comment", thread |-> c.row, actor |-> c.id.uid, read |-> FALSE]
  <2>3. NotifyRows(c.told, "comment", c.row, c.id.uid) = {row(w) : w \in told}
    BY <1>2 DEF NotifyRows
  <2> HIDE DEF num
  <2>4. row(v).uid = v /\ row(v).thread = c.row /\ row(v).actor = c.id.uid /\ row(v).kind = "comment"
    OBVIOUS
  <2> HIDE DEF row
  <2>5. row(v) \in notes'
    BY <2>2, <2>3
  <2> QED
    BY <2>4, <2>5
<1>4. m \in Ids /\ SpokeBefore(m)' = SpokeBefore(m)
  BY <1>2, EarlierStays DEF Exists
<1>5. ASSUME NEW v \in c.told \ {c.id.uid, BreakGlassUid} PROVE ToldOf(m, v)'
  BY <1>1, <1>2, <1>3, <1>5 DEF ToldOf
<1> QED
  BY <1>1, <1>2, <1>4, <1>5 DEF AllTold, Exists

LEMMA ToldStays ==
    ASSUME TypeInv, VoiceInv, Grown, NEW c \in answered
    PROVE  AllTold(c)'
<1>1. AllTold(c) /\ c \in Ids /\ Exists(comments, c)
  BY DEF VoiceInv, AllTold, TypeInv, TypeOK
<1>2. Exists(threads, comments[c].thread) /\ comments[c].thread \in Ids
  BY <1>1 DEF VoiceInv, Exists
<1>3. /\ Exists(comments', c) /\ comments'[c].by = comments[c].by /\ comments'[c].thread = comments[c].thread
      /\ threads'[comments[c].thread].by = threads[comments[c].thread].by
  BY <1>1, <1>2 DEF Grown
<1>4. SpokeBefore(c)' = SpokeBefore(c) /\ \A v : ToldOf(c, v) => ToldOf(c, v)'
  BY <1>1, EarlierStays
<1> QED
  BY <1>1, <1>3, <1>4 DEF AllTold, Exists

LEMMA VoiceStep == TypeInv /\ VoiceInv /\ [Next]_vars => VoiceInv'
<1> SUFFICES ASSUME TypeInv, VoiceInv, [Next]_vars PROVE VoiceInv'
  OBVIOUS
<1>g. Grown
  BY StepGrows
<1>f. calls \in [Callers -> CallRecords \cup {Idle}] /\ answered \subseteq Ids
  BY DEF TypeInv, TypeOK
<1>m. {"delete", "revoke"} \cap DOMAIN menu' = {}
  BY MenuStays DEF VoiceInv
<1>c. ASSUME NEW c \in Ids, Exists(comments', c) PROVE Exists(threads', comments'[c].thread)
  <2>1. CASE Exists(comments, c)
    <3>1. comments'[c].thread = comments[c].thread /\ Exists(threads, comments[c].thread)
      BY <1>g, <2>1 DEF Grown, VoiceInv
    <3> QED
      BY <1>g, <3>1 DEF Grown, Exists
  <2>2. CASE ~Exists(comments, c)
    <3>1. PICK u \in Callers : PostComment(u) /\ Exists(threads, calls[u].row) /\ c = NextId(comments)
      BY <1>c, <2>2, CommentsGrow
    <3>2. comments'[c].thread = calls[u].row
      BY <3>1, <1>c DEF PostComment, Comment, TypeInv, TypeOK
    <3> QED
      BY <1>g, <3>1, <3>2 DEF Grown, Exists
  <2> QED
    BY <2>1, <2>2
<1>s. ASSUME NEW v \in Callers, calls'[v] = calls[v] \/ calls'[v] = Idle
      PROVE  /\ Keeping(v)'
             /\ calls'[v] # Idle /\ calls'[v].op = "comment" /\ calls'[v].pc # "gate" => CommentCall(calls[v])'
  <2>1. Keeping(v)'
    BY <1>s DEF VoiceInv, Keeping
  <2>2. ASSUME calls'[v] # Idle, calls'[v].op = "comment", calls'[v].pc # "gate" PROVE CommentCall(calls[v])'
    <3>1. PICK c : c = calls[v] /\ c = calls'[v]
      BY <1>s, <2>2
    <3>2. c \in CallRecords /\ CommentCall(c) /\ c.row \in Ids
      BY <1>f, <2>2, <3>1 DEF VoiceInv, CommentCall, Exists
    <3>3. CommentCall(c)'
      BY <1>g, <3>2, CommentCallStays
    <3>4. c.pc = "tell" => SpokeBefore(calls[v].made)' = SpokeBefore(c.made)'
      BY <3>1 DEF SpokeBefore
    <3> QED
      BY <3>1, <3>3, <3>4 DEF CommentCall
  <2> QED
    BY <2>1, <2>2
<1>1. CASE \E u \in Callers : Arrive(u) \/ Handler(u)
  <2>1. PICK u \in Callers : TalkMoves(u)
    BY <1>1, HandlerTalks DEF VoiceInv
  <2>2. Keeping(u)'
    <3>1. CASE calls'[u] = Idle
      BY <3>1 DEF Keeping
    <3>2. CASE calls[u] # Idle /\ calls'[u].op = calls[u].op
      BY <3>2 DEF Keeping, VoiceInv
    <3>3. CASE calls'[u].op \in DOMAIN menu
      BY <3>3 DEF Keeping, VoiceInv
    <3> QED
      BY <2>1, <3>1, <3>2, <3>3 DEF TalkMoves, OpStays
  <2>3. ASSUME calls'[u] # Idle, calls'[u].op = "comment", calls'[u].pc # "gate" PROVE CommentCall(calls[u])'
    BY <1>g, <2>1, <2>3, CommentMoves DEF TalkMoves
  <2>4. \A v \in Callers : Keeping(v)'
    BY <1>s, <2>1, <2>2 DEF TalkMoves
  <2>5. \A v \in Callers : calls'[v] # Idle /\ calls'[v].op = "comment" /\ calls'[v].pc # "gate"
                             => CommentCall(calls[v])'
    BY <1>s, <2>1, <2>3 DEF TalkMoves
  <2>6. \A c \in answered' : AllTold(c)'
    <3>1. CASE UNCHANGED answered
      BY <1>g, <3>1, ToldStays
    <3>2. CASE Tell(u)
      <4>1. PICK m : m = calls[u].made
        OBVIOUS
      <4>2. \A c \in answered' : c \in answered \/ (c = m /\ calls[u].op = "comment")
        BY <3>2, <4>1 DEF Tell
      <4>3. calls[u].op = "comment" => AllTold(m)'
        BY <1>g, <3>2, <4>1, AnswerTold
      <4> QED
        BY <1>g, <4>2, <4>3, ToldStays
    <3> QED
      BY <2>1, <3>1, <3>2 DEF TalkMoves
  <2> QED
    BY <1>m, <1>c, <2>4, <2>5, <2>6 DEF VoiceInv, Exists
<1>2. CASE \/ \E u \in Uids : SignIn(u) \/ EndSession(u)
           \/ WindowPasses \/ Crash \/ UNCHANGED vars
  <2>1. UNCHANGED answered /\ \A v \in Callers : calls'[v] = calls[v] \/ calls'[v] = Idle
    BY <1>2 DEF SignIn, EndSession, WindowPasses, Crash, vars, threadVars
  <2>2. \A c \in answered' : AllTold(c)'
    BY <1>g, <2>1, ToldStays
  <2> QED
    BY <1>m, <1>c, <1>s, <2>1, <2>2 DEF VoiceInv, Exists
<1> QED
  BY <1>1, <1>2 DEF Next

\* In a workload that deletes no pack, a comment whose author got the 201 has
\* reached whoever opened the thread and whoever spoke before, unless access was
\* revoked: post_comment reads the voices after it stored the comment, so no
\* order of requests and restarts lets one speaker miss another.
THEOREM CommentsReachVoices ==
    ASSUME \A m \in Menus : "delete" \notin DOMAIN m
    PROVE  Spec => []VoicesHear
<1> DEFINE Inv == TypeInv /\ ("revoke" \in DOMAIN menu \/ VoiceInv)
<1>1. Init => Inv
  <2> SUFFICES ASSUME Init, "revoke" \notin DOMAIN menu PROVE VoiceInv
    BY TypeInit
  <2>1. {"delete", "revoke"} \cap DOMAIN menu = {}
    BY DEF Init
  <2>2. answered = {} /\ \A c \in Ids : ~Exists(comments, c)
    BY DEF Init, Exists
  <2>3. \A u \in Callers : calls[u] = Idle
    BY DEF Init
  <2> QED
    BY <2>1, <2>2, <2>3 DEF VoiceInv, Keeping
<1>2. Inv /\ [Next]_vars => Inv'
  BY TypeStep, VoiceStep, MenuStays
<1>3. Inv => VoicesHear
  <2> SUFFICES ASSUME TypeInv, VoiceInv PROVE VoicesHear
    BY DEF VoicesHear
  <2> QED
    BY DEF VoicesHear, VoiceInv, AllTold, SpokeBefore, ToldOf
<1> QED
  BY <1>1, <1>2, <1>3, PTL DEF Spec

-----------------------------------------------------------------------------
(* One rule, asked three ways *)

\* The ranks of the levels, and what a caller holds on a pack.
LEMMA LevelRanks ==
    /\ LevelRank("none") = 0 /\ LevelRank("view") = 1 /\ LevelRank("edit") = 2 /\ LevelRank("own") = 3
    /\ \A l \in Levels \cup {"none"} : LevelRank(l) \in 0..3
<1>1. LevelRank("none") = 0 /\ LevelRank("view") = 1 /\ LevelRank("edit") = 2 /\ LevelRank("own") = 3
  BY DEF LevelRank
<1> QED
  BY <1>1 DEF Levels

LEMMA HeldLevel ==
    ASSUME AccountsTypeOK, NEW id \in Identities, NEW p \in Packs
    PROVE  /\ GrantedLevel(id, p) \in Levels \cup {"none"}
           /\ PackAccessLevel(p, id.uid) \in Levels \cup {"none"}
           /\ InherentLevel(id, p) \in {"own", "none"}
<1>1. InherentLevel(id, p) \in {"own", "none"}
  BY DEF InherentLevel
<1>2. PackAccessLevel(p, id.uid) \in Levels \cup {"none"}
  BY DEF PackAccessLevel, AccountsTypeOK, Levels
<1> QED
  BY <1>1, <1>2 DEF GrantedLevel, Levels

\* The listing and the gate read the same grant.
LEMMA FilterIsGate ==
    ASSUME AccountsTypeOK, NEW id \in Identities
    PROVE  FilterMay(id, Packs, "view") = {p \in Packs : Authorize(id, p, "view")}
<1>1. ASSUME NEW p \in Packs
      PROVE  p \in FilterMay(id, Packs, "view") <=> Authorize(id, p, "view")
  <2>1. Authorize(id, p, "view") <=> LevelRank(GrantedLevel(id, p)) >= 1
    BY LevelRanks DEF Authorize, May
  <2>2. p \in PacksGrantedTo(id.uid) <=> PackAccessLevel(p, id.uid) # "none"
    BY DEF PacksGrantedTo
  <2>3. CASE InherentLevel(id, p) # "none"
    <3>1. InherentLevel(id, p) = "own" /\ GrantedLevel(id, p) = "own"
      BY <2>3, HeldLevel DEF GrantedLevel
    <3> QED
      BY <2>1, <3>1, LevelRanks DEF FilterMay
  <2>4. CASE InherentLevel(id, p) = "none"
    <3>1. GrantedLevel(id, p) = PackAccessLevel(p, id.uid)
      BY <2>4 DEF GrantedLevel
    <3>2. LevelRank(PackAccessLevel(p, id.uid)) >= 1 => PackAccessLevel(p, id.uid) # "none"
      BY LevelRanks
    <3>3. p \in FilterMay(id, Packs, "view") <=> /\ p \in PacksGrantedTo(id.uid)
                                                 /\ LevelRank(PackAccessLevel(p, id.uid)) >= 1
      BY <2>4, LevelRanks DEF FilterMay
    <3> QED
      BY <2>1, <2>2, <3>1, <3>2, <3>3
  <2> QED
    BY <2>3, <2>4
<1>2. FilterMay(id, Packs, "view") \subseteq Packs
  BY DEF FilterMay
<1> QED
  BY <1>1, <1>2

\* The level the panel is told is the highest the gate would grant.
LEMMA LevelIsGate ==
    ASSUME AccountsTypeOK, NEW id \in Identities, NEW p \in Packs
    PROVE  {l \in Levels : Authorize(id, p, l)} = UpTo(MyLevel(id, p).level)
<1> DEFINE own == Authorize(id, p, "own")
           edit == Authorize(id, p, "edit")
           view == Authorize(id, p, "view")
           g == LevelRank(GrantedLevel(id, p))
<1>1. g \in 0..3
  BY HeldLevel, LevelRanks
<1>2. (own <=> NotSuspended(id) /\ g >= 3) /\ (edit <=> NotSuspended(id) /\ g >= 2) /\ (view <=> g >= 1)
  BY LevelRanks DEF Authorize, May
<1>3. (own => edit) /\ (edit => view)
  BY <1>1, <1>2
<1>4. MyLevel(id, p).level = CASE own -> "own" [] edit /\ ~own -> "edit" [] view /\ ~edit -> "view" [] OTHER -> "none"
  BY DEF MyLevel
<1> HIDE DEF own, edit, view, g
<1>5. {l \in Levels : Authorize(id, p, l)} = (IF own THEN {"own"} ELSE {}) \cup (IF edit THEN {"edit"} ELSE {})
                                              \cup (IF view THEN {"view"} ELSE {})
  BY DEF Levels, own, edit, view
<1>6. UpTo("own") = {"view", "edit", "own"} /\ UpTo("edit") = {"view", "edit"} /\ UpTo("view") = {"view"} /\ UpTo("none") = {}
  BY LevelRanks DEF UpTo, Levels
<1>7. CASE own
  <2>1. MyLevel(id, p).level = "own"
    BY <1>3, <1>4, <1>7
  <2> QED
    BY <1>3, <1>5, <1>6, <1>7, <2>1
<1>8. CASE edit /\ ~own
  <2>1. MyLevel(id, p).level = "edit"
    BY <1>3, <1>4, <1>8
  <2> QED
    BY <1>3, <1>5, <1>6, <1>8, <2>1
<1>9. CASE view /\ ~edit
  <2>1. MyLevel(id, p).level = "view"
    BY <1>3, <1>4, <1>9
  <2> QED
    BY <1>3, <1>5, <1>6, <1>9, <2>1
<1>10. CASE ~view
  <2>1. MyLevel(id, p).level = "none"
    BY <1>3, <1>4, <1>10
  <2> QED
    BY <1>3, <1>5, <1>6, <1>10, <2>1
<1> QED
  BY <1>7, <1>8, <1>9, <1>10

\* Whatever roles, grants and suspensions the requests leave behind, filter_may,
\* authorize and my_level give a signed-in person one answer.
THEOREM GatesAgree == Spec => []ListingMatchesGate
<1>1. TypeInv => ListingMatchesGate
  <2> SUFFICES ASSUME TypeInv, NEW u \in Uids, users[u] # "nobody"
      PROVE  /\ FilterMay(SessionIdentity(u), Packs, "view") = {p \in Packs : Authorize(SessionIdentity(u), p, "view")}
             /\ \A p \in Packs : {l \in Levels : Authorize(SessionIdentity(u), p, l)}
                                   = UpTo(MyLevel(SessionIdentity(u), p).level)
    BY DEF ListingMatchesGate
  <2>1. SessionIdentity(u) \in Identities /\ AccountsTypeOK
    BY DEF SessionIdentity, Identities, TypeInv, TypeOK, AccountsTypeOK
  <2> QED
    BY <2>1, FilterIsGate, LevelIsGate
<1>2. Spec => []TypeInv
  BY TypeInit, TypeStep, PTL DEF Spec
<1> QED
  BY <1>1, <1>2, PTL
=============================================================================
