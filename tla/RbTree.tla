------------------------------- MODULE RbTree -------------------------------
(***************************************************************************)
(* The intrusive red-black tree of kernel/rbtree.c, on which mmap.c keeps  *)
(* the memory regions of a process and the page reference counts.  Node 0  *)
(* is the tree's own head, which is also every leaf (_isnil): its _parent  *)
(* is the root, its _left the smallest and its _right the largest node.    *)
(*                                                                         *)
(* The left and right halves of the C code mirror each other: `kid' maps a *)
(* side to the child pointers of that side, and one operator with a side   *)
(* as parameter stands for both halves.  One step is one iteration of a    *)
(* rebalancing loop, so the pointers are checked in between as well.       *)
(***************************************************************************)
EXTENDS Integers, FiniteSets

CONSTANTS
    Nodes,      \* the nodes a caller may link, a set of numbers above 0
    KeyOf       \* KeyOf[n] is what the comparison callback sees of node n

VARIABLES
    multi,      \* impl->_multi, fixed at rb_init
    t,          \* the links and colours: [parent, kid, red]
    size,       \* rb->size
    pc,         \* "idle", or the loop that runs: "ifix", "efix"
    fix,        \* pnode of the insert loop, fixnode of the erase loop
    fixparent,  \* fixparent of the erase loop
    job,        \* the caller of rb_erase_node: "none", "range" or "free"
    cur,        \* the next node that caller erases
    stop,       \* where it stops
    linked,     \* history: the nodes linked into the tree
    elems       \* history: what the tree must contain when the call is over

vars == <<multi, t, size, pc, fix, fixparent, job, cur, stop, linked, elems>>

Head == 0
Places == Nodes \cup {Head}
Sides == {"L", "R"}
Other(s) == IF s = "L" THEN "R" ELSE "L"

Root(u) == u.parent[Head]
Lmst(u) == u.kid["L"][Head]
Rmst(u) == u.kid["R"][Head]

\* impl_comp: is the key of n below the key k?
Below(n, k) == KeyOf[n] < k

HeadInit == [parent |-> [n \in Places |-> Head],
             kid |-> [s \in Sides |-> [n \in Places |-> Head]],
             red |-> {}]

-----------------------------------------------------------------------------
(* Walks. *)

\* node_min (s = "L") and node_max (s = "R")
Extreme(u, s, n) ==
    LET go[x \in Places] == IF u.kid[s][x] = Head THEN x ELSE go[u.kid[s][x]]
    IN  go[n]

\* node_next (s = "R"); node_prev (s = "L") below a node that is not the head
Neighbour(u, s, n) ==
    LET climb[x \in Places] == IF u.parent[x] # Head /\ u.kid[s][u.parent[x]] = x
                               THEN climb[u.parent[x]] ELSE u.parent[x]
    IN  IF u.kid[s][n] = Head THEN climb[n] ELSE Extreme(u, Other(s), u.kid[s][n])

NodeNext(u, n) == Neighbour(u, "R", n)
NodePrev(u, n) == IF n = Head THEN Rmst(u) ELSE Neighbour(u, "L", n)

\* impl_lbnd: the first node whose key is not below k; impl_ubnd: above k
LowerBound(u, k) ==
    LET go[x \in Places, best \in Places] ==
            IF x = Head THEN best
            ELSE IF Below(x, k) THEN go[u.kid["R"][x], best]
            ELSE go[u.kid["L"][x], x]
    IN  go[Root(u), Head]

UpperBound(u, k) ==
    LET go[x \in Places, best \in Places] ==
            IF x = Head THEN best
            ELSE IF KeyOf[x] > k THEN go[u.kid["L"][x], x]
            ELSE go[u.kid["R"][x], best]
    IN  go[Root(u), Head]

\* impl_eqrange: one descent finds the beginning and a bound for the end
EqRange(u, k) ==
    LET down[x \in Places, b \in Places, e \in Places] ==
            IF x = Head THEN <<b, e>>
            ELSE IF Below(x, k) THEN down[u.kid["R"][x], b, e]
            ELSE down[u.kid["L"][x], x, IF e = Head /\ KeyOf[x] > k THEN x ELSE e]
        upper[x \in Places, e \in Places] ==
            IF x = Head THEN e
            ELSE IF KeyOf[x] > k THEN upper[u.kid["L"][x], x]
            ELSE upper[u.kid["R"][x], e]
        first == down[Root(u), Head, Head]
    IN  <<first[1], upper[IF first[2] = Head THEN Root(u) ELSE u.kid["L"][first[2]],
                          first[2]]>>

\* rb_find
Find(u, k) ==
    LET lb == LowerBound(u, k)
    IN  IF lb = Head \/ KeyOf[lb] > k THEN Head ELSE lb

\* rb_dist, by the length of the walk or, for the whole tree, by the size
Dist(u, b, e) ==
    LET walk[x \in Places] == IF x = e THEN 0 ELSE 1 + walk[NodeNext(u, x)]
    IN  IF b = Lmst(u) /\ e = Head THEN size ELSE walk[b]

-----------------------------------------------------------------------------
(* Links. *)

SetKid(u, s, n, x) == [u EXCEPT !.kid[s][n] = x]
SetParent(u, n, x) == IF n = Head THEN u ELSE [u EXCEPT !.parent[n] = x]
Paint(u, blacks, reds) == [u EXCEPT !.red = (@ \ blacks) \cup reds]

\* the parent of n, or the head if n is the root, gets x in n's place
Replace(u, n, x) ==
    IF n = Root(u) THEN [u EXCEPT !.parent[Head] = x]
    ELSE SetKid(u, IF u.kid["L"][u.parent[n]] = n THEN "L" ELSE "R", u.parent[n], x)

\* impl_rotate_left (s = "L") and impl_rotate_right (s = "R")
Rotate(u, s, n) ==
    LET up == u.kid[Other(s)][n]
        u1 == SetParent(SetKid(u, Other(s), n, u.kid[s][up]), u.kid[s][up], n)
        u2 == [Replace(u1, n, up) EXCEPT !.parent[up] = u.parent[n]]
    IN  [SetKid(u2, s, up, n) EXCEPT !.parent[n] = up]

\* where rb_insert_node's descent ends: the last node and the side to add on
Position(u, n) ==
    LET go[x \in Places, pos \in Places, s \in Sides] ==
            IF x = Head THEN <<pos, s>>
            ELSE LET d == IF KeyOf[n] < KeyOf[x] THEN "L" ELSE "R"
                 IN  go[u.kid[d][x], x, d]
    IN  go[Root(u), Head, "L"]

\* the first half of impl_node_insert: n, fresh from node_init, becomes a leaf
Link(u, n, pos, s) ==
    LET v == [u EXCEPT !.parent[n] = pos, !.red = @ \cup {n}]
    IN  IF pos = Head
        THEN [v EXCEPT !.parent[Head] = n, !.kid["L"][Head] = n, !.kid["R"][Head] = n]
        ELSE LET w == SetKid(v, s, pos, n)
             IN  IF u.kid[s][Head] = pos THEN SetKid(w, s, Head, n) ELSE w

\* the links of a node that has left the tree are not read again: node_init
\* rewrites them before the node is used again
Forget(u, n) ==
    [u EXCEPT !.parent[n] = Head, !.kid["L"][n] = Head, !.kid["R"][n] = Head, !.red = @ \ {n}]

\* rb_erase_node's unlinking of e: the new links, fixnode, fixparent, and
\* whether the removed position was black
Unlink(u, e) ==
    LET l == u.kid["L"][e]
        r == u.kid["R"][e]
        p == NodeNext(u, e)                  \* takes e's place if e has two children
    IN  IF l = Head \/ r = Head
        THEN LET x  == IF l = Head THEN r ELSE l
                 up == u.parent[e]
                 v  == Replace(SetParent(u, x, up), e, x)
                 End(w, s) == IF w.kid[s][Head] # e THEN w
                              ELSE SetKid(w, s, Head, IF x = Head THEN up ELSE Extreme(w, s, x))
             IN  <<Forget(End(End(v, "L"), "R"), e), x, up, e \notin u.red>>
        ELSE LET x  == u.kid["R"][p]
                 up == IF p = r THEN p ELSE u.parent[p]
                 v1 == [SetKid(u, "L", p, l) EXCEPT !.parent[l] = p]
                 v2 == IF p = r THEN v1
                       ELSE [SetKid(SetKid(SetParent(v1, x, up), "L", up, x), "R", p, r)
                               EXCEPT !.parent[r] = p]
                 v3 == [Replace(v2, e, p) EXCEPT !.parent[p] = u.parent[e]]
                 v4 == Paint(v3, {p}, IF e \in u.red THEN {p} ELSE {})
             IN  <<Forget(v4, e), x, up, p \notin u.red>>

-----------------------------------------------------------------------------
(* Insertion. *)

Init ==
    /\ multi \in BOOLEAN
    /\ t = HeadInit
    /\ size = 0
    /\ pc = "idle"
    /\ fix = Head /\ fixparent = Head
    /\ job = "none" /\ cur = Head /\ stop = Head
    /\ linked = {} /\ elems = {}

\* the node in front of the new one, if the descent ended on a left side
Before(n) ==
    LET at == Position(t, n)
    IN  IF at[2] = "L" THEN NodePrev(t, at[1]) ELSE at[1]

\* Mutant: to the right of a node nothing is compared.
AcceptsRight(n) ==
    LET at == Position(t, n)
    IN  \/ multi
        \/ at[2] = "R" \/ at[1] = Lmst(t)
        \/ Below(Before(n), KeyOf[n])

\* rb_insert_node: a tree without duplicates takes n only if the node in front
\* of it has a smaller key
Accepts(n) ==
    LET at == Position(t, n)
    IN  \/ multi
        \/ at[2] = "L" /\ at[1] = Lmst(t)
        \/ Below(Before(n), KeyOf[n])

\* rb_insert
Insert(n) ==
    /\ pc = "idle" /\ job = "none"
    /\ n \notin linked
    /\ IF Accepts(n)
       THEN /\ t' = Link(t, n, Position(t, n)[1], Position(t, n)[2])
            /\ pc' = "ifix"
            /\ fix' = n
            /\ linked' = linked \cup {n}
       ELSE UNCHANGED <<t, pc, fix, linked>>
    /\ elems' = IF ~multi /\ \E m \in elems : KeyOf[m] = KeyOf[n]
                THEN elems ELSE elems \cup {n}
    /\ UNCHANGED <<multi, size, fixparent, job, cur, stop>>

\* Mutant: a red uncle stays red.
InsertFixRedUncle(u, x) ==
    LET p == u.parent[x]
        g == u.parent[p]
        s == IF u.kid["L"][g] = p THEN "L" ELSE "R"
        inner == x = u.kid[Other(s)][p]
        v == IF inner THEN Rotate(u, s, p) ELSE u
        y == IF inner THEN p ELSE x
    IN  IF u.kid[Other(s)][g] \in u.red THEN <<Paint(u, {p}, {g}), g>>
        ELSE <<Rotate(Paint(v, {v.parent[y]}, {g}), Other(s), g), y>>

\* one iteration of the recolouring loop of impl_node_insert: the parent p of
\* the red node x is red as well
InsertFixStep(u, x) ==
    LET p == u.parent[x]
        g == u.parent[p]
        s == IF u.kid["L"][g] = p THEN "L" ELSE "R"
        uncle == u.kid[Other(s)][g]
    IN  IF uncle \in u.red
        THEN <<Paint(u, {p, uncle}, {g}), g>>
        ELSE LET inner == x = u.kid[Other(s)][p]
                 v  == IF inner THEN Rotate(u, s, p) ELSE u
                 y  == IF inner THEN p ELSE x
                 py == v.parent[y]
                 gy == v.parent[py]
             IN  <<Rotate(Paint(v, {py}, {gy}), Other(s), gy), y>>

InsertFix ==
    /\ pc = "ifix"
    /\ t.parent[fix] \in t.red
    /\ t' = InsertFixStep(t, fix)[1]
    /\ fix' = InsertFixStep(t, fix)[2]
    /\ UNCHANGED <<multi, size, pc, fixparent, job, cur, stop, linked, elems>>

InsertDone ==
    /\ pc = "ifix"
    /\ t.parent[fix] \notin t.red
    /\ t' = Paint(t, {Root(t)}, {})
    /\ size' = size + 1
    /\ pc' = "idle"
    /\ fix' = Head
    /\ UNCHANGED <<multi, fixparent, job, cur, stop, linked, elems>>

-----------------------------------------------------------------------------
(* Erasure. *)

\* rb_erase_node up to its loop, which only a black position needs
StartErase(e) ==
    LET r == Unlink(t, e)
    IN  /\ t' = r[1]
        /\ linked' = linked \ {e}
        /\ IF r[4]
           THEN /\ pc' = "efix" /\ fix' = r[2] /\ fixparent' = r[3]
                /\ UNCHANGED size
           ELSE /\ size' = size - 1
                /\ UNCHANGED <<pc, fix, fixparent>>

\* rb_erase of one node
Erase(e) ==
    /\ pc = "idle" /\ job = "none"
    /\ e \in linked
    /\ StartErase(e)
    /\ elems' = elems \ {e}
    /\ UNCHANGED <<multi, job, cur, stop>>

\* one iteration of the loop of rb_erase_node: links, fixnode, and whether the
\* iteration ends in break
EraseFixStep(u, x, up) ==
    LET s  == IF u.kid["L"][up] = x THEN "L" ELSE "R"
        o  == Other(s)
        w0 == u.kid[o][up]
        v  == IF w0 \in u.red THEN Rotate(Paint(u, {w0}, {up}), s, up) ELSE u
        w  == v.kid[o][up]
    IN  IF w = Head THEN <<v, up, FALSE>>
        ELSE IF v.kid["L"][w] \notin v.red /\ v.kid["R"][w] \notin v.red
        THEN <<Paint(v, {}, {w}), up, FALSE>>
        ELSE LET near == v.kid[o][w] \notin v.red
                 v1 == IF near THEN Rotate(Paint(v, {v.kid[s][w]}, {w}), o, w) ELSE v
                 w1 == v1.kid[o][up]
                 v2 == Paint(v1, {up, w1, v1.kid[o][w1]}, IF up \in v1.red THEN {w1} ELSE {})
             IN  <<Rotate(v2, s, up), x, TRUE>>

\* after the loop: fixnode becomes black and rb_erase_node returns
EraseEnd(u, x) ==
    /\ t' = Paint(u, {x}, {})
    /\ size' = size - 1
    /\ pc' = "idle"
    /\ fix' = Head /\ fixparent' = Head

LoopGoes == fix # Root(t) /\ fix \notin t.red

EraseFix ==
    /\ pc = "efix"
    /\ LoopGoes
    /\ LET r == EraseFixStep(t, fix, fixparent)
       IN  IF r[3] THEN EraseEnd(r[1], r[2])
           ELSE /\ t' = r[1]
                /\ fix' = r[2]
                /\ fixparent' = r[1].parent[r[2]]
                /\ UNCHANGED <<size, pc>>
    /\ UNCHANGED <<multi, job, cur, stop, linked, elems>>

EraseDone ==
    /\ pc = "efix"
    /\ ~LoopGoes
    /\ EraseEnd(t, fix)
    /\ UNCHANGED <<multi, job, cur, stop, linked, elems>>

-----------------------------------------------------------------------------
(* The calls that erase several nodes. *)

\* rb_clear: the nodes are forgotten, not visited
Clear ==
    /\ t' = HeadInit
    /\ size' = 0
    /\ linked' = {}

\* rb_erase_range and rb_erase_rgcnt over [b, e)
EraseRange(b, e) ==
    /\ pc = "idle" /\ job = "none"
    /\ b # e
    /\ IF b = Lmst(t) /\ e = Head
       THEN /\ Clear
            /\ elems' = {}
            /\ UNCHANGED <<job, cur, stop>>
       ELSE /\ job' = "range" /\ cur' = b /\ stop' = e
            /\ elems' = {n \in elems : \/ KeyOf[n] < KeyOf[b]
                                       \/ e # Head /\ KeyOf[n] >= KeyOf[e]}
            /\ UNCHANGED <<t, size, linked>>
    /\ UNCHANGED <<multi, pc, fix, fixparent>>

\* rb_erase_val: everything with key k
EraseVal(k) == EraseRange(EqRange(t, k)[1], EqRange(t, k)[2])

\* rb_clear_free
ClearFree ==
    /\ pc = "idle" /\ job = "none"
    /\ size # 0
    /\ job' = "free" /\ cur' = Lmst(t) /\ stop' = Head
    /\ UNCHANGED <<multi, t, size, pc, fix, fixparent, linked, elems>>

\* the node after cur; both callers take it before cur is unlinked
Following == NodeNext(t, cur)

\* the loop body of rb_erase_range or rb_clear_free: the second frees the node
EraseNext ==
    /\ pc = "idle" /\ job # "none"
    /\ cur # stop
    /\ StartErase(cur)
    /\ cur' = Following
    /\ elems' = IF job = "free" THEN elems \ {cur} ELSE elems
    /\ UNCHANGED <<multi, job, stop>>

\* the loop is over; rb_clear_free ends with rb_clear
EraseAllDone ==
    /\ pc = "idle" /\ job # "none"
    /\ cur = stop
    /\ IF job = "free" THEN Clear ELSE UNCHANGED <<t, size, linked>>
    /\ job' = "none" /\ cur' = Head /\ stop' = Head
    /\ UNCHANGED <<multi, pc, fix, fixparent, elems>>

Next ==
    \/ \E n \in Nodes : Insert(n) \/ Erase(n)
    \/ InsertFix \/ InsertDone
    \/ EraseFix \/ EraseDone
    \/ \E k \in {KeyOf[n] : n \in Nodes} : EraseVal(k)
    \/ \E k \in {KeyOf[n] : n \in Nodes} : EraseRange(LowerBound(t, k), Head)
    \/ ClearFree \/ EraseNext \/ EraseAllDone

Spec == Init /\ [][Next]_vars

-----------------------------------------------------------------------------
(* Properties. *)

\* the nodes from n up to the root
Path(n) ==
    LET up[x \in Places, i \in 0..Cardinality(Nodes)] ==
            {x} \cup (IF x = Head \/ i = 0 THEN {} ELSE up[t.parent[x], i - 1])
    IN  up[n, Cardinality(Nodes)]

\* In every state, inside the rebalancing loops as well, the parent and child
\* pointers of the linked nodes agree with each other, every node hangs below
\* the root, and the subtree on either side of a node holds keys of that side
\* only (impl_rotate_left, impl_rotate_right, rb_erase_node's relinking).
SearchTree ==
    /\ (linked = {}) <=> (Root(t) = Head)
    /\ Root(t) \in linked \cup {Head}
    /\ Root(t) # Head => t.parent[Root(t)] = Head
    /\ \A n \in linked, s \in Sides :
          LET c == t.kid[s][n] IN c # Head => c \in linked /\ t.parent[c] = n
    /\ \A n \in linked :
          /\ {Root(t), Head} \subseteq Path(n)
          /\ \A a \in Path(n) \ {Head, n} :
                \/ t.kid["L"][a] \in Path(n) /\ KeyOf[n] <= KeyOf[a]
                \/ t.kid["R"][a] \in Path(n) /\ KeyOf[n] >= KeyOf[a]

\* Between calls the colours are those of a red-black tree: the root and the
\* head are black, no red node has a red parent, and every path from the root
\* to a leaf passes the same number of black nodes, so the depth stays
\* logarithmic (the loops of impl_node_insert and rb_erase_node).
Balanced ==
    pc = "idle" =>
        /\ {Root(t), Head} \cap t.red = {}
        /\ \A n \in linked : n \in t.red => t.parent[n] \notin t.red
        /\ \A m, n \in linked :
              (\E s \in Sides : t.kid[s][m] = Head) /\ (\E s \in Sides : t.kid[s][n] = Head)
              => Cardinality(Path(m) \ t.red) = Cardinality(Path(n) \ t.red)

\* Both: the pointers in every state, the colours between calls.
TreeSound == SearchTree /\ Balanced

\* the reference: the members in key order, with the head as the end
FirstOf(S) == IF S = {} THEN Head ELSE CHOOSE n \in S : \A m \in S : KeyOf[n] <= KeyOf[m]
KeyHere(n) == IF n = Head THEN 0 ELSE KeyOf[n]

\* Between calls the tree answers like the sorted set of the nodes its callers
\* put in and did not take out: size, rb_lmst, rb_rmst, rb_find, rb_lbnd,
\* rb_ubnd, rb_eqrange, rb_vcnt, rb_next and rb_prev; a call that erases several
\* nodes erased exactly those, and without _multi no key occurs twice.
AnswersLikeASet ==
    pc = "idle" /\ job = "none" =>
        /\ linked = elems
        /\ size = Cardinality(elems)
        /\ KeyHere(Lmst(t)) = KeyHere(FirstOf(elems))
        /\ \A n \in elems : KeyOf[n] <= KeyOf[Rmst(t)]
        /\ \A k \in {KeyOf[n] : n \in Nodes} :
              LET same == {n \in elems : KeyOf[n] = k}
                  above == {n \in elems : KeyOf[n] > k}
              IN  /\ multi \/ Cardinality(same) <= 1
                  /\ Find(t, k) \in (IF same = {} THEN {Head} ELSE same)
                  /\ KeyHere(LowerBound(t, k)) = KeyHere(FirstOf(same \cup above))
                  /\ KeyHere(UpperBound(t, k)) = KeyHere(FirstOf(above))
                  /\ EqRange(t, k) = <<LowerBound(t, k), UpperBound(t, k)>>
                  /\ Dist(t, EqRange(t, k)[1], EqRange(t, k)[2]) = Cardinality(same)
        /\ \A n \in elems :
              /\ LET nx == NodeNext(t, n)
                 IN  IF nx = Head THEN n = Rmst(t)
                     ELSE KeyOf[n] <= KeyOf[nx] /\ NodePrev(t, nx) = n
=============================================================================
