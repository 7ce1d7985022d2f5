----------------------------- MODULE VirtioProof -----------------------------
(***************************************************************************)
(* Proofs about the three drivers of virtio devices, for any size of the   *)
(* queues and any multiple of it at which the ring indices wrap.           *)
(*                                                                         *)
(* VirtioDisk: Chains says which descriptors a request has.  Handed        *)
(* follows a request through the avail ring, the device and the used ring: *)
(* the entries between two indices are the heads of different requests,    *)
(* and no request is in two of the three places.  Counts is why the rings  *)
(* never overtake themselves: a request takes three descriptors and one    *)
(* entry.                                                                  *)
(*                                                                         *)
(* VirtioGpu: the same with chains of two or three; the rings have room    *)
(* because different heads, each with a second descriptor, are fewer than  *)
(* the descriptors.  OnPlan says how far a task has come with its          *)
(* commands, and what the device has done for it by then.                  *)
(*                                                                         *)
(* Input: the ring indices are two counts, cut to their width; the events  *)
(* between the counts are in the cells they were written to.               *)
(***************************************************************************)
EXTENDS VirtioDisk, VirtioGpu, Input,
        FiniteSetTheorems, SequenceTheorems, WellFoundedInduction, TLAPS

(* Indices that wrap *)

LEMMA InRange == ASSUME NEW n \in Nat \ {0}, NEW a \in Int PROVE a % n \in 0..n - 1
OBVIOUS

LEMMA Division == ASSUME NEW n \in Nat \ {0}, NEW a \in Int PROVE a = (a \div n) * n + (a % n)
OBVIOUS

LEMMA Remainder ==
  ASSUME NEW n \in Nat \ {0}, NEW a \in Int, NEW q \in Int, NEW r \in 0..n - 1, a = q * n + r
  PROVE  a % n = r
OBVIOUS

\* A product with q is 0 or as large as n.
LEMMA Product ==
  ASSUME NEW n \in Nat \ {0}, NEW q \in Int, q # 0 PROVE q * n >= n \/ q * n <= -n
OBVIOUS

LEMMA Distributes ==
  ASSUME NEW n \in Nat \ {0}, NEW q \in Int, NEW p \in Int
  PROVE  q * n - p * n = (q - p) * n /\ q * n + p * n = (q + p) * n
OBVIOUS

\* Adding a multiple does not change the remainder.
LEMMA Multiple ==
  ASSUME NEW n \in Nat \ {0}, NEW a \in Int, NEW q \in Int, NEW c \in Int, c = a + q * n
  PROVE  c % n = a % n
<1>1. a \div n \in Int /\ a % n \in 0..n - 1 /\ a = (a \div n) * n + (a % n)
  BY InRange, Division
<1>2. PICK p \in Int, r \in 0..n - 1 : r = a % n /\ a = p * n + r
  BY <1>1
<1>3. p * n \in Int /\ q * n \in Int /\ p * n + q * n = (p + q) * n
  BY Distributes
<1>4. PICK z \in Int : z = p + q
  OBVIOUS
<1>5. c = z * n + r
  BY <1>2, <1>3, <1>4
<1>6. c % n = r
  BY <1>5, Remainder, Zenon
<1> QED
  BY <1>2, <1>6


\* A remainder is the number itself, less a multiple.
LEMMA Residue == ASSUME NEW n \in Nat \ {0}, NEW a \in Int PROVE \E q \in Int : a % n = a + q * n
<1>1. a \div n \in Int /\ a % n \in Int /\ a = (a \div n) * n + (a % n)
  BY InRange, Division
<1>2. PICK p \in Int, r \in Int : r = a % n /\ a = p * n + r
  BY <1>1
<1>3. -p \in Int /\ (-p) * n = -(p * n) /\ p * n \in Int
  OBVIOUS
<1>4. r = a + (-p) * n
  BY <1>2, <1>3
<1> QED
  BY <1>2, <1>3, <1>4

\* Numbers that differ by a multiple have the same remainder, also after a
\* number is added.
LEMMA SameResidue ==
  ASSUME NEW n \in Nat \ {0}, NEW a \in Int, NEW d \in Int
  PROVE  ((a % n) + d) % n = (a + d) % n /\ (d - (a % n)) % n = (d - a) % n
<1>1. PICK q \in Int : a % n = a + q * n
  BY Residue
<1>2. PICK p \in Int : p = -q
  OBVIOUS
<1>3. PICK h \in Int : h = q * n /\ -h = p * n
  BY <1>2
<1>4. PICK g \in Int : g = a % n /\ g = a + h
  BY <1>1, <1>3
<1>5. PICK x \in Int, y \in Int, u \in Int, v \in Int :
        x = a + d /\ y = d - a /\ u = g + d /\ v = d - g
  OBVIOUS
<1>6. u = x + h /\ v = y + (-h)
  BY <1>4, <1>5
<1>9. u = x + q * n /\ v = y + p * n
  BY <1>3, <1>6, Zenon
<1>7. u % n = x % n
  BY <1>9, Multiple, Zenon
<1>8. v % n = y % n
  BY <1>9, Multiple, Zenon
<1>10. (a % n) + d = u /\ d - (a % n) = v
  BY <1>4, <1>5, Zenon
<1>11. ((a % n) + d) % n = u % n /\ (d - (a % n)) % n = v % n
  BY <1>10, Zenon
<1>12. (a + d) % n = x % n /\ (d - a) % n = y % n
  BY <1>5, Zenon
<1> QED
  BY <1>7, <1>8, <1>11, <1>12, Zenon

LEMMA SmallResidue == ASSUME NEW n \in Nat \ {0}, NEW a \in 0..n - 1 PROVE a % n = a
<1>1. a \in Int /\ a = 0 * n + a /\ 0 \in Int
  OBVIOUS
<1> QED
  BY <1>1, Remainder

\* Numbers closer than n with the same remainder are the same.
LEMMA ApartResidue ==
  ASSUME NEW n \in Nat \ {0}, NEW a \in Int, NEW b \in Int, a - b < n, b - a < n, a % n = b % n
  PROVE  a = b
<1>1. PICK p \in Int : a % n = a + p * n
  BY Residue
<1>2. PICK q \in Int : b % n = b + q * n
  BY Residue
<1>3. p * n \in Int /\ q * n \in Int /\ q * n - p * n = (q - p) * n
  BY Distributes
<1>4. (q - p) * n = a - b
  BY <1>1, <1>2, <1>3
<1>5. q - p # 0 => (q - p) * n >= n \/ (q - p) * n <= -n
  BY Product
<1>6. q - p = 0
  BY <1>4, <1>5
<1>7. (q - p) * n = 0
  BY <1>6
<1> QED
  BY <1>4, <1>7

\* How far one ring index is ahead of another.
LEMMA AheadBy ==
  ASSUME NEW n \in Nat \ {0}, NEW a \in Int, NEW b \in Int, 0 <= a - b, a - b < n
  PROVE  ((a % n) - (b % n)) % n = a - b
<1>1. PICK c \in Int : c = b % n
  BY InRange
<1>2. PICK x \in Int : x = a - b
  OBVIOUS
<1>3. PICK d \in Int : d = -c
  BY <1>1
<1>7. ((a % n) + d) % n = (a + d) % n
  BY <1>3, SameResidue, Zenon
<1>4. (a - (b % n)) % n = (a - b) % n
  BY SameResidue
<1>5. PICK e \in Int : e = a % n
  BY InRange
<1>8. e + d = e - c /\ a + d = a - c
  BY <1>3
<1>10. (a % n) - (b % n) = (a % n) + d /\ a - (b % n) = a + d
  BY <1>1, <1>5, <1>8, Zenon
<1>11. ((a % n) - (b % n)) % n = ((a % n) + d) % n /\ (a - (b % n)) % n = (a + d) % n
  BY <1>10, Zenon
<1>12. (a - b) % n = x % n
  BY <1>2, Zenon
<1>6. ((a % n) - (b % n)) % n = x % n
  BY <1>4, <1>7, <1>11, <1>12, Zenon
<1>9. x % n = x
  BY <1>2, SmallResidue
<1> QED
  BY <1>2, <1>6, <1>9

LEMMA OneLess ==
  ASSUME NEW n \in Nat \ {0}, NEW a \in Int, a % n # 0
  PROVE  (a - 1) % n = (a % n) - 1
<1>1. PICK c \in 0..n - 1 : c = a % n
  BY InRange
<1>5. PICK d \in Int : d = -1
  OBVIOUS
<1>6. ((a % n) + d) % n = (a + d) % n
  BY <1>5, SameResidue, Zenon
<1>2. (a % n) + d = c - 1 /\ a + d = a - 1
  BY <1>1, <1>5
<1>3. c - 1 \in 0..n - 1
  BY <1>1
<1>4. (c - 1) % n = c - 1
  BY <1>3, SmallResidue
<1> QED
  BY <1>1, <1>2, <1>4, <1>6, Zenon

\* A ring index wraps at a multiple of the ring's size: it names the same cell
\* as the number it stands for.
LEMMA SameCell ==
  ASSUME NEW n \in Nat \ {0}, NEW k \in Int, NEW m \in Nat \ {0}, m = k * n, NEW a \in Int
  PROVE  (a % m) % n = a % n
<1>1. PICK q \in Int : a % m = a + q * m
  BY Residue
<1>2. q * m = (q * k) * n
  OBVIOUS
<1>3. PICK z \in Int : z = q * k
  OBVIOUS
<1>4. PICK x \in Int : x = a % m
  BY <1>1
<1>5. x = a + z * n
  BY <1>1, <1>2, <1>3, <1>4
<1>6. x % n = a % n
  BY <1>5, Multiple, Zenon
<1> QED
  BY <1>4, <1>6

\* The index after a; how far a is ahead of b; the cell of the k-th entry from a.
After(m, a) == (a + 1) % m
Ahead(m, a, b) == (a - b) % m
Place(n, a, k) == (a + k) % n
MultipleOf(m, n) == \E w \in Int : m = w * n

LEMMA AfterDef ==
  ASSUME NEW m \in Nat \ {0}, NEW a \in 0..m - 1
  PROVE  After(m, a) = IF a = m - 1 THEN 0 ELSE a + 1
<1>1. m \in Nat \ {0} /\ a \in Int
  OBVIOUS
<1>2. CASE a = m - 1
  <2>1. a + 1 = 1 * m + 0 /\ 0 \in 0..m - 1
    BY <1>1, <1>2
  <2>2. (a + 1) % m = 0
    BY <1>1, <2>1, Remainder
  <2> QED
    BY <1>2, <2>1, <2>2 DEF After
<1>3. CASE a # m - 1
  <2>1. a + 1 = 0 * m + (a + 1) /\ a + 1 \in 0..m - 1
    BY <1>1, <1>3
  <2>2. (a + 1) % m = a + 1
    BY <1>1, <2>1, Remainder
  <2> QED
    BY <1>3, <2>1, <2>2 DEF After
<1> QED
  BY <1>2, <1>3

LEMMA AheadDef ==
  ASSUME NEW m \in Nat \ {0}, NEW a \in 0..m - 1, NEW b \in 0..m - 1
  PROVE  Ahead(m, a, b) = IF b <= a THEN a - b ELSE a - b + m
<1>1. m \in Nat \ {0} /\ a \in Int /\ b \in Int
  OBVIOUS
<1>2. CASE b <= a
  <2>1. a - b = 0 * m + (a - b) /\ a - b \in 0..m - 1
    BY <1>1, <1>2
  <2>2. (a - b) % m = a - b
    BY <1>1, <2>1, Remainder
  <2> QED
    BY <1>2, <2>1, <2>2 DEF Ahead
<1>3. CASE ~(b <= a)
  <2>1. a - b = (-1) * m + (a - b + m) /\ a - b + m \in 0..m - 1
    BY <1>1, <1>3
  <2>2. (a - b) % m = a - b + m
    BY <1>1, <2>1, Remainder
  <2> QED
    BY <1>3, <2>1, <2>2 DEF Ahead
<1> QED
  BY <1>2, <1>3

LEMMA RingMoves ==
  ASSUME NEW m \in Nat \ {0}, NEW a \in 0..m - 1, NEW b \in 0..m - 1
  PROVE  /\ After(m, a) \in 0..m - 1 /\ Ahead(m, a, b) \in Nat
         /\ Ahead(m, a, b) = 0 <=> a = b
         /\ Ahead(m, a, b) + 1 < m => Ahead(m, After(m, a), b) = Ahead(m, a, b) + 1
         /\ a # b => Ahead(m, a, After(m, b)) = Ahead(m, a, b) - 1
<1>1. m \in Nat \ {0}
  OBVIOUS
<1>2. After(m, a) \in 0..m - 1 /\ After(m, b) \in 0..m - 1
  BY <1>1, AfterDef
<1>3. Ahead(m, a, b) = IF b <= a THEN a - b ELSE a - b + m
  BY AheadDef
<1>4. Ahead(m, After(m, a), b) = IF b <= After(m, a) THEN After(m, a) - b ELSE After(m, a) - b + m
  BY <1>2, AheadDef
<1>5. Ahead(m, a, After(m, b)) = IF After(m, b) <= a THEN a - After(m, b) ELSE a - After(m, b) + m
  BY <1>2, AheadDef
<1>6. After(m, a) = (IF a = m - 1 THEN 0 ELSE a + 1) /\ After(m, b) = (IF b = m - 1 THEN 0 ELSE b + 1)
  BY AfterDef
<1> QED
  BY <1>1, <1>2, <1>3, <1>4, <1>5, <1>6

LEMMA RingPlaces ==
  ASSUME NEW m \in Nat \ {0}, NEW a \in 0..m - 1, NEW b \in 0..m - 1, NEW n \in Nat \ {0}, MultipleOf(m, n)
  PROVE  /\ \A k \in Nat : Place(n, a, k) \in 0..n - 1 /\ Place(n, After(m, a), k) = Place(n, a, k + 1)
         /\ Place(n, b, Ahead(m, a, b)) = a % n /\ Place(n, a, 0) = a % n
         /\ \A i, j \in 0..n - 1 : i # j => Place(n, a, i) # Place(n, a, j)
<1>1. m \in Nat \ {0} /\ n \in Nat \ {0} /\ a \in Int /\ b \in Int
  OBVIOUS
<1>2. PICK w \in Int : m = w * n
  BY DEF MultipleOf
<1>3. ASSUME NEW k \in Nat PROVE Place(n, a, k) \in 0..n - 1
  <2>1. PICK c \in Int : c = a + k
    BY <1>1
  <2>2. c % n \in 0..n - 1
    BY InRange
  <2> QED
    BY <2>1, <2>2, Zenon DEF Place
<1>4. ASSUME NEW k \in Nat PROVE Place(n, After(m, a), k) = Place(n, a, k + 1)
  <2>1. CASE a = m - 1
    <3>1. After(m, a) = 0
      BY <2>1, AfterDef
    <3>2. a + (k + 1) = k + w * n
      BY <1>1, <1>2, <2>1
    <3>3. PICK c \in Int : c = a + (k + 1)
      BY <1>1
    <3>4. c % n = k % n
      <4>1. k \in Int /\ c = k + w * n
        BY <3>2, <3>3
      <4> QED
        BY <1>1, <4>1, Multiple, Zenon
    <3> QED
      BY <1>1, <3>1, <3>3, <3>4 DEF Place
  <2>2. CASE a # m - 1
    BY <1>1, <2>2, AfterDef DEF Place
  <2> QED
    BY <2>1, <2>2
<1>5. Place(n, b, Ahead(m, a, b)) = a % n
  <2>1. CASE b <= a
    BY <1>1, <2>1, AheadDef DEF Place
  <2>2. CASE ~(b <= a)
    <3>1. b + Ahead(m, a, b) = a + w * n
      BY <1>1, <1>2, <2>2, AheadDef
    <3>2. PICK c \in Int : c = b + Ahead(m, a, b)
      BY <1>1, <2>2, AheadDef
    <3>3. c % n = a % n
      <4>1. c = a + w * n
        BY <3>1, <3>2
      <4> QED
        BY <1>1, <4>1, Multiple, Zenon
    <3> QED
      BY <3>2, <3>3 DEF Place
  <2> QED
    BY <2>1, <2>2
<1>6. ASSUME NEW i \in 0..n - 1, NEW j \in 0..n - 1, Place(n, a, i) = Place(n, a, j)
      PROVE  i = j
  <2>1. a + i \in Int /\ a + j \in Int /\ i \in Int /\ j \in Int
    BY <1>1
  <2>2. /\ (a + i) \div n \in Int /\ (a + j) \div n \in Int /\ (a + i) % n \in 0..n - 1
        /\ (a + i) % n = (a + j) % n
    <3>1. PICK c \in Int, d \in Int : c = a + i /\ d = a + j
      BY <2>1
    <3>2. c \div n \in Int /\ d \div n \in Int
      OBVIOUS
    <3>3. c % n \in 0..n - 1
      BY InRange
    <3> QED
      BY <1>6, <3>1, <3>2, <3>3, Zenon DEF Place
  <2>3. /\ a + i = ((a + i) \div n) * n + ((a + i) % n)
        /\ a + j = ((a + j) \div n) * n + ((a + j) % n)
    BY <1>1, <2>1, Division
  <2>4. PICK p \in Int, q \in Int, r \in 0..n - 1 : a + i = p * n + r /\ a + j = q * n + r
    BY <2>2, <2>3, Zenon
  <2>5. p * n \in Int /\ q * n \in Int /\ p * n - q * n = (p - q) * n
    BY <1>1, Distributes
  <2>6. (p - q) * n = i - j
    BY <1>1, <2>1, <2>4, <2>5
  <2>7. p - q # 0 => (p - q) * n >= n \/ (p - q) * n <= -n
    BY <1>1, Product
  <2>8. p - q = 0
    BY <1>1, <2>6, <2>7
  <2> QED
    BY <1>1, <2>1, <2>4, <2>8
<1>7. Place(n, a, 0) = a % n
  BY <1>1 DEF Place
<1> QED
  BY <1>3, <1>4, <1>5, <1>6, <1>7

LEMMA HasSmallest == ASSUME NEW S, S \subseteq Nat, S # {} PROVE \E x \in S : \A y \in S : x <= y
<1> DEFINE R == {ss \in Nat \X Nat : ss[1] < ss[2]}
<1>1. IsWellFoundedOn(R, Nat)
  BY NatLessThanWellFounded DEF OpToRel
<1> HIDE DEF R
<1>2. PICK x \in S : \A y \in S : ~(<<y, x>> \in R)
  BY <1>1, WFMin
<1>3. ASSUME NEW y \in S PROVE x <= y
  <2>1. x \in Nat /\ y \in Nat
    OBVIOUS
  <2>2. y < x => <<y, x>> \in R
    BY <2>1 DEF R
  <2> QED
    BY <1>2, <2>1, <2>2
<1> QED
  BY <1>3
-----------------------------------------------------------------------------
(* The disk *)

Idx == 0..IdxMod - 1
Suc(a) == After(IdxMod, a)
Dist(a, b) == Ahead(IdxMod, a, b)
Pos(a, k) == Place(NUM, a, k)

\* The entries that are in the avail ring, and in the used ring.
NA == Dist(aidx, seen)
NU == Dist(uidx, used_idx)
Q(k) == ring[Pos(seen, k)]
U(k) == uring[Pos(used_idx, k)]

PCs == {"idle", "alloc", "nodesc", "publish", "wait", "woken"}

Shape ==
    /\ free \subseteq Desc
    /\ next \in [Desc -> Desc \cup {None}]
    /\ info = [d \in Desc |-> info[d]] /\ \A d \in Desc : DOMAIN info[d] = {"b", "status"}
    /\ busy \subseteq Live
    /\ ring \in [Desc -> Desc \cup {None}] /\ uring \in [Desc -> Desc \cup {None}]
    /\ aidx \in Idx /\ uidx \in Idx /\ used_idx \in Idx /\ seen \in Idx
    /\ taken \subseteq Desc
    /\ lk \in Tasks \cup {"intr", Nobody}
    /\ pc \in [Tasks -> PCs]
    /\ head \in [Tasks -> Desc \cup {None}]
    /\ panicked = FALSE
    /\ \A t \in Tasks : pc[t] = "publish" <=> lk = t

\* The three descriptors of a request.
Second(t) == next[head[t]]
Third(t) == next[Second(t)]
Own(t) == {head[t], Second(t), Third(t)}

Chains ==
    /\ \A t \in Live : /\ head[t] \in Desc /\ Second(t) \in Desc /\ Third(t) \in Desc
                       /\ head[t] # Second(t) /\ head[t] # Third(t) /\ Second(t) # Third(t)
                       /\ Own(t) \cap free = {}
                       /\ info[head[t]].b = t
    /\ \A t, u \in Live : t # u => Own(t) \cap Own(u) = {}
    /\ Cardinality(free) + 3 * Cardinality(Live) = NUM

\* d is the head of a request that the device has still to finish or the
\* handler to see.
Owned(d) ==
    /\ d \in Desc
    /\ info[d].b \in busy /\ head[info[d].b] = d
    /\ pc[info[d].b] \in {"wait", "woken"}

Handed ==
    /\ \A k \in 0..NA - 1 : Owned(Q(k)) /\ Q(k) \notin taken
    /\ \A d \in taken : Owned(d)
    /\ \A k \in 0..NU - 1 : /\ Owned(U(k)) /\ U(k) \notin taken
                            /\ info[U(k)].status = 0 /\ info[U(k)].b \in served
    /\ \A i, j \in 0..NA - 1 : i # j => Q(i) # Q(j)
    /\ \A i, j \in 0..NU - 1 : i # j => U(i) # U(j)
    /\ \A i \in 0..NA - 1, j \in 0..NU - 1 : Q(i) # U(j)
    /\ \A t \in Tasks : pc[t] = "publish" => ring[AvailEntry] = head[t] /\ t \in busy
    /\ \A t \in Live \ busy : t \in served

Publishing == IF lk \in Tasks THEN 1 ELSE 0

Counts == NA + Publishing + Cardinality(taken) + NU = Cardinality(busy)

Inv == Shape /\ Chains /\ Handed /\ Counts
-----------------------------------------------------------------------------
(* Its ring indices *)

LEMMA Bounds == /\ NUM \in Nat \ {0} /\ IdxMod \in Nat \ {0} /\ NUM <= IdxMod
                /\ MultipleOf(IdxMod, NUM)
<1>1. NUM \in Nat \ {0} /\ IdxMod \in Nat
  BY VirtioDiskAssumption
<1>2. PICK k \in 1..IdxMod : IdxMod = k * NUM
  BY VirtioDiskAssumption
<1>3. k \in Nat /\ k >= 1
  BY <1>1, <1>2
<1>4. k * NUM >= NUM
  BY <1>1, <1>3
<1> QED
  BY <1>1, <1>2, <1>3, <1>4 DEF MultipleOf

LEMMA IndexMoves ==
  ASSUME NEW a \in Idx, NEW b \in Idx
  PROVE  /\ Suc(a) \in Idx /\ Dist(a, b) \in Nat
         /\ Dist(a, b) = 0 <=> a = b
         /\ Dist(a, b) + 1 < IdxMod => Dist(Suc(a), b) = Dist(a, b) + 1
         /\ a # b => Dist(a, Suc(b)) = Dist(a, b) - 1
<1>1. PICK m \in Nat \ {0} : m = IdxMod
  BY Bounds
<1>2. a \in 0..m - 1 /\ b \in 0..m - 1
  BY <1>1 DEF Idx
<1>3. /\ After(m, a) \in 0..m - 1 /\ Ahead(m, a, b) \in Nat
      /\ Ahead(m, a, b) = 0 <=> a = b
      /\ Ahead(m, a, b) + 1 < m => Ahead(m, After(m, a), b) = Ahead(m, a, b) + 1
      /\ a # b => Ahead(m, a, After(m, b)) = Ahead(m, a, b) - 1
  BY <1>2, RingMoves
<1> QED
  BY <1>1, <1>3, Zenon DEF Idx, Suc, Dist

LEMMA Positions ==
  ASSUME NEW a \in Idx, NEW b \in Idx
  PROVE  /\ \A k \in Nat : Pos(a, k) \in Desc /\ Pos(Suc(a), k) = Pos(a, k + 1)
         /\ Pos(b, Dist(a, b)) = a % NUM /\ Pos(a, 0) = a % NUM
         /\ \A i, j \in 0..NUM - 1 : i # j => Pos(a, i) # Pos(a, j)
<1>1. PICK m \in Nat \ {0}, n \in Nat \ {0} : m = IdxMod /\ n = NUM /\ MultipleOf(m, n)
  BY Bounds
<1>2. a \in 0..m - 1 /\ b \in 0..m - 1 /\ Desc = 0..n - 1
  BY <1>1 DEF Idx, Desc
<1>3. MultipleOf(m, n)
  BY <1>1
<1>4. /\ \A k \in Nat : Place(n, a, k) \in 0..n - 1 /\ Place(n, After(m, a), k) = Place(n, a, k + 1)
      /\ Place(n, b, Ahead(m, a, b)) = a % n /\ Place(n, a, 0) = a % n
      /\ \A i, j \in 0..n - 1 : i # j => Place(n, a, i) # Place(n, a, j)
  BY ZenonT(40), <1>2, <1>3, RingPlaces
<1> QED
  BY <1>1, <1>2, <1>4, Zenon DEF Suc, Dist, Pos
-----------------------------------------------------------------------------
(* Sets of descriptors and requests *)

LEMMA LowestIn == ASSUME NEW S, S \subseteq Nat, S # {} PROVE Lowest(S) \in S
BY HasSmallest DEF Lowest

LEMMA DescFinite == IsFiniteSet(Desc) /\ Desc \subseteq Nat /\ None \notin Desc /\ Cardinality(Desc) = NUM
<1>1. NUM \in Nat \ {0}
  BY Bounds
<1>2. 0 \in Int /\ NUM - 1 \in Int
  BY <1>1
<1>3. IsFiniteSet(0..NUM - 1) /\ Cardinality(0..NUM - 1) = NUM
  BY <1>1, <1>2, FS_Interval
<1> QED
  BY <1>1, <1>3 DEF Desc, None

LEMMA SetsFinite ==
  ASSUME Inv
  PROVE  /\ IsFiniteSet(Tasks) /\ IsFiniteSet(Live) /\ IsFiniteSet(busy) /\ IsFiniteSet(free)
         /\ IsFiniteSet(taken)
         /\ Cardinality(Live) \in Nat /\ Cardinality(busy) \in Nat /\ Cardinality(free) \in Nat
         /\ Cardinality(taken) \in Nat /\ Cardinality(busy) <= Cardinality(Live)
<1>1. IsFiniteSet(Tasks)
  BY VirtioDiskAssumption
<1>2. Live \in SUBSET Tasks /\ busy \in SUBSET Live /\ free \in SUBSET Desc /\ taken \in SUBSET Desc
  BY DEF Live, Inv, Shape
<1>3. IsFiniteSet(Live) /\ IsFiniteSet(free) /\ IsFiniteSet(taken)
  BY <1>1, <1>2, DescFinite, FS_Subset
<1>4. IsFiniteSet(busy) /\ Cardinality(busy) <= Cardinality(Live)
  BY <1>2, <1>3, FS_Subset
<1> QED
  BY <1>1, <1>3, <1>4, FS_CardinalityType

\* The rings have room for all requests.
LEMMA Room ==
  ASSUME Inv
  PROVE  /\ NA \in Nat /\ NU \in Nat /\ Publishing \in {0, 1}
         /\ Cardinality(busy) < NUM
         /\ NA + Publishing < NUM /\ NU < NUM /\ (taken # {} => NU + 1 < NUM)
         /\ (Cardinality(free) >= 3 => NA + 1 < NUM)
<1>1. NA \in Nat /\ NU \in Nat
  BY IndexMoves DEF Inv, Shape, NA, NU
<1>2. Publishing \in {0, 1}
  BY DEF Publishing
<1>3. NUM \in Nat \ {0}
  BY Bounds
<1>4. Cardinality(free) + 3 * Cardinality(Live) = NUM
  BY DEF Inv, Chains
<1>5. NA + Publishing + Cardinality(taken) + NU = Cardinality(busy)
  BY DEF Inv, Counts
<1>6. taken # {} => Cardinality(taken) # 0
  BY SetsFinite, FS_EmptySet
<1> QED
  BY <1>1, <1>2, <1>3, <1>4, <1>5, <1>6, SetsFinite

\* The three descriptors alloc3_desc takes.
LEMMA Takes3 ==
  ASSUME NEW S, S \subseteq Desc, Cardinality(S) >= 3
  PROVE  \E a, b, c \in S : /\ Take3(S) = <<a, b, c>>
                            /\ a # b /\ a # c /\ b # c
                            /\ Cardinality(S \ {a, b, c}) = Cardinality(S) - 3
<1>1. IsFiniteSet(S) /\ S \subseteq Nat
  BY DescFinite, FS_Subset
<1>2. Cardinality(S) \in Nat
  BY <1>1, FS_CardinalityType
<1>3. S # {}
  BY <1>2, FS_EmptySet
<1>4. PICK a \in S : a = Lowest(S)
  BY <1>1, <1>3, LowestIn
<1>5. IsFiniteSet(S \ {a}) /\ Cardinality(S \ {a}) = Cardinality(S) - 1
  BY <1>1, FS_RemoveElement
<1>6. S \ {a} # {}
  BY <1>2, <1>5, FS_EmptySet
<1>7. PICK b \in S \ {a} : b = Lowest(S \ {a})
  BY <1>1, <1>6, LowestIn
<1>8. (S \ {a}) \ {b} = S \ {a, b}
  OBVIOUS
<1>9. IsFiniteSet(S \ {a, b}) /\ Cardinality(S \ {a, b}) = Cardinality(S) - 2
  <2>1. IsFiniteSet((S \ {a}) \ {b}) /\ Cardinality((S \ {a}) \ {b}) = Cardinality(S \ {a}) - 1
    BY <1>5, FS_RemoveElement
  <2>2. Cardinality((S \ {a}) \ {b}) = Cardinality(S) - 2
    BY <1>2, <1>5, <2>1
  <2> QED
    BY <1>8, <2>1, <2>2, Zenon
<1>10. S \ {a, b} # {}
  BY <1>2, <1>9, FS_EmptySet
<1>11. PICK c \in S \ {a, b} : c = Lowest(S \ {a, b})
  BY <1>1, <1>10, LowestIn
<1>12. (S \ {a, b}) \ {c} = S \ {a, b, c}
  OBVIOUS
<1>13. Cardinality(S \ {a, b, c}) = Cardinality(S) - 3
  <2>1. Cardinality((S \ {a, b}) \ {c}) = Cardinality(S \ {a, b}) - 1
    BY <1>9, FS_RemoveElement
  <2> QED
    BY <1>2, <1>9, <1>12, <2>1
<1>14. Take3(S) = <<a, b, c>>
  BY <1>4, <1>7, <1>11 DEF Take3
<1> QED
  BY ZenonT(40), <1>4, <1>7, <1>11, <1>13, <1>14
-----------------------------------------------------------------------------
(* The steps *)

Sleepy == {"idle", "alloc", "nodesc"}
Waiting == {"wait", "woken"}

\* Steps that touch neither descriptors nor rings, and move tasks outside a
\* request or between the two places of waiting.
LEMMA Outside ==
  ASSUME Inv, UNCHANGED <<free, next, info, busy, ring, aidx, devvars, used_idx, head, panicked>>,
         lk' = lk \/ (lk \notin Tasks /\ lk' \in {"intr", Nobody}),
         pc' \in [Tasks -> PCs],
         \A t \in Tasks : \/ pc'[t] = pc[t]
                          \/ pc[t] \in Sleepy /\ pc'[t] \in Sleepy
                          \/ pc[t] \in Waiting /\ pc'[t] \in Waiting,
         \A t \in Live : t \in served => t \in served'
  PROVE  Inv'
<1>0. "intr" \notin Tasks /\ Nobody \notin Tasks
  BY VirtioDiskAssumption
<1>1. UNCHANGED <<free, next, info, busy, ring, aidx, uring, uidx, seen, taken, used_idx, head, panicked>>
  BY DEF devvars
<1>2. Live' = Live
  BY DEF Live, Sleepy, Waiting
<1>3. Shape'
  <2>1. \A t \in Tasks : pc'[t] = "publish" <=> lk' = t
    BY <1>0 DEF Inv, Shape, Sleepy, Waiting
  <2>2. lk' \in Tasks \cup {"intr", Nobody}
    BY DEF Inv, Shape
  <2> QED
    BY <1>1, <1>2, <2>1, <2>2 DEF Inv, Shape
<1>4. Chains'
  BY <1>1, <1>2 DEF Inv, Chains, Own, Second, Third
<1>5. \A d \in Desc : Owned(d) => Owned(d)'
  <2> SUFFICES ASSUME NEW d \in Desc, Owned(d) PROVE Owned(d)'
    OBVIOUS
  <2>1. PICK t \in Tasks : t = info[d].b /\ t \in busy /\ head[t] = d /\ pc[t] \in Waiting
    BY DEF Owned, Inv, Shape, Live, Waiting
  <2>2. pc'[t] \in Waiting
    BY <2>1 DEF Sleepy, Waiting
  <2> QED
    BY <1>1, <2>1, <2>2 DEF Owned, Waiting
<1>6. NA' = NA /\ NU' = NU
  BY <1>1 DEF NA, NU, Dist
<1>7. \A k : Q(k)' = Q(k) /\ U(k)' = U(k)
  BY <1>1 DEF Q, U, Pos
<1>8. Handed'
  <2>1. \A k \in 0..NA - 1 : Owned(Q(k))' /\ Q(k) \notin taken
    BY <1>5, <1>7 DEF Inv, Handed, Owned
  <2>2. \A d \in taken : Owned(d)'
    BY <1>5 DEF Inv, Handed, Shape
  <2>3. \A k \in 0..NU - 1 : /\ Owned(U(k))' /\ U(k) \notin taken
                             /\ info[U(k)].status = 0 /\ info[U(k)].b \in served'
    BY <1>5, <1>7 DEF Inv, Handed, Owned, Shape
  <2>4. \A t \in Tasks : pc'[t] = "publish" => ring[AvailEntry] = head[t] /\ t \in busy
    BY DEF Inv, Handed, Sleepy, Waiting
  <2>5. \A t \in Live \ busy : t \in served'
    BY DEF Inv, Handed
  <2>6. AvailEntry' = AvailEntry
    BY <1>1 DEF AvailEntry
  <2> QED
    BY <1>1, <1>2, <1>6, <1>7, <2>1, <2>2, <2>3, <2>4, <2>5, <2>6 DEF Inv, Handed
<1>9. Counts'
  BY <1>0, <1>1, <1>6 DEF Inv, Counts, Publishing
<1> QED
  BY <1>3, <1>4, <1>8, <1>9 DEF Inv

LEMMA CallOK == ASSUME Inv, NEW t \in Tasks, Call(t) PROVE Inv'
<1>1. pc \in [Tasks -> PCs] /\ pc[t] = "idle"
  BY DEF Inv, Shape, Call
<1>2. /\ pc' \in [Tasks -> PCs]
      /\ \A u \in Tasks : pc'[u] = pc[u] \/ (pc[u] \in Sleepy /\ pc'[u] \in Sleepy)
  BY <1>1 DEF Call, PCs, Sleepy
<1>3. \A u \in Live : u \in served => u \in served'
  BY <1>1 DEF Call, Live
<1> QED
  BY <1>2, <1>3, Outside DEF Call

LEMMA AllocFailsOK == ASSUME Inv, NEW t \in Tasks, AllocFails(t) PROVE Inv'
<1>1. pc \in [Tasks -> PCs] /\ pc[t] = "alloc"
  BY DEF Inv, Shape, AllocFails
<1>2. /\ pc' \in [Tasks -> PCs]
      /\ \A u \in Tasks : pc'[u] = pc[u] \/ (pc[u] \in Sleepy /\ pc'[u] \in Sleepy)
  BY <1>1 DEF AllocFails, Wake, PCs, Sleepy
<1> QED
  BY <1>2, Outside DEF AllocFails

LEMMA IntrEnterOK == ASSUME Inv, IntrEnter PROVE Inv'
<1>1. pc' \in [Tasks -> PCs] /\ lk \notin Tasks
  BY VirtioDiskAssumption DEF Inv, Shape, IntrEnter
<1> QED
  BY <1>1, Outside DEF IntrEnter

LEMMA IntrExitOK == ASSUME Inv, IntrExit PROVE Inv'
<1>1. pc' \in [Tasks -> PCs] /\ lk \notin Tasks
  BY VirtioDiskAssumption DEF Inv, Shape, IntrExit
<1> QED
  BY <1>1, Outside DEF IntrExit

\* A request is the owner of its head only.
LEMMA Owner ==
  ASSUME Inv, NEW d \in Desc, Owned(d)
  PROVE  /\ info[d].b \in Tasks /\ info[d].b \in Live /\ info[d].b \in busy
         /\ head[info[d].b] = d /\ pc[info[d].b] \in Waiting
         /\ \A t \in Live : head[t] = d => t = info[d].b
         /\ \A t \in Tasks : pc[t] = "publish" => head[t] # d
         /\ d \notin free
<1>1. /\ info[d].b \in busy /\ head[info[d].b] = d /\ pc[info[d].b] \in Waiting
  BY DEF Owned, Waiting
<1>2. info[d].b \in Live /\ info[d].b \in Tasks
  BY <1>1 DEF Inv, Shape, Live
<1>3. \A t \in Live : head[t] = d => t = info[d].b
  BY DEF Inv, Chains
<1>4. \A t \in Tasks : pc[t] = "publish" => head[t] # d
  BY <1>1, <1>3 DEF Live, Waiting
<1>5. Own(info[d].b) \cap free = {} /\ d \in Own(info[d].b)
  BY <1>1, <1>2 DEF Inv, Chains, Own
<1> QED
  BY <1>1, <1>2, <1>3, <1>4, <1>5

LEMMA PublishOK == ASSUME Inv, NEW t \in Tasks, Publish(t) PROVE Inv'
<1>0. "intr" \notin Tasks /\ Nobody \notin Tasks
  BY VirtioDiskAssumption
<1>1. /\ pc[t] = "publish" /\ lk = t /\ aidx' = Suc(aidx) /\ lk' = Nobody
      /\ pc' = [pc EXCEPT ![t] = "wait"]
      /\ UNCHANGED <<free, next, info, busy, ring, uring, uidx, seen, taken, used_idx, head, served, panicked>>
  BY DEF Publish, devvars, Suc, After
<1>2. /\ pc \in [Tasks -> PCs] /\ aidx \in Idx /\ seen \in Idx /\ uidx \in Idx /\ used_idx \in Idx
      /\ \A u \in Tasks : pc[u] = "publish" <=> lk = u
  BY DEF Inv, Shape
<1>3. /\ pc' \in [Tasks -> PCs] /\ pc'[t] = "wait" /\ \A u \in Tasks \ {t} : pc'[u] = pc[u]
  BY <1>1, <1>2 DEF PCs
<1>4. Live' = Live /\ t \in Live
  BY <1>1, <1>3 DEF Live
<1>5. \A u \in Tasks : pc'[u] # "publish"
  BY <1>1, <1>2, <1>3
<1>6. aidx' \in Idx
  BY <1>1, <1>2, IndexMoves
<1>7. Shape'
  <2>1. \A u \in Tasks : pc'[u] = "publish" <=> lk' = u
    BY <1>0, <1>1, <1>5
  <2> QED
    BY <1>1, <1>3, <1>4, <1>6, <2>1 DEF Inv, Shape
<1>8. Chains'
  BY <1>1, <1>4 DEF Inv, Chains, Own, Second, Third
<1>9. /\ NA \in Nat /\ NU \in Nat /\ Publishing = 1 /\ NA + 1 < NUM
  BY <1>1, Room DEF Publishing
<1>10. NA' = NA + 1 /\ NU' = NU
  <2>1. NUM <= IdxMod /\ NUM \in Nat /\ IdxMod \in Nat
    BY Bounds
  <2>2. Dist(aidx, seen) + 1 < IdxMod
    BY <1>9, <2>1 DEF NA
  <2>3. Dist(Suc(aidx), seen) = Dist(aidx, seen) + 1
    BY <1>2, <2>2, IndexMoves
  <2> QED
    BY <1>1, <2>3 DEF NA, NU
<1>11. \A k : Q(k)' = Q(k) /\ U(k)' = U(k)
  BY <1>1 DEF Q, U
<1>12. Q(NA) = head[t] /\ t \in busy
  <2>1. Pos(seen, NA) = aidx % NUM
    BY <1>2, Positions DEF NA
  <2> QED
    BY <1>1, <2>1 DEF Q, Inv, Handed, AvailEntry
<1>13. \A d \in Desc : Owned(d) => Owned(d)' /\ d # head[t]
  <2> SUFFICES ASSUME NEW d \in Desc, Owned(d) PROVE Owned(d)' /\ d # head[t]
    OBVIOUS
  <2>1. d # head[t] /\ info[d].b \in Tasks /\ info[d].b # t
    BY <1>1, Owner DEF Waiting
  <2> QED
    BY <1>1, <1>3, <2>1 DEF Owned
<1>14. Owned(head[t])'
  BY <1>1, <1>3, <1>4, <1>12 DEF Owned, Inv, Chains
<1>15. Handed'
  <2>1. \A k \in 0..NA : Owned(Q(k))' /\ Q(k) \notin taken
    <3> SUFFICES ASSUME NEW k \in 0..NA PROVE Owned(Q(k))' /\ Q(k) \notin taken
      OBVIOUS
    <3>1. CASE k = NA
      <4>1. \A d \in taken : d \in Desc /\ Owned(d)
        BY DEF Inv, Handed, Shape
      <4>2. head[t] \notin taken
        BY <4>1, <1>13
      <4>3. Q(k)' = Q(k) /\ Q(k) = head[t]
        BY <3>1, <1>11, <1>12
      <4> QED
        BY <1>1, <1>14, <4>2, <4>3 DEF Owned
    <3>2. CASE k # NA
      <4>1. k \in 0..NA - 1
        BY <1>9, <3>2
      <4>2. Owned(Q(k)) /\ Q(k) \notin taken /\ Q(k) \in Desc
        BY <4>1 DEF Inv, Handed, Owned
      <4>3. Q(k)' = Q(k)
        BY <1>11
      <4> QED
        BY <1>13, <4>2, <4>3 DEF Owned
    <3> QED
      BY <3>1, <3>2
  <2>2. \A d \in taken : Owned(d)'
    BY <1>13 DEF Inv, Handed, Shape
  <2>3. \A k \in 0..NU - 1 : /\ Owned(U(k))' /\ U(k) \notin taken /\ U(k) # head[t]
                             /\ info[U(k)].status = 0 /\ info[U(k)].b \in served
    BY <1>13, <1>11 DEF Inv, Handed, Owned, Shape
  <2>4. \A k \in 0..NA - 1 : Q(k) # head[t]
    BY <1>13 DEF Inv, Handed, Owned
  <2>5. \A i, j \in 0..NA : i # j => Q(i) # Q(j)
    BY <1>9, <1>12, <2>4 DEF Inv, Handed
  <2>6. \A i \in 0..NA, j \in 0..NU - 1 : Q(i) # U(j)
    BY <1>9, <1>12, <2>3 DEF Inv, Handed
  <2>7. NA' - 1 = NA
    BY <1>9, <1>10
  <2> QED
    BY <1>1, <1>4, <1>5, <1>10, <1>11, <2>1, <2>2, <2>3, <2>5, <2>6, <2>7 DEF Inv, Handed
<1>16. Counts'
  <2>1. Publishing' = 0
    BY <1>0, <1>1 DEF Publishing
  <2>2. NA + Publishing + Cardinality(taken) + NU = Cardinality(busy)
    BY DEF Inv, Counts
  <2> QED
    BY <1>1, <1>9, <1>10, <2>1, <2>2, SetsFinite DEF Counts
<1> QED
  BY <1>7, <1>8, <1>15, <1>16 DEF Inv

LEMMA DevTakeOK == ASSUME Inv, DevTake PROVE Inv'
<1>1. /\ seen # aidx /\ taken' = taken \cup {ring[seen % NUM]} /\ seen' = Suc(seen)
      /\ panicked' = (panicked \/ ring[seen % NUM] \in taken \cup {None})
      /\ ring' = [ring EXCEPT ![seen % NUM] = None]
      /\ UNCHANGED <<free, next, info, busy, aidx, uring, uidx, used_idx, lk, pc, head, served>>
  BY DEF DevTake, Suc, After
<1>2. /\ aidx \in Idx /\ seen \in Idx /\ uidx \in Idx /\ used_idx \in Idx /\ panicked = FALSE
      /\ ring \in [Desc -> Desc \cup {None}] /\ taken \subseteq Desc
  BY DEF Inv, Shape
<1>3. NA \in Nat /\ NU \in Nat /\ NA + Publishing < NUM /\ Publishing \in {0, 1}
  BY Room
<1>4. NA # 0 /\ NA' = NA - 1 /\ NU' = NU
  BY <1>1, <1>2, IndexMoves DEF NA, NU
<1>5. PICK d \in Desc : d = Q(0) /\ Owned(d) /\ d \notin taken /\ d = ring[seen % NUM]
  <2>1. Owned(Q(0)) /\ Q(0) \notin taken
    BY <1>3, <1>4 DEF Inv, Handed
  <2>2. Pos(seen, 0) = seen % NUM
    BY <1>2, Positions
  <2> QED
    BY <2>1, <2>2 DEF Owned, Q
<1>6. panicked' = FALSE /\ taken' = taken \cup {d}
  BY <1>1, <1>2, <1>5, DescFinite
<1>7. \A k \in 1..NA : Pos(seen, k) # seen % NUM /\ Pos(seen, k) \in Desc
  <2>1. NUM \in Nat
    BY Bounds
  <2>2. Pos(seen, 0) = seen % NUM
    BY <1>2, Positions
  <2>3. \A k \in 1..NA : k \in 0..NUM - 1 /\ k # 0 /\ 0 \in 0..NUM - 1 /\ k \in Nat
    BY <1>3, <2>1
  <2> QED
    BY <1>2, <2>2, <2>3, Positions
<1>8. \A k \in 0..NA - 1 : Q(k)' = Q(k + 1)
  <2> SUFFICES ASSUME NEW k \in 0..NA - 1 PROVE Q(k)' = Q(k + 1)
    OBVIOUS
  <2>1. k \in Nat /\ k + 1 \in 1..NA
    BY <1>3
  <2>2. Pos(seen', k) = Pos(seen, k + 1)
    BY <1>1, <1>2, <2>1, Positions
  <2>3. ring'[Pos(seen, k + 1)] = ring[Pos(seen, k + 1)]
    BY <1>1, <1>2, <1>7, <2>1
  <2> QED
    BY <2>2, <2>3 DEF Q
<1>9. \A k : U(k)' = U(k)
  BY <1>1 DEF U
<1>10. \A e : Owned(e)' <=> Owned(e)
  BY <1>1 DEF Owned
<1>11. Shape'
  <2>1. ring' \in [Desc -> Desc \cup {None}]
    BY <1>1, <1>2
  <2>2. seen' \in Idx
    BY <1>1, <1>2, IndexMoves
  <2>3. Live' = Live
    BY <1>1 DEF Live
  <2> QED
    BY <1>1, <1>2, <1>6, <2>1, <2>2, <2>3 DEF Inv, Shape
<1>12. Chains'
  BY <1>1 DEF Inv, Chains, Own, Second, Third, Live
<1>13. Handed'
  <2>1. \A k \in 1..NA - 1 : /\ k \in 0..NA - 1 /\ Owned(Q(k)) /\ Q(k) \notin taken /\ Q(k) # d
    BY <1>3, <1>4, <1>5 DEF Inv, Handed
  <2>2. \A k \in 0..NA' - 1 : k + 1 \in 1..NA - 1 /\ k \in 0..NA - 1 /\ Q(k)' = Q(k + 1)
    BY <1>3, <1>4, <1>8
  <2>3. \A k \in 0..NA' - 1 : Owned(Q(k))' /\ Q(k)' \notin taken'
    <3> SUFFICES ASSUME NEW k \in 0..NA' - 1 PROVE Owned(Q(k))' /\ Q(k)' \notin taken'
      OBVIOUS
    <3>1. PICK e : e = Q(k + 1) /\ Owned(e) /\ e \notin taken /\ e # d /\ Q(k)' = e
      BY <2>1, <2>2
    <3>2. Owned(e)'
      BY <1>10, <3>1
    <3> QED
      BY <1>6, <3>1, <3>2 DEF Owned
  <2>4. \A e \in taken' : Owned(e)'
    BY <1>5, <1>6, <1>10 DEF Inv, Handed
  <2>5. \A k \in 0..NU - 1 : /\ Owned(U(k))' /\ U(k) \notin taken'
                             /\ info[U(k)].status = 0 /\ info[U(k)].b \in served
    <3> SUFFICES ASSUME NEW k \in 0..NU - 1
                 PROVE  /\ Owned(U(k))' /\ U(k) \notin taken'
                        /\ info[U(k)].status = 0 /\ info[U(k)].b \in served
      OBVIOUS
    <3>1. Owned(U(k)) /\ U(k) \notin taken /\ info[U(k)].status = 0 /\ info[U(k)].b \in served
      BY DEF Inv, Handed
    <3>2. 0 \in 0..NA - 1
      BY <1>3, <1>4
    <3>3. U(k) # d
      BY <1>5, <3>2 DEF Inv, Handed
    <3>4. U(k)' = U(k)
      BY <1>9
    <3>5. Owned(U(k))'
      BY <1>1, <3>1, <3>4 DEF Owned
    <3> QED
      BY <1>6, <3>1, <3>3, <3>5
  <2>6. \A i, j \in 0..NA' - 1 : i # j => Q(i)' # Q(j)'
    <3> SUFFICES ASSUME NEW i \in 0..NA' - 1, NEW j \in 0..NA' - 1, i # j PROVE Q(i)' # Q(j)'
      OBVIOUS
    <3>1. i + 1 \in 0..NA - 1 /\ j + 1 \in 0..NA - 1 /\ i + 1 # j + 1
      BY <1>3, <1>4
    <3>2. Q(i + 1) # Q(j + 1)
      BY <3>1 DEF Inv, Handed
    <3> QED
      BY <2>2, <3>2
  <2>7. \A i \in 0..NA' - 1, j \in 0..NU - 1 : Q(i)' # U(j)
    <3> SUFFICES ASSUME NEW i \in 0..NA' - 1, NEW j \in 0..NU - 1 PROVE Q(i)' # U(j)
      OBVIOUS
    <3>1. i + 1 \in 0..NA - 1
      BY <1>3, <1>4
    <3>2. Q(i + 1) # U(j)
      BY <3>1 DEF Inv, Handed
    <3> QED
      BY <2>2, <3>2
  <2>8. \A t \in Tasks : pc[t] = "publish" => ring'[AvailEntry] = head[t] /\ t \in busy
    <3>1. Pos(seen, NA) = AvailEntry
      BY <1>2, Positions DEF NA, AvailEntry
    <3>2. NA \in 1..NA
      BY <1>3, <1>4
    <3>3. AvailEntry # seen % NUM /\ AvailEntry \in Desc
      BY <1>7, <3>1, <3>2
    <3>4. ring'[AvailEntry] = ring[AvailEntry]
      BY <1>1, <1>2, <3>3
    <3> QED
      BY <3>4 DEF Inv, Handed
  <2>9. AvailEntry' = AvailEntry /\ Live' = Live
    BY <1>1 DEF AvailEntry, Live
  <2> QED
    BY <1>1, <1>4, <1>9, <2>3, <2>4, <2>5, <2>6, <2>7, <2>8, <2>9 DEF Inv, Handed
<1>14. Counts'
  <2>1. Cardinality(taken \cup {d}) = Cardinality(taken) + 1
    BY <1>5, SetsFinite, FS_AddElement
  <2>2. NA + Publishing + Cardinality(taken) + NU = Cardinality(busy) /\ Publishing' = Publishing
    BY <1>1 DEF Inv, Counts, Publishing
  <2>3. Cardinality(taken') = Cardinality(taken) + 1
    BY <1>6, <2>1
  <2> QED
    BY <1>1, <1>3, <1>4, <2>2, <2>3, SetsFinite DEF Counts
<1> QED
  BY <1>11, <1>12, <1>13, <1>14 DEF Inv

LEMMA DevFinishOK == ASSUME Inv, NEW d \in Desc, DevFinish(d) PROVE Inv'
<1>1. /\ d \in taken /\ taken' = taken \ {d} /\ info' = [info EXCEPT ![d].status = 0]
      /\ served' = served \cup {info[d].b} /\ uring' = [uring EXCEPT ![uidx % NUM] = d]
      /\ uidx' = Suc(uidx)
      /\ UNCHANGED <<free, next, busy, ring, aidx, used_idx, seen, lk, pc, head, panicked>>
  BY DEF DevFinish, Suc, After
<1>2. /\ aidx \in Idx /\ seen \in Idx /\ uidx \in Idx /\ used_idx \in Idx
      /\ uring \in [Desc -> Desc \cup {None}] /\ taken \subseteq Desc
      /\ info = [e \in Desc |-> info[e]] /\ \A e \in Desc : DOMAIN info[e] = {"b", "status"}
  BY DEF Inv, Shape
<1>0. NA \in Nat /\ NU \in Nat /\ NU + 1 < NUM /\ NUM \in Nat
  BY <1>1, Room, Bounds
<1>3. PICK m \in Nat : m = NU /\ NA \in Nat /\ m + 1 < NUM /\ NUM \in Nat
  BY <1>0
<1>4. NA' = NA /\ NU' = NU + 1
  <2>1. NUM <= IdxMod /\ IdxMod \in Nat
    BY Bounds
  <2>2. Dist(uidx, used_idx) + 1 < IdxMod
    BY <1>3, <2>1 DEF NU
  <2>3. Dist(Suc(uidx), used_idx) = Dist(uidx, used_idx) + 1
    BY <1>2, <2>2, IndexMoves
  <2> QED
    BY <1>1, <2>3 DEF NA, NU
<1>5. /\ info' = [e \in Desc |-> info'[e]] /\ \A e \in Desc : DOMAIN info'[e] = {"b", "status"}
      /\ info'[d].status = 0
      /\ \A e \in Desc : info'[e].b = info[e].b /\ (info[e].status = 0 => info'[e].status = 0)
  <2>1. info' = [e \in Desc |-> IF e = d THEN [info[d] EXCEPT !.status = 0] ELSE info[e]]
    BY <1>1, <1>2
  <2>2. \A e \in Desc : e # d => info'[e] = info[e]
    BY <2>1
  <2>3. info'[d] = [info[d] EXCEPT !.status = 0]
    BY <2>1
  <2>4. DOMAIN info'[d] = {"b", "status"} /\ info'[d].status = 0 /\ info'[d].b = info[d].b
    BY <1>2, <2>3
  <2>5. info' = [e \in Desc |-> info'[e]]
    BY <2>1
  <2> QED
    BY <1>2, <2>2, <2>4, <2>5
<1>6. Pos(used_idx, m) = uidx % NUM
  BY <1>2, <1>3, Positions DEF NU
<1>7. \A k \in 0..m : Pos(used_idx, k) \in Desc /\ (k # m => Pos(used_idx, k) # uidx % NUM)
  <2>1. \A k \in 0..m : k \in 0..NUM - 1 /\ m \in 0..NUM - 1 /\ k \in Nat
    BY <1>3
  <2> QED
    BY <1>2, <1>6, <2>1, Positions
<1>8. U(m)' = d /\ \A k \in 0..m - 1 : U(k)' = U(k)
  <2>1. uring'[uidx % NUM] = d
    BY <1>1, <1>2, <1>3, <1>6, <1>7
  <2>2. \A k \in 0..m - 1 : k \in 0..m /\ k # m
    BY <1>3
  <2>3. \A k \in 0..m - 1 : uring'[Pos(used_idx, k)] = uring[Pos(used_idx, k)]
    BY <1>1, <1>2, <1>7, <2>2
  <2>4. uring'[Pos(used_idx, m)] = d
    BY <1>6, <2>1
  <2> QED
    BY <1>1, <1>4, <2>3, <2>4 DEF U
<1>9. \A k : Q(k)' = Q(k)
  BY <1>1 DEF Q
<1>10. \A e \in Desc : Owned(e) => Owned(e)'
  BY <1>1, <1>5 DEF Owned
<1>11. Owned(d) /\ Live' = Live
  BY <1>1 DEF Inv, Handed, Live
<1>12. Shape'
  <2>1. uring' \in [Desc -> Desc \cup {None}]
    BY <1>1, <1>2
  <2>2. uidx' \in Idx
    BY <1>1, <1>2, IndexMoves
  <2> QED
    BY <1>1, <1>2, <1>5, <1>11, <2>1, <2>2 DEF Inv, Shape
<1>13. Chains'
  BY <1>1, <1>5, <1>11 DEF Inv, Chains, Own, Second, Third
<1>14. Handed'
  <2>1. \A k \in 0..NA - 1 : Owned(Q(k))' /\ Q(k) \notin taken'
    <3> SUFFICES ASSUME NEW k \in 0..NA - 1 PROVE Owned(Q(k))' /\ Q(k) \notin taken'
      OBVIOUS
    <3>1. Owned(Q(k)) /\ Q(k) \notin taken /\ Q(k) \in Desc
      BY DEF Inv, Handed, Owned
    <3>2. Q(k)' = Q(k)
      BY <1>9
    <3> QED
      BY <1>1, <1>10, <3>1, <3>2 DEF Owned
  <2>2. \A e \in taken' : Owned(e)'
    BY <1>1, <1>2, <1>10 DEF Inv, Handed
  <2>3. \A k \in 0..m - 1 : /\ U(k)' = U(k) /\ U(k) \in Desc /\ Owned(U(k)) /\ U(k) # d
                             /\ U(k) \notin taken'
                             /\ info[U(k)].status = 0 /\ info[U(k)].b \in served
    BY <1>3, <1>1, <1>8 DEF Inv, Handed, Owned
  <2>4. \A k \in 0..m : /\ Owned(U(k))' /\ U(k)' \notin taken' /\ U(k)' \in Desc
                         /\ info'[U(k)'].status = 0 /\ info'[U(k)'].b \in served'
    <3> SUFFICES ASSUME NEW k \in 0..m
                 PROVE  /\ Owned(U(k))' /\ U(k)' \notin taken' /\ U(k)' \in Desc
                        /\ info'[U(k)'].status = 0 /\ info'[U(k)'].b \in served'
      OBVIOUS
    <3>1. CASE k = m
      <4>1. U(k)' = d
        BY <3>1, <1>8
      <4>2. Owned(d)'
        BY <1>10, <1>11
      <4>3. d \notin taken' /\ info'[d].status = 0 /\ info'[d].b \in served'
        BY <1>1, <1>5
      <4> QED
        BY <4>1, <4>2, <4>3 DEF Owned
    <3>2. CASE k # m
      <4>1. k \in 0..m - 1
        BY <1>3, <3>2
      <4>2. PICK e \in Desc : e = U(k) /\ Owned(e) /\ e \notin taken' /\ U(k)' = e
                              /\ info[e].status = 0 /\ info[e].b \in served
        BY <2>3, <4>1
      <4>3. Owned(e)' /\ info'[e].status = 0 /\ info'[e].b \in served'
        BY <1>1, <1>5, <1>10, <4>2
      <4> QED
        BY <4>2, <4>3 DEF Owned
    <3> QED
      BY <3>1, <3>2
  <2>5. \A k \in 0..m : k \in 0..m - 1 \/ k = m
    BY <1>3
  <2>6. U(m)' = d /\ \A k \in 0..m - 1 : U(k)' = U(k) /\ U(k) # d
    BY <1>8, <2>3
  <2>7. \A i, j \in 0..m : i # j => U(i)' # U(j)'
    <3> SUFFICES ASSUME NEW i \in 0..m, NEW j \in 0..m, i # j PROVE U(i)' # U(j)'
      OBVIOUS
    <3>1. CASE i \in 0..m - 1 /\ j \in 0..m - 1
      BY <1>3, <2>6, <3>1 DEF Inv, Handed
    <3>2. CASE i = m /\ j \in 0..m - 1
      <4>1. U(i)' = d
        BY <1>8, <3>2
      <4> QED
        BY <2>6, <3>2, <4>1
    <3>3. CASE i \in 0..m - 1 /\ j = m
      <4>1. U(j)' = d
        BY <1>8, <3>3
      <4> QED
        BY <2>6, <3>3, <4>1
    <3> QED
      BY <2>5, <3>1, <3>2, <3>3
  <2>8. \A i \in 0..NA - 1, j \in 0..m : Q(i) # U(j)'
    <3> SUFFICES ASSUME NEW i \in 0..NA - 1, NEW j \in 0..m PROVE Q(i) # U(j)'
      OBVIOUS
    <3>1. CASE j \in 0..m - 1
      BY <1>3, <2>6, <3>1 DEF Inv, Handed
    <3>2. CASE j = m
      <4>1. U(j)' = d
        BY <1>8, <3>2
      <4>2. Q(i) # d
        BY <1>1 DEF Inv, Handed
      <4> QED
        BY <4>1, <4>2
    <3> QED
      BY <2>5, <3>1, <3>2
  <2>9. NU' - 1 = m
    BY <1>3, <1>4
  <2>10. AvailEntry' = AvailEntry
    BY <1>1 DEF AvailEntry
  <2> QED
    BY <1>1, <1>4, <1>9, <1>11, <2>1, <2>2, <2>4, <2>7, <2>8, <2>9, <2>10 DEF Inv, Handed
<1>15. Counts'
  <2>1. Cardinality(taken \ {d}) = Cardinality(taken) - 1
    BY <1>1, SetsFinite, FS_RemoveElement
  <2>2. NA + Publishing + Cardinality(taken) + NU = Cardinality(busy) /\ Publishing' = Publishing
        /\ Publishing \in {0, 1}
    BY <1>1 DEF Inv, Counts, Publishing
  <2>3. Cardinality(taken') = Cardinality(taken) - 1
    BY <1>1, <2>1
  <2> QED
    BY <1>1, <1>3, <1>4, <2>2, <2>3, SetsFinite DEF Counts
<1> QED
  BY <1>12, <1>13, <1>14, <1>15 DEF Inv

LEMMA IntrEntryOK == ASSUME Inv, IntrEntry PROVE Inv'
<1>1. /\ lk = "intr" /\ used_idx # uidx /\ used_idx' = Suc(used_idx)
      /\ uring' = [uring EXCEPT ![used_idx % NUM] = None]
      /\ UNCHANGED <<free, next, info, ring, aidx, uidx, seen, taken, lk, head, served>>
  BY DEF IntrEntry, Suc, After
<1>2. /\ aidx \in Idx /\ seen \in Idx /\ uidx \in Idx /\ used_idx \in Idx /\ panicked = FALSE
      /\ uring \in [Desc -> Desc \cup {None}] /\ pc \in [Tasks -> PCs] /\ busy \subseteq Live
  BY DEF Inv, Shape
<1>3. NA \in Nat /\ NU \in Nat /\ NU < NUM /\ NUM \in Nat
  BY Room, Bounds
<1>4. NU # 0 /\ NU' = NU - 1 /\ NA' = NA
  BY <1>1, <1>2, IndexMoves DEF NA, NU
<1>5. PICK d \in Desc : /\ d = U(0) /\ Owned(d) /\ d \notin taken /\ d = uring[used_idx % NUM]
                        /\ info[d].status = 0 /\ info[d].b \in served
  <2>1. /\ Owned(U(0)) /\ U(0) \notin taken
        /\ info[U(0)].status = 0 /\ info[U(0)].b \in served
    BY <1>3, <1>4 DEF Inv, Handed
  <2>2. Pos(used_idx, 0) = used_idx % NUM
    BY <1>2, Positions
  <2> QED
    BY <2>1, <2>2 DEF Owned, U
<1>6. PICK b \in busy : /\ b = info[d].b /\ b \in Tasks /\ head[b] = d /\ pc[b] \in Waiting
                        /\ b # Nobody /\ b \in Live
  BY <1>5, Owner, VirtioDiskAssumption
<1>7. /\ panicked' = FALSE /\ busy' = busy \ {b}
      /\ pc' = [t \in Tasks |-> IF t = b /\ pc[t] = "wait" THEN "woken" ELSE pc[t]]
  BY <1>2, <1>5, <1>6, DescFinite DEF IntrEntry, Wake
<1>8. /\ pc' \in [Tasks -> PCs] /\ pc'[b] = "woken" /\ \A t \in Tasks \ {b} : pc'[t] = pc[t]
  BY <1>2, <1>6, <1>7 DEF PCs, Waiting
<1>9. Live' = Live
  BY <1>6, <1>8 DEF Live, Waiting
<1>10. \A k \in 1..NU : k # NU => Pos(used_idx, k) # used_idx % NUM /\ Pos(used_idx, k) \in Desc
  <2>2. Pos(used_idx, 0) = used_idx % NUM
    BY <1>2, Positions
  <2>3. \A k \in 1..NU : k \in 0..NUM - 1 /\ k # 0 /\ 0 \in 0..NUM - 1 /\ k \in Nat
    BY <1>3
  <2> QED
    BY <1>2, <2>2, <2>3, Positions
<1>11. \A k \in 0..NU - 2 : U(k)' = U(k + 1)
  <2> SUFFICES ASSUME NEW k \in 0..NU - 2 PROVE U(k)' = U(k + 1)
    OBVIOUS
  <2>1. k \in Nat /\ k + 1 \in 1..NU /\ k + 1 # NU
    BY <1>3
  <2>2. Pos(used_idx', k) = Pos(used_idx, k + 1)
    BY <1>1, <1>2, <2>1, Positions
  <2>3. uring'[Pos(used_idx, k + 1)] = uring[Pos(used_idx, k + 1)]
    BY <1>1, <1>2, <1>10, <2>1
  <2> QED
    BY <2>2, <2>3 DEF U
<1>12. \A k : Q(k)' = Q(k)
  BY <1>1 DEF Q
<1>13. \A e \in Desc : Owned(e) /\ e # d => Owned(e)'
  <2> SUFFICES ASSUME NEW e \in Desc, Owned(e), e # d PROVE Owned(e)'
    OBVIOUS
  <2>1. info[e].b \in busy /\ info[e].b \in Tasks /\ head[info[e].b] = e /\ info[e].b # b
    BY <1>6, Owner
  <2> QED
    BY <1>1, <1>7, <1>8, <2>1 DEF Owned
<1>14. Shape'
  <2>1. uring' \in [Desc -> Desc \cup {None}]
    BY <1>1, <1>2
  <2>2. used_idx' \in Idx
    BY <1>1, <1>2, IndexMoves
  <2>3. \A t \in Tasks : pc'[t] = "publish" <=> lk' = t
    BY <1>1, <1>6, <1>8 DEF Inv, Shape, Waiting
  <2> QED
    BY <1>1, <1>2, <1>7, <1>8, <1>9, <2>1, <2>2, <2>3 DEF Inv, Shape
<1>15. Chains'
  BY <1>1, <1>9 DEF Inv, Chains, Own, Second, Third
<1>16. Handed'
  <2>0. 0 \in 0..NU - 1
    BY <1>3, <1>4
  <2>1. \A k \in 0..NA - 1 : Owned(Q(k))' /\ Q(k) \notin taken
    <3> SUFFICES ASSUME NEW k \in 0..NA - 1 PROVE Owned(Q(k))' /\ Q(k) \notin taken
      OBVIOUS
    <3>1. Owned(Q(k)) /\ Q(k) \notin taken /\ Q(k) \in Desc
      BY DEF Inv, Handed, Owned
    <3>2. Q(k)' = Q(k) /\ Q(k) # d
      BY <1>5, <1>12, <2>0 DEF Inv, Handed
    <3> QED
      BY <1>13, <3>1, <3>2 DEF Owned
  <2>2. \A e \in taken : Owned(e)'
    BY <1>5, <1>13 DEF Inv, Handed, Shape
  <2>3. \A k \in 0..NU' - 1 : k + 1 \in 0..NU - 1 /\ k + 1 # 0 /\ U(k)' = U(k + 1)
    BY <1>3, <1>4, <1>11
  <2>4. \A k \in 0..NU' - 1 : /\ Owned(U(k))' /\ U(k)' \notin taken
                              /\ info[U(k)'].status = 0 /\ info[U(k)'].b \in served
    <3> SUFFICES ASSUME NEW k \in 0..NU' - 1
                 PROVE  /\ Owned(U(k))' /\ U(k)' \notin taken
                        /\ info[U(k)'].status = 0 /\ info[U(k)'].b \in served
      OBVIOUS
    <3>1. k + 1 \in 0..NU - 1 /\ k + 1 # 0 /\ U(k)' = U(k + 1)
      BY <2>3
    <3>2. /\ Owned(U(k + 1)) /\ U(k + 1) \notin taken /\ U(k + 1) # U(0)
          /\ info[U(k + 1)].status = 0 /\ info[U(k + 1)].b \in served
      BY <2>0, <3>1 DEF Inv, Handed
    <3>3. PICK e \in Desc : e = U(k + 1) /\ Owned(e) /\ e # d
      BY <1>5, <3>2 DEF Owned
    <3>4. Owned(e)'
      BY <1>13, <3>3
    <3>5. Owned(U(k))'
      BY <3>1, <3>3, <3>4 DEF Owned
    <3> QED
      BY <3>1, <3>2, <3>5
  <2>5. \A i, j \in 0..NU' - 1 : i # j => U(i)' # U(j)'
    <3> SUFFICES ASSUME NEW i \in 0..NU' - 1, NEW j \in 0..NU' - 1, i # j PROVE U(i)' # U(j)'
      OBVIOUS
    <3>1. i + 1 \in 0..NU - 1 /\ j + 1 \in 0..NU - 1 /\ i + 1 # j + 1
      BY <1>3, <1>4
    <3>2. U(i + 1) # U(j + 1)
      BY <3>1 DEF Inv, Handed
    <3> QED
      BY <2>3, <3>2
  <2>6. \A i \in 0..NA - 1, j \in 0..NU' - 1 : Q(i) # U(j)'
    <3> SUFFICES ASSUME NEW i \in 0..NA - 1, NEW j \in 0..NU' - 1 PROVE Q(i) # U(j)'
      OBVIOUS
    <3>1. j + 1 \in 0..NU - 1 /\ U(j)' = U(j + 1)
      BY <2>3
    <3>2. Q(i) # U(j + 1)
      BY <3>1 DEF Inv, Handed
    <3> QED
      BY <3>1, <3>2
  <2>7. \A t \in Tasks : pc'[t] # "publish"
    BY <1>14, <1>1, VirtioDiskAssumption DEF Shape
  <2>8. \A t \in Live \ busy' : t \in served
    BY <1>5, <1>6, <1>7 DEF Inv, Handed
  <2> QED
    BY <1>1, <1>4, <1>9, <1>12, <2>1, <2>2, <2>4, <2>5, <2>6, <2>7, <2>8 DEF Inv, Handed
<1>17. Counts'
  <2>1. Cardinality(busy \ {b}) = Cardinality(busy) - 1
    BY SetsFinite, FS_RemoveElement
  <2>2. NA + Publishing + Cardinality(taken) + NU = Cardinality(busy) /\ Publishing' = Publishing
        /\ Publishing \in {0, 1}
    BY <1>1 DEF Inv, Counts, Publishing
  <2>3. Cardinality(busy') = Cardinality(busy) - 1
    BY <1>7, <2>1
  <2> QED
    BY <1>1, <1>3, <1>4, <2>2, <2>3, SetsFinite DEF Counts
<1> QED
  BY <1>14, <1>15, <1>16, <1>17 DEF Inv

\* What free_chain visits is what the request has.
LEMMA ChainIs ==
  ASSUME Inv, NEW t \in Live
  PROVE  Chain(head[t]) = Own(t) /\ Own(t) \subseteq Desc /\ None \notin Own(t)
<1>1. head[t] \in Desc /\ Second(t) \in Desc /\ Third(t) \in Desc
  BY DEF Inv, Chains
<1>2. next[head[t]] # None
  BY <1>1, DescFinite DEF Second
<1> QED
  BY <1>1, <1>2, DescFinite DEF Chain, Own, Second, Third

LEMMA Adds3 ==
  ASSUME NEW S, IsFiniteSet(S), NEW a, NEW b, NEW c, a # b, a # c, b # c,
         a \notin S, b \notin S, c \notin S
  PROVE  IsFiniteSet(S \cup {a, b, c}) /\ Cardinality(S \cup {a, b, c}) = Cardinality(S) + 3
<1>0. Cardinality(S) \in Nat
  BY FS_CardinalityType
<1>1. IsFiniteSet(S \cup {a}) /\ Cardinality(S \cup {a}) = Cardinality(S) + 1
  BY FS_AddElement
<1>2. /\ IsFiniteSet((S \cup {a}) \cup {b})
      /\ Cardinality((S \cup {a}) \cup {b}) = Cardinality(S \cup {a}) + 1
  BY <1>1, FS_AddElement
<1>3. /\ IsFiniteSet(((S \cup {a}) \cup {b}) \cup {c})
      /\ Cardinality(((S \cup {a}) \cup {b}) \cup {c}) = Cardinality((S \cup {a}) \cup {b}) + 1
  BY <1>2, FS_AddElement
<1>4. ((S \cup {a}) \cup {b}) \cup {c} = S \cup {a, b, c}
  OBVIOUS
<1>5. Cardinality(((S \cup {a}) \cup {b}) \cup {c}) = Cardinality(S) + 3
  BY <1>0, <1>1, <1>2, <1>3
<1> QED
  BY <1>3, <1>4, <1>5, Zenon

\* The end of a request.
LEMMA WokenOK == ASSUME Inv, NEW t \in Tasks, Woken(t) PROVE Inv'
<1>1. CASE t \in busy
  <2>1. /\ pc[t] = "woken" /\ pc' = [pc EXCEPT ![t] = "wait"]
        /\ UNCHANGED <<free, next, info, busy, ring, aidx, devvars, used_idx, head, lk, served, panicked>>
    BY <1>1 DEF Woken
  <2>2. pc' \in [Tasks -> PCs]
    BY <2>1 DEF Inv, Shape, PCs
  <2>3. \A u \in Tasks : \/ pc'[u] = pc[u]
                         \/ pc[u] \in Waiting /\ pc'[u] \in Waiting
    BY <2>1 DEF Inv, Shape, Waiting
  <2> QED
    BY <2>1, <2>2, <2>3, Outside
<1>2. CASE t \notin busy
  <2>1. pc[t] = "woken" /\ t \in Live /\ lk = Nobody
    BY DEF Woken, Live
  <2>2. PICK h \in Desc, s \in Desc, r \in Desc :
          h = head[t] /\ s = Second(t) /\ r = Third(t) /\ h # s /\ h # r /\ s # r
    BY <2>1 DEF Inv, Chains
  <2>3. /\ Chain(head[t]) \ {None} = {h, s, r} /\ Own(t) = {h, s, r}
        /\ h \notin free /\ s \notin free /\ r \notin free
    <3>1. Own(t) = {h, s, r} /\ Own(t) \cap free = {}
      BY <2>1, <2>2 DEF Own, Inv, Chains
    <3>2. Chain(head[t]) = Own(t) /\ None \notin Own(t)
      BY <2>1, ChainIs
    <3> QED
      BY <3>1, <3>2
  <2>4. /\ panicked' = FALSE /\ free' = free \cup {h, s, r}
        /\ next' = [d \in Desc |-> IF d \in {h, s, r} THEN None ELSE next[d]]
        /\ info' = [info EXCEPT ![h].b = Nobody]
        /\ head' = [head EXCEPT ![t] = None]
        /\ pc' = [Wake(pc, "nodesc", "alloc", Tasks) EXCEPT ![t] = "idle"]
        /\ UNCHANGED <<busy, ring, aidx, uring, uidx, seen, taken, used_idx, lk, served>>
    <3> DEFINE c == Chain(head[t]) \ {None}
    <3>1. /\ panicked' = (panicked \/ c \cap free # {}) /\ free' = free \cup c
          /\ next' = [d \in Desc |-> IF d \in c THEN None ELSE next[d]]
          /\ info' = [info EXCEPT ![head[t]].b = Nobody]
          /\ head' = [head EXCEPT ![t] = None]
          /\ pc' = [Wake(pc, "nodesc", "alloc", Tasks) EXCEPT ![t] = "idle"]
          /\ UNCHANGED <<busy, ring, aidx, uring, uidx, seen, taken, used_idx, lk, served>>
      BY <1>2 DEF Woken, devvars
    <3>2. c = {h, s, r} /\ panicked = FALSE
      BY <2>3 DEF Inv, Shape
    <3>3. c \cap free = {}
      BY <2>3, <3>2
    <3> HIDE DEF c
    <3> QED
      BY <2>2, <3>1, <3>2, <3>3
  <2>5. /\ pc \in [Tasks -> PCs] /\ head \in [Tasks -> Desc \cup {None}]
        /\ next \in [Desc -> Desc \cup {None}] /\ busy \subseteq Live /\ free \subseteq Desc
        /\ info = [e \in Desc |-> info[e]] /\ \A e \in Desc : DOMAIN info[e] = {"b", "status"}
    BY DEF Inv, Shape
  <2>6. /\ pc' \in [Tasks -> PCs] /\ pc'[t] = "idle"
        /\ \A u \in Tasks \ {t} : pc'[u] = pc[u] \/ (pc[u] = "nodesc" /\ pc'[u] = "alloc")
    BY <2>4, <2>5 DEF Wake, PCs
  <2>7. Live' = Live \ {t}
    BY <2>6 DEF Live
  <2>8. \A u \in Live' : u \in Live /\ u # t /\ u \in Tasks /\ pc'[u] = pc[u] /\ head'[u] = head[u]
    BY <2>4, <2>5, <2>6, <2>7 DEF Live
  <2>9. /\ info' = [e \in Desc |-> info'[e]] /\ \A e \in Desc : DOMAIN info'[e] = {"b", "status"}
        /\ \A e \in Desc \ {h} : info'[e] = info[e]
    <3>1. info' = [e \in Desc |-> IF e = h THEN [info[h] EXCEPT !.b = Nobody] ELSE info[e]]
      BY <2>4, <2>5
    <3>2. \A e \in Desc \ {h} : info'[e] = info[e]
      BY <3>1
    <3>3. info'[h] = [info[h] EXCEPT !.b = Nobody]
      BY <2>2, <3>1
    <3>4. DOMAIN info'[h] = {"b", "status"}
      BY <2>5, <3>3
    <3>5. info' = [e \in Desc |-> info'[e]]
      BY <3>1
    <3> QED
      BY <2>5, <3>2, <3>4, <3>5
  <2>10. \A u \in Live' : /\ Second(u)' = Second(u) /\ Third(u)' = Third(u) /\ Own(u)' = Own(u)
                          /\ Own(u) \subseteq Desc \ {h, s, r} /\ info'[head[u]] = info[head[u]]
    <3> SUFFICES ASSUME NEW u \in Live'
                 PROVE  /\ Second(u)' = Second(u) /\ Third(u)' = Third(u) /\ Own(u)' = Own(u)
                        /\ Own(u) \subseteq Desc \ {h, s, r} /\ info'[head[u]] = info[head[u]]
      OBVIOUS
    <3>1. u \in Live /\ u # t /\ head'[u] = head[u]
      BY <2>8
    <3>2. Own(u) \cap Own(t) = {} /\ Own(u) \subseteq Desc
      BY <2>1, <3>1, ChainIs DEF Inv, Chains
    <3>3. head[u] \in Desc \ {h, s, r} /\ Second(u) \in Desc \ {h, s, r} /\ Own(u) \subseteq Desc \ {h, s, r}
      BY <2>3, <3>2 DEF Own
    <3>4. \A d \in Desc \ {h, s, r} : next'[d] = next[d]
      BY <2>4
    <3>5. Second(u)' = Second(u)
      BY <3>1, <3>3, <3>4 DEF Second
    <3>6. Third(u)' = Third(u)
      BY <3>3, <3>4, <3>5 DEF Third
    <3> QED
      BY <2>9, <3>1, <3>3, <3>5, <3>6 DEF Own
  <2>11. Shape'
    <3>1. next' \in [Desc -> Desc \cup {None}]
      BY <2>4, <2>5
    <3>2. head' \in [Tasks -> Desc \cup {None}]
      BY <2>4, <2>5
    <3>3. busy' \subseteq Live'
      BY <1>2, <2>4, <2>5, <2>7
    <3>4. \A u \in Tasks : pc'[u] = "publish" <=> lk' = u
      BY <2>1, <2>4, <2>6, VirtioDiskAssumption DEF Inv, Shape
    <3>5. free' \subseteq Desc
      BY <2>2, <2>4, <2>5
    <3> QED
      BY <2>4, <2>6, <2>9, <3>1, <3>2, <3>3, <3>4, <3>5 DEF Inv, Shape
  <2>12. Chains'
    <3>1. \A u \in Live' : /\ head'[u] \in Desc /\ Second(u)' \in Desc /\ Third(u)' \in Desc
                           /\ head'[u] # Second(u)' /\ head'[u] # Third(u)' /\ Second(u)' # Third(u)'
                           /\ Own(u)' \cap free' = {}
                           /\ info'[head'[u]].b = u
      <4> SUFFICES ASSUME NEW u \in Live'
                   PROVE  /\ head'[u] \in Desc /\ Second(u)' \in Desc /\ Third(u)' \in Desc
                          /\ head'[u] # Second(u)' /\ head'[u] # Third(u)' /\ Second(u)' # Third(u)'
                          /\ Own(u)' \cap free' = {}
                          /\ info'[head'[u]].b = u
        OBVIOUS
      <4>1. u \in Live /\ head'[u] = head[u]
        BY <2>8
      <4>2. /\ Second(u)' = Second(u) /\ Third(u)' = Third(u) /\ Own(u)' = Own(u)
            /\ Own(u) \subseteq Desc \ {h, s, r} /\ info'[head[u]] = info[head[u]]
        BY <2>10
      <4>3. /\ head[u] \in Desc /\ Second(u) \in Desc /\ Third(u) \in Desc
            /\ head[u] # Second(u) /\ head[u] # Third(u) /\ Second(u) # Third(u)
            /\ Own(u) \cap free = {} /\ info[head[u]].b = u
        BY <4>1 DEF Inv, Chains
      <4>4. Own(u)' \cap free' = {}
        BY <2>4, <4>2, <4>3
      <4> QED
        BY <4>1, <4>2, <4>3, <4>4
    <3>2. \A u, v \in Live' : u # v => Own(u)' \cap Own(v)' = {}
      BY <2>8, <2>10 DEF Inv, Chains
    <3>3. Cardinality(free') = Cardinality(free) + 3
      BY <2>2, <2>3, <2>4, SetsFinite, Adds3
    <3>4. Cardinality(Live') = Cardinality(Live) - 1
      BY <2>1, <2>7, SetsFinite, FS_RemoveElement
    <3>5. Cardinality(free') + 3 * Cardinality(Live') = NUM
      BY <3>3, <3>4, SetsFinite, Bounds DEF Inv, Chains
    <3> QED
      BY <3>1, <3>2, <3>5 DEF Chains
  <2>13. \A d \in Desc : Owned(d) => Owned(d)' /\ info'[d] = info[d]
    <3> SUFFICES ASSUME NEW d \in Desc, Owned(d) PROVE Owned(d)' /\ info'[d] = info[d]
      OBVIOUS
    <3>1. PICK u \in busy : u = info[d].b /\ head[u] = d /\ u \in Live /\ pc[u] \in Waiting
      BY Owner
    <3>2. u \in Live'
      BY <1>2, <2>7, <3>1
    <3>3. head'[u] = d /\ pc'[u] = pc[u] /\ info'[d] = info[d]
      BY <2>8, <2>10, <3>1, <3>2
    <3>4. info'[d].b = u /\ u \in busy'
      BY <2>4, <3>1, <3>3
    <3> QED
      BY <3>1, <3>3, <3>4 DEF Owned, Waiting
  <2>14. NA' = NA /\ NU' = NU /\ Publishing' = Publishing /\ AvailEntry' = AvailEntry
    BY <2>4 DEF NA, NU, Publishing, AvailEntry
  <2>15. \A k : Q(k)' = Q(k) /\ U(k)' = U(k)
    BY <2>4 DEF Q, U
  <2>16. Handed'
    <3>1. \A k \in 0..NA - 1 : Owned(Q(k))' /\ Q(k) \notin taken
      <4> SUFFICES ASSUME NEW k \in 0..NA - 1 PROVE Owned(Q(k))' /\ Q(k) \notin taken
        OBVIOUS
      <4>1. Owned(Q(k)) /\ Q(k) \notin taken /\ Q(k) \in Desc
        BY DEF Inv, Handed, Owned
      <4>2. Q(k)' = Q(k)
        BY <2>15
      <4> QED
        BY <2>13, <4>1, <4>2 DEF Owned
    <3>2. \A d \in taken : Owned(d)'
      BY <2>13 DEF Inv, Handed, Shape
    <3>3. \A k \in 0..NU - 1 : /\ Owned(U(k))' /\ U(k) \notin taken
                               /\ info'[U(k)].status = 0 /\ info'[U(k)].b \in served
      <4> SUFFICES ASSUME NEW k \in 0..NU - 1
                   PROVE  /\ Owned(U(k))' /\ U(k) \notin taken
                          /\ info'[U(k)].status = 0 /\ info'[U(k)].b \in served
        OBVIOUS
      <4>1. /\ Owned(U(k)) /\ U(k) \notin taken /\ U(k) \in Desc
            /\ info[U(k)].status = 0 /\ info[U(k)].b \in served
        BY DEF Inv, Handed, Owned
      <4>2. U(k)' = U(k)
        BY <2>15
      <4> QED
        BY <2>13, <4>1, <4>2 DEF Owned
    <3>4. \A u \in Tasks : pc'[u] # "publish"
      BY <2>1, <2>4, <2>11, VirtioDiskAssumption DEF Shape
    <3>5. \A u \in Live' \ busy : u \in served
      BY <2>7 DEF Inv, Handed
    <3> QED
      BY <2>4, <2>14, <2>15, <3>1, <3>2, <3>3, <3>4, <3>5 DEF Inv, Handed
  <2>17. Counts'
    BY <2>4, <2>14 DEF Inv, Counts
  <2> QED
    BY <2>11, <2>12, <2>16, <2>17 DEF Inv
<1> QED
  BY <1>1, <1>2

\* The start of a request.
LEMMA AllocOK == ASSUME Inv, NEW t \in Tasks, Alloc(t) PROVE Inv'
<1>1. pc[t] = "alloc" /\ lk = Nobody /\ Cardinality(free) >= 3 /\ t \notin Live
  BY DEF Alloc, Live
<1>2. /\ pc \in [Tasks -> PCs] /\ head \in [Tasks -> Desc \cup {None}]
      /\ next \in [Desc -> Desc \cup {None}] /\ busy \subseteq Live /\ free \subseteq Desc
      /\ info = [e \in Desc |-> info[e]] /\ \A e \in Desc : DOMAIN info[e] = {"b", "status"}
      /\ ring \in [Desc -> Desc \cup {None}]
      /\ aidx \in Idx /\ seen \in Idx /\ uidx \in Idx /\ used_idx \in Idx
      /\ \A u \in Tasks : pc[u] = "publish" <=> lk = u
  BY DEF Inv, Shape
<1>3. PICK a, b, c \in free : /\ Take3(free) = <<a, b, c>> /\ a # b /\ a # c /\ b # c
                              /\ Cardinality(free \ {a, b, c}) = Cardinality(free) - 3
  BY <1>1, <1>2, Takes3
<1>4. /\ free' = free \ {a, b, c}
      /\ next' = [next EXCEPT ![a] = b, ![b] = c, ![c] = None]
      /\ info' = [info EXCEPT ![a] = [b |-> t, status |-> 255]]
      /\ ring' = [ring EXCEPT ![AvailEntry] = a]
      /\ head' = [head EXCEPT ![t] = a]
      /\ busy' = busy \cup {t} /\ lk' = t /\ pc' = [pc EXCEPT ![t] = "publish"]
      /\ UNCHANGED <<aidx, uring, uidx, seen, taken, used_idx, served, panicked>>
  BY <1>3 DEF Alloc, devvars
<1>5. /\ a \in Desc /\ b \in Desc /\ c \in Desc
      /\ next' \in [Desc -> Desc \cup {None}]
      /\ next'[a] = b /\ next'[b] = c /\ \A d \in Desc \ {a, b, c} : next'[d] = next[d]
  BY <1>2, <1>3, <1>4
<1>6. /\ info' = [e \in Desc |-> info'[e]] /\ \A e \in Desc : DOMAIN info'[e] = {"b", "status"}
      /\ info'[a].b = t /\ \A e \in Desc \ {a} : info'[e] = info[e]
  BY <1>2, <1>4, <1>5
<1>7. /\ head' \in [Tasks -> Desc \cup {None}] /\ head'[t] = a
      /\ pc' \in [Tasks -> PCs] /\ pc'[t] = "publish"
      /\ \A u \in Tasks \ {t} : head'[u] = head[u] /\ pc'[u] = pc[u]
  BY <1>2, <1>4, <1>5 DEF PCs
<1>8. Live' = Live \cup {t} /\ Live \subseteq Tasks
  BY <1>7 DEF Live
<1>9. NA \in Nat /\ NU \in Nat /\ NA + 1 < NUM /\ NUM \in Nat
  BY <1>1, Room, Bounds
<1>10. NA' = NA /\ NU' = NU /\ AvailEntry' = AvailEntry /\ Publishing = 0 /\ Publishing' = 1
  BY <1>1, <1>4, VirtioDiskAssumption DEF NA, NU, AvailEntry, Publishing
<1>11. Pos(seen, NA) = AvailEntry /\ AvailEntry \in Desc
  BY <1>2, <1>9, Positions DEF NA, AvailEntry
<1>12. ring' \in [Desc -> Desc \cup {None}] /\ ring'[AvailEntry] = a
  BY <1>2, <1>4, <1>5, <1>11
<1>13. \A k : U(k)' = U(k)
  BY <1>4 DEF U
<1>14. \A k \in 0..NA - 1 : Q(k)' = Q(k)
  <2>1. \A k \in 0..NA - 1 : k \in 0..NUM - 1 /\ NA \in 0..NUM - 1 /\ k \in Nat /\ k # NA
    BY <1>9
  <2>2. \A k \in 0..NA - 1 : Pos(seen, k) # AvailEntry /\ Pos(seen, k) \in Desc
    BY <1>2, <1>11, <2>1, Positions
  <2>3. \A k \in 0..NA - 1 : ring'[Pos(seen, k)] = ring[Pos(seen, k)]
    BY <1>2, <1>4, <2>2
  <2> QED
    BY <1>4, <2>3 DEF Q
<1>15. \A u \in Live : /\ u # t /\ head'[u] = head[u] /\ pc'[u] = pc[u]
                       /\ Second(u)' = Second(u) /\ Third(u)' = Third(u) /\ Own(u)' = Own(u)
                       /\ Own(u) \subseteq Desc \ {a, b, c} /\ info'[head[u]] = info[head[u]]
  <2> SUFFICES ASSUME NEW u \in Live
               PROVE  /\ u # t /\ head'[u] = head[u] /\ pc'[u] = pc[u]
                      /\ Second(u)' = Second(u) /\ Third(u)' = Third(u) /\ Own(u)' = Own(u)
                      /\ Own(u) \subseteq Desc \ {a, b, c} /\ info'[head[u]] = info[head[u]]
    OBVIOUS
  <2>1. u # t /\ head'[u] = head[u] /\ pc'[u] = pc[u]
    BY <1>1, <1>7, <1>8
  <2>2. Own(u) \cap free = {} /\ Own(u) \subseteq Desc
    BY ChainIs DEF Inv, Chains
  <2>3. head[u] \in Desc \ {a, b, c} /\ Second(u) \in Desc \ {a, b, c} /\ Own(u) \subseteq Desc \ {a, b, c}
    BY <1>3, <2>2 DEF Own
  <2>4. Second(u)' = Second(u)
    BY <1>5, <2>1, <2>3 DEF Second
  <2>5. Third(u)' = Third(u)
    BY <1>5, <2>3, <2>4 DEF Third
  <2> QED
    BY <1>6, <2>1, <2>3, <2>4, <2>5 DEF Own
<1>16. Second(t)' = b /\ Third(t)' = c /\ Own(t)' = {a, b, c}
  BY <1>5, <1>7 DEF Second, Third, Own
<1>17. Shape'
  <2>1. \A u \in Tasks : pc'[u] = "publish" <=> lk' = u
    BY <1>1, <1>2, <1>4, <1>7, VirtioDiskAssumption
  <2>2. busy' \subseteq Live' /\ free' \subseteq Desc /\ lk' \in Tasks
    BY <1>2, <1>4, <1>8
  <2> QED
    BY <1>4, <1>5, <1>6, <1>7, <1>12, <2>1, <2>2 DEF Inv, Shape
<1>18. Chains'
  <2>1. \A u \in Live' : /\ head'[u] \in Desc /\ Second(u)' \in Desc /\ Third(u)' \in Desc
                         /\ head'[u] # Second(u)' /\ head'[u] # Third(u)' /\ Second(u)' # Third(u)'
                         /\ Own(u)' \cap free' = {}
                         /\ info'[head'[u]].b = u
    <3> SUFFICES ASSUME NEW u \in Live'
                 PROVE  /\ head'[u] \in Desc /\ Second(u)' \in Desc /\ Third(u)' \in Desc
                        /\ head'[u] # Second(u)' /\ head'[u] # Third(u)' /\ Second(u)' # Third(u)'
                        /\ Own(u)' \cap free' = {}
                        /\ info'[head'[u]].b = u
      OBVIOUS
    <3>1. CASE u = t
      BY <1>3, <1>4, <1>5, <1>6, <1>7, <1>16, <3>1
    <3>2. CASE u # t
      <4>1. u \in Live
        BY <1>8, <3>2
      <4>2. /\ head[u] \in Desc /\ Second(u) \in Desc /\ Third(u) \in Desc
            /\ head[u] # Second(u) /\ head[u] # Third(u) /\ Second(u) # Third(u)
            /\ Own(u) \cap free = {} /\ info[head[u]].b = u
        BY <4>1 DEF Inv, Chains
      <4>3. /\ head'[u] = head[u]
            /\ Second(u)' = Second(u) /\ Third(u)' = Third(u) /\ Own(u)' = Own(u)
            /\ info'[head[u]] = info[head[u]]
        BY <1>15, <4>1
      <4>4. Own(u)' \cap free' = {}
        BY <1>4, <4>2, <4>3
      <4> QED
        BY <4>2, <4>3, <4>4
    <3> QED
      BY <3>1, <3>2
  <2>2. \A u, v \in Live' : u # v => Own(u)' \cap Own(v)' = {}
    <3> SUFFICES ASSUME NEW u \in Live', NEW v \in Live', u # v PROVE Own(u)' \cap Own(v)' = {}
      OBVIOUS
    <3>1. CASE u \in Live /\ v \in Live
      BY <1>15, <3>1 DEF Inv, Chains
    <3>2. CASE u = t /\ v \in Live
      <4>1. Own(u)' = {a, b, c}
        BY <1>16, <3>2
      <4> QED
        BY <1>15, <3>2, <4>1
    <3>3. CASE u \in Live /\ v = t
      <4>1. Own(v)' = {a, b, c}
        BY <1>16, <3>3
      <4> QED
        BY <1>15, <3>3, <4>1
    <3> QED
      BY <1>8, <3>1, <3>2, <3>3
  <2>3. Cardinality(free') = Cardinality(free) - 3
    BY <1>3, <1>4
  <2>4. Cardinality(Live') = Cardinality(Live) + 1
    BY <1>1, <1>8, SetsFinite, FS_AddElement
  <2>5. Cardinality(free') + 3 * Cardinality(Live') = NUM
    BY <2>3, <2>4, SetsFinite, Bounds DEF Inv, Chains
  <2> QED
    BY <2>1, <2>2, <2>5 DEF Chains
<1>19. \A d \in Desc : Owned(d) => Owned(d)' /\ info'[d] = info[d]
  <2> SUFFICES ASSUME NEW d \in Desc, Owned(d) PROVE Owned(d)' /\ info'[d] = info[d]
    OBVIOUS
  <2>1. PICK u \in busy : u = info[d].b /\ head[u] = d /\ u \in Live /\ pc[u] \in Waiting
    BY Owner
  <2>2. head'[u] = d /\ pc'[u] = pc[u] /\ info'[d] = info[d]
    BY <1>15, <2>1
  <2>3. info'[d].b = u /\ u \in busy'
    BY <1>4, <2>1, <2>2
  <2> QED
    BY <2>1, <2>2, <2>3 DEF Owned, Waiting
<1>20. Handed'
  <2>1. \A k \in 0..NA - 1 : Owned(Q(k))' /\ Q(k)' \notin taken
    <3> SUFFICES ASSUME NEW k \in 0..NA - 1 PROVE Owned(Q(k))' /\ Q(k)' \notin taken
      OBVIOUS
    <3>1. Owned(Q(k)) /\ Q(k) \notin taken /\ Q(k) \in Desc
      BY DEF Inv, Handed, Owned
    <3>2. Q(k)' = Q(k)
      BY <1>14
    <3> QED
      BY <1>19, <3>1, <3>2 DEF Owned
  <2>2. \A d \in taken : Owned(d)'
    BY <1>19 DEF Inv, Handed, Shape
  <2>3. \A k \in 0..NU - 1 : /\ Owned(U(k))' /\ U(k) \notin taken
                             /\ info'[U(k)].status = 0 /\ info'[U(k)].b \in served
    <3> SUFFICES ASSUME NEW k \in 0..NU - 1
                 PROVE  /\ Owned(U(k))' /\ U(k) \notin taken
                        /\ info'[U(k)].status = 0 /\ info'[U(k)].b \in served
      OBVIOUS
    <3>1. /\ Owned(U(k)) /\ U(k) \notin taken /\ U(k) \in Desc
          /\ info[U(k)].status = 0 /\ info[U(k)].b \in served
      BY DEF Inv, Handed, Owned
    <3>2. U(k)' = U(k)
      BY <1>13
    <3> QED
      BY <1>19, <3>1, <3>2 DEF Owned
  <2>4. \A i, j \in 0..NA - 1 : i # j => Q(i)' # Q(j)'
    BY <1>14 DEF Inv, Handed
  <2>5. \A i \in 0..NA - 1, j \in 0..NU - 1 : Q(i)' # U(j)
    BY <1>14 DEF Inv, Handed
  <2>6. \A u \in Tasks : pc'[u] = "publish" => ring'[AvailEntry] = head'[u] /\ u \in busy'
    <3>1. \A u \in Tasks : pc'[u] = "publish" => u = t
      BY <1>4, <1>17 DEF Shape
    <3> QED
      BY <1>4, <1>7, <1>12, <3>1
  <2>7. \A u \in Live' \ busy' : u \in served
    BY <1>4, <1>8 DEF Inv, Handed
  <2> QED
    BY <1>4, <1>10, <1>13, <2>1, <2>2, <2>3, <2>4, <2>5, <2>6, <2>7 DEF Inv, Handed
<1>21. Counts'
  <2>1. Cardinality(busy') = Cardinality(busy) + 1
    BY <1>1, <1>2, <1>4, SetsFinite, FS_AddElement
  <2>2. NA + 0 + Cardinality(taken) + NU = Cardinality(busy)
    BY <1>10 DEF Inv, Counts
  <2> QED
    BY <1>4, <1>9, <1>10, <2>1, <2>2, SetsFinite DEF Counts
<1> QED
  BY <1>17, <1>18, <1>20, <1>21 DEF Inv
-----------------------------------------------------------------------------
(* The theorems *)

LEMMA InitInv == ASSUME Init PROVE Inv
<1>1. NUM \in Nat \ {0} /\ IdxMod \in Nat \ {0} /\ 0 \in Idx
  BY Bounds DEF Idx
<1>2. Live = {} /\ NA = 0 /\ NU = 0 /\ Publishing = 0
  <2>1. Dist(0, 0) = 0
    BY <1>1, IndexMoves
  <2> QED
    BY <2>1, VirtioDiskAssumption DEF Init, Live, NA, NU, Publishing
<1>3. Shape
  BY <1>1, <1>2, VirtioDiskAssumption DEF Init, Shape, PCs
<1>4. Chains
  BY <1>1, <1>2, DescFinite, FS_EmptySet DEF Init, Chains
<1>5. Handed
  BY <1>2 DEF Init, Handed
<1>6. Counts
  BY <1>2, FS_EmptySet DEF Init, Counts
<1> QED
  BY <1>3, <1>4, <1>5, <1>6 DEF Inv

LEMMA InvStep == ASSUME Inv, [Next]_vars PROVE Inv'
<1>1. CASE Next
  BY <1>1, CallOK, AllocFailsOK, AllocOK, PublishOK, WokenOK, IntrEnterOK, IntrEntryOK, IntrExitOK,
     DevTakeOK, DevFinishOK DEF Next
<1>2. CASE UNCHANGED vars
  <2>1. /\ UNCHANGED <<free, next, info, busy, ring, aidx, devvars, used_idx, head, panicked>>
        /\ pc' = pc /\ lk' = lk /\ served' = served
    BY <1>2 DEF vars, devvars
  <2>2. pc' \in [Tasks -> PCs]
    BY <2>1 DEF Inv, Shape
  <2> QED
    BY <2>1, <2>2, Outside
<1> QED
  BY <1>1, <1>2

LEMMA InvSound == ASSUME Inv PROVE DescConserved /\ OwnRequest
<1>1. \A t \in Live : Chain(head[t]) = Own(t) /\ None \notin Own(t)
  BY ChainIs
<1>2. \A t \in Live : Cardinality(Chain(head[t]) \ {None}) = 3 /\ Chain(head[t]) \cap free = {}
  <2> SUFFICES ASSUME NEW t \in Live
               PROVE  Cardinality(Chain(head[t]) \ {None}) = 3 /\ Chain(head[t]) \cap free = {}
    OBVIOUS
  <2>1. /\ head[t] # Second(t) /\ head[t] # Third(t) /\ Second(t) # Third(t)
        /\ Own(t) \cap free = {}
    BY DEF Inv, Chains
  <2>2. PICK S, a, b, c : S = {} /\ a = head[t] /\ b = Second(t) /\ c = Third(t)
    OBVIOUS
  <2>3. IsFiniteSet(S) /\ Cardinality(S) = 0 /\ a # b /\ a # c /\ b # c
        /\ a \notin S /\ b \notin S /\ c \notin S
    BY <2>1, <2>2, FS_EmptySet
  <2>4. Cardinality(S \cup {a, b, c}) = Cardinality(S) + 3
    <3>1. IsFiniteSet(S) /\ a # b /\ a # c /\ b # c /\ a \notin S /\ b \notin S /\ c \notin S
      BY <2>3
    <3> QED
      BY <3>1, Adds3
  <2>5. Chain(head[t]) \ {None} = S \cup {a, b, c}
    BY <1>1, <2>2 DEF Own
  <2>6. Cardinality(Chain(head[t]) \ {None}) = Cardinality(S) + 3
    BY <2>4, <2>5
  <2> QED
    BY <1>1, <2>1, <2>3, <2>6
<1>3. \A t, u \in Live : t # u => Chain(head[t]) \cap Chain(head[u]) \subseteq {None}
  <2>1. \A t, u \in Live : t # u => Own(t) \cap Own(u) = {}
    BY DEF Inv, Chains
  <2> QED
    BY <1>1, <2>1
<1>4. DescConserved
  BY <1>2, <1>3 DEF DescConserved, Inv, Chains
<1>5. OwnRequest
  BY DEF OwnRequest, Inv, Shape, Handed, Owned
<1> QED
  BY <1>4, <1>5

LEMMA Invariance == Spec => []Inv
<1> QED
  BY InitInv, InvStep, PTL DEF Spec

\* However requests interleave and in whatever order the device completes
\* them, a descriptor is free or one of the three of one request, and none is
\* lost (alloc3_desc, free_chain).
THEOREM DescriptorsConserved == Spec => []DescConserved
<1> QED
  BY Invariance, InvSound, PTL

\* The device works only on chains whose task waits for them, a request
\* returns only when it has been carried out, and neither the panics of
\* free_desc and virtio_disk_intr nor a blank ring entry are reached, although
\* the ring indices wrap (virtio_disk_rw, virtio_disk_intr).
THEOREM RequestsOwned == Spec => []OwnRequest
<1> QED
  BY Invariance, InvSound, PTL
-----------------------------------------------------------------------------
(* The display *)

GIdx == 0..GpuMod - 1

\* A ring r between the indices s and a: its entries, and that they differ.
InUse(a, s) == 0..Ahead(GpuMod, a, s) - 1
Entries(r, a, s) == {r[Place(GPU_NUM, s, k)] : k \in InUse(a, s)}
Apart(r, a, s) ==
    \A i, j \in InUse(a, s) : i # j => r[Place(GPU_NUM, s, i)] # r[Place(GPU_NUM, s, j)]

Queued == Entries(gring, gaidx, gseen)
Reported == Entries(guring, guidx, gused_idx)

Resting == {"boot", "idle", "copy"}
Sending == {"send", "nodesc"}
Flying == {"wait", "woken"}

GpuShape ==
    /\ gnext \in [GDesc -> GDesc \cup {NoDesc}]
    /\ gring \in [GDesc -> GDesc \cup {NoDesc}] /\ guring \in [GDesc -> GDesc \cup {NoDesc}]
    /\ gaidx \in GIdx /\ gseen \in GIdx /\ guidx \in GIdx /\ gused_idx \in GIdx
    /\ gpc \in [Callers -> Resting \cup Sending \cup Flying]
    /\ ghead \in [Callers -> GDesc \cup {NoDesc}]
    /\ cmd = [d \in GDesc |-> cmd[d]] /\ resp = [d \in GDesc |-> resp[d]]
    /\ todo = [t \in Callers |-> todo[t]]
    /\ ~gpanicked

GpuChains ==
    /\ \A t \in InFlight : /\ ghead[t] \in GDesc /\ gnext[ghead[t]] \in GDesc \ {ghead[t]}
                           /\ CommandChain(ghead[t]) \subseteq GDesc \cup {NoDesc}
    /\ \A t, u \in InFlight : t # u => CommandChain(ghead[t]) \cap CommandChain(ghead[u]) \subseteq {NoDesc}
    /\ gfree \subseteq GDesc
    /\ \A d \in GDesc : d \in gfree <=> \A t \in InFlight : d \notin CommandChain(ghead[t])

\* The heads on their way, each in one place.
GpuHanded ==
    /\ \A d \in Queued \cup gtaken \cup Reported : d \in pending /\ \E t \in InFlight : ghead[t] = d
    /\ Queued \cap gtaken = {} /\ Queued \cap Reported = {} /\ gtaken \cap Reported = {}
    /\ Apart(gring, gaidx, gseen) /\ Apart(guring, guidx, gused_idx)

\* What the device has set up when a command is sent.
SetUp == {"create", "attach", "scanout"}
Prior(c) ==
    CASE c \in {"info", "create"} -> {}
      [] c = "attach" -> {"create"}
      [] c = "scanout" -> {"create", "attach"}
      [] OTHER -> SetUp

\* What may be left to send.
Plans == {Boot, Tail(Boot), Tail(Tail(Boot)), <<"scanout", "transfer", "flush">>, FrameCommands, <<"flush">>}

\* Of two pictures, and of a picture and a frame: no part is older.
Later(v, w) == \A p \in FbPart : v[p] <= w[p]
Shows(v, f) == \A p \in FbPart : f <= v[p]

Done(t) ==
    /\ resp[ghead[t]] = "ok" /\ Head(todo[t]) \in display
    /\ Head(todo[t]) = "transfer" => Shows(host, mine[t])
    /\ Head(todo[t]) = "flush" => Shows(shown, mine[t])

OnPlan(t) ==
    /\ gpc[t] \in Sending \cup Flying =>
          /\ todo[t] \in Plans /\ Prior(Head(todo[t])) \subseteq display
          /\ Head(todo[t]) = "flush" => Shows(host, mine[t])
    /\ gpc[t] \in Flying => cmd[ghead[t]] = Head(todo[t]) /\ (ghead[t] \in Queued \/ Done(t))
    /\ gpc[t] \in Resting => Shows(shown, mine[t])
    /\ gpc[t] \in {"idle", "copy"} => SetUp \subseteq display

\* The frame buffer holds the newest frame and, in front, the part of the next
\* that the holder of monitor0.lock has copied; the pictures follow one another.
GpuFrames ==
    /\ frames \in Nat /\ copied \in 0..FB_PARTS /\ fetched \in 0..FB_PARTS
    /\ fb \in [FbPart -> Nat] /\ host \in [FbPart -> Nat] /\ shown \in [FbPart -> Nat]
    /\ \A p \in FbPart : fb[p] = IF p <= copied THEN frames + 1 ELSE frames
    /\ Later(shown, host) /\ Later(host, fb)
    /\ mine \in [Callers -> 0..frames]
    /\ frames = 0 \/ \E t \in Writers : mine[t] = frames
    /\ mlock = NoTask => copied = 0
    /\ \A t \in Writers : gpc[t] = "copy" => mlock = t

\* What the device has read so far is no older than the frame of the transfer's task.
Fetching ==
    fetched # 0 =>
        /\ gseen # gaidx
        /\ \A t \in Callers : gpc[t] \in Flying /\ ghead[t] = FirstCommand
              => \A p \in 1..fetched : mine[t] <= host[p]

GpuInv == GpuShape /\ GpuChains /\ GpuHanded /\ GpuFrames /\ Fetching /\ \A t \in Callers : OnPlan(t)

LEMMA LaterShows ==
  ASSUME NEW v \in [FbPart -> Nat], NEW w \in [FbPart -> Nat], Later(v, w), NEW f \in Nat, Shows(v, f)
  PROVE  Shows(w, f)
<1>1. ASSUME NEW p \in FbPart PROVE f <= w[p]
  <2>1. v[p] \in Nat /\ w[p] \in Nat /\ v[p] <= w[p] /\ f <= v[p]
    BY DEF Later, Shows
  <2> QED
    BY <2>1
<1> QED
  BY <1>1 DEF Shows

LEMMA FramesStay ==
  ASSUME GpuFrames, UNCHANGED <<frames, fb, host, shown, copied, fetched, mine, mlock>>,
         \A t \in Writers : gpc'[t] = "copy" => gpc[t] = "copy"
  PROVE  GpuFrames'
<1>1. Later(shown, host)' /\ Later(host, fb)'
  BY DEF GpuFrames, Later
<1> QED
  BY <1>1 DEF GpuFrames

LEMMA FetchingStays ==
  ASSUME Fetching, UNCHANGED <<fetched, host, gseen, gaidx, gring>>,
         \A t \in Callers : gpc'[t] \in Flying
            => gpc[t] \in Flying /\ ghead'[t] = ghead[t] /\ mine'[t] = mine[t]
  PROVE  Fetching'
<1>1. FirstCommand' = FirstCommand
  BY DEF FirstCommand
<1>2. SUFFICES ASSUME fetched # 0, NEW t \in Callers, gpc'[t] \in Flying, ghead'[t] = FirstCommand, NEW p \in 1..fetched
               PROVE  mine'[t] <= host[p]
  BY <1>1 DEF Fetching
<1>3. gpc[t] \in Flying /\ ghead[t] = FirstCommand /\ mine'[t] = mine[t]
  BY <1>2
<1> QED
  BY <1>2, <1>3 DEF Fetching

LEMMA GpuSizes ==
  /\ GPU_NUM \in Nat \ {0} /\ GpuMod \in Nat \ {0} /\ GPU_NUM <= GpuMod
  /\ MultipleOf(GpuMod, GPU_NUM)
<1>1. PICK k \in 1..GpuMod : GpuMod = k * GPU_NUM
  BY VirtioGpuAssumption
<1>2. GPU_NUM \in Nat \ {0} /\ GpuMod \in Nat /\ k \in Nat /\ k >= 1
  BY VirtioGpuAssumption, <1>1
<1>3. k * GPU_NUM >= GPU_NUM
  BY <1>2
<1> QED
  BY <1>1, <1>2, <1>3 DEF MultipleOf

LEMMA GDescFinite ==
  IsFiniteSet(GDesc) /\ GDesc \subseteq Nat /\ NoDesc \notin GDesc /\ Cardinality(GDesc) = GPU_NUM
<1>1. GPU_NUM \in Nat \ {0}
  BY GpuSizes
<1>2. 0 \in Int /\ GPU_NUM - 1 \in Int
  BY <1>1
<1>3. IsFiniteSet(0..GPU_NUM - 1) /\ Cardinality(0..GPU_NUM - 1) = GPU_NUM
  BY <1>1, <1>2, FS_Interval
<1> QED
  BY <1>1, <1>3 DEF GDesc, NoDesc

\* The index facts, for the display's rings.
LEMMA GpuMoves ==
  ASSUME NEW a \in GIdx, NEW s \in GIdx
  PROVE  /\ After(GpuMod, a) \in GIdx /\ Ahead(GpuMod, a, s) \in Nat
         /\ Ahead(GpuMod, a, s) = 0 <=> a = s
         /\ Ahead(GpuMod, a, s) + 1 < GpuMod
              => Ahead(GpuMod, After(GpuMod, a), s) = Ahead(GpuMod, a, s) + 1
         /\ a # s => Ahead(GpuMod, a, After(GpuMod, s)) = Ahead(GpuMod, a, s) - 1
<1>1. PICK m \in Nat \ {0} : m = GpuMod
  BY GpuSizes
<1>2. a \in 0..m - 1 /\ s \in 0..m - 1
  BY <1>1 DEF GIdx
<1>3. /\ After(m, a) \in 0..m - 1 /\ Ahead(m, a, s) \in Nat
      /\ Ahead(m, a, s) = 0 <=> a = s
      /\ Ahead(m, a, s) + 1 < m => Ahead(m, After(m, a), s) = Ahead(m, a, s) + 1
      /\ a # s => Ahead(m, a, After(m, s)) = Ahead(m, a, s) - 1
  BY <1>2, RingMoves
<1> QED
  BY <1>1, <1>3, Zenon DEF GIdx

LEMMA GpuPlaces ==
  ASSUME NEW a \in GIdx, NEW s \in GIdx
  PROVE  /\ \A k \in Nat : /\ Place(GPU_NUM, s, k) \in GDesc
                           /\ Place(GPU_NUM, After(GpuMod, s), k) = Place(GPU_NUM, s, k + 1)
         /\ Place(GPU_NUM, s, Ahead(GpuMod, a, s)) = a % GPU_NUM /\ Place(GPU_NUM, s, 0) = s % GPU_NUM
         /\ \A i, j \in GDesc : i # j => Place(GPU_NUM, s, i) # Place(GPU_NUM, s, j)
         /\ a % GPU_NUM \in GDesc
<1>1. PICK m \in Nat \ {0}, n \in Nat \ {0} : m = GpuMod /\ n = GPU_NUM /\ MultipleOf(m, n)
  BY GpuSizes
<1>2. a \in 0..m - 1 /\ s \in 0..m - 1 /\ GDesc = 0..n - 1
  BY <1>1 DEF GIdx, GDesc
<1>6. MultipleOf(m, n)
  BY <1>1
<1>3. /\ \A k \in Nat : Place(n, s, k) \in 0..n - 1 /\ Place(n, After(m, s), k) = Place(n, s, k + 1)
      /\ Place(n, s, Ahead(m, s, s)) = s % n /\ Place(n, s, 0) = s % n
      /\ \A i, j \in 0..n - 1 : i # j => Place(n, s, i) # Place(n, s, j)
  BY ZenonT(40), <1>2, <1>6, RingPlaces
<1>4. /\ \A k \in Nat : Place(n, a, k) \in 0..n - 1 /\ Place(n, After(m, a), k) = Place(n, a, k + 1)
      /\ Place(n, s, Ahead(m, a, s)) = a % n /\ Place(n, a, 0) = a % n
      /\ \A i, j \in 0..n - 1 : i # j => Place(n, a, i) # Place(n, a, j)
  BY ZenonT(40), <1>2, <1>6, RingPlaces
<1>5. a % n \in 0..n - 1
  BY <1>2, InRange
<1> QED
  BY ZenonT(40), <1>1, <1>2, <1>3, <1>4, <1>5

Ring == [GDesc -> GDesc \cup {NoDesc}]

\* Different entries of a set are no more than the set has.
LEMMA RingFits ==
  ASSUME NEW r \in Ring, NEW a \in GIdx, NEW s \in GIdx, Apart(r, a, s),
         NEW S, IsFiniteSet(S), Entries(r, a, s) \subseteq S
  PROVE  Ahead(GpuMod, a, s) <= Cardinality(S)
<1>1. PICK n \in Nat : n = Ahead(GpuMod, a, s)
  BY GpuMoves
<1>2. InUse(a, s) = 0..n - 1
  BY <1>1 DEF InUse
<1> DEFINE f == [k \in 0..n - 1 |-> r[Place(GPU_NUM, s, k)]]
<1>3. \A k \in 0..n - 1 : f[k] \in S
  BY <1>2 DEF Entries
<1>4. f \in [0..n - 1 -> S]
  BY <1>3
<1>5. \A i, j \in 0..n - 1 : f[i] = f[j] => i = j
  BY <1>2 DEF Apart
<1>6. f \in Injection(0..n - 1, S)
  BY <1>4, <1>5 DEF Injection, IsInjective
<1>7. 0 \in Int /\ n - 1 \in Int
  OBVIOUS
<1>8. Cardinality(0..n - 1) = n
  BY <1>7, FS_Interval
<1> HIDE DEF f
<1>9. Cardinality(0..n - 1) <= Cardinality(S)
  BY <1>6, FS_Injection
<1> QED
  BY <1>1, <1>8, <1>9

LEMMA RingPush ==
  ASSUME NEW r \in Ring, NEW a \in GIdx, NEW s \in GIdx, NEW d \in GDesc,
         Ahead(GpuMod, a, s) + 1 < GPU_NUM, Apart(r, a, s), d \notin Entries(r, a, s)
  PROVE  /\ After(GpuMod, a) \in GIdx /\ [r EXCEPT ![a % GPU_NUM] = d] \in Ring
         /\ Entries([r EXCEPT ![a % GPU_NUM] = d], After(GpuMod, a), s) = Entries(r, a, s) \cup {d}
         /\ Apart([r EXCEPT ![a % GPU_NUM] = d], After(GpuMod, a), s)
<1>1. PICK n \in Nat : n = Ahead(GpuMod, a, s)
  BY GpuMoves
<1>2. n + 1 < GPU_NUM /\ GPU_NUM \in Nat /\ n + 1 < GpuMod
  BY <1>1, GpuSizes
<1>3. Ahead(GpuMod, After(GpuMod, a), s) = n + 1 /\ After(GpuMod, a) \in GIdx
  BY <1>1, <1>2, GpuMoves
<1>4. InUse(a, s) = 0..n - 1 /\ InUse(After(GpuMod, a), s) = 0..n
  BY <1>1, <1>3 DEF InUse
<1>5. PICK p : p = [k \in 0..n |-> Place(GPU_NUM, s, k)]
  OBVIOUS
<1>6. \A k \in 0..n : p[k] = Place(GPU_NUM, s, k)
  BY <1>5
<1>7. \A k \in 0..n : p[k] \in GDesc
  BY <1>6, GpuPlaces
<1>8. p[n] = a % GPU_NUM
  BY <1>1, <1>6, GpuPlaces
<1>9. \A i, j \in 0..n : i # j => p[i] # p[j]
  <2>1. 0..n \subseteq GDesc
    BY <1>2 DEF GDesc
  <2> QED
    BY <1>6, <2>1, GpuPlaces
<1>10. PICK q : q = [r EXCEPT ![a % GPU_NUM] = d]
  OBVIOUS
<1>11. q \in Ring
  BY <1>10 DEF Ring
<1>12. q[p[n]] = d /\ \A k \in 0..n - 1 : q[p[k]] = r[p[k]]
  BY <1>7, <1>8, <1>9, <1>10 DEF Ring
<1>13. Entries(r, a, s) = {r[p[k]] : k \in 0..n - 1} /\ Entries(q, After(GpuMod, a), s) = {q[p[k]] : k \in 0..n}
  BY <1>4, <1>6 DEF Entries
<1>14. 0..n = 0..n - 1 \cup {n}
  OBVIOUS
<1>15. {q[p[k]] : k \in 0..n} = {r[p[k]] : k \in 0..n - 1} \cup {d}
  BY <1>12, <1>14
<1>16. \A i, j \in 0..n - 1 : i # j => r[p[i]] # r[p[j]]
  BY <1>4, <1>6 DEF Apart
<1>17. \A k \in 0..n - 1 : r[p[k]] # d
  BY <1>13
<1>18. \A i, j \in 0..n : i # j => q[p[i]] # q[p[j]]
  BY <1>12, <1>14, <1>16, <1>17
<1>19. Apart(q, After(GpuMod, a), s)
  BY <1>4, <1>6, <1>18 DEF Apart
<1> QED
  BY <1>3, <1>10, <1>11, <1>13, <1>15, <1>19

LEMMA RingPop ==
  ASSUME NEW r \in Ring, NEW a \in GIdx, NEW s \in GIdx, a # s, Apart(r, a, s), Entries(r, a, s) \subseteq GDesc
  PROVE  /\ After(GpuMod, s) \in GIdx /\ [r EXCEPT ![s % GPU_NUM] = NoDesc] \in Ring
         /\ r[s % GPU_NUM] \in Entries(r, a, s)
         /\ Entries([r EXCEPT ![s % GPU_NUM] = NoDesc], a, After(GpuMod, s))
              = Entries(r, a, s) \ {r[s % GPU_NUM]}
         /\ Apart([r EXCEPT ![s % GPU_NUM] = NoDesc], a, After(GpuMod, s))
<1>1. PICK n \in Nat : n = Ahead(GpuMod, a, s)
  BY GpuMoves
<1>2. n <= GPU_NUM /\ GPU_NUM \in Nat /\ n # 0
  BY <1>1, GpuSizes, GDescFinite, RingFits, GpuMoves
<1>3. Ahead(GpuMod, a, After(GpuMod, s)) = n - 1 /\ After(GpuMod, s) \in GIdx
  BY <1>1, GpuMoves
<1>4. InUse(a, s) = 0..n - 1 /\ InUse(a, After(GpuMod, s)) = 0..n - 1 - 1
  BY <1>1, <1>3 DEF InUse
<1>5. PICK p : p = [k \in 0..n - 1 |-> Place(GPU_NUM, s, k)]
  OBVIOUS
<1>6. \A k \in 0..n - 1 : p[k] = Place(GPU_NUM, s, k)
  BY <1>5
<1>20. \A k \in 0..n - 1 - 1 : k + 1 \in 0..n - 1 /\ Place(GPU_NUM, After(GpuMod, s), k) = p[k + 1]
  BY <1>6, GpuPlaces
<1>7. \A k \in 0..n - 1 : p[k] \in GDesc
  BY <1>6, GpuPlaces
<1>8. 0 \in 0..n - 1 /\ p[0] = s % GPU_NUM
  BY <1>2, <1>6, GpuPlaces
<1>9. \A i, j \in 0..n - 1 : i # j => p[i] # p[j]
  <2>1. 0..n - 1 \subseteq GDesc
    BY <1>2 DEF GDesc
  <2> QED
    BY <1>6, <2>1, GpuPlaces
<1>10. PICK q : q = [r EXCEPT ![s % GPU_NUM] = NoDesc]
  OBVIOUS
<1>11. q \in Ring
  BY <1>10 DEF Ring
<1>12. \A k \in 0..n - 1 : k # 0 => q[p[k]] = r[p[k]]
  BY <1>7, <1>8, <1>9, <1>10 DEF Ring
<1>13. Entries(r, a, s) = {r[p[k]] : k \in 0..n - 1}
  BY <1>4, <1>6 DEF Entries
<1>14. \A k \in 0..n - 1 - 1 : q[Place(GPU_NUM, After(GpuMod, s), k)] = r[p[k + 1]]
  BY <1>12, <1>20
<1>15. Entries(q, a, After(GpuMod, s)) = {r[p[k + 1]] : k \in 0..n - 1 - 1}
  BY <1>4, <1>14 DEF Entries
<1>16. \A i, j \in 0..n - 1 : i # j => r[p[i]] # r[p[j]]
  BY <1>4, <1>6 DEF Apart
<1>17. \A k \in 0..n - 1 : k = 0 \/ (k - 1 \in 0..n - 1 - 1 /\ (k - 1) + 1 = k)
  OBVIOUS
<1>18. {r[p[k + 1]] : k \in 0..n - 1 - 1} = {r[p[k]] : k \in 0..n - 1} \ {r[p[0]]}
  <2>1. ASSUME NEW k \in 0..n - 1 - 1 PROVE r[p[k + 1]] \in {r[p[i]] : i \in 0..n - 1} \ {r[p[0]]}
    <3>1. k + 1 \in 0..n - 1 /\ k + 1 # 0
      OBVIOUS
    <3> QED
      BY <1>8, <1>16, <3>1
  <2>2. ASSUME NEW k \in 0..n - 1, r[p[k]] # r[p[0]] PROVE r[p[k]] \in {r[p[i + 1]] : i \in 0..n - 1 - 1}
    <3>1. PICK i \in 0..n - 1 - 1 : i + 1 = k
      BY <1>17, <2>2
    <3> QED
      BY <3>1
  <2> QED
    BY <2>1, <2>2
<1>19. Apart(q, a, After(GpuMod, s))
  <2>1. SUFFICES ASSUME NEW i \in 0..n - 1 - 1, NEW j \in 0..n - 1 - 1, i # j PROVE r[p[i + 1]] # r[p[j + 1]]
    BY <1>4, <1>14 DEF Apart
  <2>2. i + 1 \in 0..n - 1 /\ j + 1 \in 0..n - 1 /\ i + 1 # j + 1
    BY <2>1
  <2> QED
    BY <1>16, <2>2
<1> QED
  BY <1>3, <1>8, <1>10, <1>11, <1>13, <1>15, <1>18, <1>19

\* What is left of a plan after a command, and what the device has by then.
LEMMA PlanFacts ==
  ASSUME NEW s \in Plans
  PROVE  /\ Needs(Head(s)) \subseteq Prior(Head(s)) /\ Prior(Head(s)) \subseteq SetUp
         /\ Len(s) > 1 => /\ Tail(s) \in Plans
                          /\ Prior(Head(Tail(s))) \subseteq Prior(Head(s)) \cup {Head(s)}
                          /\ Head(Tail(s)) = "flush" => Head(s) = "transfer"
         /\ ~(Len(s) > 1) => Head(s) = "flush"
         /\ ChainLength(Head(s)) \in {2, 3}
<1>1. Plans = {<<"info", "create", "attach", "scanout", "transfer", "flush">>,
               <<"create", "attach", "scanout", "transfer", "flush">>,
               <<"attach", "scanout", "transfer", "flush">>,
               <<"scanout", "transfer", "flush">>,
               <<"transfer", "flush">>,
               <<"flush">>}
  <2>1. Tail(Boot) = <<"create", "attach", "scanout", "transfer", "flush">> /\ Tail(<<"create", "attach", "scanout", "transfer", "flush">>) = <<"attach", "scanout", "transfer", "flush">>
    BY DEF Boot
  <2> QED
    BY <2>1 DEF Plans, Boot, FrameCommands
<1>2. CASE s = <<"info", "create", "attach", "scanout", "transfer", "flush">>
  <2>1. Head(s) = "info" /\ Tail(s) = <<"create", "attach", "scanout", "transfer", "flush">> /\ Len(s) > 1
    BY <1>2
  <2>2. Head(<<"create", "attach", "scanout", "transfer", "flush">>) = "create"
    OBVIOUS
  <2> QED
    BY <1>1, <2>1, <2>2 DEF Needs, Prior, SetUp, ChainLength
<1>3. CASE s = <<"create", "attach", "scanout", "transfer", "flush">>
  <2>1. Head(s) = "create" /\ Tail(s) = <<"attach", "scanout", "transfer", "flush">> /\ Len(s) > 1
    BY <1>3
  <2>2. Head(<<"attach", "scanout", "transfer", "flush">>) = "attach"
    OBVIOUS
  <2> QED
    BY <1>1, <2>1, <2>2 DEF Needs, Prior, SetUp, ChainLength
<1>4. CASE s = <<"attach", "scanout", "transfer", "flush">>
  <2>1. Head(s) = "attach" /\ Tail(s) = <<"scanout", "transfer", "flush">> /\ Len(s) > 1
    BY <1>4
  <2>2. Head(<<"scanout", "transfer", "flush">>) = "scanout"
    OBVIOUS
  <2> QED
    BY <1>1, <2>1, <2>2 DEF Needs, Prior, SetUp, ChainLength
<1>5. CASE s = <<"scanout", "transfer", "flush">>
  <2>1. Head(s) = "scanout" /\ Tail(s) = <<"transfer", "flush">> /\ Len(s) > 1
    BY <1>5
  <2>2. Head(<<"transfer", "flush">>) = "transfer"
    OBVIOUS
  <2> QED
    BY <1>1, <2>1, <2>2 DEF Needs, Prior, SetUp, ChainLength
<1>6. CASE s = <<"transfer", "flush">>
  <2>1. Head(s) = "transfer" /\ Tail(s) = <<"flush">> /\ Len(s) > 1
    BY <1>6
  <2>2. Head(<<"flush">>) = "flush"
    OBVIOUS
  <2> QED
    BY <1>1, <2>1, <2>2 DEF Needs, Prior, SetUp, ChainLength
<1>7. CASE s = <<"flush">>
  <2>1. Head(s) = "flush" /\ ~(Len(s) > 1)
    BY <1>7
  <2> QED
    BY <2>1 DEF Needs, Prior, SetUp, ChainLength
<1> QED
  BY <1>1, <1>2, <1>3, <1>4, <1>5, <1>6, <1>7

LEMMA FramePlan == FrameCommands \in Plans /\ Head(FrameCommands) = "transfer" /\ Prior("transfer") = SetUp
<1>1. Head(<<"transfer", "flush">>) = "transfer"
  OBVIOUS
<1> QED
  BY <1>1 DEF Plans, FrameCommands, Prior

LEMMA BootPlan == Boot \in Plans /\ Head(Boot) = "info" /\ Prior("info") = {}
<1>1. Head(<<"info", "create", "attach", "scanout", "transfer", "flush">>) = "info"
  OBVIOUS
<1> QED
  BY <1>1 DEF Plans, Boot, Prior

LEMMA LowestDescIn == ASSUME NEW S, S \subseteq Nat, S # {} PROVE LowestDesc(S) \in S
BY HasSmallest DEF LowestDesc

LEMMA TwoLess ==
  ASSUME NEW S, IsFiniteSet(S), NEW a \in S, NEW b \in S, a # b
  PROVE  IsFiniteSet(S \ {a, b}) /\ Cardinality(S \ {a, b}) = Cardinality(S) - 2
<1>1. IsFiniteSet(S \ {a}) /\ Cardinality(S \ {a}) = Cardinality(S) - 1
  BY FS_RemoveElement
<1>2. IsFiniteSet((S \ {a}) \ {b}) /\ Cardinality((S \ {a}) \ {b}) = Cardinality(S \ {a}) - 1
  BY <1>1, FS_RemoveElement
<1>3. (S \ {a}) \ {b} = S \ {a, b}
  OBVIOUS
<1>4. Cardinality(S) \in Nat
  BY FS_CardinalityType
<1>5. Cardinality((S \ {a}) \ {b}) = Cardinality(S) - 2
  BY <1>1, <1>2, <1>4
<1> QED
  BY <1>2, <1>3, <1>5, Zenon

\* The descriptors allocn_desc takes are free and different.
LEMMA TakesN ==
  ASSUME NEW S, S \subseteq GDesc, NEW n \in {2, 3}, Cardinality(S) >= n
  PROVE  \E a, b \in S, z \in S \cup {NoDesc} :
            /\ a # b /\ z \notin {a, b} /\ (n = 2 => z = NoDesc) /\ (n = 3 => z \in S)
            /\ TakeN(S, n) = IF n = 2 THEN <<a, b>> ELSE <<a, b, z>>
<1>1. IsFiniteSet(S) /\ S \subseteq Nat /\ NoDesc \notin S
  BY GDescFinite, FS_Subset
<1>2. Cardinality(S) \in Nat
  BY <1>1, FS_CardinalityType
<1>3. S # {}
  BY <1>2, FS_EmptySet
<1>4. PICK a \in S : a = LowestDesc(S)
  BY <1>1, <1>3, LowestDescIn
<1>5. IsFiniteSet(S \ {a}) /\ Cardinality(S \ {a}) = Cardinality(S) - 1
  BY <1>1, FS_RemoveElement
<1>6. S \ {a} # {}
  BY <1>2, <1>5, FS_EmptySet
<1>7. PICK b \in S \ {a} : b = LowestDesc(S \ {a})
  BY <1>1, <1>6, LowestDescIn
<1>8. CASE n = 2
  <2>1. TakeN(S, n) = <<a, b>>
    BY <1>4, <1>7, <1>8 DEF TakeN
  <2>2. a \in S /\ b \in S /\ NoDesc \in S \cup {NoDesc} /\ a # b /\ NoDesc \notin {a, b} /\ n # 3
    BY <1>1, <1>7, <1>8
  <2> QED
    BY <1>8, <2>1, <2>2
<1>9. CASE n = 3
  <2>1. IsFiniteSet(S \ {a, b}) /\ Cardinality(S \ {a, b}) = Cardinality(S) - 2
    BY <1>1, TwoLess
  <2>2. S \ {a, b} # {}
    BY <1>2, <1>9, <2>1, FS_EmptySet
  <2>3. PICK z \in S \ {a, b} : z = LowestDesc(S \ {a, b})
    BY <1>1, <2>2, LowestDescIn
  <2>4. TakeN(S, n) = <<a, b, z>>
    BY <1>4, <1>7, <1>9, <2>3 DEF TakeN
  <2>5. a \in S /\ b \in S /\ z \in S \cup {NoDesc} /\ a # b /\ z \notin {a, b} /\ n # 2
    BY <1>7, <1>9, <2>3
  <2> QED
    BY <1>9, <2>3, <2>4, <2>5
<1> QED
  BY <1>8, <1>9

LEMMA HeadsDiffer ==
  ASSUME GpuChains, NEW t \in InFlight, NEW u \in InFlight, ghead[t] = ghead[u] PROVE t = u
<1>1. SUFFICES ASSUME t # u PROVE FALSE
  OBVIOUS
<1>2. ghead[t] \in GDesc /\ CommandChain(ghead[t]) \cap CommandChain(ghead[u]) \subseteq {NoDesc}
  BY <1>1 DEF GpuChains
<1>3. ghead[t] \in CommandChain(ghead[t]) /\ ghead[t] \in CommandChain(ghead[u])
  BY DEF CommandChain
<1> QED
  BY <1>2, <1>3, GDescFinite

\* A head on its way has one task, is not free, and the descriptor after it is
\* nobody's head.
LEMMA HeadOf ==
  ASSUME GpuChains, GpuHanded, NEW d, d \in Queued \cup gtaken \cup Reported
  PROVE  /\ d \in GDesc /\ d \in pending /\ d \notin gfree
         /\ \E t \in InFlight : ghead[t] = d
         /\ gnext[d] \in GDesc \ {d} /\ \A u \in InFlight : ghead[u] # gnext[d]
<1>1. PICK t \in InFlight : ghead[t] = d /\ d \in pending
  BY DEF GpuHanded
<1>2. d \in GDesc /\ gnext[d] \in GDesc \ {d}
  BY <1>1 DEF GpuChains
<1>3. d \in CommandChain(d) /\ gnext[d] \in CommandChain(d)
  BY DEF CommandChain
<1>4. d \notin gfree
  BY <1>1, <1>2, <1>3 DEF GpuChains
<1>5. ASSUME NEW u \in InFlight, ghead[u] = gnext[d] PROVE FALSE
  <2>1. u # t
    BY <1>1, <1>2, <1>5
  <2>2. gnext[d] \in CommandChain(ghead[u])
    BY <1>5 DEF CommandChain
  <2>3. CommandChain(ghead[t]) \cap CommandChain(ghead[u]) \subseteq {NoDesc}
    BY <2>1 DEF GpuChains
  <2> QED
    BY <1>1, <1>2, <1>3, <2>2, <2>3, GDescFinite
<1> QED
  BY <1>1, <1>2, <1>4, <1>5

LEMMA ChainsStay ==
  ASSUME GpuChains, UNCHANGED <<gfree, gnext, ghead>>, InFlight' = InFlight PROVE GpuChains'
<1>1. \A t : CommandChain(ghead[t])' = CommandChain(ghead[t]) /\ ghead'[t] = ghead[t]
  BY DEF CommandChain
<1>2. \A t \in InFlight' : /\ ghead'[t] \in GDesc /\ gnext'[ghead'[t]] \in GDesc \ {ghead'[t]}
                           /\ CommandChain(ghead[t])' \subseteq GDesc \cup {NoDesc}
  BY <1>1 DEF GpuChains
<1>3. \A t, u \in InFlight' : t # u => CommandChain(ghead[t])' \cap CommandChain(ghead[u])' \subseteq {NoDesc}
  BY <1>1 DEF GpuChains
<1>4. gfree' \subseteq GDesc
  BY DEF GpuChains
<1>5. \A d \in GDesc : d \in gfree' <=> \A t \in InFlight' : d \notin CommandChain(ghead[t])'
  BY <1>1 DEF GpuChains
<1> QED
  BY <1>2, <1>3, <1>4, <1>5 DEF GpuChains

\* Steps that only move tasks between places that are alike.
LEMMA GpuOutside ==
  ASSUME GpuInv,
         UNCHANGED <<gfree, gnext, pending, gring, gaidx, guring, guidx, gused_idx, gseen, gtaken, ghead,
                     cmd, resp, todo, display, host, shown, fetched, mine, gpanicked>>,
         GpuFrames', gpc' \in [Callers -> Resting \cup Sending \cup Flying],
         \A t \in Callers : \/ gpc'[t] = gpc[t]
                            \/ gpc[t] \in Sending /\ gpc'[t] \in Sending
                            \/ gpc[t] \in Flying /\ gpc'[t] \in Flying
                            \/ gpc[t] \in {"idle", "copy"} /\ gpc'[t] \in {"idle", "copy"}
  PROVE  GpuInv'
<1>1. GpuShape /\ GpuChains /\ GpuHanded /\ Fetching /\ \A t \in Callers : OnPlan(t)
  BY DEF GpuInv
<1>2. InFlight' = InFlight
  BY DEF InFlight, Sending, Flying
<1>3. Queued' = Queued /\ Reported' = Reported
  BY DEF Queued, Reported
<1>4. GpuShape'
  BY <1>1 DEF GpuShape
<1>5. GpuChains'
  BY <1>1, <1>2, ChainsStay
<1>6. GpuHanded'
  BY <1>1, <1>2, <1>3 DEF GpuHanded
<1>7. Fetching'
  <2>1. \A t \in Callers : gpc'[t] \in Flying => gpc[t] \in Flying
    BY DEF Sending, Flying
  <2> QED
    BY <1>1, <2>1, FetchingStays
<1>8. ASSUME NEW t \in Callers PROVE OnPlan(t)'
  <2>1. OnPlan(t)
    BY <1>1
  <2>2. (Done(t)' <=> Done(t)) /\ (Shows(shown, mine[t])' <=> Shows(shown, mine[t]))
        /\ (Shows(host, mine[t])' <=> Shows(host, mine[t]))
    BY DEF Done, Shows
  <2> QED
    BY <1>3, <2>1, <2>2 DEF OnPlan, Resting, Sending, Flying
<1> QED
  BY <1>4, <1>5, <1>6, <1>7, <1>8 DEF GpuInv

LEMMA SendNoDescOK == ASSUME GpuInv, NEW t \in Callers, SendNoDesc(t) PROVE GpuInv'
<1>1. gpc \in [Callers -> Resting \cup Sending \cup Flying] /\ gpc[t] = "send"
  BY DEF GpuInv, GpuShape, SendNoDesc
<1>2. PICK S : gpc' = [WakeCallers(gpc, "nodesc", "send", S) EXCEPT ![t] = "nodesc"]
  BY DEF SendNoDesc
<1>3. /\ gpc' \in [Callers -> Resting \cup Sending \cup Flying]
      /\ \A u \in Callers : gpc'[u] = gpc[u] \/ (gpc[u] \in Sending /\ gpc'[u] \in Sending)
  BY <1>1, <1>2 DEF WakeCallers, Sending
<1>4. GpuFrames'
  <2>1. \A u \in Writers : gpc'[u] = "copy" => gpc[u] = "copy"
    BY <1>3 DEF Callers, Sending
  <2> QED
    BY <2>1, FramesStay DEF GpuInv, SendNoDesc, frameVars
<1> QED
  BY <1>3, <1>4, GpuOutside DEF SendNoDesc, queueVars, frameVars

LEMMA QuietOK ==
  ASSUME GpuInv, (\E t \in Writers : MonitorLock(t) \/ MonitorRefuse(t)) \/ GpuIntr \/ GpuReturn \/ UNCHANGED gpuVars
  PROVE  GpuInv'
<1>1. gpc \in [Callers -> Resting \cup Sending \cup Flying] /\ Writers \subseteq Callers
  BY DEF GpuInv, GpuShape, Callers
<1>2. /\ gpc' \in [Callers -> Resting \cup Sending \cup Flying]
      /\ \A u \in Callers : gpc'[u] = gpc[u] \/ (gpc[u] \in {"idle", "copy"} /\ gpc'[u] \in {"idle", "copy"})
  BY <1>1 DEF MonitorLock, MonitorRefuse, GpuIntr, GpuReturn, gpuVars, Resting
<1>3. GpuFrames'
  <2>1. CASE \E t \in Writers : MonitorLock(t)
    <3>1. PICK t \in Writers : MonitorLock(t)
      BY <2>1
    <3>2. /\ mlock = NoTask /\ mlock' = t /\ gpc' = [gpc EXCEPT ![t] = "copy"] /\ NoTask \notin Writers
          /\ UNCHANGED <<frames, fb, host, shown, copied, fetched, mine>>
      BY <3>1, VirtioGpuAssumption DEF MonitorLock, frameVars
    <3>3. GpuFrames
      BY DEF GpuInv
    <3>4. \A u \in Writers : gpc'[u] = "copy" => mlock' = u
      BY <1>1, <3>2, <3>3 DEF GpuFrames
    <3>5. Later(shown, host)' /\ Later(host, fb)'
      BY <3>2, <3>3 DEF GpuFrames, Later
    <3>6. mlock' = NoTask => copied' = 0
      BY <3>2
    <3> QED
      BY <3>2, <3>3, <3>4, <3>5, <3>6 DEF GpuFrames
  <2>2. CASE (\E t \in Writers : MonitorRefuse(t)) \/ GpuIntr \/ GpuReturn \/ UNCHANGED gpuVars
    <3>1. /\ \A u \in Writers : gpc'[u] = "copy" => gpc[u] = "copy"
          /\ UNCHANGED <<frames, fb, host, shown, copied, fetched, mine, mlock>>
      BY <1>1, <2>2 DEF MonitorRefuse, GpuIntr, GpuReturn, gpuVars, frameVars
    <3> QED
      BY <3>1, FramesStay DEF GpuInv
  <2> QED
    BY <2>1, <2>2
<1> QED
  BY <1>2, <1>3, GpuOutside DEF MonitorLock, MonitorRefuse, GpuIntr, GpuReturn, gpuVars, queueVars, frameVars

\* A part is copied in: the frame buffer gets newer.
LEMMA MonitorCopyOK == ASSUME GpuInv, NEW t \in Writers, MonitorCopy(t) PROVE GpuInv'
<1>1. GpuFrames /\ gpc \in [Callers -> Resting \cup Sending \cup Flying] /\ FB_PARTS \in Nat /\ NoTask \notin Writers
  BY VirtioGpuAssumption DEF GpuInv, GpuShape
<1>2. /\ gpc[t] = "copy" /\ copied < FB_PARTS /\ copied' = copied + 1
      /\ fb' = [fb EXCEPT ![copied + 1] = frames + 1]
      /\ UNCHANGED <<frames, host, shown, fetched, mine, mlock, gpc>>
  BY DEF MonitorCopy
<1>3. PICK n \in Nat : n = frames
  BY <1>1 DEF GpuFrames
<1>4. PICK c \in Nat : c = copied /\ c < FB_PARTS
  BY <1>1, <1>2 DEF GpuFrames
<1>5. fb \in [FbPart -> Nat] /\ host \in [FbPart -> Nat] /\ \A p \in FbPart : fb[p] = IF p <= c THEN n + 1 ELSE n
  BY <1>1, <1>3, <1>4 DEF GpuFrames
<1>6. c + 1 \in FbPart
  BY <1>1, <1>4 DEF FbPart
<1>7. fb' \in [FbPart -> Nat] /\ fb'[c + 1] = n + 1 /\ \A p \in FbPart \ {c + 1} : fb'[p] = fb[p]
  BY <1>2, <1>3, <1>4, <1>5, <1>6
<1>8. ASSUME NEW p \in FbPart PROVE fb'[p] = (IF p <= c + 1 THEN n + 1 ELSE n) /\ host[p] <= fb'[p]
  <2>1. p \in Int /\ host[p] \in Nat /\ host[p] <= fb[p] /\ fb[p] \in Nat
    BY <1>1, <1>5 DEF GpuFrames, Later, FbPart
  <2>2. fb[p] = IF p <= c THEN n + 1 ELSE n
    BY <1>5
  <2>3. CASE p = c + 1
    BY <1>4, <1>7, <2>1, <2>2, <2>3
  <2>4. CASE p # c + 1
    <3>1. fb'[p] = fb[p] /\ (p <= c <=> p <= c + 1)
      BY <1>4, <1>7, <2>1, <2>4
    <3> QED
      BY <2>1, <2>2, <3>1
  <2> QED
    BY <2>3, <2>4
<1>9. Later(shown, host)' /\ Later(host, fb)'
  BY <1>1, <1>2, <1>8 DEF GpuFrames, Later
<1>10. mlock' # NoTask
  BY <1>1, <1>2 DEF GpuFrames
<1>11. copied' \in 0..FB_PARTS
  BY <1>1, <1>2, <1>4
<1>12. GpuFrames'
  BY <1>1, <1>2, <1>3, <1>4, <1>7, <1>8, <1>9, <1>10, <1>11 DEF GpuFrames
<1> QED
  BY <1>1, <1>2, <1>12, GpuOutside DEF MonitorCopy, queueVars

LEMMA MonitorCopiedOK == ASSUME GpuInv, NEW t \in Writers, MonitorCopied(t) PROVE GpuInv'
<1>1. GpuShape /\ GpuChains /\ GpuHanded /\ GpuFrames /\ Fetching /\ (\A u \in Callers : OnPlan(u)) /\ t \in Callers
  BY DEF GpuInv, Callers
<1>2. /\ UNCHANGED <<gfree, gnext, pending, gring, gaidx, guring, guidx, gused_idx, gseen, gtaken, ghead,
                     cmd, resp, display, fb, host, shown, fetched, gpanicked>>
      /\ gpc[t] = "copy" /\ gpc' = [gpc EXCEPT ![t] = "send"]
      /\ frames' = frames + 1 /\ copied = FB_PARTS /\ copied' = 0 /\ mlock' = NoTask
      /\ mine' = [mine EXCEPT ![t] = frames + 1]
      /\ todo' = [todo EXCEPT ![t] = FrameCommands]
  BY DEF MonitorCopied, queueVars
<1>3. /\ gpc' \in [Callers -> Resting \cup Sending \cup Flying] /\ gpc'[t] = "send"
      /\ \A u \in Callers \ {t} : gpc'[u] = gpc[u]
  BY <1>1, <1>2 DEF GpuShape, Sending
<1>4. InFlight' = InFlight
  BY <1>2, <1>3 DEF InFlight
<1>5. Queued' = Queued /\ Reported' = Reported
  BY <1>2 DEF Queued, Reported
<1>6. todo' = [u \in Callers |-> todo'[u]] /\ todo'[t] = FrameCommands /\ \A u \in Callers \ {t} : todo'[u] = todo[u]
  BY <1>1, <1>2 DEF GpuShape
<1>7. GpuShape'
  BY <1>1, <1>2, <1>3, <1>6 DEF GpuShape
<1>8. GpuChains'
  BY <1>1, <1>2, <1>4, ChainsStay
<1>9. GpuHanded'
  BY <1>1, <1>2, <1>4, <1>5 DEF GpuHanded
<1>10. GpuFrames' /\ \A u \in Callers \ {t} : mine'[u] = mine[u]
  <2>1. PICK n \in Nat : n = frames
    BY <1>1 DEF GpuFrames
  <2>2. mine \in [Callers -> 0..n] /\ FB_PARTS \in Nat \ {0}
    BY <1>1, <2>1, VirtioGpuAssumption DEF GpuFrames
  <2>3. mine' \in [Callers -> 0..n + 1] /\ mine'[t] = n + 1 /\ \A u \in Callers \ {t} : mine'[u] = mine[u]
    BY <1>1, <1>2, <2>1, <2>2
  <2>4. ASSUME NEW p \in FbPart PROVE fb'[p] = IF p <= 0 THEN frames' + 1 ELSE frames'
    <3>1. p \in Int /\ p <= FB_PARTS /\ ~(p <= 0)
      BY <2>2 DEF FbPart
    <3>2. fb[p] = n + 1
      BY <1>1, <1>2, <2>1, <3>1 DEF GpuFrames
    <3> QED
      BY <1>2, <2>1, <3>1, <3>2
  <2>5. Later(shown, host)' /\ Later(host, fb)'
    BY <1>1, <1>2 DEF GpuFrames, Later
  <2>6. \A u \in Writers : gpc'[u] # "copy"
    BY <1>1, <1>2, <1>3 DEF GpuFrames, Callers
  <2>7. copied' \in 0..FB_PARTS /\ frames' = n + 1 /\ frames' \in Nat
    BY <1>2, <2>1, <2>2
  <2>8. GpuFrames'
    BY <1>1, <1>2, <2>3, <2>4, <2>5, <2>6, <2>7 DEF GpuFrames
  <2> QED
    BY <2>3, <2>8
<1>12. Fetching'
  <2>1. \A u \in Callers : gpc'[u] \in Flying => gpc[u] \in Flying /\ ghead'[u] = ghead[u] /\ mine'[u] = mine[u]
    BY <1>2, <1>3, <1>10 DEF Flying
  <2> QED
    BY <1>1, <1>2, <2>1, FetchingStays
<1>11. ASSUME NEW u \in Callers PROVE OnPlan(u)'
  <2>1. OnPlan(u)
    BY <1>1
  <2>2. CASE u = t
    BY <1>2, <1>3, <1>6, <2>1, <2>2, FramePlan DEF OnPlan, Resting, Sending, Flying
  <2>3. CASE u # t
    <3>1. gpc'[u] = gpc[u] /\ todo'[u] = todo[u] /\ mine'[u] = mine[u]
      BY <1>3, <1>6, <1>10, <2>3
    <3>2. (Done(u)' <=> Done(u)) /\ (Shows(shown, mine[u])' <=> Shows(shown, mine[u]))
          /\ (Shows(host, mine[u])' <=> Shows(host, mine[u]))
      BY <1>2, <3>1 DEF Done, Shows
    <3> QED
      BY <1>2, <1>5, <2>1, <3>1, <3>2 DEF OnPlan
  <2> QED
    BY <2>2, <2>3
<1> QED
  BY <1>7, <1>8, <1>9, <1>10, <1>11, <1>12 DEF GpuInv

LEMMA GpuEntryOK == ASSUME GpuInv, GpuEntry PROVE GpuInv'
<1>1. GpuShape /\ GpuChains /\ GpuHanded /\ GpuFrames /\ Fetching /\ (\A u \in Callers : OnPlan(u))
  BY DEF GpuInv
<1>2. PICK d : d = guring[gused_idx % GPU_NUM]
  OBVIOUS
<1>3. /\ UNCHANGED <<gfree, gnext, gring, gaidx, guidx, gseen, gtaken, ghead, todo,
                     cmd, resp, display, frames, fb, host, shown, copied, fetched, mine, mlock>>
      /\ gused_idx # guidx /\ pending' = pending \ {d} /\ gpanicked' = (gpanicked \/ d = NoDesc)
      /\ guring' = [guring EXCEPT ![gused_idx % GPU_NUM] = NoDesc]
      /\ gused_idx' = After(GpuMod, gused_idx)
      /\ gpc' = WakeCallers(gpc, "wait", "woken", {t \in Callers : ghead[t] = d})
  BY <1>2 DEF GpuEntry, After, frameVars
<1>4. guring \in Ring /\ guidx \in GIdx /\ gused_idx \in GIdx /\ Apart(guring, guidx, gused_idx)
  BY <1>1 DEF GpuShape, GpuHanded, Ring
<1>5. Entries(guring, guidx, gused_idx) \subseteq GDesc
  BY <1>1, HeadOf DEF Reported
<1>6. /\ gused_idx' \in GIdx /\ guring' \in Ring /\ d \in Reported
      /\ Reported' = Reported \ {d} /\ Apart(guring', guidx', gused_idx')
  BY <1>2, <1>3, <1>4, <1>5, RingPop DEF Reported
<1>7. Queued' = Queued
  BY <1>3 DEF Queued
<1>8. d \in GDesc /\ d # NoDesc
  BY <1>1, <1>6, HeadOf, GDescFinite
<1>9. /\ gpc' \in [Callers -> Resting \cup Sending \cup Flying]
      /\ \A u \in Callers : gpc'[u] = gpc[u] \/ (gpc[u] \in Flying /\ gpc'[u] \in Flying)
  BY <1>1, <1>3 DEF WakeCallers, GpuShape, Flying
<1>10. InFlight' = InFlight
  BY <1>9 DEF InFlight, Flying
<1>11. GpuShape'
  BY <1>1, <1>3, <1>6, <1>8, <1>9 DEF GpuShape, Ring
<1>12. GpuChains'
  BY <1>1, <1>3, <1>10, ChainsStay
<1>13. GpuHanded'
  <2>1. Queued \cap Reported = {} /\ gtaken \cap Reported = {} /\ Queued \cap gtaken = {}
        /\ Apart(gring, gaidx, gseen)
    BY <1>1 DEF GpuHanded
  <2>2. ASSUME NEW e \in Queued' \cup gtaken' \cup Reported' PROVE e \in pending' /\ \E t \in InFlight' : ghead'[t] = e
    <3>1. e \in Queued \cup gtaken \cup Reported /\ e # d
      BY <1>3, <1>6, <1>7, <2>1
    <3>2. e \in pending /\ \E t \in InFlight : ghead[t] = e
      BY <1>1, <3>1 DEF GpuHanded
    <3> QED
      BY <1>3, <1>10, <3>1, <3>2
  <2>3. Queued' \cap gtaken' = {} /\ Queued' \cap Reported' = {} /\ gtaken' \cap Reported' = {}
    BY <1>3, <1>6, <1>7, <2>1
  <2>4. Apart(gring', gaidx', gseen')
    BY <1>3, <2>1
  <2> QED
    BY <1>6, <2>2, <2>3, <2>4 DEF GpuHanded
<1>14. GpuFrames' /\ Fetching'
  <2>1. \A u \in Callers : (gpc'[u] = "copy" => gpc[u] = "copy") /\ (gpc'[u] \in Flying => gpc[u] \in Flying)
    BY <1>9 DEF Flying
  <2>2. \A u \in Writers : gpc'[u] = "copy" => gpc[u] = "copy"
    BY <2>1 DEF Callers
  <2>3. GpuFrames'
    BY <1>1, <1>3, <2>2, FramesStay
  <2> QED
    BY <1>1, <1>3, <2>1, <2>3, FetchingStays
<1>15. ASSUME NEW t \in Callers PROVE OnPlan(t)'
  <2>1. OnPlan(t) /\ (gpc'[t] = gpc[t] \/ (gpc[t] \in Flying /\ gpc'[t] \in Flying))
    BY <1>1, <1>9
  <2>2. (Done(t)' <=> Done(t)) /\ (Shows(shown, mine[t])' <=> Shows(shown, mine[t]))
        /\ (Shows(host, mine[t])' <=> Shows(host, mine[t]))
    BY <1>3 DEF Done, Shows
  <2> QED
    BY <1>3, <1>7, <2>1, <2>2 DEF OnPlan, Resting, Sending, Flying
<1> QED
  BY <1>11, <1>12, <1>13, <1>14, <1>15 DEF GpuInv

LEMMA DevReportOK == ASSUME GpuInv, NEW d \in GDesc, DevReport(d) PROVE GpuInv'
<1>1. GpuShape /\ GpuChains /\ GpuHanded /\ GpuFrames /\ Fetching /\ (\A u \in Callers : OnPlan(u))
  BY DEF GpuInv
<1>2. /\ UNCHANGED <<gfree, gnext, pending, gring, gaidx, gused_idx, gseen, ghead, todo, gpc,
                     cmd, resp, display, frames, fb, host, shown, copied, fetched, mine, mlock, gpanicked>>
      /\ d \in gtaken /\ gtaken' = gtaken \ {d}
      /\ guring' = [guring EXCEPT ![guidx % GPU_NUM] = d] /\ guidx' = After(GpuMod, guidx)
  BY DEF DevReport, After, frameVars
<1>3. guring \in Ring /\ guidx \in GIdx /\ gused_idx \in GIdx /\ Apart(guring, guidx, gused_idx)
  BY <1>1 DEF GpuShape, GpuHanded, Ring
<1>4. PICK e \in GDesc : e = gnext[d] /\ e # d /\ \A u \in InFlight : ghead[u] # e
  BY <1>1, <1>2, HeadOf
<1>5. Queued \cap gtaken = {} /\ Queued \cap Reported = {} /\ gtaken \cap Reported = {} /\ Apart(gring, gaidx, gseen)
  BY <1>1 DEF GpuHanded
<1>6. Entries(guring, guidx, gused_idx) \subseteq GDesc \ {d, e} /\ d \notin Entries(guring, guidx, gused_idx)
  <2>1. ASSUME NEW x \in Reported PROVE x \in GDesc \ {d, e}
    <3>1. x \in GDesc /\ \E t \in InFlight : ghead[t] = x
      BY <1>1, <2>1, HeadOf
    <3> QED
      BY <1>2, <1>4, <1>5, <3>1
  <2> QED
    BY <2>1 DEF Reported
<1>7. IsFiniteSet(GDesc \ {d, e}) /\ Cardinality(GDesc \ {d, e}) = GPU_NUM - 2
  BY <1>4, TwoLess, GDescFinite
<1>8. Ahead(GpuMod, guidx, gused_idx) <= GPU_NUM - 2
  BY <1>3, <1>6, <1>7, RingFits
<1>9. Ahead(GpuMod, guidx, gused_idx) + 1 < GPU_NUM
  <2>1. Ahead(GpuMod, guidx, gused_idx) \in Nat /\ GPU_NUM \in Nat
    BY <1>3, GpuMoves, GpuSizes
  <2> QED
    BY <1>8, <2>1
<1>10. /\ guidx' \in GIdx /\ guring' \in Ring
       /\ Reported' = Reported \cup {d} /\ Apart(guring', guidx', gused_idx')
  <2>1. d \notin Entries(guring, guidx, gused_idx)
    BY <1>6
  <2>2. /\ After(GpuMod, guidx) \in GIdx /\ [guring EXCEPT ![guidx % GPU_NUM] = d] \in Ring
        /\ Entries([guring EXCEPT ![guidx % GPU_NUM] = d], After(GpuMod, guidx), gused_idx)
             = Entries(guring, guidx, gused_idx) \cup {d}
        /\ Apart([guring EXCEPT ![guidx % GPU_NUM] = d], After(GpuMod, guidx), gused_idx)
    BY <1>3, <1>9, <2>1, RingPush, Zenon
  <2> QED
    BY <1>2, <2>2 DEF Reported
<1>11. Queued' = Queued /\ InFlight' = InFlight
  BY <1>2 DEF Queued, InFlight
<1>12. GpuShape'
  BY <1>1, <1>2, <1>10 DEF GpuShape, Ring
<1>13. GpuChains'
  BY <1>1, <1>2, <1>11, ChainsStay
<1>14. GpuHanded'
  <2>1. ASSUME NEW x \in Queued' \cup gtaken' \cup Reported' PROVE x \in pending' /\ \E t \in InFlight' : ghead'[t] = x
    <3>1. x \in Queued \cup gtaken \cup Reported
      BY <1>2, <1>10, <1>11
    <3> QED
      BY <1>1, <1>2, <1>11, <3>1 DEF GpuHanded
  <2>2. Queued' \cap gtaken' = {} /\ Queued' \cap Reported' = {} /\ gtaken' \cap Reported' = {}
    BY <1>2, <1>5, <1>10, <1>11
  <2>3. Apart(gring', gaidx', gseen')
    BY <1>2, <1>5
  <2> QED
    BY <1>10, <2>1, <2>2, <2>3 DEF GpuHanded
<1>15. GpuFrames' /\ Fetching'
  BY <1>1, <1>2, FramesStay, FetchingStays
<1>16. ASSUME NEW t \in Callers PROVE OnPlan(t)'
  <2>1. OnPlan(t) /\ (Done(t)' <=> Done(t)) /\ (Shows(shown, mine[t])' <=> Shows(shown, mine[t]))
        /\ (Shows(host, mine[t])' <=> Shows(host, mine[t]))
    BY <1>1, <1>2 DEF Done, Shows
  <2> QED
    BY <1>2, <1>11, <2>1 DEF OnPlan
<1> QED
  BY <1>12, <1>13, <1>14, <1>15, <1>16 DEF GpuInv

\* The device reads a part for the transfer it has come to.
LEMMA DevFetchOK == ASSUME GpuInv, DevFetch PROVE GpuInv'
<1>1. GpuShape /\ GpuChains /\ GpuHanded /\ GpuFrames /\ Fetching /\ (\A u \in Callers : OnPlan(u))
  BY DEF GpuInv
<1>2. /\ gseen # gaidx /\ fetched < FB_PARTS /\ fetched' = fetched + 1
      /\ host' = [host EXCEPT ![fetched + 1] = fb[fetched + 1]]
      /\ UNCHANGED <<gfree, gnext, pending, gring, gaidx, guring, guidx, gused_idx, gseen, gtaken, gpc, todo,
                     ghead, cmd, resp, display, frames, fb, shown, copied, mine, mlock, gpanicked>>
  BY DEF DevFetch, queueVars
<1>3. PICK n \in Nat : n = fetched /\ n < FB_PARTS /\ FB_PARTS \in Nat
  BY <1>1, <1>2, VirtioGpuAssumption DEF GpuFrames
<1>4. n + 1 \in FbPart /\ n + 1 \in 0..FB_PARTS
  BY <1>3 DEF FbPart
<1>5. /\ fb \in [FbPart -> Nat] /\ host \in [FbPart -> Nat] /\ shown \in [FbPart -> Nat]
      /\ frames \in Nat /\ mine \in [Callers -> 0..frames]
  BY <1>1 DEF GpuFrames
<1>6. host' \in [FbPart -> Nat] /\ host'[n + 1] = fb[n + 1] /\ \A p \in FbPart \ {n + 1} : host'[p] = host[p]
  BY <1>2, <1>3, <1>4, <1>5
<1>7. ASSUME NEW p \in FbPart PROVE host[p] <= host'[p] /\ host'[p] <= fb[p] /\ shown[p] <= host'[p]
  <2>1. host[p] \in Nat /\ shown[p] \in Nat /\ fb[p] \in Nat /\ host[p] <= fb[p] /\ shown[p] <= host[p]
    BY <1>1, <1>5 DEF GpuFrames, Later
  <2>2. host'[p] = host[p] \/ host'[p] = fb[p]
    BY <1>6
  <2> QED
    BY <2>1, <2>2
<1>8. Later(host, host') /\ Later(shown, host)' /\ Later(host, fb)'
  BY <1>2, <1>7 DEF Later
<1>9. GpuFrames'
  BY <1>1, <1>2, <1>3, <1>4, <1>6, <1>8 DEF GpuFrames
<1>10. Fetching'
  <2>1. FirstCommand' = FirstCommand
    BY <1>2 DEF FirstCommand
  <2>2. ASSUME NEW t \in Callers, gpc[t] \in Flying, ghead[t] = FirstCommand, NEW p \in 1..n + 1
        PROVE  mine[t] <= host'[p]
    <3>1. p \in FbPart /\ p \in Int
      BY <1>3 DEF FbPart
    <3>2. CASE p = n + 1
      <4>1. fb[p] = frames \/ fb[p] = frames + 1
        BY <1>1, <3>1 DEF GpuFrames
      <4>2. mine[t] \in 0..frames /\ host'[p] = fb[p]
        BY <1>5, <1>6, <3>2
      <4> QED
        BY <1>5, <4>1, <4>2
    <3>3. CASE p # n + 1
      <4>1. p \in 1..n /\ n # 0
        BY <1>3, <3>1, <3>3
      <4>2. mine[t] <= host[p]
        BY <1>1, <1>3, <2>2, <4>1 DEF Fetching
      <4> QED
        BY <1>6, <3>1, <3>3, <4>2
    <3> QED
      BY <3>2, <3>3
  <2> QED
    BY <1>2, <1>3, <2>1, <2>2 DEF Fetching
<1>11. InFlight' = InFlight /\ Queued' = Queued /\ Reported' = Reported
  BY <1>2 DEF InFlight, Queued, Reported
<1>12. GpuShape' /\ GpuChains'
  <2>1. GpuShape'
    BY <1>1, <1>2 DEF GpuShape
  <2> QED
    BY <1>1, <1>2, <1>11, <2>1, ChainsStay
<1>13. GpuHanded'
  BY <1>1, <1>2, <1>11 DEF GpuHanded
<1>14. ASSUME NEW t \in Callers PROVE OnPlan(t)'
  <2>1. OnPlan(t) /\ mine[t] \in Nat
    BY <1>1, <1>5
  <2>2. Shows(host, mine[t]) => Shows(host, mine[t])'
    <3>1. SUFFICES ASSUME Shows(host, mine[t]) PROVE Shows(host', mine[t])
      BY <1>2 DEF Shows
    <3> QED
      BY <1>5, <1>6, <1>8, <2>1, <3>1, LaterShows
  <2>3. Shows(shown, mine[t]) => Shows(shown, mine[t])'
    BY <1>2 DEF Shows
  <2>4. Done(t) => Done(t)'
    BY <1>2, <2>2, <2>3 DEF Done
  <2> QED
    BY <1>2, <1>11, <2>1, <2>2, <2>3, <2>4 DEF OnPlan
<1> QED
  BY <1>9, <1>10, <1>12, <1>13, <1>14 DEF GpuInv

LEMMA DevExecuteOK == ASSUME GpuInv, DevExecute PROVE GpuInv'
<1>1. GpuShape /\ GpuChains /\ GpuHanded /\ GpuFrames /\ Fetching /\ (\A u \in Callers : OnPlan(u))
  BY DEF GpuInv
<1>2. PICK d : d = gring[gseen % GPU_NUM]
  OBVIOUS
<1>3. gring \in Ring /\ gaidx \in GIdx /\ gseen \in GIdx /\ Apart(gring, gaidx, gseen)
  BY <1>1 DEF GpuShape, GpuHanded, Ring
<1>4. Entries(gring, gaidx, gseen) \subseteq GDesc
  BY <1>1, HeadOf DEF Queued
<1>5. /\ gseen # gaidx /\ gseen' = After(GpuMod, gseen) /\ gring' = [gring EXCEPT ![gseen % GPU_NUM] = NoDesc]
      /\ gtaken' = gtaken \cup {d}
      /\ UNCHANGED <<gfree, gnext, pending, gaidx, guring, guidx, gused_idx, gpc, todo, ghead,
                     cmd, frames, fb, host, copied, mine, mlock, gpanicked>>
      /\ fetched' = 0 /\ d = FirstCommand
  <2>1. d = FirstCommand
    BY <1>2 DEF FirstCommand
  <2> QED
    BY <2>1 DEF DevExecute, After
<1>6. /\ gseen' \in GIdx /\ gring' \in Ring /\ d \in Queued
      /\ Queued' = Queued \ {d} /\ Apart(gring', gaidx', gseen')
  <2>1. gseen # gaidx /\ gseen' = After(GpuMod, gseen) /\ gring' = [gring EXCEPT ![gseen % GPU_NUM] = NoDesc]
        /\ gaidx' = gaidx
    BY <1>5
  <2>2. /\ After(GpuMod, gseen) \in GIdx /\ [gring EXCEPT ![gseen % GPU_NUM] = NoDesc] \in Ring
        /\ gring[gseen % GPU_NUM] \in Entries(gring, gaidx, gseen)
        /\ Entries([gring EXCEPT ![gseen % GPU_NUM] = NoDesc], gaidx, After(GpuMod, gseen))
             = Entries(gring, gaidx, gseen) \ {gring[gseen % GPU_NUM]}
        /\ Apart([gring EXCEPT ![gseen % GPU_NUM] = NoDesc], gaidx, After(GpuMod, gseen))
    BY <1>3, <1>4, <2>1, RingPop, Zenon
  <2> QED
    BY <1>2, <2>1, <2>2 DEF Queued
<1>7. Reported' = Reported /\ InFlight' = InFlight
  BY <1>5 DEF Reported, InFlight
<1>8. PICK u \in InFlight : ghead[u] = d /\ d \in GDesc /\ d # NoDesc
  BY <1>1, <1>6, HeadOf, GDescFinite
<1>9. u \in Callers /\ gpc[u] \in Flying /\ \A v \in InFlight : ghead[v] = d => v = u
  BY <1>1, <1>8, HeadsDiffer DEF InFlight, Flying
<1>10. PICK c : c = cmd[d] /\ c = Head(todo[u])
  BY <1>1, <1>8, <1>9 DEF OnPlan
<1>11. /\ Needs(c) \subseteq display /\ (c = "flush" => Shows(host, mine[u]))
  <2>1. todo[u] \in Plans /\ Prior(c) \subseteq display /\ (c = "flush" => Shows(host, mine[u]))
    BY <1>1, <1>9, <1>10 DEF OnPlan
  <2>2. Needs(c) \subseteq Prior(c)
    BY <1>10, <2>1, PlanFacts
  <2> QED
    BY <2>1, <2>2
<1>12. /\ resp' = [resp EXCEPT ![d] = "ok"] /\ display' = display \cup {c}
       /\ c = "transfer" => fetched = FB_PARTS
       /\ shown' = IF c = "flush" THEN host ELSE shown
  <2>1. Accepts(d) /\ cmd[d] = c /\ (Transfers(d) <=> c = "transfer")
    BY <1>8, <1>10, <1>11 DEF Accepts, Transfers
  <2> QED
    BY <1>5, <2>1 DEF DevExecute
<1>13. resp' = [x \in GDesc |-> resp'[x]] /\ resp'[d] = "ok" /\ \A x \in GDesc \ {d} : resp'[x] = resp[x]
  BY <1>1, <1>8, <1>12 DEF GpuShape
<1>14. GpuShape'
  BY <1>1, <1>5, <1>6, <1>13 DEF GpuShape, Ring
<1>15. GpuChains'
  BY <1>1, <1>5, <1>7, ChainsStay
<1>16. GpuHanded'
  <2>1. Queued \cap gtaken = {} /\ Queued \cap Reported = {} /\ gtaken \cap Reported = {}
        /\ Apart(guring, guidx, gused_idx)
    BY <1>1 DEF GpuHanded
  <2>2. ASSUME NEW x \in Queued' \cup gtaken' \cup Reported' PROVE x \in pending' /\ \E t \in InFlight' : ghead'[t] = x
    <3>1. x \in Queued \cup gtaken \cup Reported
      BY <1>5, <1>6, <1>7
    <3> QED
      BY <1>1, <1>5, <1>7, <3>1 DEF GpuHanded
  <2>3. Queued' \cap gtaken' = {} /\ Queued' \cap Reported' = {} /\ gtaken' \cap Reported' = {}
    BY <1>5, <1>6, <1>7, <2>1
  <2>4. Apart(guring', guidx', gused_idx')
    BY <1>5, <2>1
  <2> QED
    BY <1>6, <2>2, <2>3, <2>4 DEF GpuHanded
<1>17. /\ frames \in Nat /\ host \in [FbPart -> Nat] /\ shown \in [FbPart -> Nat] /\ Later(shown, host)
       /\ mine \in [Callers -> 0..frames] /\ FB_PARTS \in Nat \ {0}
  BY <1>1, VirtioGpuAssumption DEF GpuFrames
<1>18. shown' \in [FbPart -> Nat] /\ Later(shown, shown') /\ Later(shown', host)
  <2>1. \A p \in FbPart : shown[p] <= shown[p] /\ host[p] <= host[p]
    BY <1>17
  <2> QED
    BY <1>12, <1>17, <2>1 DEF Later
<1>19. GpuFrames' /\ Fetching'
  <2>1. Later(shown, host)' /\ Later(host, fb)'
    BY <1>1, <1>5, <1>18 DEF GpuFrames, Later
  <2>2. fetched' \in 0..FB_PARTS
    BY <1>5, <1>17
  <2>3. GpuFrames'
    BY <1>1, <1>5, <1>18, <2>1, <2>2 DEF GpuFrames
  <2> QED
    BY <1>5, <2>3 DEF Fetching
<1>20. Done(u)'
  <2>1. c = "transfer" => Shows(host, mine[u])
    <3>1. SUFFICES ASSUME c = "transfer" PROVE Shows(host, mine[u])
      OBVIOUS
    <3>2. fetched = FB_PARTS /\ fetched # 0
      BY <1>12, <1>17, <3>1
    <3>3. \A p \in FbPart : mine[u] <= host[p]
      BY <1>1, <1>5, <1>8, <1>9, <3>2 DEF Fetching, FbPart
    <3> QED
      BY <3>3 DEF Shows
  <2>2. c = "flush" => Shows(shown', mine[u])
    BY <1>11, <1>12
  <2>3. /\ c = "transfer" => Shows(host, mine[u])'
        /\ c = "flush" => Shows(shown, mine[u])'
    BY <1>5, <2>1, <2>2 DEF Shows
  <2> QED
    BY <1>5, <1>8, <1>10, <1>12, <1>13, <2>3 DEF Done
<1>21. ASSUME NEW t \in Callers PROVE OnPlan(t)'
  <2>1. OnPlan(t) /\ mine[t] \in Nat
    BY <1>1, <1>17
  <2>2. Shows(host, mine[t]) => Shows(host, mine[t])'
    BY <1>5 DEF Shows
  <2>3. Shows(shown, mine[t]) => Shows(shown, mine[t])'
    <3>1. SUFFICES ASSUME Shows(shown, mine[t]) PROVE Shows(shown', mine[t])
      BY <1>5 DEF Shows
    <3> QED
      BY <1>17, <1>18, <2>1, <3>1, LaterShows
  <2>4. ASSUME gpc[t] \in Flying PROVE ghead[t] \in Queued' \/ Done(t)'
    <3>1. t \in InFlight /\ ghead[t] \in GDesc
      BY <1>1, <2>4 DEF InFlight, Flying, GpuChains
    <3>2. CASE ghead[t] = d
      BY <1>9, <1>20, <3>1, <3>2
    <3>3. CASE ghead[t] # d /\ ghead[t] \in Queued
      BY <1>6, <3>3
    <3>4. CASE ghead[t] # d /\ Done(t)
      BY <1>5, <1>12, <1>13, <2>2, <2>3, <3>1, <3>4 DEF Done
    <3> QED
      BY <2>1, <2>4, <3>2, <3>3, <3>4 DEF OnPlan
  <2>5. display \subseteq display'
    BY <1>12
  <2>6. /\ gpc'[t] \in Sending \cup Flying =>
             /\ todo'[t] \in Plans /\ Prior(Head(todo'[t])) \subseteq display'
             /\ Head(todo'[t]) = "flush" => Shows(host, mine[t])'
        /\ gpc'[t] \in Resting => Shows(shown, mine[t])'
        /\ gpc'[t] \in {"idle", "copy"} => SetUp \subseteq display'
    BY <1>5, <2>1, <2>2, <2>3, <2>5 DEF OnPlan
  <2>7. gpc'[t] \in Flying => cmd'[ghead'[t]] = Head(todo'[t]) /\ (ghead'[t] \in Queued' \/ Done(t)')
    BY <1>5, <2>1, <2>4 DEF OnPlan
  <2> QED
    BY <2>6, <2>7 DEF OnPlan
<1> QED
  BY <1>14, <1>15, <1>16, <1>19, <1>21 DEF GpuInv

\* What allocn_desc and the rest of Send do to the descriptors.
LEMMA SendIs ==
  ASSUME GpuInv, NEW t \in Callers, Send(t)
  PROVE  \E a, b \in gfree, z \in gfree \cup {NoDesc} :
            /\ a # b /\ z \notin {a, b}
            /\ gfree' = gfree \ {a, b, z}
            /\ gnext' \in [GDesc -> GDesc \cup {NoDesc}] /\ gnext'[a] = b /\ gnext'[b] = z
            /\ \A d \in GDesc \ {a, b, z} : gnext'[d] = gnext[d]
            /\ pending' = pending \cup {a}
            /\ gring' = [gring EXCEPT ![gaidx % GPU_NUM] = a]
            /\ ghead' = [ghead EXCEPT ![t] = a]
            /\ cmd' = [cmd EXCEPT ![a] = Head(todo[t])]
            /\ resp' = [resp EXCEPT ![a] = "none"]
<1>1. GpuShape /\ gfree \subseteq GDesc /\ OnPlan(t)
  BY DEF GpuInv, GpuChains
<1>2. todo[t] \in Plans
  BY <1>1 DEF Send, OnPlan, Sending
<1>3. PICK n \in {2, 3} : n = ChainLength(Head(todo[t]))
  BY <1>2, PlanFacts
<1>4. Cardinality(gfree) >= n
  BY <1>3 DEF Send
<1>5. PICK a \in gfree, b \in gfree, z \in gfree \cup {NoDesc} :
            /\ a # b /\ z \notin {a, b} /\ (n = 2 => z = NoDesc) /\ (n = 3 => z \in gfree)
            /\ TakeN(gfree, n) = IF n = 2 THEN <<a, b>> ELSE <<a, b, z>>
  BY <1>1, <1>4, TakesN
<1>6. PICK idx : idx = TakeN(gfree, n)
  OBVIOUS
<1>7. idx[1] = a /\ idx[2] = b /\ (n = 3 => idx[3] = z)
  BY <1>5, <1>6
<1>8. /\ gfree' = gfree \ {idx[i] : i \in 1..n}
      /\ gnext' = [d \in GDesc |-> IF \E i \in 1..n - 1 : idx[i] = d
                                   THEN idx[1 + CHOOSE i \in 1..n - 1 : idx[i] = d]
                                   ELSE IF d = idx[n] THEN NoDesc ELSE gnext[d]]
      /\ pending' = pending \cup {idx[1]}
      /\ gring' = [gring EXCEPT ![gaidx % GPU_NUM] = idx[1]]
      /\ ghead' = [ghead EXCEPT ![t] = idx[1]]
      /\ cmd' = [cmd EXCEPT ![idx[1]] = Head(todo[t])]
      /\ resp' = [resp EXCEPT ![idx[1]] = "none"]
  BY <1>3, <1>6 DEF Send
<1>9. a \in GDesc /\ b \in GDesc /\ NoDesc \notin GDesc /\ NoDesc \notin gfree
  BY <1>1, GDescFinite
<1>10. gfree' = gfree \ {a, b, z} /\ gnext' \in [GDesc -> GDesc \cup {NoDesc}] /\ gnext'[a] = b /\ gnext'[b] = z
       /\ \A d \in GDesc \ {a, b, z} : gnext'[d] = gnext[d]
  <2>1. CASE n = 2
    <3>1. 1..n = {1, 2} /\ 1..n - 1 = {1} /\ z = NoDesc
      BY <1>5, <2>1
    <3>2. {idx[i] : i \in 1..n} = {a, b}
      BY <1>7, <3>1
    <3>3. (CHOOSE i \in 1..n - 1 : idx[i] = a) = 1
      BY <1>7, <3>1
    <3>4. gnext'[a] = b
      BY <1>7, <1>8, <1>9, <3>1, <3>3
    <3>5. gnext'[b] = NoDesc
      BY <1>5, <1>7, <1>8, <1>9, <2>1, <3>1
    <3>6. \A d \in GDesc \ {a, b} : gnext'[d] = gnext[d]
      BY <1>7, <1>8, <2>1, <3>1
    <3>7. gnext' \in [GDesc -> GDesc \cup {NoDesc}]
      <4>1. \A d \in GDesc : gnext'[d] \in GDesc \cup {NoDesc}
        BY <1>1, <1>9, <3>4, <3>5, <3>6 DEF GpuShape
      <4>2. gnext' = [d \in GDesc |-> gnext'[d]]
        BY <1>8, Zenon
      <4> QED
        BY <4>1, <4>2
    <3> QED
      BY <1>8, <1>9, <3>1, <3>2, <3>4, <3>5, <3>6, <3>7
  <2>2. CASE n = 3
    <3>1. 1..n = {1, 2, 3} /\ 1..n - 1 = {1, 2} /\ z \in gfree /\ z \in GDesc /\ idx[3] = z
      BY <1>1, <1>5, <1>7, <2>2
    <3>2. {idx[i] : i \in 1..n} = {a, b, z}
      BY <1>7, <3>1
    <3>3. (CHOOSE i \in 1..n - 1 : idx[i] = a) = 1
      BY <1>5, <1>7, <3>1
    <3>8. (CHOOSE i \in 1..n - 1 : idx[i] = b) = 2
      BY <1>5, <1>7, <3>1
    <3>4. gnext'[a] = b
      BY <1>7, <1>8, <1>9, <3>1, <3>3
    <3>5. gnext'[b] = z
      BY <1>7, <1>8, <1>9, <3>1, <3>8
    <3>6. \A d \in GDesc \ {a, b, z} : gnext'[d] = gnext[d]
      BY <1>7, <1>8, <2>2, <3>1
    <3>9. gnext'[z] = NoDesc
      BY <1>5, <1>7, <1>8, <2>2, <3>1
    <3>7. gnext' \in [GDesc -> GDesc \cup {NoDesc}]
      <4>1. \A d \in GDesc : gnext'[d] \in GDesc \cup {NoDesc}
        BY <1>1, <1>9, <3>1, <3>4, <3>5, <3>6, <3>9 DEF GpuShape
      <4>2. gnext' = [d \in GDesc |-> gnext'[d]]
        BY <1>8, Zenon
      <4> QED
        BY <4>1, <4>2
    <3> QED
      BY <1>8, <3>2, <3>4, <3>5, <3>6, <3>7
  <2> QED
    BY <2>1, <2>2
<1> QED
  BY <1>5, <1>7, <1>8, <1>10

LEMMA SendOK == ASSUME GpuInv, NEW t \in Callers, Send(t) PROVE GpuInv'
<1>1. GpuShape /\ GpuChains /\ GpuHanded /\ GpuFrames /\ Fetching /\ (\A u \in Callers : OnPlan(u))
  BY DEF GpuInv
<1>2. PICK a \in gfree, b \in gfree, z \in gfree \cup {NoDesc} :
            /\ a # b /\ z \notin {a, b}
            /\ gfree' = gfree \ {a, b, z}
            /\ gnext' \in [GDesc -> GDesc \cup {NoDesc}] /\ gnext'[a] = b /\ gnext'[b] = z
            /\ \A d \in GDesc \ {a, b, z} : gnext'[d] = gnext[d]
            /\ pending' = pending \cup {a}
            /\ gring' = [gring EXCEPT ![gaidx % GPU_NUM] = a]
            /\ ghead' = [ghead EXCEPT ![t] = a]
            /\ cmd' = [cmd EXCEPT ![a] = Head(todo[t])]
            /\ resp' = [resp EXCEPT ![a] = "none"]
  BY SendIs
<1>3. /\ UNCHANGED <<guring, guidx, gused_idx, gseen, gtaken, todo, display, frames, fb, host, shown,
                     copied, fetched, mine, mlock, gpanicked>>
      /\ gaidx' = After(GpuMod, gaidx) /\ gpc[t] = "send" /\ gpc' = [gpc EXCEPT ![t] = "wait"]
  BY DEF Send, After, frameVars
<1>4. /\ a \in GDesc /\ b \in GDesc /\ NoDesc \notin GDesc /\ gfree \subseteq GDesc
      /\ \A d \in gfree : \A u \in InFlight : d \notin CommandChain(ghead[u])
  BY <1>1, <1>2, GDescFinite DEF GpuChains
<1>5. /\ gpc' \in [Callers -> Resting \cup Sending \cup Flying] /\ gpc'[t] = "wait"
      /\ \A u \in Callers \ {t} : gpc'[u] = gpc[u]
  BY <1>1, <1>3 DEF GpuShape, Flying
<1>6. InFlight' = InFlight \cup {t} /\ t \notin InFlight
  BY <1>3, <1>5 DEF InFlight
<1>7. /\ ghead' \in [Callers -> GDesc \cup {NoDesc}] /\ ghead'[t] = a /\ \A u \in Callers \ {t} : ghead'[u] = ghead[u]
  BY <1>1, <1>2, <1>4 DEF GpuShape
<1>8. /\ cmd' = [d \in GDesc |-> cmd'[d]] /\ resp' = [d \in GDesc |-> resp'[d]]
      /\ cmd'[a] = Head(todo[t]) /\ \A d \in GDesc \ {a} : cmd'[d] = cmd[d] /\ resp'[d] = resp[d]
  BY <1>1, <1>2, <1>4 DEF GpuShape
<1>9. ASSUME NEW u \in InFlight
      PROVE  /\ u \in Callers /\ u # t /\ ghead'[u] = ghead[u] /\ ghead[u] # a
             /\ ghead[u] \in GDesc /\ gnext'[ghead[u]] = gnext[ghead[u]]
             /\ CommandChain(ghead[u])' = CommandChain(ghead[u])
  <2>1. u \in Callers /\ u # t
    BY <1>6, <1>9 DEF InFlight
  <2>2. ghead[u] \in GDesc /\ gnext[ghead[u]] \in GDesc
    BY <1>1, <1>9 DEF GpuChains
  <2>3. ghead[u] \in CommandChain(ghead[u]) /\ gnext[ghead[u]] \in CommandChain(ghead[u])
    BY DEF CommandChain
  <2>4. ghead[u] \notin {a, b, z} /\ gnext[ghead[u]] \notin {a, b, z}
    BY <1>2, <1>4, <1>9, <2>2, <2>3
  <2>5. gnext'[ghead[u]] = gnext[ghead[u]] /\ gnext'[gnext[ghead[u]]] = gnext[gnext[ghead[u]]]
    BY <1>2, <2>2, <2>4
  <2>6. ghead'[u] = ghead[u]
    BY <1>7, <2>1
  <2>7. CommandChain(ghead[u])' = CommandChain(ghead[u])
    BY <2>5, <2>6 DEF CommandChain
  <2> QED
    BY <2>1, <2>2, <2>4, <2>5, <2>6, <2>7
<1>10. CommandChain(ghead[t])' = {a, b, z}
  <2>1. b # NoDesc
    BY <1>4
  <2> QED
    BY <1>2, <1>7, <2>1 DEF CommandChain
<1>11. GpuChains'
  <2>1. ASSUME NEW u \in InFlight'
        PROVE  /\ ghead'[u] \in GDesc /\ gnext'[ghead'[u]] \in GDesc \ {ghead'[u]}
               /\ CommandChain(ghead[u])' \subseteq GDesc \cup {NoDesc}
    <3>1. CASE u = t
      BY <1>2, <1>4, <1>7, <1>10, <3>1
    <3>2. CASE u \in InFlight
      <4>1. /\ ghead[u] \in GDesc /\ gnext[ghead[u]] \in GDesc \ {ghead[u]}
            /\ CommandChain(ghead[u]) \subseteq GDesc \cup {NoDesc}
        BY <1>1, <3>2 DEF GpuChains
      <4> QED
        BY <1>9, <3>2, <4>1
    <3> QED
      BY <1>6, <3>1, <3>2
  <2>2. ASSUME NEW u \in InFlight'
        PROVE  u # t => CommandChain(ghead[t])' \cap CommandChain(ghead[u])' \subseteq {NoDesc}
    <3>1. SUFFICES ASSUME u # t PROVE {a, b, z} \cap CommandChain(ghead[u]) \subseteq {NoDesc}
      BY <1>6, <1>9, <1>10
    <3> QED
      BY <1>2, <1>4, <1>6, <3>1
  <2>3. ASSUME NEW u \in InFlight', NEW v \in InFlight', u # v
        PROVE  CommandChain(ghead[u])' \cap CommandChain(ghead[v])' \subseteq {NoDesc}
    <3>1. CASE u = t
      BY <2>2, <2>3, <3>1
    <3>2. CASE v = t
      BY <2>2, <2>3, <3>2
    <3>3. CASE u # t /\ v # t
      <4>1. u \in InFlight /\ v \in InFlight
        BY <1>6, <3>3
      <4>2. CommandChain(ghead[u]) \cap CommandChain(ghead[v]) \subseteq {NoDesc}
        BY <1>1, <2>3, <4>1 DEF GpuChains
      <4> QED
        BY <1>9, <4>1, <4>2
    <3> QED
      BY <3>1, <3>2, <3>3
  <2>4. ASSUME NEW d \in GDesc PROVE d \in gfree' <=> \A u \in InFlight' : d \notin CommandChain(ghead[u])'
    <3>1. d \in gfree <=> \A u \in InFlight : d \notin CommandChain(ghead[u])
      BY <1>1 DEF GpuChains
    <3>2. (\A u \in InFlight' : d \notin CommandChain(ghead[u])')
           <=> (d \notin {a, b, z} /\ \A u \in InFlight : d \notin CommandChain(ghead[u]))
      BY <1>6, <1>9, <1>10
    <3> QED
      BY <1>2, <3>1, <3>2
  <2>5. gfree' \subseteq GDesc
    BY <1>2, <1>4
  <2> QED
    BY <2>1, <2>3, <2>4, <2>5 DEF GpuChains
<1>12. ASSUME NEW d \in Queued \cup gtaken \cup Reported PROVE d \in GDesc \ {a, b}
  <2>1. d \in GDesc /\ d \notin gfree
    BY <1>1, HeadOf
  <2> QED
    BY <2>1
<1>13. gring \in Ring /\ gaidx \in GIdx /\ gseen \in GIdx /\ Apart(gring, gaidx, gseen)
  BY <1>1 DEF GpuShape, GpuHanded, Ring
<1>14. Ahead(GpuMod, gaidx, gseen) + 1 < GPU_NUM
  <2>1. IsFiniteSet(GDesc \ {a, b}) /\ Cardinality(GDesc \ {a, b}) = GPU_NUM - 2
    BY <1>2, <1>4, TwoLess, GDescFinite
  <2>2. Entries(gring, gaidx, gseen) \subseteq GDesc \ {a, b}
    BY <1>12 DEF Queued
  <2>3. Ahead(GpuMod, gaidx, gseen) <= GPU_NUM - 2
    BY <1>13, <2>1, <2>2, RingFits
  <2> QED
    BY <1>13, <2>3, GpuMoves, GpuSizes
<1>15. /\ gaidx' \in GIdx /\ gring' \in Ring
       /\ Queued' = Queued \cup {a} /\ Apart(gring', gaidx', gseen')
  <2>1. a \notin Entries(gring, gaidx, gseen)
    BY <1>12 DEF Queued
  <2>2. /\ After(GpuMod, gaidx) \in GIdx /\ [gring EXCEPT ![gaidx % GPU_NUM] = a] \in Ring
        /\ Entries([gring EXCEPT ![gaidx % GPU_NUM] = a], After(GpuMod, gaidx), gseen)
             = Entries(gring, gaidx, gseen) \cup {a}
        /\ Apart([gring EXCEPT ![gaidx % GPU_NUM] = a], After(GpuMod, gaidx), gseen)
    BY <1>4, <1>13, <1>14, <2>1, RingPush, Zenon
  <2> QED
    BY <1>2, <1>3, <2>2 DEF Queued
<1>16. Reported' = Reported
  BY <1>3 DEF Reported
<1>17. GpuShape'
  BY <1>1, <1>2, <1>3, <1>5, <1>7, <1>8, <1>15 DEF GpuShape, Ring
<1>18. GpuHanded'
  <2>1. Queued \cap gtaken = {} /\ Queued \cap Reported = {} /\ gtaken \cap Reported = {}
        /\ Apart(guring, guidx, gused_idx)
    BY <1>1 DEF GpuHanded
  <2>2. ASSUME NEW x \in Queued' \cup gtaken' \cup Reported' PROVE x \in pending' /\ \E u \in InFlight' : ghead'[u] = x
    <3>1. CASE x = a
      BY <1>2, <1>6, <1>7, <3>1
    <3>2. CASE x # a
      <4>1. x \in Queued \cup gtaken \cup Reported
        BY <1>3, <1>15, <1>16, <3>2
      <4>2. x \in pending /\ \E u \in InFlight : ghead[u] = x
        BY <1>1, <4>1 DEF GpuHanded
      <4> QED
        BY <1>2, <1>6, <1>9, <4>2
    <3> QED
      BY <3>1, <3>2
  <2>3. Queued' \cap gtaken' = {} /\ Queued' \cap Reported' = {} /\ gtaken' \cap Reported' = {}
    BY <1>3, <1>12, <1>15, <1>16, <2>1
  <2>4. Apart(guring', guidx', gused_idx')
    BY <1>3, <2>1
  <2> QED
    BY <1>15, <2>2, <2>3, <2>4 DEF GpuHanded
<1>19. GpuFrames' /\ Fetching'
  <2>1. \A u \in Writers : gpc'[u] = "copy" => gpc[u] = "copy"
    BY <1>3, <1>5 DEF Callers
  <2>2. GpuFrames'
    BY <1>1, <1>3, <2>1, FramesStay
  <2>3. ASSUME fetched # 0
        PROVE  gseen' # gaidx' /\ FirstCommand' = FirstCommand /\ FirstCommand \in Queued
    <3>1. gseen # gaidx
      BY <1>1, <2>3 DEF Fetching
    <3>2. PICK n \in Nat : n = Ahead(GpuMod, gaidx, gseen) /\ n + 1 < GPU_NUM /\ n # 0
      BY <1>13, <1>14, <3>1, GpuMoves
    <3>3. GPU_NUM \in Nat /\ GpuMod \in Nat /\ GPU_NUM <= GpuMod /\ n \in GDesc /\ 0 \in GDesc
      BY <3>2, GpuSizes DEF GDesc
    <3>4. n + 1 < GpuMod /\ n + 1 # 0
      BY <3>2, <3>3
    <3>5. Ahead(GpuMod, After(GpuMod, gaidx), gseen) = n + 1 /\ After(GpuMod, gaidx) \in GIdx
      BY <1>13, <3>2, <3>4, GpuMoves
    <3>6. After(GpuMod, gaidx) # gseen
      BY <1>13, <3>4, <3>5, GpuMoves
    <3>7. gseen % GPU_NUM # gaidx % GPU_NUM /\ gseen % GPU_NUM \in GDesc
      BY <1>13, <3>2, <3>3, GpuPlaces
    <3>8. gring'[gseen % GPU_NUM] = gring[gseen % GPU_NUM]
      BY <1>2, <1>13, <3>7 DEF Ring
    <3>9. Entries(gring, gaidx, gseen) \subseteq GDesc
      BY <1>12 DEF Queued
    <3>10. gring[gseen % GPU_NUM] \in Entries(gring, gaidx, gseen)
      BY <1>13, <3>1, <3>9, RingPop
    <3> QED
      BY <1>3, <3>6, <3>8, <3>10 DEF FirstCommand, Queued
  <2>4. ASSUME fetched # 0, NEW u \in Callers, gpc'[u] \in Flying, ghead'[u] = FirstCommand'
        PROVE  gpc[u] \in Flying /\ ghead[u] = FirstCommand
    <3>1. FirstCommand' = FirstCommand /\ FirstCommand # a
      BY <1>12, <2>3, <2>4
    <3>2. u # t
      BY <1>7, <2>4, <3>1
    <3> QED
      BY <1>5, <1>7, <2>4, <3>1, <3>2
  <2>5. Fetching'
    BY <1>1, <1>3, <2>3, <2>4 DEF Fetching
  <2> QED
    BY <2>2, <2>5
<1>20. ASSUME NEW u \in Callers PROVE OnPlan(u)'
  <2>1. OnPlan(u) /\ (Shows(shown, mine[u])' <=> Shows(shown, mine[u]))
        /\ (Shows(host, mine[u])' <=> Shows(host, mine[u]))
    BY <1>1, <1>3 DEF Shows
  <2>2. CASE u = t
    BY <1>3, <1>5, <1>7, <1>8, <1>15, <2>1, <2>2 DEF OnPlan, Resting, Sending, Flying
  <2>3. CASE u # t
    <3>1. gpc'[u] = gpc[u] /\ ghead'[u] = ghead[u]
      BY <1>5, <1>7, <2>3
    <3>2. ASSUME gpc[u] \in Flying
          PROVE  cmd'[ghead[u]] = cmd[ghead[u]] /\ (Done(u)' <=> Done(u))
      <4>1. u \in InFlight
        BY <3>2 DEF InFlight, Flying
      <4>2. ghead[u] \in GDesc \ {a}
        BY <1>9, <4>1
      <4> QED
        BY <1>3, <1>8, <2>1, <3>1, <4>2 DEF Done
    <3> QED
      BY <1>3, <1>15, <2>1, <3>1, <3>2 DEF OnPlan
  <2> QED
    BY <2>2, <2>3
<1> QED
  BY <1>11, <1>17, <1>18, <1>19, <1>20 DEF GpuInv

\* Woken with `pending' cleared.
LEMMA FreesOK ==
  ASSUME GpuInv, NEW t \in Callers, CommandWoken(t), ghead[t] \notin pending
  PROVE  GpuInv'
<1>1. GpuShape /\ GpuChains /\ GpuHanded /\ GpuFrames /\ Fetching /\ (\A u \in Callers : OnPlan(u))
  BY DEF GpuInv
<1>2. PICK h, c : h = ghead[t] /\ c = CommandChain(h) \ {NoDesc}
  OBVIOUS
<1>3. /\ gpc[t] = "woken" /\ gfree' = gfree \cup c
      /\ gnext' = [d \in GDesc |-> IF d \in c THEN NoDesc ELSE gnext[d]]
      /\ gpanicked' = (gpanicked \/ c \cap gfree # {} \/ (cmd[h] # "info" /\ resp[h] # "ok"))
      /\ cmd' = [cmd EXCEPT ![h] = "none"] /\ resp' = [resp EXCEPT ![h] = "none"]
      /\ gpc' = AfterCommand(WakeCallers(gpc, "nodesc", "send", Callers), t)
      /\ todo' = [todo EXCEPT ![t] = Tail(@)] /\ ghead' = [ghead EXCEPT ![t] = NoDesc]
      /\ UNCHANGED <<pending, gring, gaidx, guring, guidx, gused_idx, gseen, gtaken,
                     display, frames, fb, host, shown, copied, fetched, mine, mlock>>
  BY <1>2 DEF CommandWoken, frameVars
<1>4. t \in InFlight /\ gpc[t] \in Flying
  BY <1>3 DEF InFlight, Flying
<1>5. /\ h \in GDesc /\ c \subseteq GDesc /\ NoDesc \notin GDesc /\ gfree \subseteq GDesc
      /\ \A d \in GDesc : d \in gfree => d \notin CommandChain(h)
  BY <1>1, <1>2, <1>4, GDescFinite DEF GpuChains
<1>6. c \cap gfree = {} /\ h \in c
  BY <1>2, <1>5 DEF CommandChain
<1>7. h \notin Queued \cup gtaken \cup Reported
  BY <1>1, <1>2 DEF GpuHanded
<1>8. Done(t) /\ cmd[h] = Head(todo[t]) /\ todo[t] \in Plans /\ Prior(Head(todo[t])) \subseteq display
  BY <1>1, <1>2, <1>4, <1>7 DEF OnPlan
<1>9. ~gpanicked'
  BY <1>1, <1>2, <1>3, <1>6, <1>8 DEF Done, GpuShape
<1>10. PICK p : p = WakeCallers(gpc, "nodesc", "send", Callers)
  OBVIOUS
<1>11. /\ p \in [Callers -> Resting \cup Sending \cup Flying] /\ p[t] = "woken"
       /\ \A u \in Callers : p[u] = gpc[u] \/ (gpc[u] = "nodesc" /\ p[u] = "send")
  BY <1>1, <1>3, <1>10 DEF WakeCallers, GpuShape, Sending
<1>12. /\ gpc' \in [Callers -> Resting \cup Sending \cup Flying]
       /\ gpc'[t] = IF Len(todo[t]) > 1 THEN "send" ELSE "idle"
       /\ \A u \in Callers \ {t} : gpc'[u] = p[u] \/ (~(Len(todo[t]) > 1) /\ p[u] = "boot" /\ gpc'[u] = "idle")
  <2>1. gpc' = IF Len(todo[t]) > 1 THEN [p EXCEPT ![t] = "send"]
               ELSE [u \in Callers |-> IF u = t \/ (t = Booter /\ p[u] = "boot") THEN "idle" ELSE p[u]]
    BY <1>3, <1>10 DEF AfterCommand
  <2>2. CASE Len(todo[t]) > 1
    <3>1. gpc' = [p EXCEPT ![t] = "send"]
      BY <2>1, <2>2
    <3> QED
      BY <1>11, <2>2, <3>1 DEF Sending
  <2>3. CASE ~(Len(todo[t]) > 1)
    <3>1. gpc' = [u \in Callers |-> IF u = t \/ (t = Booter /\ p[u] = "boot") THEN "idle" ELSE p[u]]
      BY <2>1, <2>3
    <3> QED
      BY <1>11, <2>3, <3>1 DEF Resting
  <2> QED
    BY <2>2, <2>3
<1>13. InFlight' = InFlight \ {t}
  <2>1. ASSUME NEW u \in Callers \ {t} PROVE gpc'[u] \in {"wait", "woken"} <=> gpc[u] \in {"wait", "woken"}
    BY <1>11, <1>12
  <2>2. gpc'[t] \notin {"wait", "woken"}
    BY <1>12
  <2> QED
    BY <2>1, <2>2 DEF InFlight
<1>14. /\ ghead' \in [Callers -> GDesc \cup {NoDesc}] /\ \A u \in Callers \ {t} : ghead'[u] = ghead[u]
       /\ todo' = [u \in Callers |-> todo'[u]] /\ todo'[t] = Tail(todo[t])
       /\ \A u \in Callers \ {t} : todo'[u] = todo[u]
  BY <1>1, <1>3 DEF GpuShape
<1>15. /\ cmd' = [d \in GDesc |-> cmd'[d]] /\ resp' = [d \in GDesc |-> resp'[d]]
       /\ \A d \in GDesc \ {h} : cmd'[d] = cmd[d] /\ resp'[d] = resp[d]
  BY <1>1, <1>3, <1>5 DEF GpuShape
<1>16. gnext' \in [GDesc -> GDesc \cup {NoDesc}] /\ \A d \in GDesc \ c : gnext'[d] = gnext[d]
  BY <1>1, <1>3 DEF GpuShape
<1>17. GpuShape'
  BY <1>1, <1>3, <1>9, <1>12, <1>14, <1>15, <1>16 DEF GpuShape
<1>18. ASSUME NEW u \in InFlight'
       PROVE  /\ u \in InFlight /\ u \in Callers \ {t} /\ ghead'[u] = ghead[u] /\ ghead[u] \in GDesc \ {h}
              /\ gnext'[ghead[u]] = gnext[ghead[u]]
              /\ CommandChain(ghead[u])' = CommandChain(ghead[u])
              /\ CommandChain(ghead[u]) \cap c = {}
  <2>1. u \in InFlight /\ u \in Callers \ {t}
    BY <1>13, <1>18 DEF InFlight
  <2>2. ghead[u] \in GDesc /\ gnext[ghead[u]] \in GDesc
    BY <1>1, <2>1 DEF GpuChains
  <2>3. CommandChain(ghead[u]) \cap CommandChain(h) \subseteq {NoDesc}
    BY <1>1, <1>2, <1>4, <2>1 DEF GpuChains
  <2>4. CommandChain(ghead[u]) \cap c = {}
    BY <1>2, <2>3
  <2>5. ghead[u] \in CommandChain(ghead[u]) /\ gnext[ghead[u]] \in CommandChain(ghead[u])
    BY DEF CommandChain
  <2>6. gnext'[ghead[u]] = gnext[ghead[u]] /\ gnext'[gnext[ghead[u]]] = gnext[gnext[ghead[u]]]
    BY <1>16, <2>2, <2>4, <2>5
  <2>7. ghead'[u] = ghead[u] /\ ghead[u] # h
    BY <1>6, <1>14, <2>1, <2>4, <2>5
  <2>8. CommandChain(ghead[u])' = CommandChain(ghead[u])
    BY <2>6, <2>7 DEF CommandChain
  <2> QED
    BY <2>1, <2>2, <2>4, <2>6, <2>7, <2>8
<1>19. GpuChains'
  <2>1. \A u \in InFlight' : /\ ghead'[u] \in GDesc /\ gnext'[ghead'[u]] \in GDesc \ {ghead'[u]}
                             /\ CommandChain(ghead[u])' \subseteq GDesc \cup {NoDesc}
    BY <1>1, <1>18 DEF GpuChains
  <2>2. \A u, v \in InFlight' : u # v => CommandChain(ghead[u])' \cap CommandChain(ghead[v])' \subseteq {NoDesc}
    BY <1>1, <1>18 DEF GpuChains
  <2>3. ASSUME NEW d \in GDesc PROVE d \in gfree' <=> \A u \in InFlight' : d \notin CommandChain(ghead[u])'
    <3>1. d \in gfree <=> \A u \in InFlight : d \notin CommandChain(ghead[u])
      BY <1>1 DEF GpuChains
    <3>2. d # NoDesc
      BY <1>5
    <3>3. (\A u \in InFlight : d \notin CommandChain(ghead[u]))
           <=> (d \notin c /\ \A u \in InFlight' : d \notin CommandChain(ghead[u]))
      BY <1>2, <1>4, <1>13, <3>2
    <3>4. d \in c => \A u \in InFlight' : d \notin CommandChain(ghead[u])
      BY <1>18
    <3>5. \A u \in InFlight' : CommandChain(ghead[u])' = CommandChain(ghead[u])
      BY <1>18
    <3> QED
      BY <1>3, <3>1, <3>3, <3>4, <3>5
  <2>4. gfree' \subseteq GDesc
    BY <1>3, <1>5
  <2> QED
    BY <2>1, <2>2, <2>3, <2>4 DEF GpuChains
<1>20. Queued' = Queued /\ Reported' = Reported
  BY <1>3 DEF Queued, Reported
<1>21. GpuHanded'
  <2>1. ASSUME NEW x \in Queued' \cup gtaken' \cup Reported' PROVE x \in pending' /\ \E u \in InFlight' : ghead'[u] = x
    <3>1. x \in Queued \cup gtaken \cup Reported /\ x # h
      BY <1>3, <1>7, <1>20
    <3>2. PICK u \in InFlight : ghead[u] = x /\ x \in pending
      BY <1>1, <3>1 DEF GpuHanded
    <3>3. u \in InFlight'
      BY <1>2, <1>13, <3>1, <3>2
    <3> QED
      BY <1>3, <1>18, <3>2, <3>3
  <2> QED
    BY <1>1, <1>3, <1>20, <2>1 DEF GpuHanded
<1>22. GpuFrames' /\ Fetching'
  <2>1. \A u \in Callers : gpc'[u] = "copy" => gpc[u] = "copy"
    BY <1>11, <1>12
  <2>2. \A u \in Writers : gpc'[u] = "copy" => gpc[u] = "copy"
    BY <2>1 DEF Callers
  <2>3. GpuFrames'
    BY <1>1, <1>3, <2>2, FramesStay
  <2>4. \A u \in Callers : gpc'[u] \in Flying => gpc[u] \in Flying /\ ghead'[u] = ghead[u]
    BY <1>13, <1>18 DEF InFlight, Flying
  <2> QED
    BY <1>1, <1>3, <2>3, <2>4, FetchingStays
<1>23. ASSUME NEW u \in Callers PROVE OnPlan(u)'
  <2>1. OnPlan(u) /\ (Shows(shown, mine[u])' <=> Shows(shown, mine[u]))
        /\ (Shows(host, mine[u])' <=> Shows(host, mine[u]))
    BY <1>1, <1>3 DEF Shows
  <2>2. CASE u = t
    <3>1. CASE Len(todo[t]) > 1
      <4>1. /\ Tail(todo[t]) \in Plans
            /\ Prior(Head(Tail(todo[t]))) \subseteq Prior(Head(todo[t])) \cup {Head(todo[t])}
            /\ Head(Tail(todo[t])) = "flush" => Head(todo[t]) = "transfer"
        BY <1>8, <3>1, PlanFacts
      <4>2. Head(todo[t]) \in display /\ (Head(todo[t]) = "transfer" => Shows(host, mine[t]))
        BY <1>8 DEF Done
      <4>3. gpc'[t] = "send"
        BY <1>12, <3>1
      <4> QED
        BY <1>3, <1>8, <1>14, <2>1, <2>2, <4>1, <4>2, <4>3 DEF OnPlan, Resting, Sending, Flying
    <3>2. CASE ~(Len(todo[t]) > 1)
      <4>1. Head(todo[t]) = "flush" /\ gpc'[t] = "idle"
        BY <1>8, <1>12, <3>2, PlanFacts
      <4>2. Shows(shown, mine[t]) /\ SetUp \subseteq display
        BY <1>8, <4>1 DEF Done, Prior
      <4> QED
        BY <1>3, <2>1, <2>2, <4>1, <4>2 DEF OnPlan, Resting, Sending, Flying
    <3> QED
      BY <3>1, <3>2
  <2>3. CASE u # t
    <3>1. todo'[u] = todo[u] /\ ghead'[u] = ghead[u]
      BY <1>14, <2>3
    <3>2. CASE gpc'[u] = p[u]
      <4>1. gpc'[u] = gpc[u] \/ (gpc[u] = "nodesc" /\ gpc'[u] = "send")
        BY <1>11, <3>2
      <4>2. ASSUME gpc[u] \in Flying PROVE cmd'[ghead[u]] = cmd[ghead[u]] /\ (Done(u)' <=> Done(u))
        <5>1. u \in InFlight'
          BY <1>13, <2>3, <4>2 DEF InFlight, Flying
        <5>2. ghead[u] \in GDesc \ {h}
          BY <1>18, <5>1
        <5>3. cmd'[ghead[u]] = cmd[ghead[u]] /\ resp'[ghead[u]] = resp[ghead[u]]
          BY <1>15, <5>2
        <5>4. UNCHANGED <<display, host, shown, mine>>
          BY <1>3
        <5> QED
          BY <2>1, <3>1, <5>3, <5>4 DEF Done
      <4>3. UNCHANGED <<display, host, shown, mine, Queued>>
        BY <1>3, <1>20
      <4> QED
        BY <2>1, <3>1, <4>1, <4>2, <4>3 DEF OnPlan, Resting, Sending, Flying
    <3>3. CASE ~(Len(todo[t]) > 1) /\ p[u] = "boot" /\ gpc'[u] = "idle"
      <4>1. Head(todo[t]) = "flush"
        BY <1>8, <3>3, PlanFacts
      <4>2. SetUp \subseteq display
        BY <1>8, <4>1 DEF Prior
      <4>3. gpc[u] = "boot"
        BY <1>11, <3>3
      <4> QED
        BY <1>3, <2>1, <3>3, <4>2, <4>3 DEF OnPlan, Resting, Sending, Flying
    <3> QED
      BY <1>12, <2>3, <3>2, <3>3
  <2> QED
    BY <2>2, <2>3
<1> QED
  BY <1>17, <1>19, <1>21, <1>22, <1>23 DEF GpuInv

LEMMA CommandWokenOK == ASSUME GpuInv, NEW t \in Callers, CommandWoken(t) PROVE GpuInv'
<1>1. CASE ghead[t] \in pending
  <2>1. gpc[t] = "woken" /\ gpc' = [gpc EXCEPT ![t] = "wait"]
    BY <1>1 DEF CommandWoken
  <2>2. gpc \in [Callers -> Resting \cup Sending \cup Flying]
    BY DEF GpuInv, GpuShape
  <2>3. /\ gpc' \in [Callers -> Resting \cup Sending \cup Flying]
        /\ \A u \in Callers : gpc'[u] = gpc[u] \/ (gpc[u] \in Flying /\ gpc'[u] \in Flying)
    BY <2>1, <2>2 DEF Flying
  <2> QED
    <3>1. \A u \in Writers : gpc'[u] = "copy" => gpc[u] = "copy"
      BY <2>3 DEF Callers, Flying
    <3>2. GpuFrames'
      BY <3>1, FramesStay DEF GpuInv, CommandWoken, frameVars
    <3> QED
      BY <1>1, <2>3, <3>2, GpuOutside DEF CommandWoken, frameVars
<1>2. CASE ghead[t] \notin pending
  BY <1>2, FreesOK
<1> QED
  BY <1>1, <1>2

LEMMA GpuInitOK == GpuInit => GpuInv
<1>1. SUFFICES ASSUME GpuInit PROVE GpuInv
  OBVIOUS
<1>2. 0 \in GIdx /\ Ahead(GpuMod, 0, 0) = 0
  <2>1. 0 \in GIdx
    BY GpuSizes DEF GIdx
  <2> QED
    BY <2>1, GpuMoves
<1>3. InUse(0, 0) = {}
  BY <1>2 DEF InUse
<1>4. Queued = {} /\ Reported = {} /\ Apart(gring, gaidx, gseen) /\ Apart(guring, guidx, gused_idx)
  BY <1>1, <1>3 DEF GpuInit, Queued, Reported, Entries, Apart
<1>5. InFlight = {}
  BY <1>1 DEF GpuInit, InFlight
<1>6. GpuShape
  <2>1. /\ gnext \in [GDesc -> GDesc \cup {NoDesc}] /\ gring \in [GDesc -> GDesc \cup {NoDesc}]
        /\ guring \in [GDesc -> GDesc \cup {NoDesc}] /\ ghead \in [Callers -> GDesc \cup {NoDesc}]
        /\ gpc \in [Callers -> Resting \cup Sending \cup Flying]
    BY <1>1 DEF GpuInit, Resting, Sending
  <2>2. cmd = [d \in GDesc |-> cmd[d]] /\ resp = [d \in GDesc |-> resp[d]] /\ todo = [t \in Callers |-> todo[t]]
    BY <1>1 DEF GpuInit
  <2> QED
    BY <1>1, <1>2, <2>1, <2>2 DEF GpuInit, GpuShape
<1>7. GpuChains
  BY <1>1, <1>5 DEF GpuInit, GpuChains
<1>8. GpuHanded
  BY <1>1, <1>4 DEF GpuInit, GpuHanded
<1>9. GpuFrames /\ Fetching
  <2>1. FB_PARTS \in Nat /\ \A p \in FbPart : p \in Int /\ ~(p <= 0)
    BY VirtioGpuAssumption DEF FbPart
  <2>2. fb = [p \in FbPart |-> 0] /\ host = [p \in FbPart |-> 0] /\ shown = [p \in FbPart |-> 0]
    BY <1>1 DEF GpuInit
  <2>3. Later(shown, host) /\ Later(host, fb)
    BY <2>2 DEF Later
  <2>4. mine \in [Callers -> 0..0] /\ \A t \in Writers : gpc[t] # "copy"
    BY <1>1 DEF GpuInit, Callers
  <2>5. frames = 0 /\ copied = 0 /\ fetched = 0
    BY <1>1 DEF GpuInit
  <2> QED
    BY <2>1, <2>2, <2>3, <2>4, <2>5 DEF GpuFrames, Fetching
<1>10. ASSUME NEW t \in Callers PROVE OnPlan(t)
  <2>1. Shows(shown, mine[t]) /\ display = {}
    BY <1>1 DEF GpuInit, Shows
  <2>2. CASE t = Booter
    <3>1. gpc[t] = "send" /\ todo[t] = Boot
      BY <1>1, <2>2 DEF GpuInit
    <3> QED
      BY <2>1, <3>1, BootPlan DEF OnPlan, Resting, Sending, Flying
  <2>3. CASE t # Booter
    <3>1. gpc[t] = "boot"
      BY <1>1, <2>3 DEF GpuInit
    <3> QED
      BY <2>1, <3>1 DEF OnPlan, Resting, Sending, Flying
  <2> QED
    BY <2>2, <2>3
<1> QED
  BY <1>6, <1>7, <1>8, <1>9, <1>10 DEF GpuInv

LEMMA GpuStepOK == ASSUME GpuInv, [GpuNext]_gpuVars PROVE GpuInv'
<1>1. CASE \E t \in Callers : SendNoDesc(t)
  BY <1>1, SendNoDescOK
<1>2. CASE \E t \in Callers : Send(t)
  BY <1>2, SendOK
<1>3. CASE \E t \in Callers : CommandWoken(t)
  BY <1>3, CommandWokenOK
<1>4. CASE \E t \in Writers : MonitorCopy(t) \/ MonitorCopied(t)
  BY <1>4, MonitorCopyOK, MonitorCopiedOK
<1>5. CASE GpuEntry
  BY <1>5, GpuEntryOK
<1>6. CASE DevFetch \/ DevExecute
  BY <1>6, DevFetchOK, DevExecuteOK
<1>7. CASE \E d \in GDesc : DevReport(d)
  BY <1>7, DevReportOK
<1>8. CASE (\E t \in Writers : MonitorLock(t) \/ MonitorRefuse(t)) \/ GpuIntr \/ GpuReturn \/ UNCHANGED gpuVars
  BY <1>8, QuietOK
<1> QED
  BY <1>1, <1>2, <1>3, <1>4, <1>5, <1>6, <1>7, <1>8, Zenon DEF GpuNext

LEMMA GpuInvSound == GpuInv => CommandsOwned /\ FrameShown
<1>1. SUFFICES ASSUME GpuInv PROVE CommandsOwned /\ FrameShown
  OBVIOUS
<1>2. GpuShape /\ GpuChains /\ GpuHanded /\ GpuFrames /\ Fetching /\ (\A u \in Callers : OnPlan(u))
  BY <1>1 DEF GpuInv
<1>3. gfree = GDesc \ UNION {CommandChain(ghead[t]) : t \in InFlight}
  BY <1>2 DEF GpuChains
<1>4. \A d \in gtaken : \E t \in InFlight : ghead[t] = d /\ d \in pending
  BY <1>2 DEF GpuHanded
<1>5. CommandsOwned
  BY <1>2, <1>3, <1>4 DEF CommandsOwned, GpuShape, GpuChains
<1>6. frames \in Nat /\ shown \in [FbPart -> Nat] /\ mine \in [Callers -> 0..frames] /\ Writers \subseteq Callers
  BY <1>2 DEF GpuFrames, Callers
<1>7. ASSUME NEW t \in Writers, gpc[t] = "idle", NEW p \in FbPart PROVE shown[p] >= mine[t]
  <2>1. t \in Callers /\ mine[t] <= shown[p]
    BY <1>2, <1>6, <1>7 DEF OnPlan, Resting, Shows
  <2>2. mine[t] \in Nat /\ shown[p] \in Nat
    BY <1>6, <2>1
  <2> QED
    BY <2>1, <2>2
<1>8. ASSUME mlock = NoTask, \A t \in Writers : gpc[t] = "idle", NEW p \in FbPart PROVE shown[p] = frames
  <2>1. copied = 0 /\ p \in Int /\ p > 0
    BY <1>2, <1>8, VirtioGpuAssumption DEF GpuFrames, FbPart
  <2>2. fb[p] = frames /\ host[p] \in Nat /\ shown[p] <= host[p] /\ host[p] <= fb[p]
    BY <1>2, <2>1 DEF GpuFrames, Later
  <2>3. shown[p] >= frames
    <3>1. CASE frames = 0
      BY <1>6, <3>1
    <3>2. CASE \E t \in Writers : mine[t] = frames
      BY <1>7, <1>8, <3>2
    <3> QED
      BY <1>2, <3>1, <3>2 DEF GpuFrames
  <2> QED
    BY <1>6, <2>2, <2>3
<1> QED
  BY <1>5, <1>7, <1>8 DEF FrameShown

LEMMA GpuInvariance == GpuSpec => []GpuInv
BY GpuInitOK, GpuStepOK, PTL DEF GpuSpec

\* No command to the display is refused and no panic reached, no descriptor is
\* lost or in two chains, and the device never works on the request of a
\* function that has returned: for any number of writers and descriptors.
THEOREM GpuCommandsOwned == GpuSpec => []CommandsOwned
BY GpuInvariance, GpuInvSound, PTL

\* When monitor_write returns, no part of the screen is older than its frame,
\* whatever part of later frames the transfers of other writers have met; and
\* when all have returned the newest frame is shown as a whole: for any number of
\* writers, descriptors and parts of the frame buffer.
THEOREM GpuFrameShown == GpuSpec => []FrameShown
BY GpuInvariance, GpuInvSound, PTL
-----------------------------------------------------------------------------
(* The input device *)

InputTypes ==
    /\ buffer \in [Slot -> Nat] /\ evring \in [Slot -> Slot] /\ evaidx \in 0..EventMod - 1
    /\ made \in Nat /\ given \in Seq(Nat) /\ overrun \in BOOLEAN
    /\ kbuf \in [0..BUF_SIZE - 1 -> Nat] /\ khead \in Nat /\ ktail \in Nat
    /\ got.from \in Nat /\ got.cells \in Seq(Nat)

\* The ring indices are the two counts, cut to 16 bits.
Indices == evidx = made % EventMod /\ evseen = evidx /\ evused_idx = Len(given) % EventMod

\* The events between the two counts are in the cells they were written to.
Underway ==
    /\ Len(given) <= made /\ Posted + (made - Len(given)) <= EVENT_NUM
    /\ \A i \in 1..Len(given) : given[i] = i
    /\ \A j \in Len(given)..made - 1 :
          evring[j % EVENT_NUM] = j % EVENT_NUM /\ buffer[j % EVENT_NUM] = j + 1

InputInv == InputTypes /\ Indices /\ (~overrun => Underway) /\ KeepsNewest /\ ReadsInArray

LEMMA InputSizes ==
  /\ EVENT_NUM \in Nat \ {0} /\ EventMod \in Nat \ {0} /\ BUF_SIZE \in Nat \ {0}
  /\ EVENT_NUM < EventMod
<1>1. PICK k \in 2..EventMod : EventMod = k * EVENT_NUM
  BY InputAssumption
<1>2. EVENT_NUM \in Nat \ {0} /\ EventMod \in Nat \ {0} /\ BUF_SIZE \in Nat \ {0} /\ k \in Int /\ k # 0
  BY InputAssumption, <1>1
<1>3. k = 1 + (k - 1) /\ k - 1 \in Int /\ k - 1 # 0 /\ k - 1 > 0
  BY <1>1
<1>4. (k - 1) * EVENT_NUM >= EVENT_NUM
  BY <1>2, <1>3
<1>5. k * EVENT_NUM = EVENT_NUM + (k - 1) * EVENT_NUM
  BY <1>2, <1>3
<1>6. EVENT_NUM < EventMod
  BY <1>1, <1>2, <1>4, <1>5
<1> QED
  BY <1>2, <1>6

LEMMA EventCell == ASSUME NEW a \in Int PROVE (a % EventMod) % EVENT_NUM = a % EVENT_NUM
<1>1. PICK k \in 2..EventMod : EventMod = k * EVENT_NUM
  BY InputAssumption
<1>2. k \in Int
  BY <1>1
<1> QED
  BY <1>1, <1>2, InputSizes, SameCell, Zenon

\* What the device may still fill, from the counts.
LEMMA PostedFor ==
  ASSUME NEW a \in Int, NEW m \in Int PROVE (a - (m % EventMod)) % EventMod = (a - m) % EventMod
BY SameResidue, InputSizes

LEMMA PostedIs ==
  ASSUME InputTypes, Indices PROVE Posted = (evaidx - made) % EventMod /\ Posted \in 0..EventMod - 1
<1>1. evaidx \in Int /\ made \in Int /\ evaidx - made \in Int
  BY InputSizes DEF InputTypes
<1>2. (evaidx - (made % EventMod)) % EventMod = (evaidx - made) % EventMod
  BY <1>1, InputSizes, SameResidue
<1> QED
  BY <1>1, <1>2, InRange, InputSizes DEF Posted, Indices

LEMMA PendingIs ==
  ASSUME InputTypes, Indices, Underway PROVE Pending = made - Len(given)
<1>1. made \in Int /\ Len(given) \in Int /\ 0 <= made - Len(given)
  BY DEF InputTypes, Underway
<1>2. made - Len(given) < EventMod
  <2>1. Posted \in 0..EventMod - 1 /\ EVENT_NUM \in Nat /\ EventMod \in Nat /\ EVENT_NUM < EventMod
    BY PostedIs, InputSizes
  <2>2. Posted + (made - Len(given)) <= EVENT_NUM
    BY DEF Underway
  <2> QED
    BY <1>1, <2>1, <2>2
<1>3. PICK n \in Int : n = Len(given)
  BY <1>1
<1>4. ((made % EventMod) - (n % EventMod)) % EventMod = made - n
  BY <1>1, <1>2, <1>3, AheadBy, InputSizes
<1> QED
  BY <1>3, <1>4 DEF Pending, Indices

LEMMA NextIndex ==
  ASSUME NEW a \in Nat PROVE ((a % EventMod) + 1) % EventMod = (a + 1) % EventMod
<1>1. PICK n \in Nat \ {0} : n = EventMod
  BY InputSizes
<1>2. a \in Int /\ 1 \in Int
  OBVIOUS
<1>3. ((a % n) + 1) % n = (a + 1) % n
  BY <1>2, SameResidue
<1> QED
  BY <1>1, <1>3

LEMMA CellRange ==
  ASSUME NEW a \in Int PROVE a % EVENT_NUM \in Slot /\ a % BUF_SIZE \in 0..BUF_SIZE - 1
BY InRange, InputSizes DEF Slot

\* Keys are counted from the front.
LEMMA CountKeys ==
  ASSUME given \in Seq(Nat) PROVE \A m \in Nat : KeysIn(m) \in Nat
<1>1. ASSUME NEW m \in Nat PROVE KeysIn(m) \in Nat
  <2>1. IsFiniteSet(1..m)
    BY FS_Interval
  <2>2. {i \in 1..m : given[i] \in KeyEvents} \subseteq 1..m
    OBVIOUS
  <2>3. IsFiniteSet({i \in 1..m : given[i] \in KeyEvents})
    BY <2>1, <2>2, FS_Subset, Zenon
  <2> QED
    BY <2>3, FS_CardinalityType DEF KeysIn
<1> QED
  BY <1>1

LEMMA EarlierKeys ==
  ASSUME given \in Seq(Nat), NEW e \in Nat, given' = Append(given, e), NEW n \in Nat, n = Len(given)
  PROVE  \A m \in 0..n : KeysIn(m)' = KeysIn(m)
<1>1. ASSUME NEW m \in 0..n PROVE KeysIn(m)' = KeysIn(m)
  <2>1. \A i \in 1..m : given'[i] = given[i]
    OBVIOUS
  <2>2. {i \in 1..m : given[i] \in KeyEvents} = {i \in 1..m : given'[i] \in KeyEvents}
    BY <2>1, Zenon
  <2> QED
    BY <2>2, Zenon DEF KeysIn
<1> QED
  BY <1>1

LEMMA LastKey ==
  ASSUME given \in Seq(Nat), NEW e \in Nat, given' = Append(given, e), NEW n \in Nat, n = Len(given)
  PROVE  KeysIn(n + 1)' = KeysIn(n) + (IF e \in KeyEvents THEN 1 ELSE 0)
<1> DEFINE A == {i \in 1..n : given[i] \in KeyEvents}
           B == {i \in 1..n + 1 : given'[i] \in KeyEvents}
<1>1. n \in Nat /\ KeysIn(n) = Cardinality(A) /\ KeysIn(n + 1)' = Cardinality(B)
  <2>1. n \in Nat
    OBVIOUS
  <2>2. KeysIn(n) = Cardinality(A)
    BY Zenon DEF KeysIn
  <2>3. KeysIn(n + 1)' = Cardinality(B)
    BY Zenon DEF KeysIn
  <2> QED
    BY <2>1, <2>2, <2>3
<1>2. IsFiniteSet(1..n) /\ A \subseteq 1..n
  BY <1>1, FS_Interval
<1>3. IsFiniteSet(A) /\ n + 1 \notin A
  BY <1>1, <1>2, FS_Subset
<1>4. \A i \in 1..n : given'[i] = given[i]
  OBVIOUS
<1>5. given'[n + 1] = e
  OBVIOUS
<1>6. 1..n + 1 = 1..n \union {n + 1}
  BY <1>1
<1>7. CASE e \in KeyEvents
  <2>1. B = A \union {n + 1}
    BY <1>4, <1>5, <1>6, <1>7, Zenon
  <2>2. Cardinality(A \union {n + 1}) = Cardinality(A) + 1
    BY <1>3, FS_AddElement
  <2> HIDE DEF A, B
  <2> QED
    BY <1>1, <1>7, <2>1, <2>2
<1>8. CASE e \notin KeyEvents
  <2>1. B = A
    BY <1>4, <1>5, <1>6, <1>8, Zenon
  <2>2. Cardinality(A) \in Nat
    BY <1>3, FS_CardinalityType
  <2> HIDE DEF A, B
  <2> QED
    BY <1>1, <1>8, <2>1, <2>2
<1> QED
  BY <1>7, <1>8

LEMMA InputInitHolds == InputInit => InputInv
<1>1. SUFFICES ASSUME InputInit PROVE InputInv
  OBVIOUS
<1>2. 0 \in Slot /\ EVENT_NUM \in Nat
  BY InputSizes DEF Slot
<1>3. InputTypes
  <2>1. got.from = 0 /\ got.cells = <<>>
    BY <1>1 DEF InputInit
  <2> QED
    BY <1>1, <1>2, <2>1, InputSizes DEF InputInit, InputTypes
<1>4. given = <<>> /\ Len(given) = 0 /\ 0 % EventMod = 0
  BY <1>1, SmallResidue, InputSizes DEF InputInit
<1>5. Indices
  BY <1>1, <1>4 DEF InputInit, Indices
<1>6. Underway
  <2>1. EVENT_NUM \in 0..EventMod - 1 /\ EventMod \in Nat \ {0}
    BY InputSizes
  <2>2. EVENT_NUM % EventMod = EVENT_NUM
    BY <2>1, SmallResidue
  <2>3. Posted = EVENT_NUM
    BY <1>1, <2>1, <2>2 DEF InputInit, Posted
  <2> QED
    BY <1>1, <1>2, <1>4, <2>3 DEF InputInit, Underway
<1>7. KeepsNewest
  <2>1. {i \in 1..0 : given[i] \in KeyEvents} = {}
    OBVIOUS
  <2>2. KeysIn(0) = 0
    BY <2>1, FS_EmptySet, Zenon DEF KeysIn
  <2> QED
    BY <1>1, <1>4, <2>2, InputSizes DEF InputInit, KeepsNewest
<1>8. ReadsInArray
  <2>1. got.from = 0 /\ got.cells = <<>> /\ Len(<<>>) = 0 /\ ktail = 0
    BY <1>1 DEF InputInit
  <2> QED
    BY <2>1 DEF ReadsInArray
<1> QED
  BY <1>3, <1>5, <1>6, <1>7, <1>8 DEF InputInv

\* The keyboard's ring is only touched by the handler and the readers.
LEMMA KeysStay ==
  ASSUME KeepsNewest, ReadsInArray, UNCHANGED <<given, kbuf, khead, ktail, got>>
  PROVE  KeepsNewest' /\ ReadsInArray'
<1>1. \A m : KeysIn(m)' = KeysIn(m)
  BY DEF KeysIn
<1>2. KeepsNewest'
  BY <1>1 DEF KeepsNewest, IsKey
<1>3. ReadsInArray'
  BY <1>1 DEF ReadsInArray, IsKey
<1> QED
  BY <1>2, <1>3

LEMMA DevEventStep == ASSUME InputInv, DevEvent PROVE InputInv'
<1>1. InputTypes /\ Indices /\ (~overrun => Underway) /\ KeepsNewest /\ ReadsInArray
  BY DEF InputInv
<1>2. KeepsNewest' /\ ReadsInArray'
  BY <1>1, KeysStay DEF DevEvent, kvars
<1>3. PICK n \in Nat : n = Len(given) /\ n = Len(given')
  BY <1>1 DEF InputTypes, DevEvent
<1>4. PICK c \in Slot : c = made % EVENT_NUM
  BY <1>1, CellRange DEF InputTypes
<1>5. evseen % EVENT_NUM = c /\ evidx % EVENT_NUM = c
  <2>1. made \in Int
    BY <1>1 DEF InputTypes
  <2>2. (made % EventMod) % EVENT_NUM = c
    BY <1>4, <2>1, EventCell
  <2> QED
    BY <1>1, <2>2 DEF Indices
<1>6. buffer' = [buffer EXCEPT ![c] = made + 1] /\ evring' = [evring EXCEPT ![c] = c]
  BY <1>5 DEF DevEvent
<1>7. InputTypes'
  <2>1. buffer' \in [Slot -> Nat] /\ evring' \in [Slot -> Slot] /\ made' \in Nat
    <3>1. buffer \in [Slot -> Nat] /\ evring \in [Slot -> Slot] /\ made \in Nat /\ made' = made + 1
      BY <1>1 DEF InputTypes, DevEvent
    <3>2. made + 1 \in Nat
      BY <3>1
    <3> QED
      BY <1>4, <1>6, <3>1, <3>2
  <2>2. UNCHANGED <<evaidx, given, overrun, kbuf, khead, ktail, got>>
    BY DEF DevEvent, kvars
  <2> QED
    BY <1>1, <2>1, <2>2 DEF InputTypes
<1>8. Indices'
  <2>1. evidx' = (made + 1) % EventMod /\ evseen' = (made + 1) % EventMod
    BY <1>1, NextIndex DEF Indices, DevEvent, InputTypes
  <2> QED
    BY <1>1, <2>1 DEF Indices, DevEvent
<1>9. ASSUME ~overrun' PROVE Underway'
  <2>1. ~overrun /\ Underway
    BY <1>1, <1>9 DEF DevEvent
  <2>2. PICK a \in Int : a = evaidx - made
    BY <1>1 DEF InputTypes
  <2>3. Posted = a % EventMod /\ Posted \in 0..EventMod - 1
    BY <1>1, <2>2, PostedIs
  <2>4. Posted # 0
    <3>1. SUFFICES ASSUME Posted = 0 PROVE FALSE
      OBVIOUS
    <3>2. PICK b \in Int : b = evaidx - evidx /\ b < EventMod /\ -b < EventMod
      <4>1. made \in Int /\ evaidx \in 0..EventMod - 1 /\ EventMod \in Nat \ {0}
        BY <1>1, InputSizes DEF InputTypes
      <4>2. made % EventMod \in 0..EventMod - 1
        BY <4>1, InRange
      <4>3. evidx \in 0..EventMod - 1
        BY <1>1, <4>2 DEF Indices
      <4> QED
        BY <4>1, <4>3
    <3>3. b % EventMod = 0 /\ 0 % EventMod = 0
      BY <3>1, <3>2, SmallResidue, InputSizes DEF Posted
    <3>4. b = 0
      BY <3>2, <3>3, ApartResidue, InputSizes
    <3> QED
      BY <1>1, <3>2, <3>4, InRange, InputSizes DEF InputTypes, Indices, DevEvent
  <2>5. Posted' = Posted - 1
    <3>1. PICK b \in Int : b = a - 1 /\ b = evaidx' - made'
      BY <1>1, <2>2 DEF DevEvent, InputTypes
    <3>2. Posted' = b % EventMod
      <4>1. evaidx' \in Int /\ made' \in Int
        BY <1>7, InputSizes DEF InputTypes
      <4>2. (evaidx' - (made' % EventMod)) % EventMod = (evaidx' - made') % EventMod
        BY <4>1, PostedFor
      <4> QED
        BY <1>8, <3>1, <4>2 DEF Posted, Indices
    <3>3. (a - 1) % EventMod = (a % EventMod) - 1
      BY <2>3, <2>4, OneLess, InputSizes
    <3> QED
      BY <2>3, <3>1, <3>2, <3>3
  <2>6. n <= made' /\ Posted' + (made' - n) <= EVENT_NUM
    <3>1. made' = made + 1 /\ made \in Nat
      BY <1>1 DEF DevEvent, InputTypes
    <3>2. n <= made /\ Posted + (made - n) <= EVENT_NUM
      BY <1>3, <2>1 DEF Underway
    <3>3. PICK p \in Int : p = Posted
      BY <2>3, InputSizes
    <3> QED
      BY <2>5, <3>1, <3>2, <3>3, InputSizes
  <2>7. \A i \in 1..n : given'[i] = i
    BY <1>3, <2>1 DEF Underway, DevEvent
  <2>8. ASSUME NEW j \in n..made' - 1
        PROVE  evring'[j % EVENT_NUM] = j % EVENT_NUM /\ buffer'[j % EVENT_NUM] = j + 1
    <3>1. made' = made + 1 /\ made \in Nat /\ j \in Nat
      BY <1>1, <1>3 DEF DevEvent, InputTypes
    <3>2. PICK d \in Slot : d = j % EVENT_NUM
      BY <3>1, CellRange
    <3>3. CASE j = made
      <4>1. d = c
        BY <1>4, <3>2, <3>3
      <4> QED
        BY <1>1, <1>6, <3>2, <3>3, <4>1 DEF InputTypes
    <3>4. CASE j # made
      <4>1. j \in n..made - 1
        BY <3>1, <3>4
      <4>2. made - j < EVENT_NUM /\ j - made < EVENT_NUM
        <5>1. Posted + (made - n) <= EVENT_NUM
          BY <1>3, <2>1 DEF Underway
        <5>2. PICK p \in Int : p = Posted /\ p >= 1
          BY <2>3, <2>4, InputSizes
        <5> QED
          BY <3>1, <4>1, <5>1, <5>2, InputSizes
      <4>3. d # c
        <5>1. made \in Int /\ j \in Int /\ EVENT_NUM \in Nat \ {0}
          BY <3>1, InputSizes
        <5>2. made % EVENT_NUM # j % EVENT_NUM
          BY <3>4, <4>2, <5>1, ApartResidue
        <5> QED
          BY <1>4, <3>2, <5>2
      <4>4. evring[d] = d /\ buffer[d] = j + 1
        BY <1>3, <2>1, <3>2, <4>1 DEF Underway
      <4> QED
        BY <1>1, <1>6, <3>2, <4>3, <4>4 DEF InputTypes
    <3> QED
      BY <3>3, <3>4
  <2> QED
    BY <1>3, <2>6, <2>7, <2>8 DEF Underway
<1> QED
  BY <1>2, <1>7, <1>8, <1>9 DEF InputInv

LEMMA InputEntryStep == ASSUME InputInv, InputEntry PROVE InputInv'
<1>1. InputTypes /\ Indices /\ (~overrun => Underway) /\ KeepsNewest /\ ReadsInArray
  BY DEF InputInv
<1>2. PICK n \in Nat : n = Len(given)
  BY <1>1 DEF InputTypes
<1>3. PICK c \in Slot : c = n % EVENT_NUM
  BY <1>2, CellRange
<1>4. evused_idx % EVENT_NUM = c
  <2>1. (n % EventMod) % EVENT_NUM = n % EVENT_NUM
    BY EventCell
  <2> QED
    BY <1>1, <1>2, <1>3, <2>1 DEF Indices
<1>5. PICK e \in Nat : e = buffer[evring[c]]
  BY <1>1, <1>3 DEF InputTypes
<1>6. /\ given' = Append(given, e)
      /\ IF e \in KeyEvents THEN KeyboardIntr(e) ELSE UNCHANGED kvars
  BY <1>4, <1>5 DEF InputEntry, EntryAt
<1>7. UNCHANGED <<buffer, evaidx, evring, evidx, evseen, made, overrun>>
  BY DEF InputEntry
<1>8. given' \in Seq(Nat) /\ Len(given') = n + 1 /\ given'[n + 1] = e /\ \A i \in 1..n : given'[i] = given[i]
  <2>1. given \in Seq(Nat)
    BY <1>1 DEF InputTypes
  <2> QED
    BY <1>2, <1>6, <2>1
<1>9. PICK h \in 0..BUF_SIZE - 1 : h = khead % BUF_SIZE
  <2>1. khead \in Int
    BY <1>1 DEF InputTypes
  <2>2. khead % BUF_SIZE \in 0..BUF_SIZE - 1
    BY <2>1, CellRange
  <2> QED
    BY <2>2, Zenon
<1>10. InputTypes'
  <2>1. kbuf' \in [0..BUF_SIZE - 1 -> Nat] /\ khead' \in Nat /\ ktail' \in Nat
    <3>1. CASE e \in KeyEvents
      <4>1. kbuf' = [kbuf EXCEPT ![h] = e] /\ khead' = khead + 1
        BY <1>6, <1>9, <3>1 DEF KeyboardIntr
      <4>2. ktail' = IF khead + 1 - ktail > BUF_SIZE THEN khead + 1 - BUF_SIZE ELSE ktail
        BY <1>6, <3>1 DEF KeyboardIntr
      <4> QED
        BY <1>1, <4>1, <4>2, InputSizes DEF InputTypes
    <3>2. CASE e \notin KeyEvents
      BY <1>1, <1>6, <3>2 DEF kvars, InputTypes
    <3> QED
      BY <3>1, <3>2
  <2>2. got' = got
    BY <1>6 DEF KeyboardIntr, kvars
  <2> QED
    BY <1>1, <1>7, <1>8, <2>1, <2>2 DEF InputTypes
<1>11. Indices'
  <2>1. evused_idx' = (evused_idx + 1) % EventMod /\ evused_idx = n % EventMod
    BY <1>1, <1>2 DEF InputEntry, Indices
  <2>2. evused_idx' = (n + 1) % EventMod
    BY <2>1, NextIndex
  <2> QED
    BY <1>1, <1>7, <1>8, <2>2 DEF Indices
<1>12. ASSUME ~overrun' PROVE Underway'
  <2>1. Underway
    BY <1>1, <1>7, <1>12
  <2>2. made \in Nat /\ n < made
    <3>1. n # made
      BY <1>1, <1>2 DEF InputEntry, Indices
    <3> QED
      BY <1>1, <1>2, <2>1, <3>1 DEF Underway, InputTypes
  <2>3. e = n + 1
    BY <1>2, <1>3, <1>5, <2>1, <2>2 DEF Underway
  <2>4. \A i \in 1..n + 1 : given'[i] = i
    BY <1>2, <1>8, <2>1, <2>3 DEF Underway
  <2>5. Posted' = Posted
    BY <1>7 DEF Posted
  <2>6. n + 1 <= made /\ Posted + (made - (n + 1)) <= EVENT_NUM
    <3>1. PICK p \in Int : p = Posted
      BY <1>1, PostedIs, InputSizes
    <3>2. p + (made - n) <= EVENT_NUM
      BY <1>2, <2>1, <3>1 DEF Underway
    <3> QED
      BY <2>2, <3>1, <3>2, InputSizes
  <2>7. \A j \in n + 1..made - 1 : evring[j % EVENT_NUM] = j % EVENT_NUM /\ buffer[j % EVENT_NUM] = j + 1
    <3>1. \A j \in n..made - 1 : evring[j % EVENT_NUM] = j % EVENT_NUM /\ buffer[j % EVENT_NUM] = j + 1
      BY <1>2, <2>1 DEF Underway
    <3>2. n + 1..made - 1 \subseteq n..made - 1
      BY <2>2
    <3> QED
      BY <3>1, <3>2, Zenon
  <2> QED
    BY <1>7, <1>8, <2>4, <2>5, <2>6, <2>7 DEF Underway
<1>13. KeepsNewest'
  <2>1. PICK k \in Nat : k = khead /\ k = KeysIn(n)
    BY <1>1, <1>2 DEF KeepsNewest, InputTypes
  <2>2. PICK l \in Nat : l = ktail /\ k - l \in 0..BUF_SIZE
    BY <1>1, <2>1 DEF KeepsNewest, InputTypes
  <2>3. \A i \in l..k - 1 : \E m \in 1..n : /\ given[m] \in KeyEvents /\ KeysIn(m) = i + 1
                                            /\ kbuf[i % BUF_SIZE] = given[m]
    BY <1>1, <1>2, <2>1, <2>2 DEF KeepsNewest, IsKey
  <2>8. given \in Seq(Nat) /\ given' = Append(given, e)
    BY <1>1, <1>6 DEF InputTypes
  <2>4. \A m \in 0..n : KeysIn(m)' = KeysIn(m)
    BY <1>2, <2>8, EarlierKeys
  <2>9. KeysIn(n + 1)' = KeysIn(n) + (IF e \in KeyEvents THEN 1 ELSE 0)
    BY <1>2, <2>8, LastKey
  <2>5. \A i \in l..k - 1 : \E m \in 1..n + 1 :
          /\ given'[m] \in KeyEvents /\ KeysIn(m)' = i + 1 /\ kbuf[i % BUF_SIZE] = given'[m]
    <3>1. TAKE i \in l..k - 1
    <3>2. PICK m \in 1..n : given[m] \in KeyEvents /\ KeysIn(m) = i + 1 /\ kbuf[i % BUF_SIZE] = given[m]
      BY <2>3
    <3>3. m \in 1..n + 1 /\ m \in 0..n /\ given'[m] = given[m]
      BY <1>8
    <3> WITNESS m \in 1..n + 1
    <3> QED
      BY <2>4, <3>2, <3>3, Zenon
  <2>6. CASE e \notin KeyEvents
    <3>1. KeysIn(n + 1)' = k
      BY <2>1, <2>6, <2>9
    <3>2. khead' = k /\ ktail' = l /\ kbuf' = kbuf
      BY <1>6, <2>1, <2>2, <2>6 DEF kvars
    <3> QED
      BY <1>8, <2>2, <2>5, <3>1, <3>2 DEF KeepsNewest, IsKey
  <2>7. CASE e \in KeyEvents
    <3>1. KeysIn(n + 1)' = k + 1
      BY <2>1, <2>7, <2>9
    <3>2. khead' = k + 1 /\ kbuf' = [kbuf EXCEPT ![h] = e] /\ h = k % BUF_SIZE
      BY <1>6, <1>9, <2>1, <2>7 DEF KeyboardIntr
    <3>3. ktail' = IF k + 1 - l > BUF_SIZE THEN k + 1 - BUF_SIZE ELSE l
      BY <1>6, <2>1, <2>2, <2>7 DEF KeyboardIntr
    <3>4. PICK l1 \in Nat : l1 = ktail' /\ l <= l1 /\ k < l1 + BUF_SIZE /\ l1 <= k
      BY <2>1, <2>2, <3>3, InputSizes
    <3>10. l <= l1 /\ k < l1 + BUF_SIZE /\ l1 <= k
      BY <3>4, Zenon
    <3>5. ASSUME NEW i \in l1..k
          PROVE  \E m \in 1..n + 1 :
                   /\ given'[m] \in KeyEvents /\ KeysIn(m)' = i + 1 /\ kbuf'[i % BUF_SIZE] = given'[m]
      <4>1. CASE i = k
        <5>1. n + 1 \in 1..n + 1 /\ given'[n + 1] \in KeyEvents /\ kbuf'[i % BUF_SIZE] = given'[n + 1]
          BY <1>1, <1>8, <1>9, <2>7, <3>2, <4>1 DEF InputTypes
        <5> QED
          BY <3>1, <4>1, <5>1
      <4>2. CASE i # k
        <5>1. i \in l..k - 1 /\ i \in Int /\ k \in Int /\ i - k < BUF_SIZE /\ k - i < BUF_SIZE
          <6>1. BUF_SIZE \in Nat \ {0} /\ l1 <= i /\ i <= k /\ i \in Int /\ k \in Int
            BY InputSizes
          <6> QED
            BY <3>10, <4>2, <6>1
        <5>2. i % BUF_SIZE # k % BUF_SIZE
          BY <4>2, <5>1, ApartResidue, InputSizes
        <5>3. kbuf'[i % BUF_SIZE] = kbuf[i % BUF_SIZE]
          <6>1. i % BUF_SIZE \in 0..BUF_SIZE - 1
            BY <5>1, CellRange
          <6> QED
            BY <1>1, <3>2, <5>2, <6>1 DEF InputTypes
        <5> QED
          BY <2>5, <5>1, <5>3
      <4> QED
        BY <4>1, <4>2
    <3>6. l1..k = ktail'..khead' - 1 /\ khead' = KeysIn(n + 1)' /\ khead' - ktail' \in 0..BUF_SIZE
      <4>1. BUF_SIZE \in Nat /\ khead' = k + 1 /\ ktail' = l1
        BY <3>2, <3>4, InputSizes
      <4>3. BUF_SIZE \in Nat
        BY InputSizes
      <4>2. k + 1 - l1 \in 0..BUF_SIZE /\ k + 1 - 1 = k
        BY <3>10, <4>3
      <4> QED
        BY <3>1, <4>1, <4>2
    <3>7. Len(given') = n + 1
      BY <1>8
    <3>8. \A i \in ktail'..khead' - 1 : \E m \in 1..Len(given') :
             /\ given'[m] \in KeyEvents /\ KeysIn(m)' = i + 1 /\ kbuf'[i % BUF_SIZE] = given'[m]
      BY <3>5, <3>6, <3>7, Zenon
    <3>9. khead' = KeysIn(Len(given))'
      BY <3>6, <3>7, Zenon DEF KeysIn
    <3> QED
      BY <3>6, <3>8, <3>9, Zenon DEF KeepsNewest, IsKey
  <2> QED
    BY <2>6, <2>7
<1>14. ReadsInArray'
  <2>1. got' = got /\ ktail' >= ktail
    <3>1. CASE e \in KeyEvents
      <4>1. got' = got /\ ktail' = IF khead + 1 - ktail > BUF_SIZE THEN khead + 1 - BUF_SIZE ELSE ktail
        BY <1>6, <3>1 DEF KeyboardIntr
      <4>2. khead \in Nat /\ ktail \in Nat /\ BUF_SIZE \in Nat
        BY <1>1, InputSizes DEF InputTypes
      <4> QED
        BY <4>1, <4>2
    <3>2. CASE e \notin KeyEvents
      BY <1>1, <1>6, <3>2 DEF kvars, InputTypes
    <3> QED
      BY <3>1, <3>2
  <2>7. given \in Seq(Nat) /\ given' = Append(given, e)
    BY <1>1, <1>6 DEF InputTypes
  <2>2. \A m \in 0..n : KeysIn(m)' = KeysIn(m)
    BY <1>2, <2>7, EarlierKeys
  <2>3. got.from \in Nat /\ Len(got.cells) \in Nat /\ ktail \in Nat /\ ktail' \in Nat
    BY <1>1, <1>10 DEF InputTypes
  <2>4. got.from + Len(got.cells) <= ktail'
    BY <1>1, <2>1, <2>3 DEF ReadsInArray
  <2>5. ASSUME NEW j \in 1..Len(got.cells), got.from + j <= BUF_SIZE
        PROVE  \E m \in 1..n + 1 : /\ given'[m] \in KeyEvents /\ KeysIn(m)' = got.from + j - 1 + 1
                                   /\ got.cells[j] = given'[m]
    <3>1. PICK m \in 1..n : given[m] \in KeyEvents /\ KeysIn(m) = got.from + j - 1 + 1 /\ got.cells[j] = given[m]
      BY <1>1, <1>2, <2>5 DEF ReadsInArray, IsKey
    <3>2. m \in 1..n + 1 /\ m \in 0..n /\ given'[m] = given[m]
      BY <1>8
    <3> WITNESS m \in 1..n + 1
    <3> QED
      BY <2>2, <3>1, <3>2, Zenon
  <2>6. Len(given') = n + 1
    BY <1>8
  <2> QED
    BY <2>1, <2>4, <2>5, <2>6 DEF ReadsInArray, IsKey
<1> QED
  BY <1>10, <1>11, <1>12, <1>13, <1>14 DEF InputInv

LEMMA PostBufferStep == ASSUME InputInv, PostBuffer PROVE InputInv'
<1>1. InputTypes /\ Indices /\ (~overrun => Underway) /\ KeepsNewest /\ ReadsInArray
  BY DEF InputInv
<1>2. UNCHANGED <<buffer, evring, evidx, evused_idx, evseen, made, given, kbuf, khead, ktail, klock, got>>
  BY DEF PostBuffer, kvars
<1>3. KeepsNewest' /\ ReadsInArray'
  BY <1>1, <1>2, KeysStay
<1>4. evaidx \in Nat /\ evaidx + 1 \in Int
  BY <1>1, InputSizes DEF InputTypes
<1>5. evaidx' = (evaidx + 1) % EventMod /\ evaidx' \in 0..EventMod - 1
  BY <1>4, InRange, InputSizes DEF PostBuffer
<1>6. InputTypes'
  BY <1>1, <1>2, <1>5 DEF InputTypes, PostBuffer
<1>7. Indices'
  BY <1>1, <1>2 DEF Indices
<1>8. ASSUME ~overrun' PROVE Underway'
  <2>1. ~overrun /\ Underway /\ ((Posted + 1) % EventMod) + Pending <= EVENT_NUM
    <3>1. ~overrun /\ ~(((Posted + 1) % EventMod) + Pending > EVENT_NUM)
      BY <1>8 DEF PostBuffer
    <3>2. Pending \in Int /\ Posted + 1 \in Int
      <4>1. made \in Nat /\ Len(given) \in Nat
        BY <1>1 DEF InputTypes
      <4>2. Pending = made - Len(given) /\ Posted \in 0..EventMod - 1 /\ EventMod \in Nat
        BY <1>1, <3>1, PostedIs, PendingIs, InputSizes
      <4> QED
        BY <4>1, <4>2
    <3>3. (Posted + 1) % EventMod \in Int
      BY <3>2, InRange, InputSizes
    <3> QED
      BY <1>1, <3>1, <3>2, <3>3, InputSizes
  <2>2. Pending = made - Len(given)
    BY <1>1, <2>1, PendingIs
  <2>3. Posted' = (Posted + 1) % EventMod
    <3>1. PICK x \in Int : x = evaidx - evidx /\ evidx \in Int
      <4>1. made \in Int
        BY <1>1 DEF InputTypes
      <4>2. made % EventMod \in Int
        BY <4>1, InRange, InputSizes
      <4> QED
        BY <1>1, <1>4, <4>2 DEF Indices
    <3>2. PICK y \in Int : y = -evidx
      BY <3>1
    <3>3. PICK z \in Int : z = evaidx + 1
      BY <1>4
    <3>4. ((z % EventMod) + y) % EventMod = (z + y) % EventMod
      BY SameResidue, InputSizes, Zenon
    <3>5. z % EventMod \in Int
      BY InRange, InputSizes
    <3>6. (z % EventMod) + y = (z % EventMod) - evidx /\ z + y = x + 1
      BY <1>4, <3>1, <3>2, <3>3, <3>5
    <3>7. Posted' = (x + 1) % EventMod
      BY <1>2, <1>5, <3>3, <3>4, <3>6 DEF Posted
    <3>8. ((x % EventMod) + 1) % EventMod = (x + 1) % EventMod
      <4>1. 1 \in Int
        OBVIOUS
      <4> QED
        BY <4>1, SameResidue, InputSizes, Zenon
    <3> QED
      BY <3>1, <3>7, <3>8 DEF Posted
  <2> QED
    BY <1>2, <2>1, <2>2, <2>3 DEF Underway
<1> QED
  BY <1>3, <1>6, <1>7, <1>8 DEF InputInv

\* What a read copies out is in the ring at `tail' and after.
LEMMA KeyboardReadStep == ASSUME InputInv, NEW n \in 1..BUF_SIZE, KeyboardRead(n) PROVE InputInv'
<1>1. InputTypes /\ Indices /\ (~overrun => Underway) /\ KeepsNewest /\ ReadsInArray
  BY DEF InputInv
<1>2. UNCHANGED <<buffer, evaidx, evring, evidx, evused_idx, evseen, made, given, overrun, kbuf, khead>>
      /\ ktail' = khead
  BY DEF KeyboardRead
<1>3. PICK h \in Nat, l \in Nat : h = khead /\ l = ktail /\ h - l \in 0..BUF_SIZE /\ BUF_SIZE \in Nat \ {0}
  BY <1>1, InputSizes DEF InputTypes, KeepsNewest
<1>4. PICK c \in Nat : c = IF h - l < n THEN h - l ELSE n
  BY <1>3
<1>5. c <= h - l
  BY <1>3, <1>4
<1>6. PICK q : q = [j \in 1..c |-> CellAt(l + j - 1)]
  OBVIOUS
<1>7. got' = [from |-> l, cells |-> q]
  BY <1>3, <1>4, <1>6 DEF KeyboardRead
<1>8. \A j \in 1..c : CellAt(l + j - 1) \in Nat
  <2>1. ASSUME NEW j \in 1..c PROVE CellAt(l + j - 1) \in Nat
    <3>1. l + j - 1 \in Nat
      BY <1>3
    <3> QED
      BY <1>1, <1>3, <3>1 DEF CellAt, Beyond, InputTypes
  <2> QED
    BY <2>1
<1>9. q \in Seq(Nat) /\ Len(q) = c
  BY <1>6, <1>8
<1>10. got'.from = l /\ got'.cells = q
  BY <1>7
<1>11. InputTypes' /\ Indices' /\ (~overrun' => Underway')
  <2>1. ktail' \in Nat
    BY <1>2, <1>3
  <2>2. InputTypes'
    BY <1>1, <1>2, <1>3, <1>9, <1>10, <2>1 DEF InputTypes
  <2> QED
    BY <1>1, <1>2, <2>2 DEF Indices, Underway, Posted
<1>12. KeepsNewest'
  <2>1. khead' = KeysIn(Len(given))'
    BY <1>1, <1>2 DEF KeepsNewest, KeysIn
  <2>2. khead' - ktail' \in 0..BUF_SIZE /\ ktail'..khead' - 1 = {}
    BY <1>1, <1>2, InputSizes DEF InputTypes
  <2> QED
    BY <2>1, <2>2, Zenon DEF KeepsNewest
<1>13. ReadsInArray'
  <2>1. l + c <= ktail'
    BY <1>2, <1>3, <1>5
  <2>2. ASSUME NEW j \in 1..c, l + j <= BUF_SIZE
        PROVE  \E m \in 1..Len(given) : /\ given[m] \in KeyEvents /\ KeysIn(m) = l + j - 1 + 1
                                        /\ q[j] = given[m]
    <3>1. PICK i \in Nat : i = l + j - 1
      BY <1>3
    <3>2. i \in l..h - 1 /\ i \in 0..BUF_SIZE - 1 /\ i < BUF_SIZE
      BY <1>3, <1>5, <2>2, <3>1
    <3>3. i % BUF_SIZE = i
      BY <1>3, <3>2, SmallResidue
    <3>4. q[j] = kbuf[i]
      BY <1>6, <3>1, <3>2 DEF CellAt
    <3>5. \E m \in 1..Len(given) : given[m] \in KeyEvents /\ KeysIn(m) = i + 1 /\ kbuf[i % BUF_SIZE] = given[m]
      BY <1>1, <1>3, <3>2 DEF KeepsNewest, IsKey
    <3> QED
      BY <3>1, <3>3, <3>4, <3>5
  <2>3. \A m : KeysIn(m)' = KeysIn(m)
    BY <1>2 DEF KeysIn
  <2> QED
    BY <1>2, <1>9, <1>10, <2>1, <2>2, <2>3 DEF ReadsInArray, IsKey
<1> QED
  BY <1>11, <1>12, <1>13 DEF InputInv

LEMMA InputStep == ASSUME InputInv, [InputNext]_inputVars PROVE InputInv'
<1>1. CASE DevEvent
  BY <1>1, DevEventStep
<1>2. CASE InputEntry
  BY <1>2, InputEntryStep
<1>3. CASE PostBuffer
  BY <1>3, PostBufferStep
<1>4. CASE \E n \in 1..BUF_SIZE : KeyboardRead(n)
  BY <1>4, KeyboardReadStep
<1>5. CASE UNCHANGED <<buffer, evaidx, evring, evidx, evused_idx, evseen, made, given, overrun, kbuf, khead, ktail, got>>
  <2>1. InputTypes /\ Indices /\ (~overrun => Underway) /\ KeepsNewest /\ ReadsInArray
    BY DEF InputInv
  <2>2. InputTypes' /\ Indices' /\ (~overrun' => Underway')
    BY <1>5, <2>1 DEF InputTypes, Indices, Underway, Posted
  <2>3. KeepsNewest' /\ ReadsInArray'
    BY <1>5, <2>1, KeysStay
  <2> QED
    BY <2>2, <2>3 DEF InputInv
<1>6. CASE InputIntr \/ InputCaughtUp \/ InputReturn \/ KeyboardReadFails \/ UNCHANGED inputVars
  BY <1>5, <1>6 DEF InputIntr, InputCaughtUp, InputReturn, KeyboardReadFails, inputVars, kvars
<1> QED
  BY <1>1, <1>2, <1>3, <1>4, <1>6 DEF InputNext

LEMMA InputInvIsStrong == InputInv => EventsKept
<1>1. SUFFICES ASSUME InputInv PROVE EventsKept
  OBVIOUS
<1>2. InputTypes /\ Indices /\ (~overrun => Underway) /\ KeepsNewest /\ ReadsInArray
  BY <1>1 DEF InputInv
<1>3. ASSUME ~overrun PROVE (\A i \in 1..Len(given) : given[i] = i) /\ Len(given) + Pending = made
  <2>1. Underway /\ Pending = made - Len(given)
    BY <1>2, <1>3, PendingIs
  <2>2. made \in Nat /\ Len(given) \in Nat
    BY <1>2 DEF InputTypes
  <2> QED
    BY <2>1, <2>2 DEF Underway
<1> QED
  BY <1>2, <1>3 DEF EventsKept, EventsInOrder

\* Every event the device produces reaches keyboard_intr once and in order as
\* long as the posting loop of virtio_input_intr offers no buffer too early, the
\* keyboard's ring always holds the newest key events, and of what a read copies
\* out the part inside the array is those events, none of them twice: for every
\* size of the rings and of the reader's buffer and every number of events.
THEOREM InputKeepsEvents == InputSpec => []EventsKept
<1>1. InputSpec => []InputInv
  BY InputInitHolds, InputStep, PTL DEF InputSpec
<1> QED
  BY <1>1, InputInvIsStrong, PTL
=============================================================================
