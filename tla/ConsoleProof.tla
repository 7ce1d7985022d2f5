----------------------------- MODULE ConsoleProof -----------------------------
(***************************************************************************)
(* Proofs about Console, for any number of readers, any size of the ring   *)
(* and any multiple of it, from two on, at which the indices wrap.         *)
(*                                                                         *)
(* The invariant says that r, w and e follow each other around the ring    *)
(* within its size (Window) and that the line being edited has no newline  *)
(* (OneLine), so that ^U erases all of it.  Follows turns an index that    *)
(* has wrapped into a distance from r; Apart says that the cells at        *)
(* different distances are different, so that what a step writes is not    *)
(* what it leaves to be read.                                              *)
(***************************************************************************)
EXTENDS Console, SequenceTheorems, TLAPS

Size == INPUT_BUF_SIZE
Idx == 0..UintMod - 1
Chars == Plain \cup {"nl", "eof", Blank}
Places == {"idle", "loop", "held", "asleep"}

\* len cells of the ring f, from index i on
View(f, i, len) == [k \in 1..len |-> f[Cell(i + k - 1)]]

Shape ==
    /\ buf \in [0..Size - 1 -> Chars]
    /\ r \in Idx /\ w \in Idx /\ e \in Idx

Window == Gap(w, r) + Gap(e, w) = Gap(e, r) /\ Gap(e, r) <= Size

OneLine == \A k \in 0..Gap(e, w) - 1 : buf[Cell(w + k)] # "nl"

\* The invariant of the ring, and that of the readers.
Ring == Shape /\ Window /\ OneLine
Sleepers == rpc \in [Readers -> Places] /\ SleepsOnEmpty

-----------------------------------------------------------------------------
(* Indices and cells *)

LEMMA Constants ==
    /\ Size \in Nat \ {0} /\ UintMod \in Nat \ {0} /\ Size < UintMod
    /\ \E m \in Int : UintMod = m * Size
<1>1. Size \in Nat \ {0} /\ UintMod \in Nat
  BY ConsoleAssumption DEF Size
<1>2. PICK m \in 2..UintMod : UintMod = m * Size
  BY ConsoleAssumption DEF Size
<1>3. m \in Int /\ m >= 2
  BY <1>1, <1>2
<1>4. m * Size >= 2 * Size
  BY <1>1, <1>3
<1> QED
  BY <1>1, <1>2, <1>3, <1>4

LEMMA ModRange == ASSUME NEW m \in Nat \ {0}, NEW a \in Int PROVE a % m \in 0..m - 1
OBVIOUS

LEMMA ModDivision == ASSUME NEW m \in Nat \ {0}, NEW a \in Int PROVE a = (a \div m) * m + (a % m)
OBVIOUS

LEMMA ModUnique ==
  ASSUME NEW m \in Nat \ {0}, NEW a \in Int, NEW q \in Int, NEW x \in 0..m - 1, a = q * m + x
  PROVE  a % m = x
OBVIOUS

LEMMA TimesDistributes ==
  ASSUME NEW m \in Nat \ {0}, NEW q \in Int, NEW p \in Int
  PROVE  q * m - p * m = (q - p) * m /\ q * m + p * m = (q + p) * m
OBVIOUS

LEMMA TimesLarge ==
  ASSUME NEW m \in Nat \ {0}, NEW q \in Int, q # 0 PROVE q * m >= m \/ q * m <= -m
OBVIOUS

LEMMA ModMultiple ==
  ASSUME NEW m \in Nat \ {0}, NEW a \in Int, NEW q \in Int, NEW c \in Int, c = a + q * m
  PROVE  c % m = a % m
<1>1. a \div m \in Int /\ a % m \in 0..m - 1 /\ a = (a \div m) * m + (a % m)
  BY ModRange, ModDivision
<1>2. PICK p \in Int, x \in 0..m - 1 : x = a % m /\ a = p * m + x
  BY <1>1
<1>3. p * m \in Int /\ q * m \in Int /\ p * m + q * m = (p + q) * m
  BY TimesDistributes
<1>4. PICK z \in Int : z = p + q
  OBVIOUS
<1>5. c = z * m + x
  BY <1>2, <1>3, <1>4
<1>6. c % m = x
  BY <1>5, ModUnique, Zenon
<1> QED
  BY <1>2, <1>6

LEMMA CellIn == \A i \in Int : Cell(i) \in 0..Size - 1
  BY Constants, ModRange DEF Cell, Size

\* The difference of two indices, and the wrap at either end.
LEMMA GapDef ==
  ASSUME NEW i \in Idx, NEW j \in Idx
  PROVE  Gap(i, j) = IF j <= i THEN i - j ELSE i - j + UintMod
<1>1. UintMod \in Nat \ {0} /\ i \in Int /\ j \in Int
  BY Constants DEF Idx
<1>2. CASE j <= i
  <2>1. i - j = 0 * UintMod + (i - j) /\ i - j \in 0..UintMod - 1
    BY <1>1, <1>2 DEF Idx
  <2>2. (i - j) % UintMod = i - j
    BY <1>1, <2>1, ModUnique
  <2> QED
    BY <1>2, <2>1, <2>2 DEF Gap
<1>3. CASE ~(j <= i)
  <2>1. i - j = (-1) * UintMod + (i - j + UintMod) /\ i - j + UintMod \in 0..UintMod - 1
    BY <1>1, <1>3 DEF Idx
  <2>2. (i - j) % UintMod = i - j + UintMod
    BY <1>1, <2>1, ModUnique
  <2> QED
    BY <1>3, <2>1, <2>2 DEF Gap
<1> QED
  BY <1>2, <1>3

LEMMA WrapDef ==
  ASSUME NEW i \in Idx, NEW d \in Int, -UintMod <= d, d < UintMod
  PROVE  (i + d) % UintMod = IF i + d < 0 THEN i + d + UintMod
                             ELSE IF i + d >= UintMod THEN i + d - UintMod ELSE i + d
<1>1. UintMod \in Nat \ {0} /\ i \in Int
  BY Constants DEF Idx
<1>2. CASE i + d < 0
  <2>1. i + d = (-1) * UintMod + (i + d + UintMod) /\ i + d + UintMod \in 0..UintMod - 1
    BY <1>1, <1>2 DEF Idx
  <2> QED
    BY <1>1, <1>2, <2>1, ModUnique
<1>3. CASE i + d >= UintMod
  <2>1. i + d = 1 * UintMod + (i + d - UintMod) /\ i + d - UintMod \in 0..UintMod - 1
    BY <1>1, <1>3 DEF Idx
  <2> QED
    BY <1>1, <1>3, <2>1, ModUnique
<1>4. CASE 0 <= i + d /\ i + d < UintMod
  <2>1. i + d = 0 * UintMod + (i + d) /\ i + d \in 0..UintMod - 1
    BY <1>1, <1>4
  <2> QED
    BY <1>1, <1>4, <2>1, ModUnique
<1> QED
  BY <1>1, <1>2, <1>3, <1>4

\* A cell, counted from another index.
LEMMA Follows ==
  ASSUME NEW i \in Idx, NEW j \in Idx, NEW k \in Int
  PROVE  Cell(j + k) = Cell(i + Gap(j, i) + k)
<1>1. UintMod \in Nat \ {0} /\ Size \in Nat \ {0} /\ i \in Int /\ j \in Int
  BY Constants DEF Idx
<1>2. PICK m \in Int : UintMod = m * Size
  BY Constants
<1>3. CASE i <= j
  BY <1>1, <1>3, GapDef
<1>4. CASE ~(i <= j)
  <2>1. PICK c \in Int : c = i + Gap(j, i) + k
    BY <1>1, <1>4, GapDef
  <2>2. PICK d \in Int : d = j + k
    BY <1>1
  <2>3. c = d + m * Size
    BY <1>1, <1>2, <1>4, <2>1, <2>2, GapDef
  <2>4. c % Size = d % Size
    BY <1>1, <2>3, ModMultiple, Zenon
  <2> QED
    BY <2>1, <2>2, <2>4 DEF Cell, Size
<1> QED
  BY <1>1, <1>3, <1>4

\* Cells at different distances are different.
LEMMA Apart ==
  ASSUME NEW i \in Int, NEW x \in 0..Size - 1, NEW y \in 0..Size - 1, Cell(i + x) = Cell(i + y)
  PROVE  x = y
<1>1. Size \in Nat \ {0} /\ x \in Int /\ y \in Int /\ i + x \in Int /\ i + y \in Int
  BY Constants
<1>2. /\ (i + x) \div Size \in Int /\ (i + y) \div Size \in Int
      /\ (i + x) % Size \in 0..Size - 1 /\ (i + x) % Size = (i + y) % Size
  BY <1>1, ModRange DEF Cell, Size
<1>3. /\ i + x = ((i + x) \div Size) * Size + ((i + x) % Size)
      /\ i + y = ((i + y) \div Size) * Size + ((i + y) % Size)
  BY <1>1, ModDivision
<1>4. PICK p \in Int, q \in Int, z \in 0..Size - 1 : i + x = p * Size + z /\ i + y = q * Size + z
  BY <1>2, <1>3, Zenon
<1>5. p * Size \in Int /\ q * Size \in Int /\ p * Size - q * Size = (p - q) * Size
  BY <1>1, TimesDistributes
<1>6. (p - q) * Size = x - y
  BY <1>1, <1>4, <1>5
<1>7. p - q # 0 => (p - q) * Size >= Size \/ (p - q) * Size <= -Size
  BY <1>1, TimesLarge
<1>8. p - q = 0
  BY <1>1, <1>6, <1>7
<1> QED
  BY <1>1, <1>4, <1>8

-----------------------------------------------------------------------------
(* Views of the ring *)

LEMMA ViewSeq ==
  ASSUME NEW f \in [0..Size - 1 -> Chars], NEW i \in Int, NEW len \in Nat
  PROVE  /\ View(f, i, len) \in Seq(Chars) /\ Len(View(f, i, len)) = len
         /\ \A k \in 1..len : View(f, i, len)[k] = f[Cell(i + k - 1)]
<1>1. \A k \in 1..len : Cell(i + k - 1) \in 0..Size - 1
  BY CellIn
<1>2. View(f, i, len) \in [1..len -> Chars]
  BY <1>1 DEF View
<1>3. View(f, i, len) \in Seq(Chars)
  BY <1>2, SeqDef
<1>4. Len(View(f, i, len)) = len
  BY <1>2, <1>3, LenProperties
<1> QED
  BY <1>3, <1>4 DEF View

LEMMA SliceView == \A i, j : Slice(i, j) = View(buf, i, Gap(j, i))
  BY DEF Slice, View

LEMMA ViewEmpty == \A f, i : View(f, i, 0) = <<>>
  BY DEF View

\* Two views with the same cells are the same.
LEMMA ViewSame ==
  ASSUME NEW f, NEW g, NEW i \in Int, NEW j \in Int, NEW len \in Nat,
         \A k \in 0..len - 1 : f[Cell(i + k)] = g[Cell(j + k)]
  PROVE  View(f, i, len) = View(g, j, len)
<1>1. ASSUME NEW k \in 1..len PROVE f[Cell(i + k - 1)] = g[Cell(j + k - 1)]
  <2>1. k - 1 \in 0..len - 1 /\ i + (k - 1) = i + k - 1 /\ j + (k - 1) = j + k - 1
    OBVIOUS
  <2> QED
    BY <2>1
<1> QED
  BY <1>1 DEF View

-----------------------------------------------------------------------------
(* Moving an index *)

LEMMA GapRange ==
  ASSUME NEW i \in Idx, NEW j \in Idx
  PROVE  Gap(i, j) \in Nat /\ Gap(i, j) < UintMod /\ (Gap(i, j) = 0 <=> i = j)
  BY GapDef, Constants DEF Idx

LEMMA WrapUp ==
  ASSUME NEW i \in Idx
  PROVE  /\ (i + 1) % UintMod \in Idx
         /\ (i + 1) % UintMod = IF i + 1 >= UintMod THEN i + 1 - UintMod ELSE i + 1
<1>1. UintMod \in Nat /\ UintMod > 1 /\ i \in Int
  BY Constants DEF Idx
<1>2. (i + 1) % UintMod = IF i + 1 < 0 THEN i + 1 + UintMod
                          ELSE IF i + 1 >= UintMod THEN i + 1 - UintMod ELSE i + 1
  <2>1. 1 \in Int /\ -UintMod <= 1 /\ 1 < UintMod
    BY <1>1
  <2> QED
    BY <2>1, WrapDef
<1>3. PICK x : x = (i + 1) % UintMod
  OBVIOUS
<1>4. x = (IF i + 1 >= UintMod THEN i + 1 - UintMod ELSE i + 1) /\ x \in Idx
  <2>1. x = IF i + 1 < 0 THEN i + 1 + UintMod
            ELSE IF i + 1 >= UintMod THEN i + 1 - UintMod ELSE i + 1
    BY <1>2, <1>3
  <2> QED
    BY <1>1, <2>1 DEF Idx
<1> QED
  BY <1>3, <1>4

LEMMA Advance ==
  ASSUME NEW i \in Idx, NEW j \in Idx, Gap(i, j) + 1 < UintMod
  PROVE  /\ (i + 1) % UintMod \in Idx
         /\ Gap((i + 1) % UintMod, j) = Gap(i, j) + 1 /\ Gap(i + 1, j) = Gap(i, j) + 1
<1>1. UintMod \in Nat /\ UintMod > 1 /\ i \in Int /\ j \in Int /\ Gap(i, j) \in Nat
  BY Constants, GapRange DEF Idx
<1>2. PICK i1 \in Idx :
        i1 = (i + 1) % UintMod /\ i1 = IF i + 1 >= UintMod THEN i + 1 - UintMod ELSE i + 1
  BY WrapUp
<1>3. Gap(i, j) = IF j <= i THEN i - j ELSE i - j + UintMod
  BY GapDef
<1>4. Gap(i1, j) = Gap(i, j) + 1
  <2>1. Gap(i1, j) = IF j <= i1 THEN i1 - j ELSE i1 - j + UintMod
    BY GapDef
  <2>2. i1 = IF i + 1 >= UintMod THEN i + 1 - UintMod ELSE i + 1
    BY <1>2
  <2> QED
    BY <1>1, <1>3, <2>1, <2>2 DEF Idx
<1>5. Gap(i + 1, j) = Gap(i, j) + 1
  <2>1. PICK g \in 0..UintMod - 1 : g = Gap(i, j) + 1
    BY <1>1
  <2>2. CASE j <= i
    <3>1. i + 1 - j = 0 * UintMod + g
      BY <1>1, <2>1, <2>2, GapDef
    <3> QED
      BY <1>1, <2>1, <3>1, ModUnique DEF Gap
  <2>3. CASE ~(j <= i)
    <3>1. i + 1 - j = (-1) * UintMod + g
      BY <1>1, <2>1, <2>3, GapDef
    <3> QED
      BY <1>1, <2>1, <3>1, ModUnique DEF Gap
  <2> QED
    BY <1>1, <2>2, <2>3
<1> QED
  BY <1>2, <1>4, <1>5

LEMMA Retreat ==
  ASSUME NEW i \in Idx, NEW j \in Idx, NEW d \in 0..Gap(i, j)
  PROVE  (i - d) % UintMod \in Idx /\ Gap((i - d) % UintMod, j) = Gap(i, j) - d
<1>1. UintMod \in Nat /\ i \in Int /\ j \in Int /\ Gap(i, j) \in Nat /\ Gap(i, j) < UintMod
  BY Constants, GapRange DEF Idx
<1>2. PICK c \in Int : c = -d /\ -UintMod <= c /\ c < UintMod /\ i + c = i - d
  BY <1>1, Constants
<1>3. PICK i1 \in Int : i1 = (i - d) % UintMod /\ i1 = IF i - d < 0 THEN i - d + UintMod ELSE i - d
  <2>1. (i + c) % UintMod = IF i + c < 0 THEN i + c + UintMod
                            ELSE IF i + c >= UintMod THEN i + c - UintMod ELSE i + c
    BY <1>2, WrapDef
  <2>2. ~(i + c >= UintMod)
    BY <1>1, <1>2 DEF Idx
  <2> QED
    BY <1>1, <1>2, <2>1, <2>2
<1>4. i1 = IF i - d < 0 THEN i - d + UintMod ELSE i - d
  BY <1>3
<1>5. i1 \in Idx
  BY <1>1, <1>4 DEF Idx
<1>6. Gap(i1, j) = Gap(i, j) - d
  <2>1. Gap(i1, j) = IF j <= i1 THEN i1 - j ELSE i1 - j + UintMod
    BY <1>5, GapDef
  <2>2. Gap(i, j) = IF j <= i THEN i - j ELSE i - j + UintMod
    BY GapDef
  <2> QED
    BY <1>1, <1>4, <2>1, <2>2 DEF Idx
<1> QED
  BY <1>3, <1>5, <1>6

LEMMA Shrink ==
  ASSUME NEW i \in Idx, NEW j \in Idx, i # j
  PROVE  (j + 1) % UintMod \in Idx /\ Gap(i, (j + 1) % UintMod) = Gap(i, j) - 1
<1>1. UintMod \in Nat /\ UintMod > 1 /\ i \in Int /\ j \in Int
  BY Constants DEF Idx
<1>2. PICK j1 \in Idx :
        j1 = (j + 1) % UintMod /\ j1 = IF j + 1 >= UintMod THEN j + 1 - UintMod ELSE j + 1
  BY WrapUp
<1>3. Gap(i, j1) = Gap(i, j) - 1
  <2>1. Gap(i, j1) = IF j1 <= i THEN i - j1 ELSE i - j1 + UintMod
    BY GapDef
  <2>2. Gap(i, j) = IF j <= i THEN i - j ELSE i - j + UintMod
    BY GapDef
  <2>3. j1 = IF j + 1 >= UintMod THEN j + 1 - UintMod ELSE j + 1
    BY <1>2
  <2> QED
    BY <1>1, <2>1, <2>2, <2>3 DEF Idx
<1> QED
  BY <1>2, <1>3

\* What the invariant says of the cells: they are counted from r.
LEMMA Cells ==
  ASSUME Shape, Window
  PROVE  /\ Gap(w, r) \in Nat /\ Gap(e, w) \in Nat /\ Gap(e, r) \in Nat /\ Size \in Nat
         /\ \A k \in Int : /\ Cell(w + k) = Cell(r + Gap(w, r) + k)
                           /\ Cell(e + k) = Cell(r + Gap(e, r) + k)
                           /\ Cell(k) \in 0..Size - 1
         /\ r \in Int /\ w \in Int /\ e \in Int
         /\ Gap(e, r) < Size => Gap(e, r) + 1 < UintMod
<1>1. r \in Idx /\ w \in Idx /\ e \in Idx
  BY DEF Shape
<1>2. Gap(w, r) \in Nat /\ Gap(e, w) \in Nat /\ Gap(e, r) \in Nat
  BY <1>1, GapRange
<1>3. Size \in Nat /\ UintMod \in Nat /\ Size < UintMod
  BY Constants
<1>4. ASSUME NEW k \in Int
      PROVE  Cell(w + k) = Cell(r + Gap(w, r) + k) /\ Cell(e + k) = Cell(r + Gap(e, r) + k)
  BY <1>1, Follows
<1>5. r \in Int /\ w \in Int /\ e \in Int
  BY <1>1 DEF Idx
<1>6. Gap(e, r) < Size => Gap(e, r) + 1 < UintMod
  BY <1>2, <1>3
<1> QED
  BY <1>2, <1>3, <1>4, <1>5, <1>6, CellIn

-----------------------------------------------------------------------------
(* The steps that change the ring *)

\* The two halves of the abstract state.
Committed == View(buf, r, Gap(w, r))
Edit == View(buf, w, Gap(e, w))

LEMMA Halves == Slice(r, w) = Committed /\ Slice(w, e) = Edit
  BY SliceView DEF Committed, Edit

LEMMA HalvesNext == Slice(r, w)' = Committed' /\ Slice(w, e)' = Edit'
  BY DEF Slice, View, Committed, Edit

LEMMA HalvesTyped ==
  ASSUME Shape, Window
  PROVE  /\ Committed \in Seq(Chars) /\ Len(Committed) = Gap(w, r)
         /\ Edit \in Seq(Chars) /\ Len(Edit) = Gap(e, w)
         /\ \A k \in 1..Gap(w, r) : Committed[k] = buf[Cell(r + k - 1)]
         /\ \A k \in 1..Gap(e, w) : Edit[k] = buf[Cell(w + k - 1)]
<1>1. buf \in [0..Size - 1 -> Chars] /\ r \in Int /\ w \in Int
  BY Cells DEF Shape
<1>2. Gap(w, r) \in Nat /\ Gap(e, w) \in Nat
  BY Cells
<1> QED
  BY <1>1, <1>2, ViewSeq DEF Committed, Edit

\* A step that leaves alone the cells from r to w, or from w to e, leaves alone
\* that half.
LEMMA CommittedSame ==
  ASSUME Shape, Window, r' = r, w' = w,
         \A k \in 0..Gap(w, r) - 1 : buf'[Cell(r + k)] = buf[Cell(r + k)]
  PROVE  Committed' = Committed
<1>1. r \in Int /\ Gap(w, r) \in Nat
  BY Cells
<1>2. View(buf', r, Gap(w, r)) = View(buf, r, Gap(w, r))
  BY <1>1, ViewSame
<1> QED
  BY <1>2 DEF Committed, View, Gap

\* console_intr's default case: the character goes to the cell after the line.
Stores(c) ==
    /\ Gap(e, r) < Size
    /\ buf' = [buf EXCEPT ![Cell(e)] = c]
    /\ e' = (e + 1) % UintMod /\ r' = r
    /\ IF c \in {"nl", "eof"} \/ Gap(e, r) + 1 = Size THEN w' = e' ELSE w' = w

LEMMA StoreCells ==
  ASSUME Shape, Window, NEW c \in Plain \cup {"nl", "eof"}, Stores(c)
  PROVE  /\ buf' \in [0..Size - 1 -> Chars] /\ e' \in Idx
         /\ Gap(e', r) = Gap(e, r) + 1 /\ Gap(e', w) = Gap(e, w) + 1
         /\ buf'[Cell(r + Gap(e, r))] = c
         /\ \A k \in 0..Gap(e, r) - 1 : buf'[Cell(r + k)] = buf[Cell(r + k)]
<1>1. Gap(e, r) < Size /\ buf' = [buf EXCEPT ![Cell(e)] = c] /\ e' = (e + 1) % UintMod
  BY DEF Stores
<1>2. buf \in [0..Size - 1 -> Chars] /\ e \in Idx /\ r \in Idx /\ w \in Idx
  BY DEF Shape
<1>3. /\ Gap(w, r) \in Nat /\ Gap(e, w) \in Nat /\ Gap(e, r) \in Nat /\ Size \in Nat
      /\ Gap(e, r) + 1 < UintMod /\ UintMod \in Nat /\ r \in Int /\ e \in Int
  BY <1>1, Cells, Constants
<1>4. Gap(e, w) + 1 < UintMod
  BY <1>3 DEF Window
<1>5. Cell(e) = Cell(r + Gap(e, r)) /\ Cell(e) \in 0..Size - 1
  <2>1. Cell(e + 0) = Cell(r + Gap(e, r) + 0) /\ e + 0 = e /\ r + Gap(e, r) + 0 = r + Gap(e, r)
    BY <1>3, Cells
  <2>2. Cell(e) \in 0..Size - 1
    BY <1>3, CellIn
  <2> QED
    BY <2>1, <2>2
<1>6. ASSUME NEW k \in 0..Gap(e, r) - 1 PROVE Cell(r + k) # Cell(e) /\ Cell(r + k) \in 0..Size - 1
  <2>1. k \in 0..Size - 1 /\ Gap(e, r) \in 0..Size - 1 /\ k # Gap(e, r) /\ r + k \in Int
    BY <1>1, <1>3
  <2> QED
    BY <1>3, <1>5, <2>1, Apart, CellIn
<1>7. buf' \in [0..Size - 1 -> Chars]
  BY <1>1, <1>2 DEF Chars
<1>8. buf'[Cell(r + Gap(e, r))] = c
  BY <1>1, <1>2, <1>5
<1>9. \A k \in 0..Gap(e, r) - 1 : buf'[Cell(r + k)] = buf[Cell(r + k)]
  BY <1>1, <1>2, <1>6
<1>10. e' \in Idx /\ Gap(e', r) = Gap(e, r) + 1 /\ Gap(e', w) = Gap(e, w) + 1
  BY <1>1, <1>2, <1>3, <1>4, Advance
<1> QED
  BY <1>7, <1>8, <1>9, <1>10

\* The line is not committed: the character is appended to it.
LEMMA StoreAppends ==
  ASSUME Ring, NEW c \in Plain \cup {"nl", "eof"}, Stores(c), c # "nl", w' = w
  PROVE  Ring' /\ Committed' = Committed /\ Edit' = Append(Edit, c)
<1> DEFINE a == Gap(w, r)
           b == Gap(e, w)
<1>0. Shape /\ Window /\ r' = r
  BY DEF Ring, Stores
<1>1. /\ buf' \in [0..Size - 1 -> Chars] /\ e' \in Idx
      /\ Gap(e', r) = Gap(e, r) + 1 /\ Gap(e', w) = Gap(e, w) + 1
      /\ buf'[Cell(r + Gap(e, r))] = c
      /\ \A k \in 0..Gap(e, r) - 1 : buf'[Cell(r + k)] = buf[Cell(r + k)]
  BY <1>0, StoreCells
<1>2. /\ a \in Nat /\ b \in Nat /\ Gap(e, r) = a + b /\ a + b < Size /\ Size \in Nat
      /\ r \in Int /\ w \in Int
  BY <1>0, Cells DEF Window, Stores
<1>3. \A k \in Int : Cell(w + k) = Cell(r + a + k)
  BY <1>0, Cells
<1> HIDE DEF a, b
<1>4. ASSUME NEW k \in 0..b - 1 PROVE buf'[Cell(w + k)] = buf[Cell(w + k)]
  <2>1. a + k \in 0..Gap(e, r) - 1 /\ r + a + k = r + (a + k)
    BY <1>2
  <2> QED
    BY <1>1, <1>3, <2>1
<1>5. buf'[Cell(w + b)] = c
  <2>1. Cell(w + b) = Cell(r + a + b) /\ r + a + b = r + (a + b)
    BY <1>2, <1>3
  <2> QED
    BY <1>1, <1>2, <2>1
<1>6. Committed' = Committed
  <2>1. \A k \in 0..Gap(w, r) - 1 : k \in 0..Gap(e, r) - 1
    BY <1>2 DEF a
  <2> QED
    BY <1>0, <1>1, <2>1, CommittedSame
<1>7. Edit' = View(buf', w, b + 1)
  BY <1>1 DEF Edit, View, Gap, b
<1>8. View(buf', w, b + 1) = Append(Edit, c)
  <2>1. /\ View(buf', w, b + 1) \in Seq(Chars) /\ Len(View(buf', w, b + 1)) = b + 1
        /\ \A k \in 1..b + 1 : View(buf', w, b + 1)[k] = buf'[Cell(w + k - 1)]
    BY <1>1, <1>2, ViewSeq
  <2>2. /\ Edit \in Seq(Chars) /\ Len(Edit) = b
        /\ \A k \in 1..b : Edit[k] = buf[Cell(w + k - 1)]
    BY <1>0, HalvesTyped DEF b
  <2>3. c \in Chars
    BY DEF Chars
  <2>4. /\ Append(Edit, c) \in Seq(Chars) /\ Len(Append(Edit, c)) = b + 1
        /\ \A k \in 1..b + 1 : Append(Edit, c)[k] = IF k = b + 1 THEN c ELSE Edit[k]
    BY <1>2, <2>2, <2>3, AppendProperties
  <2>5. ASSUME NEW k \in 1..b + 1 PROVE View(buf', w, b + 1)[k] = Append(Edit, c)[k]
    <3>1. k - 1 \in Int /\ w + k - 1 = w + (k - 1)
      BY <1>2
    <3>2. CASE k = b + 1
      <4>1. w + k - 1 = w + b
        BY <1>2, <3>2
      <4> QED
        BY <1>5, <2>1, <2>4, <3>2, <4>1
    <3>3. CASE k # b + 1
      <4>1. k - 1 \in 0..b - 1 /\ k \in 1..b
        BY <1>2, <3>3
      <4>2. buf'[Cell(w + (k - 1))] = buf[Cell(w + (k - 1))]
        BY <1>4, <4>1
      <4> QED
        BY <2>1, <2>2, <2>4, <3>1, <3>3, <4>1, <4>2
    <3> QED
      BY <3>2, <3>3
  <2> QED
    BY <2>1, <2>4, <2>5, SeqEqual
<1>9. Ring'
  <2>1. Shape'
    BY <1>0, <1>1 DEF Shape, Stores
  <2>2. Window'
    <3>1. Gap(w', r') = a /\ Gap(e', w') = b + 1 /\ Gap(e', r') = a + b + 1
      BY <1>0, <1>1, <1>2 DEF a, b
    <3> QED
      BY <1>2, <3>1 DEF Window
  <2>3. ASSUME NEW k \in 0..Gap(e', w') - 1 PROVE buf'[Cell(w' + k)] # "nl"
    <3>1. k \in 0..b
      BY <1>1, <1>2, <2>3 DEF b
    <3>2. CASE k = b
      BY <1>5, <3>2
    <3>3. CASE k # b
      <4>1. k \in 0..b - 1
        BY <1>2, <3>1, <3>3
      <4>2. buf[Cell(w + k)] # "nl"
        BY <4>1 DEF Ring, OneLine, b
      <4> QED
        BY <1>4, <4>1, <4>2
    <3> QED
      BY <3>2, <3>3
  <2> QED
    BY <2>1, <2>2, <2>3 DEF Ring, OneLine
<1> QED
  BY <1>6, <1>7, <1>8, <1>9

\* The line is committed, with the character.
LEMMA StoreCommits ==
  ASSUME Ring, NEW c \in Plain \cup {"nl", "eof"}, Stores(c), w' = e'
  PROVE  Ring' /\ Committed' = (Committed \o Edit) \o <<c>> /\ Edit' = <<>>
<1> DEFINE a == Gap(w, r)
           b == Gap(e, w)
<1>0. Shape /\ Window /\ r' = r
  BY DEF Ring, Stores
<1>1. /\ buf' \in [0..Size - 1 -> Chars] /\ e' \in Idx
      /\ Gap(e', r) = Gap(e, r) + 1
      /\ buf'[Cell(r + Gap(e, r))] = c
      /\ \A k \in 0..Gap(e, r) - 1 : buf'[Cell(r + k)] = buf[Cell(r + k)]
  BY <1>0, StoreCells
<1>2. /\ a \in Nat /\ b \in Nat /\ Gap(e, r) = a + b /\ a + b < Size /\ Size \in Nat
      /\ r \in Int /\ w \in Int
  BY <1>0, Cells DEF Window, Stores
<1>3. \A k \in Int : Cell(w + k) = Cell(r + a + k)
  BY <1>0, Cells
<1>4. Gap(e', e') = 0
  BY <1>1, GapRange
<1>5. Committed' = View(buf', r, a + b + 1)
  BY <1>0, <1>1, <1>2 DEF Committed, View, Gap
<1>6. Edit' = <<>>
  BY <1>4, ViewEmpty DEF Edit, View, Gap
<1>7. Ring'
  <2>1. Shape'
    BY <1>0, <1>1 DEF Shape, Stores
  <2>2. Window'
    <3>1. Gap(w', r') = a + b + 1 /\ Gap(e', w') = 0 /\ Gap(e', r') = a + b + 1
      BY <1>0, <1>1, <1>2, <1>4
    <3> QED
      BY <1>2, <3>1 DEF Window
  <2>3. OneLine'
    BY <1>4 DEF OneLine
  <2> QED
    BY <2>1, <2>2, <2>3 DEF Ring
<1>8. View(buf', r, a + b + 1) = (Committed \o Edit) \o <<c>>
  <2>1. /\ View(buf', r, a + b + 1) \in Seq(Chars) /\ Len(View(buf', r, a + b + 1)) = a + b + 1
        /\ \A k \in 1..a + b + 1 : View(buf', r, a + b + 1)[k] = buf'[Cell(r + k - 1)]
    BY <1>1, <1>2, ViewSeq
  <2>2. /\ Committed \in Seq(Chars) /\ Len(Committed) = a
        /\ Edit \in Seq(Chars) /\ Len(Edit) = b
        /\ \A k \in 1..a : Committed[k] = buf[Cell(r + k - 1)]
        /\ \A k \in 1..b : Edit[k] = buf[Cell(w + k - 1)]
    BY <1>0, HalvesTyped
  <2> HIDE DEF a, b
  <2> DEFINE s == Committed \o Edit
  <2>3. /\ s \in Seq(Chars) /\ Len(s) = a + b
        /\ \A k \in 1..a + b : s[k] = IF k <= a THEN Committed[k] ELSE Edit[k - a]
    BY <2>2, ConcatProperties
  <2>4. <<c>> \in Seq(Chars) /\ Len(<<c>>) = 1 /\ <<c>>[1] = c
    BY DEF Chars
  <2> HIDE DEF s
  <2>5. /\ s \o <<c>> \in Seq(Chars) /\ Len(s \o <<c>>) = a + b + 1
        /\ \A k \in 1..a + b + 1 : (s \o <<c>>)[k] = IF k <= a + b THEN s[k] ELSE <<c>>[k - (a + b)]
    BY <2>3, <2>4, ConcatProperties
  <2>6. ASSUME NEW k \in 1..a + b + 1 PROVE View(buf', r, a + b + 1)[k] = (s \o <<c>>)[k]
    <3>1. r + k - 1 = r + (k - 1)
      BY <1>2
    <3>2. CASE k = a + b + 1
      <4>1. r + k - 1 = r + (a + b) /\ k - (a + b) = 1 /\ ~(k <= a + b)
        BY <1>2, <3>2
      <4> QED
        BY <1>1, <1>2, <2>1, <2>4, <2>5, <4>1
    <3>3. CASE k \in 1..a
      <4>1. k - 1 \in 0..Gap(e, r) - 1 /\ k <= a + b /\ k <= a /\ k \in 1..a + b
        BY <1>2, <3>3
      <4>2. buf'[Cell(r + (k - 1))] = buf[Cell(r + (k - 1))]
        BY <1>1, <4>1
      <4> QED
        BY <2>1, <2>2, <2>3, <2>5, <3>1, <3>3, <4>1, <4>2
    <3>4. CASE k \in a + 1..a + b
      <4>1. /\ k - 1 \in 0..Gap(e, r) - 1 /\ k <= a + b /\ ~(k <= a) /\ k \in 1..a + b
            /\ k - a \in 1..b /\ k - a - 1 \in Int /\ w + (k - a) - 1 = w + (k - a - 1)
            /\ r + a + (k - a - 1) = r + (k - 1)
        BY <1>2, <3>4
      <4>2. buf'[Cell(r + (k - 1))] = buf[Cell(r + (k - 1))]
        BY <1>1, <4>1
      <4>3. Cell(w + (k - a) - 1) = Cell(r + (k - 1))
        BY <1>3, <4>1
      <4>4. Edit[k - a] = buf[Cell(w + (k - a) - 1)]
        BY <2>2, <4>1
      <4>5. (s \o <<c>>)[k] = Edit[k - a]
        BY <2>3, <2>5, <4>1
      <4> QED
        BY <2>1, <3>1, <4>2, <4>3, <4>4, <4>5
    <3>5. k = a + b + 1 \/ k \in 1..a \/ k \in a + 1..a + b
      BY <1>2
    <3> QED
      BY <3>2, <3>3, <3>4, <3>5
  <2> QED
    BY <2>1, <2>5, <2>6, SeqEqual DEF s
<1> QED
  BY <1>5, <1>6, <1>7, <1>8

\* d characters at the end of the line are erased.
Erases(d) ==
    /\ e' = (e - d) % UintMod /\ w' = w /\ r' = r
    /\ buf' \in [0..Size - 1 -> Chars]
    /\ \A k \in 0..Gap(e, r) - d - 1 : buf'[Cell(r + k)] = buf[Cell(r + k)]

LEMMA ErasesOK ==
  ASSUME Ring, NEW d \in 0..Gap(e, w), Erases(d)
  PROVE  Ring' /\ Committed' = Committed /\ Edit' = SubSeq(Edit, 1, Gap(e, w) - d)
<1> DEFINE a == Gap(w, r)
           b == Gap(e, w)
<1>0. Shape /\ Window /\ r' = r /\ w' = w
  BY DEF Ring, Erases
<1>1. /\ a \in Nat /\ b \in Nat /\ Gap(e, r) = a + b /\ a + b <= Size /\ Size \in Nat
      /\ r \in Int /\ w \in Int /\ d \in Nat /\ d <= b
  BY <1>0, Cells DEF Window
<1>2. e' \in Idx /\ Gap(e', w) = b - d /\ Gap(e', r) = a + b - d
  <2>1. r \in Idx /\ w \in Idx /\ e \in Idx /\ d \in 0..Gap(e, w) /\ d \in 0..Gap(e, r)
    BY <1>0, <1>1 DEF Shape
  <2> QED
    BY <1>1, <2>1, Retreat DEF Erases
<1>3. \A k \in Int : Cell(w + k) = Cell(r + a + k)
  BY <1>0, Cells
<1> HIDE DEF a, b
<1>4. ASSUME NEW k \in 0..b - d - 1 PROVE buf'[Cell(w + k)] = buf[Cell(w + k)]
  <2>1. a + k \in 0..Gap(e, r) - d - 1 /\ r + a + k = r + (a + k) /\ k \in Int
    BY <1>1
  <2>2. buf'[Cell(r + (a + k))] = buf[Cell(r + (a + k))]
    BY <2>1 DEF Erases
  <2> QED
    BY <1>3, <2>1, <2>2
<1>5. Committed' = Committed
  <2>1. \A k \in 0..Gap(w, r) - 1 : k \in 0..Gap(e, r) - d - 1
    BY <1>1 DEF a
  <2> QED
    BY <1>0, <2>1, CommittedSame DEF Erases
<1>6. Edit' = View(buf', w, b - d)
  BY <1>0, <1>2 DEF Edit, View, Gap
<1>7. View(buf', w, b - d) = SubSeq(Edit, 1, b - d)
  <2>1. b - d \in Nat /\ buf' \in [0..Size - 1 -> Chars]
    BY <1>1 DEF Erases
  <2>2. /\ View(buf', w, b - d) \in Seq(Chars) /\ Len(View(buf', w, b - d)) = b - d
        /\ \A k \in 1..b - d : View(buf', w, b - d)[k] = buf'[Cell(w + k - 1)]
    BY <1>1, <2>1, ViewSeq
  <2>3. /\ Edit \in Seq(Chars) /\ Len(Edit) = b
        /\ \A k \in 1..b : Edit[k] = buf[Cell(w + k - 1)]
    BY <1>0, HalvesTyped DEF b
  <2>4. /\ SubSeq(Edit, 1, b - d) \in Seq(Chars) /\ Len(SubSeq(Edit, 1, b - d)) = b - d
        /\ \A k \in 1..b - d : SubSeq(Edit, 1, b - d)[k] = Edit[k]
    <3>1. \A k \in 1..b - d : Edit[k] \in Chars
      BY <1>1, <2>3, ElementOfSeq
    <3> QED
      BY <1>1, <2>1, <3>1, SubSeqProperties
  <2>5. ASSUME NEW k \in 1..b - d PROVE View(buf', w, b - d)[k] = SubSeq(Edit, 1, b - d)[k]
    <3>1. k - 1 \in 0..b - d - 1 /\ w + k - 1 = w + (k - 1) /\ k \in 1..b
      BY <1>1
    <3>2. buf'[Cell(w + (k - 1))] = buf[Cell(w + (k - 1))]
      BY <1>4, <3>1
    <3> QED
      BY <2>2, <2>3, <2>4, <3>1, <3>2
  <2> QED
    BY <2>2, <2>4, <2>5, SeqEqual
<1>8. Ring'
  <2>1. Shape'
    BY <1>0, <1>2 DEF Shape, Erases
  <2>2. Window'
    <3>1. Gap(w', r') = a /\ Gap(e', w') = b - d /\ Gap(e', r') = a + b - d
      BY <1>0, <1>2 DEF a
    <3> QED
      BY <1>1, <3>1 DEF Window
  <2>3. ASSUME NEW k \in 0..Gap(e', w') - 1 PROVE buf'[Cell(w' + k)] # "nl"
    <3>1. k \in 0..b - d - 1 /\ k \in 0..Gap(e, w) - 1
      BY <1>0, <1>1, <1>2 DEF b
    <3>2. buf[Cell(w + k)] # "nl"
      BY <3>1 DEF Ring, OneLine
    <3> QED
      BY <1>0, <1>4, <3>1, <3>2
  <2> QED
    BY <2>1, <2>2, <2>3 DEF Ring, OneLine
<1> QED
  BY <1>5, <1>6, <1>7, <1>8 DEF b

LEMMA BackspaceErases ==
  ASSUME Ring, e # w, Backspace, r' = r
  PROVE  1 \in 0..Gap(e, w) /\ Erases(1)
<1>0. Shape /\ Window
  BY DEF Ring
<1>1. e' = (e - 1) % UintMod /\ w' = w /\ buf' = [buf EXCEPT ![Cell(e - 1)] = Blank]
  BY DEF Backspace
<1>2. /\ Gap(e, w) \in Nat /\ Gap(e, r) \in Nat /\ Gap(e, r) <= Size /\ Gap(w, r) \in Nat
      /\ Gap(w, r) + Gap(e, w) = Gap(e, r)
      /\ Size \in Nat /\ r \in Int /\ e \in Int
  BY <1>0, Cells DEF Window
<1>3. Gap(e, w) # 0
  BY <1>0, GapRange DEF Shape
<1>4. Cell(e - 1) = Cell(r + (Gap(e, r) - 1)) /\ Cell(e - 1) \in 0..Size - 1
  <2>1. Cell(e + (-1)) = Cell(r + Gap(e, r) + (-1))
    BY <1>0, Cells
  <2>2. e + (-1) = e - 1 /\ r + Gap(e, r) + (-1) = r + (Gap(e, r) - 1) /\ e - 1 \in Int
    BY <1>2
  <2> QED
    BY <2>1, <2>2, CellIn
<1>5. ASSUME NEW k \in 0..Gap(e, r) - 1 - 1 PROVE buf'[Cell(r + k)] = buf[Cell(r + k)]
  <2>1. k \in 0..Size - 1 /\ Gap(e, r) - 1 \in 0..Size - 1 /\ k # Gap(e, r) - 1 /\ r + k \in Int
    BY <1>2, <1>3
  <2>2. Cell(r + k) # Cell(e - 1) /\ Cell(r + k) \in 0..Size - 1
    BY <1>2, <1>4, <2>1, Apart, CellIn
  <2> QED
    BY <1>0, <1>1, <2>2 DEF Shape
<1>6. buf' \in [0..Size - 1 -> Chars]
  BY <1>0, <1>1 DEF Shape, Chars
<1> QED
  BY <1>1, <1>2, <1>3, <1>5, <1>6 DEF Erases

\* No newline stops ^U: it erases all of the line.
LEMMA KillErases ==
  ASSUME Ring, KillLine, r' = r
  PROVE  Gap(e, w) \in 0..Gap(e, w) /\ Erases(Gap(e, w))
<1> DEFINE b == Gap(e, w)
           stay == {k \in 0..Gap(e, w) : k = Gap(e, w) \/ buf[Cell(e - 1 - k)] = "nl"}
           gone == CHOOSE i \in stay : \A j \in stay : i <= j
<1>0. Shape /\ Window
  BY DEF Ring
<1>1. /\ e' = (e - gone) % UintMod /\ w' = w
      /\ buf' = [i \in DOMAIN buf |-> IF \E j \in 1..gone : Cell(e - j) = i THEN Blank ELSE buf[i]]
  BY DEF KillLine
<1>2. /\ b \in Nat /\ Gap(e, r) \in Nat /\ Gap(e, r) <= Size /\ Gap(w, r) \in Nat
      /\ Gap(w, r) + b = Gap(e, r)
      /\ Size \in Nat /\ r \in Int /\ e \in Int /\ w \in Int
  BY <1>0, Cells DEF Window
<1>3. stay = {b}
  <2>1. ASSUME NEW k \in 0..b, k # b PROVE buf[Cell(e - 1 - k)] # "nl"
    <3>1. b - 1 - k \in 0..b - 1 /\ -1 - k \in Int /\ b - 1 - k \in Int
      BY <1>2, <2>1
    <3>2. Cell(e + (-1 - k)) = Cell(w + Gap(e, w) + (-1 - k))
      BY <1>0, <3>1, Follows DEF Shape
    <3>3. e + (-1 - k) = e - 1 - k /\ w + Gap(e, w) + (-1 - k) = w + (b - 1 - k)
      BY <1>2
    <3>4. buf[Cell(w + (b - 1 - k))] # "nl"
      BY <3>1 DEF Ring, OneLine
    <3> QED
      BY <3>2, <3>3, <3>4
  <2> QED
    BY <1>2, <2>1
<1>4. gone = b
  BY <1>2, <1>3
<1> HIDE DEF stay, gone, b
<1>5. ASSUME NEW k \in 0..Gap(e, r) - b - 1 PROVE buf'[Cell(r + k)] = buf[Cell(r + k)]
  <2>1. k \in 0..Size - 1 /\ r + k \in Int
    BY <1>2
  <2>2. ASSUME NEW j \in 1..b PROVE Cell(e - j) # Cell(r + k)
    <3>1. -j \in Int /\ Gap(e, r) - j \in 0..Size - 1 /\ k # Gap(e, r) - j
      BY <1>2
    <3>2. Cell(e + (-j)) = Cell(r + Gap(e, r) + (-j))
      BY <1>0, <3>1, Cells
    <3>3. e + (-j) = e - j /\ r + Gap(e, r) + (-j) = r + (Gap(e, r) - j)
      BY <1>2
    <3> QED
      BY <1>2, <2>1, <3>1, <3>2, <3>3, Apart
  <2>3. Cell(r + k) \in DOMAIN buf
    BY <1>0, <2>1, CellIn DEF Shape
  <2> QED
    BY <1>1, <1>4, <2>2, <2>3
<1>6. buf' \in [0..Size - 1 -> Chars]
  BY <1>0, <1>1 DEF Shape, Chars
<1>7. b \in 0..b /\ e' = (e - b) % UintMod
  BY <1>1, <1>2, <1>4
<1> QED
  BY <1>1, <1>5, <1>6, <1>7 DEF Erases, b

\* A reader takes the character at r.
Takes ==
    /\ r # w
    /\ r' = (r + 1) % UintMod /\ w' = w /\ e' = e
    /\ buf' = [buf EXCEPT ![Cell(r)] = Blank]

LEMMA TakesOK ==
  ASSUME Ring, Takes
  PROVE  Ring' /\ Committed # <<>> /\ Committed' = Tail(Committed) /\ Edit' = Edit
<1> DEFINE a == Gap(w, r)
           b == Gap(e, w)
<1>0. Shape /\ Window /\ w' = w /\ e' = e /\ r # w
  BY DEF Ring, Takes
<1>1. /\ a \in Nat /\ b \in Nat /\ Gap(e, r) = a + b /\ a + b <= Size /\ Size \in Nat
      /\ r \in Int /\ w \in Int
  BY <1>0, Cells DEF Window
<1>2. r \in Idx /\ w \in Idx /\ e \in Idx
  BY <1>0 DEF Shape
<1>3. a # 0
  BY <1>0, <1>2, GapRange
<1>4. e # r
  BY <1>1, <1>2, <1>3, GapRange
<1>5. r' \in Idx /\ Gap(w, r') = a - 1 /\ Gap(e, r') = a + b - 1
  BY <1>0, <1>1, <1>2, <1>4, Shrink DEF Takes
<1>6. Gap(r', r) = 1
  <2>1. Gap(r, r) = 0 /\ 1 < UintMod
    BY <1>2, GapRange, Constants
  <2> QED
    BY <1>2, <2>1, Advance DEF Takes
<1>7. \A k \in Int : Cell(w + k) = Cell(r + a + k)
  BY <1>0, Cells
<1>8. ASSUME NEW k \in Int PROVE Cell(r' + k) = Cell(r + (k + 1))
  <2>1. Cell(r' + k) = Cell(r + Gap(r', r) + k)
    BY <1>2, <1>5, Follows
  <2>2. r + 1 + k = r + (k + 1)
    BY <1>1
  <2> QED
    BY <1>6, <2>1, <2>2
<1> HIDE DEF a, b
<1>9. ASSUME NEW k \in 1..a + b - 1 PROVE buf'[Cell(r + k)] = buf[Cell(r + k)]
  <2>1. k \in 0..Size - 1 /\ 0 \in 0..Size - 1 /\ k # 0 /\ r + k \in Int /\ r + 0 = r
    BY <1>1
  <2>2. Cell(r + k) # Cell(r) /\ Cell(r + k) \in 0..Size - 1
    BY <1>1, <2>1, Apart, CellIn
  <2> QED
    BY <1>0, <2>2 DEF Takes, Shape
<1>10. buf' \in [0..Size - 1 -> Chars]
  BY <1>0 DEF Shape, Chars, Takes
<1>11. ASSUME NEW k \in 0..b - 1 PROVE buf'[Cell(w + k)] = buf[Cell(w + k)]
  <2>1. a + k \in 1..a + b - 1 /\ r + a + k = r + (a + k) /\ k \in Int
    BY <1>1, <1>3
  <2> QED
    BY <1>7, <1>9, <2>1
<1>12. Edit' = Edit
  <2>1. View(buf', w, b) = View(buf, w, b)
    BY <1>1, <1>11, ViewSame
  <2> QED
    BY <1>0, <2>1 DEF Edit, View, Gap, b
<1>13. Ring'
  <2>1. Shape'
    BY <1>0, <1>2, <1>5, <1>10 DEF Shape
  <2>2. Window'
    <3>1. Gap(w', r') = a - 1 /\ Gap(e', w') = b /\ Gap(e', r') = a + b - 1
      BY <1>0, <1>5 DEF b
    <3> QED
      BY <1>1, <3>1 DEF Window
  <2>3. ASSUME NEW k \in 0..Gap(e', w') - 1 PROVE buf'[Cell(w' + k)] # "nl"
    <3>1. k \in 0..b - 1 /\ k \in 0..Gap(e, w) - 1
      BY <1>0 DEF b
    <3>2. buf[Cell(w + k)] # "nl"
      BY <3>1 DEF Ring, OneLine
    <3> QED
      BY <1>0, <1>11, <3>1, <3>2
  <2> QED
    BY <2>1, <2>2, <2>3 DEF Ring, OneLine
<1>14. /\ Committed \in Seq(Chars) /\ Len(Committed) = a
       /\ \A k \in 1..a : Committed[k] = buf[Cell(r + k - 1)]
  BY <1>0, HalvesTyped DEF a
<1>15. Committed # <<>>
  BY <1>3, <1>14, EmptySeq
<1>16. Committed' = View(buf', r', a - 1)
  BY <1>0, <1>5 DEF Committed, View, Gap
<1>17. View(buf', r', a - 1) = Tail(Committed)
  <2>1. a - 1 \in Nat /\ r' \in Int
    BY <1>1, <1>3, <1>5 DEF Idx
  <2>2. /\ View(buf', r', a - 1) \in Seq(Chars) /\ Len(View(buf', r', a - 1)) = a - 1
        /\ \A k \in 1..a - 1 : View(buf', r', a - 1)[k] = buf'[Cell(r' + k - 1)]
    BY <1>10, <2>1, ViewSeq
  <2>3. /\ Tail(Committed) \in Seq(Chars) /\ Len(Tail(Committed)) = a - 1
        /\ \A k \in 1..a - 1 : Tail(Committed)[k] = Committed[k + 1]
    BY <1>14, <1>15, HeadTailProperties
  <2>4. ASSUME NEW k \in 1..a - 1 PROVE View(buf', r', a - 1)[k] = Tail(Committed)[k]
    <3>1. /\ k - 1 \in Int /\ r' + k - 1 = r' + (k - 1) /\ k - 1 + 1 = k
          /\ k \in 1..a + b - 1 /\ k + 1 \in 1..a /\ r + (k + 1) - 1 = r + k
      BY <1>1, <2>1
    <3>2. Cell(r' + k - 1) = Cell(r + k)
      BY <1>8, <3>1
    <3>3. buf'[Cell(r + k)] = buf[Cell(r + k)]
      BY <1>9, <3>1
    <3>4. Committed[k + 1] = buf[Cell(r + k)]
      BY <1>14, <3>1
    <3> QED
      BY <2>2, <2>3, <3>2, <3>3, <3>4
  <2> QED
    BY <2>2, <2>3, <2>4, SeqEqual
<1> QED
  BY <1>12, <1>13, <1>15, <1>16, <1>17

-----------------------------------------------------------------------------
(* The actions *)

\* What a step is in the line buffer.
LineStep == Lines!Next \/ (Slice(r, w)' = Slice(r, w) /\ Slice(w, e)' = Slice(w, e))

LEMMA Unmoved ==
  ASSUME Ring, UNCHANGED <<buf, r, w, e>>
  PROVE  Ring' /\ LineStep
  BY DEF Ring, Shape, Window, OneLine, LineStep, Slice

LEMMA StoreOK ==
  ASSUME Ring, NEW c \in Typed, c \notin {"dump", "kill", "bs"}, Store(c), r' = r
  PROVE  Ring' /\ LineStep
<1> DEFINE ch == IF c = "cr" THEN "nl" ELSE c
<1>1. CASE c = "nul" \/ ~Room
  <2>1. UNCHANGED <<buf, r, w, e>>
    BY <1>1 DEF Store
  <2> QED
    BY <2>1, Unmoved
<1>2. CASE c # "nul" /\ Room
  <2>1. ch \in Plain \cup {"nl", "eof"}
    BY <1>2 DEF Typed
  <2>2. /\ buf' = [buf EXCEPT ![Cell(e)] = ch] /\ e' = (e + 1) % UintMod
        /\ IF Commits(ch) THEN w' = (e + 1) % UintMod ELSE w' = w
    BY <1>2 DEF Store
  <2> HIDE DEF ch
  <2>3. Shape /\ Window /\ Gap(e, r) < Size
    BY <1>2 DEF Ring, Room, Size
  <2>4. Gap(e + 1, r) = Gap(e, r) + 1
    BY <2>3, Cells, Advance DEF Shape
  <2>5. Commits(ch) <=> (ch \in {"nl", "eof"} \/ Gap(e, r) + 1 = Size)
    BY <2>4 DEF Commits, Size
  <2>6. Stores(ch)
    BY <2>2, <2>3, <2>5 DEF Stores
  <2>7. /\ Len(Committed) = Gap(w, r) /\ Len(Edit) = Gap(e, w)
        /\ Len(Committed) + Len(Edit) = Gap(e, r)
    BY <2>3, HalvesTyped DEF Window
  <2>8. CASE ch \in {"nl", "eof"} \/ Gap(e, r) + 1 = Size
    <3>1. w' = e'
      BY <2>6, <2>8 DEF Stores
    <3>2. Ring' /\ Committed' = (Committed \o Edit) \o <<ch>> /\ Edit' = <<>>
      BY <2>1, <2>6, <3>1, StoreCommits
    <3>3. Lines!Type(ch)
      BY <2>3, <2>7, <2>8, <3>2, Halves, HalvesNext DEF Lines!Type, Size
    <3> QED
      BY <2>1, <3>2, <3>3 DEF LineStep, Lines!Next
  <2>9. CASE ~(ch \in {"nl", "eof"} \/ Gap(e, r) + 1 = Size)
    <3>1. w' = w /\ ch # "nl"
      BY <2>6, <2>9 DEF Stores
    <3>2. Ring' /\ Committed' = Committed /\ Edit' = Append(Edit, ch)
      BY <2>1, <2>6, <3>1, StoreAppends
    <3>3. Lines!Type(ch)
      BY <2>3, <2>7, <2>9, <3>2, Halves, HalvesNext DEF Lines!Type, Size
    <3> QED
      BY <2>1, <3>2, <3>3 DEF LineStep, Lines!Next
  <2> QED
    BY <2>8, <2>9
<1> QED
  BY <1>1, <1>2

LEMMA BackspaceOK == ASSUME Ring, Backspace, r' = r PROVE Ring' /\ LineStep
<1>1. CASE e = w
  <2>1. UNCHANGED <<buf, r, w, e>>
    BY <1>1 DEF Backspace
  <2> QED
    BY <2>1, Unmoved
<1>2. CASE e # w
  <2>1. 1 \in 0..Gap(e, w) /\ Erases(1)
    BY <1>2, BackspaceErases
  <2>2. Ring' /\ Committed' = Committed /\ Edit' = SubSeq(Edit, 1, Gap(e, w) - 1)
    BY <2>1, ErasesOK
  <2>3. Edit \in Seq(Chars) /\ Len(Edit) = Gap(e, w) /\ Len(Edit) # 0
    BY <2>1, HalvesTyped, Cells DEF Ring
  <2>4. Edit # <<>>
    BY <2>3, EmptySeq
  <2>5. Lines!Erase
    BY <2>2, <2>3, <2>4, Halves, HalvesNext DEF Lines!Erase
  <2> QED
    BY <2>2, <2>5 DEF LineStep, Lines!Next
<1> QED
  BY <1>1, <1>2

LEMMA KillLineOK == ASSUME Ring, KillLine, r' = r PROVE Ring' /\ LineStep
<1>1. Gap(e, w) \in 0..Gap(e, w) /\ Erases(Gap(e, w)) /\ Gap(e, w) \in Nat
  BY KillErases, Cells DEF Ring
<1>2. Ring' /\ Committed' = Committed /\ Edit' = SubSeq(Edit, 1, Gap(e, w) - Gap(e, w))
  BY <1>1, ErasesOK
<1>3. Edit' = <<>>
  <2>1. Gap(e, w) - Gap(e, w) = 0
    BY <1>1
  <2> QED
    BY <1>2, <2>1, SubSeqEmpty
<1>4. Lines!Kill
  BY <1>2, <1>3, Halves, HalvesNext DEF Lines!Kill
<1> QED
  BY <1>2, <1>4 DEF LineStep, Lines!Next

LEMMA ConsoleIntrOK == ASSUME Ring, NEW c \in Typed, ConsoleIntr(c) PROVE Ring' /\ LineStep
<1>1. r' = r
  BY DEF ConsoleIntr
<1>2. CASE c = "dump"
  BY <1>1, <1>2, Unmoved DEF ConsoleIntr
<1>3. CASE c = "kill"
  BY <1>1, <1>3, KillLineOK DEF ConsoleIntr
<1>4. CASE c = "bs"
  BY <1>1, <1>4, BackspaceOK DEF ConsoleIntr
<1>5. CASE c \notin {"dump", "kill", "bs"}
  BY <1>1, <1>5, StoreOK DEF ConsoleIntr
<1> QED
  BY <1>2, <1>3, <1>4, <1>5

LEMMA ReadCharOK ==
  ASSUME Ring, NEW t \in Readers, NEW fault \in BOOLEAN, ReadChar(t, fault)
  PROVE  Ring' /\ LineStep
<1>1. CASE UNCHANGED <<buf, r>>
  BY <1>1, Unmoved DEF ReadChar
<1>2. CASE ~UNCHANGED <<buf, r>>
  <2>1. Takes
    BY <1>2 DEF ReadChar, Takes
  <2>2. Ring' /\ Committed # <<>> /\ Committed' = Tail(Committed) /\ Edit' = Edit
    BY <2>1, TakesOK
  <2>3. Lines!Take
    BY <2>2, Halves, HalvesNext DEF Lines!Take
  <2> QED
    BY <2>2, <2>3 DEF LineStep, Lines!Next
<1> QED
  BY <1>1, <1>2

LEMMA RingKept == ASSUME Ring, [ConsNext]_consVars PROVE Ring' /\ LineStep
<1>1. CASE UNCHANGED consVars
  BY <1>1, Unmoved DEF consVars
<1>2. CASE \E c \in Typed : ConsoleIntr(c)
  BY <1>2, ConsoleIntrOK
<1>3. CASE \E t \in Readers : \E fault \in BOOLEAN : ReadChar(t, fault)
  BY <1>3, ReadCharOK
<1>4. CASE \E t \in Readers : (\E len \in Lengths : ReadCall(t, len)) \/ ReadEmpty(t) \/ Kill(t)
  <2>1. UNCHANGED <<buf, r, w, e>>
    BY <1>4 DEF ReadCall, ReadEmpty, Kill
  <2> QED
    BY <2>1, Unmoved
<1> QED
  BY <1>1, <1>2, <1>3, <1>4 DEF ConsNext

LEMMA RingInit == ASSUME ConsInit PROVE Ring /\ Slice(r, w) = <<>> /\ Slice(w, e) = <<>>
<1>1. 0 \in Idx /\ Gap(0, 0) = 0 /\ Size \in Nat
  BY Constants, GapRange DEF Idx
<1>2. r = 0 /\ w = 0 /\ e = 0 /\ buf \in [0..Size - 1 -> Chars]
  BY DEF ConsInit, Chars, Size
<1>3. Shape /\ Window /\ OneLine
  BY <1>1, <1>2 DEF Shape, Window, OneLine
<1> QED
  BY <1>1, <1>2, <1>3, SliceView, ViewEmpty DEF Ring

\* Only a commit moves w, and it wakes all; r moves only when nobody sleeps.
LEMMA SleepersKept == ASSUME Sleepers, [ConsNext]_consVars PROVE Sleepers'
<1>1. CASE UNCHANGED consVars
  BY <1>1 DEF consVars, Sleepers, SleepsOnEmpty
<1>2. ASSUME NEW c \in Typed, ConsoleIntr(c) PROVE Sleepers'
  <2>1. r' = r /\ ((w' = w /\ rpc' = rpc) \/ rpc' = WakeReaders(rpc))
    BY <1>2 DEF ConsoleIntr, KillLine, Backspace, Store
  <2> QED
    BY <2>1 DEF WakeReaders, Sleepers, SleepsOnEmpty, Places
<1>3. ASSUME NEW t \in Readers, NEW fault \in BOOLEAN, ReadChar(t, fault) PROVE Sleepers'
  <2>1. r # w /\ (rpc' = [rpc EXCEPT ![t] = "idle"] \/ rpc' = [rpc EXCEPT ![t] = "held"])
    BY <1>3 DEF ReadChar, Return
  <2> QED
    BY <2>1 DEF Sleepers, SleepsOnEmpty, Places
<1>4. ASSUME NEW t \in Readers, NEW len \in Lengths, ReadCall(t, len) PROVE Sleepers'
  BY <1>4 DEF ReadCall, Sleepers, SleepsOnEmpty, Places
<1>5. ASSUME NEW t \in Readers, ReadEmpty(t) PROVE Sleepers'
  BY <1>5 DEF ReadEmpty, Return, Sleepers, SleepsOnEmpty, Places
<1>6. ASSUME NEW t \in Readers, Kill(t) PROVE Sleepers'
  BY <1>6 DEF Kill, Sleepers, SleepsOnEmpty
<1> QED
  BY <1>1, <1>2, <1>3, <1>4, <1>5, <1>6 DEF ConsNext

-----------------------------------------------------------------------------
(* The theorems. *)

\* A reader sleeps in console_read only while nothing is committed, for any
\* number of readers, whatever console_intr and the other readers do.
THEOREM ReadersSleepOnEmpty == ConsSpec => []SleepsOnEmpty
<1>1. ConsInit => Sleepers
  BY DEF ConsInit, Sleepers, SleepsOnEmpty, Places
<1>2. Sleepers /\ [ConsNext]_consVars => Sleepers'
  BY SleepersKept
<1>3. Sleepers => SleepsOnEmpty
  BY DEF Sleepers
<1> QED
  BY <1>1, <1>2, <1>3, PTL DEF ConsSpec

\* The ring of console.c with its three wrapping indices implements a queue of
\* committed characters and a line being edited, for every size of the ring:
\* nothing typed is overwritten, erased once committed, read twice or out of
\* order (console_intr, console_read).
THEOREM RingIsLineBuffer == ConsSpec => ImplementsLines
<1>1. ConsInit => Ring /\ Lines!Init
  BY RingInit DEF Lines!Init
<1>2. Ring /\ [ConsNext]_consVars => Ring' /\ [Lines!Next]_(Lines!vars)
  BY RingKept DEF LineStep, Lines!vars
<1> QED
  BY <1>1, <1>2, PTL DEF ConsSpec, ImplementsLines, Lines!Spec
=============================================================================
