--------------------------- MODULE NotebookProofs ---------------------------
(***************************************************************************)
(* What TLAPS proves about Notebook.  First the operators on sequences     *)
(* that edits are made of, then each edit by itself: the notebook it makes *)
(* has cells, whose ids it keeps apart, and whose results it keeps.  The   *)
(* invariants follow.                                                      *)
(***************************************************************************)
EXTENDS Notebook, WellFoundedInduction, SequenceTheorems, FiniteSetTheorems, TLAPS

-----------------------------------------------------------------------------
(* Sequences.                                                              *)

LEMMA Smallest ==
    ASSUME NEW I, I \subseteq Nat, I # {}
    PROVE  /\ Min(I) \in I
           /\ \A j \in I : Min(I) <= j
<1> DEFINE R == OpToRel(<, Nat)
<1>1. \A x, y \in Nat : y < x => <<y, x>> \in R
  <2> SUFFICES ASSUME NEW x \in Nat, NEW y \in Nat, y < x PROVE <<y, x>> \in R
    OBVIOUS
  <2>1. <<y, x>> \in Nat \X Nat /\ <<y, x>>[1] < <<y, x>>[2]
    OBVIOUS
  <2> QED
    BY <2>1 DEF OpToRel
<1>2. PICK x \in I : \A y \in I : ~ (<<y, x>> \in R)
  BY NatLessThanWellFounded, WFMin
<1> HIDE DEF R
<1>3. \A y \in I : x <= y
  <2> SUFFICES ASSUME NEW y \in I PROVE x <= y
    OBVIOUS
  <2>1. x \in Nat /\ y \in Nat
    OBVIOUS
  <2>2. ~ (y < x)
    BY <1>1, <1>2, <2>1
  <2> QED
    BY <2>1, <2>2
<1> QED
  BY <1>3 DEF Min

(* The first cell with an id.                                              *)
LEMMA PositionFound ==
    ASSUME NEW nb \in Seq(Cell), NEW id
    PROVE  /\ Position(nb, id) \in 0..Len(nb)
           /\ Position(nb, id) # 0 => Position(nb, id) \in 1..Len(nb) /\ nb[Position(nb, id)].id = id
           /\ Position(nb, id) = 0 => \A i \in 1..Len(nb) : nb[i].id # id
<1> DEFINE I == {i \in 1..Len(nb) : nb[i].id = id}
<1>1. Position(nb, id) = IF I # {} THEN Min(I) ELSE 0
  BY DEF Position, SelectInSeq
<1>2. I \subseteq Nat
  OBVIOUS
<1>3. CASE I # {}
  <2>1. Min(I) \in I
    BY <1>2, <1>3, Smallest
  <2> QED
    BY <1>1, <1>3, <2>1
<1>4. CASE I = {}
  BY <1>1, <1>4
<1> QED
  BY <1>3, <1>4

(* What InsertAt and RemoveAt put at each place.                            *)
LEMMA Inserted ==
    ASSUME NEW S, NEW s \in Seq(S), NEW k \in 1..(Len(s) + 1), NEW e \in S
    PROVE  /\ InsertAt(s, k, e) \in Seq(S)
           /\ Len(InsertAt(s, k, e)) = Len(s) + 1
           /\ \A j \in 1..(Len(s) + 1) : InsertAt(s, k, e)[j] =
                  IF j < k THEN s[j] ELSE IF j = k THEN e ELSE s[j - 1]
<1> DEFINE a == SubSeq(s, 1, k - 1)
           b == SubSeq(s, k, Len(s))
<1>1. /\ a \in Seq(S) /\ Len(a) = k - 1
      /\ \A j \in 1..(k - 1) : a[j] = s[j]
  <2>1. \A j \in 1..(k - 1) : s[j] \in S
    BY ElementOfSeq
  <2> QED
    BY <2>1, SubSeqProperties
<1>2. /\ b \in Seq(S) /\ Len(b) = Len(s) - k + 1
      /\ \A j \in 1..(Len(s) - k + 1) : b[j] = s[k + j - 1]
  <2>1. \A j \in k..Len(s) : s[j] \in S
    BY ElementOfSeq
  <2> QED
    BY <2>1, SubSeqProperties
<1>3. <<e>> \in Seq(S) /\ Len(<<e>>) = 1 /\ <<e>>[1] = e
  OBVIOUS
<1> DEFINE c == a \o <<e>>
<1> HIDE DEF a, b
<1>4. /\ c \in Seq(S) /\ Len(c) = k
      /\ \A j \in 1..k : c[j] = IF j < k THEN s[j] ELSE e
  <2>1. /\ c \in Seq(S) /\ Len(c) = Len(a) + Len(<<e>>)
        /\ \A j \in 1..Len(a) + Len(<<e>>) : c[j] = IF j <= Len(a) THEN a[j] ELSE <<e>>[j - Len(a)]
    BY <1>1, <1>3, ConcatProperties
  <2> QED
    BY <2>1, <1>1, <1>3
<1> HIDE DEF c
<1>5. /\ c \o b \in Seq(S) /\ Len(c \o b) = Len(s) + 1
      /\ \A j \in 1..(Len(s) + 1) : (c \o b)[j] = IF j <= k THEN c[j] ELSE b[j - k]
  <2>1. /\ c \o b \in Seq(S) /\ Len(c \o b) = Len(c) + Len(b)
        /\ \A j \in 1..Len(c) + Len(b) : (c \o b)[j] = IF j <= Len(c) THEN c[j] ELSE b[j - Len(c)]
    BY <1>2, <1>4, ConcatProperties
  <2>2. Len(s) \in Nat
    OBVIOUS
  <2> QED
    BY <2>1, <2>2, <1>2, <1>4
<1>6. InsertAt(s, k, e) = c \o b
  BY DEF InsertAt, a, b, c
<1>7. ASSUME NEW j \in 1..(Len(s) + 1)
      PROVE  (c \o b)[j] = IF j < k THEN s[j] ELSE IF j = k THEN e ELSE s[j - 1]
  <2>1. Len(s) \in Nat
    OBVIOUS
  <2>2. CASE j <= k
    BY <2>1, <2>2, <1>4, <1>5
  <2>3. CASE j > k
    <3>1. j - k \in 1..(Len(s) - k + 1) /\ k + (j - k) - 1 = j - 1
      BY <2>1, <2>3
    <3>2. b[j - k] = s[j - 1]
      BY <3>1, <1>2
    <3> QED
      BY <2>1, <2>3, <3>2, <1>5
  <2>4. j <= k \/ j > k
    BY <2>1
  <2> QED
    BY <2>2, <2>3, <2>4, Zenon
<1> QED
  BY <1>5, <1>6, <1>7

LEMMA Removed ==
    ASSUME NEW S, NEW s \in Seq(S), NEW k \in 1..Len(s)
    PROVE  /\ RemoveAt(s, k) \in Seq(S)
           /\ Len(RemoveAt(s, k)) = Len(s) - 1
           /\ \A j \in 1..(Len(s) - 1) : RemoveAt(s, k)[j] = IF j < k THEN s[j] ELSE s[j + 1]
<1> DEFINE a == SubSeq(s, 1, k - 1)
           b == SubSeq(s, k + 1, Len(s))
<1>0. Len(s) \in Nat
  OBVIOUS
<1>1. /\ a \in Seq(S) /\ Len(a) = k - 1
      /\ \A j \in 1..(k - 1) : a[j] = s[j]
  <2>1. \A j \in 1..(k - 1) : s[j] \in S
    BY <1>0, ElementOfSeq
  <2> QED
    BY <2>1, SubSeqProperties
<1>2. /\ b \in Seq(S) /\ Len(b) = Len(s) - k
      /\ \A j \in 1..(Len(s) - k) : b[j] = s[k + j]
  <2>1. \A j \in (k + 1)..Len(s) : s[j] \in S
    BY <1>0, ElementOfSeq
  <2>2. \A j \in 1..(Len(s) - k) : (k + 1) + j - 1 = k + j
    BY <1>0
  <2>3. /\ b \in Seq(S) /\ Len(b) = IF k + 1 <= Len(s) THEN Len(s) - (k + 1) + 1 ELSE 0
        /\ \A j \in 1..(Len(s) - (k + 1) + 1) : b[j] = s[(k + 1) + j - 1]
    BY <2>1, <1>0, SubSeqProperties
  <2> QED
    BY <2>2, <2>3, <1>0
<1> HIDE DEF a, b
<1>3. /\ a \o b \in Seq(S) /\ Len(a \o b) = Len(a) + Len(b)
      /\ \A j \in 1..Len(a) + Len(b) : (a \o b)[j] = IF j <= Len(a) THEN a[j] ELSE b[j - Len(a)]
  BY <1>1, <1>2, ConcatProperties
<1>4. RemoveAt(s, k) = a \o b
  BY DEF RemoveAt, a, b
<1>5. ASSUME NEW j \in 1..(Len(s) - 1)
      PROVE  (a \o b)[j] = IF j < k THEN s[j] ELSE s[j + 1]
  <2>1. CASE j < k
    BY <2>1, <1>0, <1>1, <1>2, <1>3
  <2>2. CASE j >= k
    <3>1. j - (k - 1) \in 1..(Len(s) - k) /\ k + (j - (k - 1)) = j + 1
      BY <2>2, <1>0
    <3>2. b[j - (k - 1)] = s[j + 1]
      BY <3>1, <1>2
    <3> QED
      BY <2>2, <3>2, <1>0, <1>1, <1>2, <1>3
  <2>3. j < k \/ j >= k
    BY <1>0
  <2> QED
    BY <2>1, <2>2, <2>3, Zenon
<1> QED
  BY <1>0, <1>1, <1>2, <1>3, <1>4, <1>5

-----------------------------------------------------------------------------
(* Notebooks.                                                              *)

Unique(nb) == \A i, j \in 1..Len(nb) : nb[i].id = nb[j].id => i = j

(* A notebook of cells with ids made before n, or given by clients.        *)
Cellular(nb, n) ==
    /\ nb \in Seq(Cell)
    /\ \A i \in 1..Len(nb) : nb[i].id \in Names \cup 1..(n - 1)

(* What an edit is to keep of a notebook: a cell, and no two with an id.   *)
Sound(nb) == Unique(nb) /\ nb # <<>>

(* A cell after an edit of nb: the one with its id before, with its        *)
(* results unless its type changed, or a new one without results.          *)
KeptFrom(nb, c) ==
    \/ \E i \in 1..Len(nb) :
           /\ nb[i].id = c.id
           /\ (nb[i].outs = c.outs /\ nb[i].count = c.count) \/ nb[i].type # c.type
    \/ /\ \A i \in 1..Len(nb) : nb[i].id # c.id
       /\ c.outs = <<>> /\ c.count = 0

Keeps(nb, nb2) == \A j \in 1..Len(nb2) : KeptFrom(nb, nb2[j])

KeepsBut(nb, nb2, id) == \A j \in 1..Len(nb2) : nb2[j].id # id => KeptFrom(nb, nb2[j])

LEMMA NewCellTyped ==
    ASSUME NEW id \in Ids, NEW type \in Types, NEW source \in Sources
    PROVE  /\ NewCell(id, type, source) \in Cell
           /\ NewCell(id, type, source).id = id
           /\ NewCell(id, type, source).type = type
           /\ NewCell(id, type, source).outs = <<>>
           /\ NewCell(id, type, source).count = 0
BY NotebookAssumption DEF NewCell, Cell, CellWith

LEMMA ClearedTyped ==
    ASSUME NEW c \in Cell
    PROVE  /\ Cleared(c) \in Cell
           /\ Cleared(c).id = c.id /\ Cleared(c).type = c.type
           /\ Cleared(c).source = c.source
           /\ Cleared(c).outs = <<>> /\ Cleared(c).count = 0
<1>1. <<>> \in Seq(Runs) /\ 0 \in 0..MaxRuns
  BY NotebookAssumption
<1> QED
  BY <1>1 DEF Cleared, Cell, CellWith

LEMMA WithSourceTyped ==
    ASSUME NEW c \in Cell, NEW source \in Sources
    PROVE  LET d == [c EXCEPT !.source = source] IN
           /\ d \in Cell /\ d.id = c.id /\ d.outs = c.outs /\ d.count = c.count
BY DEF Cell, CellWith

LEMMA RetypedTyped ==
    ASSUME NEW c \in Cell, NEW type \in Types
    PROVE  /\ Retyped(c, type) \in Cell
           /\ Retyped(c, type).id = c.id
           /\ Retyped(c, type).type = type
           /\ c.type = type /\ type = "code" =>
                Retyped(c, type).outs = c.outs /\ Retyped(c, type).count = c.count
<1> DEFINE d == IF type = "code" THEN c ELSE Cleared(c)
<1>1. d \in Cell /\ d.id = c.id /\ (type = "code" => d = c)
  BY ClearedTyped
<1>2. Retyped(c, type) = [d EXCEPT !.type = type]
  BY DEF Retyped
<1> HIDE DEF d
<1>3. /\ [d EXCEPT !.type = type] \in Cell
      /\ [d EXCEPT !.type = type].id = d.id /\ [d EXCEPT !.type = type].type = type
      /\ [d EXCEPT !.type = type].outs = d.outs /\ [d EXCEPT !.type = type].count = d.count
  BY <1>1 DEF Cell, CellWith
<1> QED
  BY <1>1, <1>2, <1>3

(* A cell is replaced in place by one with its id.                         *)
LEMMA UpdatedInPlace ==
    ASSUME NEW n \in Nat, NEW nb, Cellular(nb, n), NEW k \in 1..Len(nb),
           NEW c \in Cell, c.id = nb[k].id
    PROVE  LET nb2 == [nb EXCEPT ![k] = c] IN
           /\ Cellular(nb2, n) /\ Len(nb2) = Len(nb)
           /\ Sound(nb) => Sound(nb2)
           /\ nb2[k] = c /\ \A j \in 1..Len(nb) : j # k => nb2[j] = nb[j]
           /\ KeptFrom(nb, c) => Keeps(nb, nb2)
<1> DEFINE nb2 == [nb EXCEPT ![k] = c]
<1>1. /\ nb2 \in Seq(Cell) /\ Len(nb2) = Len(nb)
      /\ \A j \in 1..Len(nb) : nb2[j] = IF j = k THEN c ELSE nb[j]
  BY ExceptSeq DEF Cellular
<1> HIDE DEF nb2
<1>2. \A j \in 1..Len(nb) : nb2[j].id = nb[j].id
  BY <1>1
<1>3. Cellular(nb2, n)
  BY <1>1, <1>2 DEF Cellular
<1>5. ASSUME Sound(nb) PROVE Sound(nb2)
  <2>1. Len(nb) \in Nat /\ nb2 # <<>>
    BY <1>1 DEF Cellular
  <2> QED
    BY <2>1, <1>1, <1>2, <1>5 DEF Sound, Unique
<1>4. ASSUME KeptFrom(nb, c) PROVE Keeps(nb, nb2)
  BY <1>1, <1>4 DEF Keeps, KeptFrom
<1> QED
  BY <1>1, <1>3, <1>4, <1>5 DEF nb2

(* A new cell is inserted.                                                 *)
LEMMA InsertedNew ==
    ASSUME NEW n \in Nat, NEW m \in Nat, n <= m, NEW nb, Cellular(nb, n),
           NEW k \in 1..(Len(nb) + 1), NEW c \in Cell,
           c.id \in Names \cup 1..(m - 1)
    PROVE  /\ Cellular(InsertAt(nb, k, c), m)
           /\ Unique(nb) /\ (\A i \in 1..Len(nb) : nb[i].id # c.id) => Sound(InsertAt(nb, k, c))
           /\ \A j \in 1..Len(InsertAt(nb, k, c)) :
                  InsertAt(nb, k, c)[j] = c \/ \E i \in 1..Len(nb) : InsertAt(nb, k, c)[j] = nb[i]
<1> DEFINE nb2 == InsertAt(nb, k, c)
<1>0. nb \in Seq(Cell) /\ Len(nb) \in Nat
  BY DEF Cellular
<1>1. /\ nb2 \in Seq(Cell) /\ Len(nb2) = Len(nb) + 1
      /\ \A j \in 1..(Len(nb) + 1) : nb2[j] = IF j < k THEN nb[j] ELSE IF j = k THEN c ELSE nb[j - 1]
  <2>1. k \in 1..(Len(nb) + 1) /\ c \in Cell
    OBVIOUS
  <2>2. InsertAt(nb, k, c) \in Seq(Cell)
    BY <1>0, <2>1, Inserted
  <2>3. Len(InsertAt(nb, k, c)) = Len(nb) + 1
    BY <1>0, <2>1, Inserted
  <2>4. \A j \in 1..(Len(nb) + 1) : InsertAt(nb, k, c)[j] =
            IF j < k THEN nb[j] ELSE IF j = k THEN c ELSE nb[j - 1]
    BY <1>0, <2>1, Inserted
  <2> QED
    BY <2>2, <2>3, <2>4
<1> HIDE DEF nb2
<1>2. ASSUME NEW j \in 1..Len(nb2)
      PROVE  /\ j < k => j \in 1..Len(nb) /\ nb2[j] = nb[j]
             /\ j = k => nb2[j] = c
             /\ j > k => (j - 1) \in 1..Len(nb) /\ nb2[j] = nb[j - 1]
  BY <1>0, <1>1
<1>3. ASSUME Unique(nb), \A i \in 1..Len(nb) : nb[i].id # c.id
      PROVE  Unique(nb2)
  <2> SUFFICES ASSUME NEW i \in 1..Len(nb2), NEW j \in 1..Len(nb2), nb2[i].id = nb2[j].id
               PROVE  i = j
    BY DEF Unique
  <2>1. \A a, b \in 1..Len(nb) : nb[a].id = nb[b].id => a = b
    BY <1>3 DEF Unique
  <2>2. (i < k \/ i = k \/ i > k) /\ (j < k \/ j = k \/ j > k)
    BY <1>0, <1>1
  <2>3. (i = k) = (j = k)
    BY <1>2, <1>3, <2>2
  <2>4. CASE i < k /\ j < k
    BY <2>1, <2>4, <1>2
  <2>5. CASE i > k /\ j > k
    <3>2. (i - 1) \in 1..Len(nb) /\ nb2[i] = nb[i - 1] /\ (j - 1) \in 1..Len(nb) /\ nb2[j] = nb[j - 1]
      BY <2>5, <1>2
    <3>1. i - 1 = j - 1
      BY <2>1, <3>2
    <3> QED
      BY <3>1
  <2>6. CASE i < k /\ j > k
    <3>2. i \in 1..Len(nb) /\ nb2[i] = nb[i] /\ (j - 1) \in 1..Len(nb) /\ nb2[j] = nb[j - 1]
      BY <2>6, <1>2
    <3>1. i = j - 1
      BY <2>1, <3>2
    <3> QED
      BY <3>1, <2>6
  <2>7. CASE i > k /\ j < k
    <3>2. (i - 1) \in 1..Len(nb) /\ nb2[i] = nb[i - 1] /\ j \in 1..Len(nb) /\ nb2[j] = nb[j]
      BY <2>7, <1>2
    <3>1. i - 1 = j
      BY <2>1, <3>2
    <3> QED
      BY <3>1, <2>7
  <2> QED
    BY <2>2, <2>3, <2>4, <2>5, <2>6, <2>7
<1>4. ASSUME NEW j \in 1..Len(nb2) PROVE nb2[j] = c \/ \E i \in 1..Len(nb) : nb2[j] = nb[i]
  <2>1. j < k \/ j = k \/ j > k
    BY <1>0, <1>1
  <2> QED
    BY <1>2, <2>1
<1>5. 1..(n - 1) \subseteq 1..(m - 1)
  OBVIOUS
<1>6. \A j \in 1..Len(nb2) : nb2[j].id \in Names \cup 1..(m - 1)
  BY <1>4, <1>5 DEF Cellular
<1>7. nb2 # <<>>
  BY <1>0, <1>1
<1> QED
  BY <1>1, <1>3, <1>4, <1>6, <1>7 DEF Sound, Cellular, nb2

(* A cell is removed: the others are left, and it is not among them.       *)
LEMMA RemovedCell ==
    ASSUME NEW n \in Nat, NEW nb, Cellular(nb, n), NEW k \in 1..Len(nb)
    PROVE  /\ Cellular(RemoveAt(nb, k), n)
           /\ Unique(nb) => Unique(RemoveAt(nb, k))
           /\ Len(RemoveAt(nb, k)) = Len(nb) - 1
           /\ \A j \in 1..Len(RemoveAt(nb, k)) : \E i \in 1..Len(nb) : RemoveAt(nb, k)[j] = nb[i] /\ i # k
<1> DEFINE nb2 == RemoveAt(nb, k)
<1>0. nb \in Seq(Cell) /\ Len(nb) \in Nat
  BY DEF Cellular
<1>1. /\ nb2 \in Seq(Cell) /\ Len(nb2) = Len(nb) - 1
      /\ \A j \in 1..(Len(nb) - 1) : nb2[j] = IF j < k THEN nb[j] ELSE nb[j + 1]
  BY <1>0, Removed
<1> HIDE DEF nb2
<1>2. ASSUME NEW j \in 1..Len(nb2)
      PROVE  /\ j < k => j \in 1..Len(nb) /\ nb2[j] = nb[j]
             /\ j >= k => (j + 1) \in 1..Len(nb) /\ nb2[j] = nb[j + 1]
  BY <1>0, <1>1
<1>3. Unique(nb) => \A a, b \in 1..Len(nb) : nb[a].id = nb[b].id => a = b
  BY DEF Unique
<1>4. ASSUME Unique(nb) PROVE Unique(nb2)
  <2> SUFFICES ASSUME NEW i \in 1..Len(nb2), NEW j \in 1..Len(nb2), nb2[i].id = nb2[j].id
               PROVE  i = j
    BY DEF Unique
  <2>1. (i < k \/ i >= k) /\ (j < k \/ j >= k)
    BY <1>0, <1>1
  <2>2. CASE i < k /\ j < k
    BY <1>3, <1>4, <2>2, <1>2
  <2>3. CASE i >= k /\ j >= k
    <3>1. i + 1 = j + 1
      BY <1>3, <1>4, <2>3, <1>2
    <3> QED
      BY <3>1
  <2>4. CASE i < k /\ j >= k
    <3>1. i = j + 1
      BY <1>3, <1>4, <2>4, <1>2
    <3> QED
      BY <3>1, <2>4
  <2>5. CASE i >= k /\ j < k
    <3>1. i + 1 = j
      BY <1>3, <1>4, <2>5, <1>2
    <3> QED
      BY <3>1, <2>5
  <2> QED
    BY <2>1, <2>2, <2>3, <2>4, <2>5
<1>5. ASSUME NEW j \in 1..Len(nb2) PROVE \E i \in 1..Len(nb) : nb2[j] = nb[i] /\ i # k
  <2>1. CASE j < k
    <3>1. j \in 1..Len(nb) /\ nb2[j] = nb[j] /\ j # k
      BY <2>1, <1>2
    <3> QED
      BY <3>1
  <2>2. CASE j >= k
    <3>1. (j + 1) \in 1..Len(nb) /\ nb2[j] = nb[j + 1] /\ j + 1 # k
      BY <2>2, <1>2
    <3> QED
      BY <3>1
  <2>3. j < k \/ j >= k
    BY <1>0, <1>1
  <2> QED
    BY <2>1, <2>2, <2>3, Zenon
<1>6. \A j \in 1..Len(nb2) : nb2[j].id \in Names \cup 1..(n - 1)
  BY <1>5 DEF Cellular
<1> QED
  BY <1>1, <1>4, <1>5, <1>6 DEF Cellular, nb2

LEMMA MaxOfTwo ==
    ASSUME NEW a \in Int, NEW b \in Int
    PROVE  Max({a, b}) = IF a >= b THEN a ELSE b
<1> DEFINE m == IF a >= b THEN a ELSE b
<1>1. m \in {a, b} /\ \A y \in {a, b} : m >= y
  OBVIOUS
<1>2. \A x \in {a, b} : (\A y \in {a, b} : x >= y) => x = m
  OBVIOUS
<1> QED
  BY <1>1, <1>2 DEF Max

LEMMA MinOfTwo ==
    ASSUME NEW a \in Int, NEW b \in Int
    PROVE  Min({a, b}) = IF a <= b THEN a ELSE b
<1> DEFINE m == IF a <= b THEN a ELSE b
<1>1. m \in {a, b} /\ \A y \in {a, b} : m <= y
  OBVIOUS
<1>2. \A x \in {a, b} : (\A y \in {a, b} : x <= y) => x = m
  OBVIOUS
<1> QED
  BY <1>1, <1>2 DEF Min

(* What a session has of an edit: a notebook that is whole, with ids that  *)
(* have been made, and which keeps the results of its cells.               *)
LEMMA SourceUpdated ==
    ASSUME NEW n \in Nat, NEW nb, Cellular(nb, n), NEW id \in Names \cup 1..(n - 1),
           n <= MaxIds + 1, NEW source \in Sources, HasCell(nb, id)
    PROVE  LET nb2 == Update(nb, id, LAMBDA c : [c EXCEPT !.source = source]) IN
           Cellular(nb2, n) /\ (Sound(nb) => Sound(nb2)) /\ Keeps(nb, nb2)
<1> DEFINE k == Position(nb, id)
           c == [nb[k] EXCEPT !.source = source]
<1>1. k \in 1..Len(nb) /\ nb[k] \in Cell
  BY PositionFound, ElementOfSeq DEF Cellular, HasCell
<1>2. /\ c \in Cell /\ c.id = nb[k].id
      /\ c.outs = nb[k].outs /\ c.count = nb[k].count
  BY <1>1, WithSourceTyped
<1>3. Update(nb, id, LAMBDA x : [x EXCEPT !.source = source]) = [nb EXCEPT ![k] = c]
  BY DEF Update
<1> HIDE DEF k, c
<1>4. KeptFrom(nb, c)
  BY <1>1, <1>2 DEF KeptFrom
<1>6. /\ Cellular([nb EXCEPT ![k] = c], n) /\ Keeps(nb, [nb EXCEPT ![k] = c])
      /\ Sound(nb) => Sound([nb EXCEPT ![k] = c])
  BY <1>1, <1>2, <1>4, UpdatedInPlace
<1> QED
  BY <1>3, <1>6

LEMMA FreshId ==
    ASSUME NEW n \in Nat, NEW nb, Cellular(nb, n), NEW k \in Nat
    PROVE  \A i \in 1..Len(nb) : nb[i].id # n + k
BY NotebookAssumption DEF Cellular

LEMMA NewInserted ==
    ASSUME NEW n \in 1..MaxIds, NEW nb, Cellular(nb, n), NEW k \in 1..(Len(nb) + 1),
           NEW type \in Types, NEW source \in Sources
    PROVE  LET nb2 == InsertAt(nb, k, NewCell(n, type, source)) IN
           Cellular(nb2, n + 1) /\ (Unique(nb) => Sound(nb2)) /\ Keeps(nb, nb2)
<1> DEFINE c == NewCell(n, type, source)
<1>1. c \in Cell /\ c.id = n /\ c.outs = <<>> /\ c.count = 0
  <2>1. n \in Ids
    BY DEF Ids
  <2> QED
    BY <2>1, NewCellTyped
<1>2. n \in Nat /\ n + 1 \in Nat /\ n <= n + 1 /\ n \in 1..((n + 1) - 1)
  OBVIOUS
<1> HIDE DEF c
<1>3. \A i \in 1..Len(nb) : nb[i].id # c.id
  <2>1. n + 0 = n /\ 0 \in Nat
    BY <1>2
  <2>2. \A i \in 1..Len(nb) : nb[i].id # n + 0
    BY <1>2, FreshId, Zenon
  <2> QED
    BY <1>1, <2>1, <2>2
<1>4. /\ Cellular(InsertAt(nb, k, c), n + 1)
      /\ Unique(nb) => Sound(InsertAt(nb, k, c))
      /\ \A j \in 1..Len(InsertAt(nb, k, c)) :
             InsertAt(nb, k, c)[j] = c \/ \E i \in 1..Len(nb) : InsertAt(nb, k, c)[j] = nb[i]
  <2> DEFINE m == n + 1
  <2>1. n \in Nat /\ m \in Nat /\ n <= m /\ c.id \in Names \cup 1..(m - 1)
    BY <1>1, <1>2
  <2> HIDE DEF m
  <2>2. /\ Cellular(InsertAt(nb, k, c), m)
        /\ Unique(nb) => Sound(InsertAt(nb, k, c))
        /\ \A j \in 1..Len(InsertAt(nb, k, c)) :
               InsertAt(nb, k, c)[j] = c \/ \E i \in 1..Len(nb) : InsertAt(nb, k, c)[j] = nb[i]
    BY <1>1, <1>3, <2>1, InsertedNew
  <2> QED
    BY <2>2 DEF m
<1>5. KeptFrom(nb, c) /\ \A i \in 1..Len(nb) : KeptFrom(nb, nb[i])
  BY <1>1, <1>3 DEF KeptFrom
<1>6. Keeps(nb, InsertAt(nb, k, c))
  BY <1>4, <1>5 DEF Keeps
<1> QED
  BY <1>4, <1>6 DEF c

LEMMA Fresh ==
    ASSUME NEW n \in 1..MaxIds, NEW nb, Cellular(nb, n)
    PROVE  /\ Cellular(FreshNotebook(n), n + 1) /\ Sound(FreshNotebook(n))
           /\ Keeps(nb, FreshNotebook(n))
<1>1. n \in Ids /\ n \in Nat
  BY DEF Ids
<1>2. "code" \in Types /\ EmptySource \in Sources
  BY NotebookAssumption
<1>3. /\ NewCell(n, "code", EmptySource) \in Cell
      /\ NewCell(n, "code", EmptySource).id = n
      /\ NewCell(n, "code", EmptySource).outs = <<>>
      /\ NewCell(n, "code", EmptySource).count = 0
  BY <1>1, <1>2, NewCellTyped
<1>4. \A i \in 1..Len(nb) : nb[i].id # n
  <2>1. n + 0 = n
    BY <1>1
  <2> QED
    BY <1>1, <2>1, FreshId
<1>5. /\ FreshNotebook(n) \in Seq(Cell) /\ Len(FreshNotebook(n)) = 1
      /\ FreshNotebook(n)[1] = NewCell(n, "code", EmptySource)
      /\ FreshNotebook(n) # <<>>
  BY <1>3 DEF FreshNotebook
<1>6. Cellular(FreshNotebook(n), n + 1) /\ Sound(FreshNotebook(n))
  BY <1>1, <1>3, <1>5 DEF Sound, Cellular, Unique
<1>7. KeptFrom(nb, NewCell(n, "code", EmptySource))
  BY <1>3, <1>4 DEF KeptFrom
<1>8. Keeps(nb, FreshNotebook(n))
  BY <1>5, <1>7 DEF Keeps
<1> QED
  BY <1>6, <1>8

LEMMA CellRetyped ==
    ASSUME NEW n \in Nat, NEW nb, Cellular(nb, n), NEW id, NEW type \in Types, HasCell(nb, id)
    PROVE  LET nb2 == Update(nb, id, LAMBDA c : Retyped(c, type)) IN
           /\ Cellular(nb2, n) /\ (Sound(nb) => Sound(nb2))
           /\ Keeps(nb, nb2) \/ nb2 = Update(nb, id, Cleared)
<1> DEFINE k == Position(nb, id)
           c == Retyped(nb[k], type)
<1>1. k \in 1..Len(nb) /\ nb[k] \in Cell
  BY PositionFound, ElementOfSeq DEF Cellular, HasCell
<1>2. /\ c \in Cell /\ c.id = nb[k].id
      /\ \/ c.outs = nb[k].outs /\ c.count = nb[k].count
         \/ nb[k].type # c.type
         \/ c = Cleared(nb[k])
  <2>1. c.type = type /\ c \in Cell /\ c.id = nb[k].id
    BY <1>1, RetypedTyped
  <2>2. CASE type = "code"
    BY <1>1, <2>1, <2>2, RetypedTyped
  <2>3. CASE type # "code" /\ nb[k].type = type
    <3>1. c = [Cleared(nb[k]) EXCEPT !.type = type]
      BY <2>3 DEF Retyped
    <3>2. Cleared(nb[k]) \in Cell /\ Cleared(nb[k]).type = type
      BY <1>1, <2>3, ClearedTyped
    <3>3. c = Cleared(nb[k])
      BY <3>1, <3>2 DEF Cell, CellWith
    <3> QED
      BY <2>1, <3>3
  <2> QED
    BY <2>1, <2>2, <2>3
<1>3. /\ Update(nb, id, LAMBDA x : Retyped(x, type)) = [nb EXCEPT ![k] = c]
      /\ Update(nb, id, Cleared) = [nb EXCEPT ![k] = Cleared(nb[k])]
  BY DEF Update
<1> HIDE DEF k, c
<1>4. KeptFrom(nb, c) \/ c = Cleared(nb[k])
  BY <1>1, <1>2 DEF KeptFrom
<1>6. /\ Cellular([nb EXCEPT ![k] = c], n)
      /\ KeptFrom(nb, c) => Keeps(nb, [nb EXCEPT ![k] = c])
      /\ Sound(nb) => Sound([nb EXCEPT ![k] = c])
  BY <1>1, <1>2, UpdatedInPlace
<1> QED
  BY <1>3, <1>4, <1>6

LEMMA CellAppended ==
    ASSUME NEW n \in 1..(MaxIds + 1), NEW nb, Cellular(nb, n), NEW id \in Names \cup 1..(n - 1),
           NEW source \in Sources, ~HasCell(nb, id)
    PROVE  LET nb2 == Append(nb, NewCell(id, "code", source)) IN
           Cellular(nb2, n) /\ (Sound(nb) => Sound(nb2)) /\ Keeps(nb, nb2)
<1> DEFINE c == NewCell(id, "code", source)
           nb2 == Append(nb, c)
<1>1. c \in Cell /\ c.id = id /\ c.outs = <<>> /\ c.count = 0
  <2>1. id \in Ids /\ "code" \in Types
    BY NotebookAssumption DEF Ids
  <2> QED
    BY <2>1, NewCellTyped
<1> HIDE DEF c
<1>2. \A i \in 1..Len(nb) : nb[i].id # id
  BY PositionFound DEF HasCell, Cellular
<1>3. nb \in Seq(Cell) /\ Len(nb) \in Nat
  BY DEF Cellular
<1>4. /\ nb2 \in Seq(Cell) /\ Len(nb2) = Len(nb) + 1 /\ nb2 # <<>>
      /\ nb2[Len(nb) + 1] = c
      /\ \A j \in 1..Len(nb) : nb2[j] = nb[j]
  BY <1>1, <1>3
<1> HIDE DEF nb2
<1>5. Sound(nb) => Sound(nb2)
  BY <1>1, <1>2, <1>3, <1>4 DEF Unique, Sound
<1>6. \A j \in 1..Len(nb2) : nb2[j] = c \/ \E i \in 1..Len(nb) : nb2[j] = nb[i]
  BY <1>3, <1>4
<1>7. \A j \in 1..Len(nb2) : nb2[j].id \in Names \cup 1..(n - 1)
  BY <1>1, <1>6 DEF Cellular
<1>8. KeptFrom(nb, c) /\ \A i \in 1..Len(nb) : KeptFrom(nb, nb[i])
  BY <1>1, <1>2 DEF KeptFrom
<1>9. Keeps(nb, nb2)
  BY <1>6, <1>8 DEF Keeps
<1> QED
  BY <1>4, <1>5, <1>7, <1>9 DEF Cellular, nb2, c

LEMMA CellDeleted ==
    ASSUME NEW n \in Nat, NEW nb, Cellular(nb, n), NEW id, HasCell(nb, id)
    PROVE  LET nb2 == RemoveAt(nb, Position(nb, id)) IN
           Cellular(nb2, n) /\ (Unique(nb) => Unique(nb2)) /\ Keeps(nb, nb2)
<1> DEFINE k == Position(nb, id)
<1>1. k \in 1..Len(nb)
  BY PositionFound DEF Cellular, HasCell
<1> HIDE DEF k
<1>2. /\ Cellular(RemoveAt(nb, k), n) /\ (Unique(nb) => Unique(RemoveAt(nb, k)))
      /\ \A j \in 1..Len(RemoveAt(nb, k)) : \E i \in 1..Len(nb) : RemoveAt(nb, k)[j] = nb[i] /\ i # k
  BY <1>1, RemovedCell
<1>3. \A i \in 1..Len(nb) : KeptFrom(nb, nb[i])
  BY DEF KeptFrom
<1>4. Keeps(nb, RemoveAt(nb, k))
  BY <1>2, <1>3 DEF Keeps
<1> QED
  BY <1>2, <1>4 DEF k

LEMMA CellMoved ==
    ASSUME NEW n \in Nat, NEW nb, Cellular(nb, n), NEW id, NEW delta \in Int, HasCell(nb, id)
    PROVE  LET at == Position(nb, id)
               to == Max({1, Min({Len(nb), at + delta})})
               nb2 == InsertAt(RemoveAt(nb, at), to, nb[at])
           IN  Cellular(nb2, n) /\ (Sound(nb) => Sound(nb2)) /\ Keeps(nb, nb2)
<1> DEFINE at == Position(nb, id)
           to == Max({1, Min({Len(nb), at + delta})})
           rest == RemoveAt(nb, at)
           c == nb[at]
<1>1. at \in 1..Len(nb) /\ nb \in Seq(Cell) /\ Len(nb) \in Nat
  BY PositionFound DEF Cellular, HasCell
<1>2. to \in 1..Len(nb)
  <2> DEFINE low == Min({Len(nb), at + delta})
  <2>1. at + delta \in Int /\ Len(nb) \in Int /\ 1 \in Int /\ 1 <= Len(nb)
    BY <1>1
  <2>2. low = IF Len(nb) <= at + delta THEN Len(nb) ELSE at + delta
    BY <2>1, MinOfTwo
  <2>3. low \in Int /\ low <= Len(nb)
    BY <2>1, <2>2
  <2> HIDE DEF low
  <2>4. Max({1, low}) = IF 1 >= low THEN 1 ELSE low
    BY <2>1, <2>3, MaxOfTwo
  <2> QED
    BY <2>1, <2>3, <2>4 DEF low
<1> HIDE DEF at, to
<1>3. c \in Cell
  BY <1>1
<1>4. /\ Cellular(rest, n) /\ Len(rest) = Len(nb) - 1
      /\ Unique(nb) => Unique(rest)
      /\ \A j \in 1..Len(rest) : \E i \in 1..Len(nb) : rest[j] = nb[i] /\ i # at
  BY <1>1, RemovedCell
<1>5. /\ Unique(nb) => \A j \in 1..Len(rest) : rest[j].id # c.id
      /\ c.id \in Names \cup 1..(n - 1)
  BY <1>1, <1>4 DEF Cellular, Unique
<1>6. to \in 1..(Len(rest) + 1)
  BY <1>1, <1>2, <1>4
<1> HIDE DEF rest, c
<1> DEFINE nb2 == InsertAt(rest, to, c)
<1>7. /\ Cellular(nb2, n)
      /\ Unique(nb) => Sound(nb2)
      /\ \A j \in 1..Len(nb2) : nb2[j] = c \/ \E i \in 1..Len(rest) : nb2[j] = rest[i]
  <2>1. n <= n
    OBVIOUS
  <2>2. /\ Cellular(nb2, n)
        /\ Unique(rest) /\ (\A j \in 1..Len(rest) : rest[j].id # c.id) => Sound(nb2)
        /\ \A j \in 1..Len(nb2) : nb2[j] = c \/ \E i \in 1..Len(rest) : nb2[j] = rest[i]
    BY <2>1, <1>3, <1>4, <1>5, <1>6, InsertedNew
  <2> QED
    BY <2>2, <1>4, <1>5
<1> HIDE DEF nb2
<1>8. \A i \in 1..Len(nb) : KeptFrom(nb, nb[i])
  BY DEF KeptFrom
<1>9. Keeps(nb, nb2)
  <2>1. \A j \in 1..Len(nb2) : \E i \in 1..Len(nb) : nb2[j] = nb[i]
    BY <1>1, <1>4, <1>7 DEF c
  <2> QED
    BY <2>1, <1>8 DEF Keeps
<1> QED
  BY <1>7, <1>9 DEF Sound, nb2, rest, c, at, to

(* The last cell with an id.                                               *)
LEMMA Largest ==
    ASSUME NEW n \in Nat, NEW I, I \subseteq 1..n, I # {}
    PROVE  Max(I) \in I
<1> DEFINE J == {n - i : i \in I}
<1>1. J \subseteq Nat /\ J # {}
  <2>1. PICK k \in I : TRUE
    OBVIOUS
  <2>2. n - k \in J
    BY <2>1
  <2>3. \A i \in I : n - i \in Nat
    OBVIOUS
  <2> QED
    BY <2>2, <2>3
<1>2. Min(J) \in J /\ \A j \in J : Min(J) <= j
  BY <1>1, Smallest
<1>3. PICK x \in I : Min(J) = n - x
  BY <1>2
<1>4. \A y \in I : x >= y
  <2> SUFFICES ASSUME NEW y \in I PROVE x >= y
    OBVIOUS
  <2>1. n - x <= n - y
    BY <1>2, <1>3
  <2> QED
    BY <2>1
<1> QED
  BY <1>4 DEF Max

LEMMA LastPositionFound ==
    ASSUME NEW nb \in Seq(Cell), NEW id, HasCell(nb, id)
    PROVE  LastPosition(nb, id) \in 1..Len(nb) /\ nb[LastPosition(nb, id)].id = id
<1> DEFINE I == {i \in 1..Len(nb) : nb[i].id = id}
<1>1. LastPosition(nb, id) = IF I # {} THEN Max(I) ELSE 0
  BY DEF LastPosition, SelectLastInSeq
<1>2. Position(nb, id) \in I
  BY PositionFound DEF HasCell
<1>3. Len(nb) \in Nat /\ I \subseteq 1..Len(nb) /\ I # {}
  BY <1>2
<1>4. Max(I) \in I
  <2> HIDE DEF I
  <2> QED
    BY <1>3, Largest
<1> QED
  BY <1>1, <1>3, <1>4

(* The fresh ids of replace_cells and from_json are numbered in order.     *)
LEMMA NewCounted ==
    ASSUME NEW k \in Nat, NEW incoming, NEW j \in 1..(k + 1)
    PROVE  /\ NewBefore(incoming, j) \in Nat
           /\ \A i \in 1..(j - 1) :
                  /\ NewBefore(incoming, i) <= NewBefore(incoming, j)
                  /\ incoming[i].id = New => NewBefore(incoming, i) < NewBefore(incoming, j)
<1> DEFINE A(i) == {x \in 1..i - 1 : incoming[x].id = New}
<1>1. ASSUME NEW i \in 1..(k + 1)
      PROVE  IsFiniteSet(A(i)) /\ Cardinality(A(i)) \in Nat
  <2>1. IsFiniteSet(1..i - 1)
    BY FS_Interval
  <2>2. A(i) \subseteq 1..i - 1
    OBVIOUS
  <2> HIDE DEF A
  <2> QED
    BY <2>1, <2>2, FS_Subset, FS_CardinalityType
<1>2. ASSUME NEW i \in 1..(j - 1)
      PROVE  /\ Cardinality(A(i)) <= Cardinality(A(j))
             /\ incoming[i].id = New => Cardinality(A(i)) < Cardinality(A(j))
  <2>1. i \in 1..(k + 1)
    OBVIOUS
  <2>2. A(i) \subseteq A(j)
    OBVIOUS
  <2>3. incoming[i].id = New => A(i) \cup {i} \subseteq A(j) /\ i \notin A(i)
    OBVIOUS
  <2> HIDE DEF A
  <2>4. /\ IsFiniteSet(A(i)) /\ Cardinality(A(i)) \in Nat
        /\ IsFiniteSet(A(j)) /\ Cardinality(A(j)) \in Nat
    BY <1>1, <2>1
  <2>5. Cardinality(A(i)) <= Cardinality(A(j))
    BY <2>2, <2>4, FS_Subset
  <2>6. ASSUME incoming[i].id = New PROVE Cardinality(A(i)) < Cardinality(A(j))
    <3>1. IsFiniteSet(A(i) \cup {i}) /\ Cardinality(A(i) \cup {i}) = Cardinality(A(i)) + 1
      BY <2>3, <2>4, <2>6, FS_AddElement
    <3>2. Cardinality(A(i) \cup {i}) <= Cardinality(A(j))
      BY <2>3, <2>4, <2>6, FS_Subset
    <3> QED
      BY <3>1, <3>2, <2>4
  <2> QED
    BY <2>5, <2>6
<1> QED
  BY <1>1, <1>2 DEF NewBefore

LEMMA ReplacedCell ==
    ASSUME nextId \in 1..(MaxIds + 1), NEW nb, Cellular(nb, nextId),
           NEW k \in Nat, NEW incoming \in [1..k -> Incoming], NEW j \in 1..k,
           incoming[j].id \notin nextId..MaxIds,
           nextId + NewBefore(incoming, k + 1) <= MaxIds + 1
    PROVE  LET c == Replaced(nb, incoming, j) IN
           /\ c \in Cell
           /\ incoming[j].id = New =>
                  /\ c.id = nextId + NewBefore(incoming, j)
                  /\ NewBefore(incoming, j) < NewBefore(incoming, k + 1)
           /\ incoming[j].id # New =>
                  c.id = incoming[j].id /\ c.id \in Names \cup 1..(nextId - 1)
           /\ RepeatsId(incoming) \/ KeptFrom(nb, c)
<1> DEFINE c == Replaced(nb, incoming, j)
           e == incoming[j]
           m == NewBefore(incoming, j)
           at == LastPosition(nb, e.id)
           taken == \E i \in 1..j - 1 : incoming[i].id = e.id
<1>1. /\ e.id \in Ids \cup {New} /\ e.type \in Types /\ e.source \in Sources
      /\ nb \in Seq(Cell) /\ MaxIds \in Nat /\ nextId \in Nat
  BY NotebookAssumption DEF Incoming, Cellular
<1>2. /\ m \in Nat /\ NewBefore(incoming, k + 1) \in Nat
      /\ e.id = New => m < NewBefore(incoming, k + 1)
  <2>1. k + 1 \in 1..(k + 1) /\ j \in 1..((k + 1) - 1) /\ j \in 1..(k + 1)
    OBVIOUS
  <2>2. m \in Nat
    BY <2>1, NewCounted
  <2> QED
    BY <2>1, <2>2, NewCounted
<1>3. c = IF e.id = New THEN NewCell(nextId + m, e.type, e.source)
          ELSE IF taken \/ ~HasCell(nb, e.id) THEN NewCell(e.id, e.type, e.source)
          ELSE [(IF nb[at].type = e.type THEN nb[at] ELSE Cleared(nb[at]))
                   EXCEPT !.type = e.type, !.source = e.source]
  BY DEF Replaced
<1>4. /\ HasCell(nb, e.id) => at \in 1..Len(nb) /\ nb[at].id = e.id /\ nb[at] \in Cell
      /\ ~HasCell(nb, e.id) => \A i \in 1..Len(nb) : nb[i].id # e.id
  BY <1>1, PositionFound, LastPositionFound DEF HasCell
<1>9. ASSUME e.id # New, taken PROVE RepeatsId(incoming)
  <2>1. PICK i \in 1..j - 1 : incoming[i].id = e.id
    BY <1>9
  <2>2. i \in 1..Len(incoming) /\ j \in 1..Len(incoming) /\ i # j
    OBVIOUS
  <2> QED
    BY <1>9, <2>1, <2>2 DEF RepeatsId
<1>5. e.id # New => e.id \in Names \cup 1..(nextId - 1)
  BY <1>1, NotebookAssumption DEF Ids
<1> HIDE DEF c, e, m, at, taken
<1>6. CASE e.id = New
  <2>1. nextId + m \in Ids
    BY <1>1, <1>2, <1>6 DEF Ids
  <2>2. c \in Cell /\ c.id = nextId + m /\ c.outs = <<>> /\ c.count = 0
    BY <1>1, <1>3, <1>6, <2>1, NewCellTyped
  <2>3. \A i \in 1..Len(nb) : nb[i].id # c.id
    BY <1>1, <1>2, <2>2, FreshId
  <2>4. KeptFrom(nb, c)
    BY <2>2, <2>3 DEF KeptFrom
  <2> QED
    BY <1>2, <1>6, <2>2, <2>4 DEF c, e, m
<1>7. CASE e.id # New /\ (taken \/ ~HasCell(nb, e.id))
  <2>1. e.id \in Ids
    BY <1>1, <1>7
  <2>2. c \in Cell /\ c.id = e.id /\ c.outs = <<>> /\ c.count = 0
    BY <1>1, <1>3, <1>7, <2>1, NewCellTyped
  <2>3. taken \/ KeptFrom(nb, c)
    BY <1>4, <1>7, <2>2 DEF KeptFrom
  <2> QED
    BY <1>5, <1>7, <1>9, <2>2, <2>3 DEF c, e
<1>8. CASE e.id # New /\ ~taken /\ HasCell(nb, e.id)
  <2> DEFINE d == IF nb[at].type = e.type THEN nb[at] ELSE Cleared(nb[at])
  <2>1. /\ d \in Cell /\ d.id = e.id
        /\ nb[at].type = e.type => d = nb[at]
    BY <1>4, <1>8, ClearedTyped
  <2>2. c = [d EXCEPT !.type = e.type, !.source = e.source]
    BY <1>3, <1>8
  <2> HIDE DEF d
  <2>3. c \in Cell /\ c.id = e.id /\ c.type = e.type /\ c.outs = d.outs /\ c.count = d.count
    BY <1>1, <2>1, <2>2 DEF Cell, CellWith
  <2>4. KeptFrom(nb, c)
    BY <1>4, <1>8, <2>1, <2>3 DEF KeptFrom
  <2> QED
    BY <1>5, <1>8, <2>3, <2>4 DEF c, e
<1> QED
  BY <1>6, <1>7, <1>8

LEMMA CellsReplaced ==
    ASSUME nextId \in 1..(MaxIds + 1), NEW nb, Cellular(nb, nextId),
           NEW k \in Nat, NEW incoming \in [1..k -> Incoming],
           \A j \in 1..k : incoming[j].id \notin nextId..MaxIds,
           nextId + NewBefore(incoming, k + 1) <= MaxIds + 1
    PROVE  LET nb2 == [j \in 1..k |-> Replaced(nb, incoming, j)] IN
           /\ Cellular(nb2, nextId + NewBefore(incoming, k + 1)) /\ Len(nb2) = k
           /\ IF RepeatsId(incoming) THEN ~Unique(nb2) ELSE Unique(nb2) /\ Keeps(nb, nb2)
<1> DEFINE nb2 == [j \in 1..k |-> Replaced(nb, incoming, j)]
           total == NewBefore(incoming, k + 1)
<1>1. ASSUME NEW j \in 1..k
      PROVE  /\ nb2[j] \in Cell
             /\ incoming[j].id = New =>
                    nb2[j].id = nextId + NewBefore(incoming, j) /\ NewBefore(incoming, j) < total
             /\ incoming[j].id # New =>
                    nb2[j].id = incoming[j].id /\ nb2[j].id \in Names \cup 1..(nextId - 1)
             /\ RepeatsId(incoming) \/ KeptFrom(nb, nb2[j])
  <2>1. nb2[j] = Replaced(nb, incoming, j)
    OBVIOUS
  <2> QED
    BY <2>1, ReplacedCell
<1>2. nb2 \in Seq(Cell) /\ Len(nb2) = k
  <2>1. nb2 \in [1..k -> Cell]
    BY <1>1
  <2> HIDE DEF nb2
  <2> QED
    BY <2>1
<1>3. total \in Nat /\ \A j \in 1..k : NewBefore(incoming, j) \in Nat
  <2>1. k + 1 \in 1..(k + 1) /\ \A j \in 1..k : j \in 1..(k + 1)
    OBVIOUS
  <2> QED
    BY <2>1, NewCounted
<1>4. \A i, j \in 1..k : i < j /\ incoming[i].id = New => NewBefore(incoming, i) < NewBefore(incoming, j)
  <2> SUFFICES ASSUME NEW i \in 1..k, NEW j \in 1..k, i < j, incoming[i].id = New
               PROVE  NewBefore(incoming, i) < NewBefore(incoming, j)
    OBVIOUS
  <2>1. j \in 1..(k + 1) /\ i \in 1..(j - 1)
    OBVIOUS
  <2> QED
    BY <2>1, NewCounted
<1> HIDE DEF nb2, total
<1>5. \A j \in 1..k : nb2[j].id \in Names \cup 1..(nextId + total - 1)
  <2> SUFFICES ASSUME NEW j \in 1..k PROVE nb2[j].id \in Names \cup 1..(nextId + total - 1)
    OBVIOUS
  <2>1. CASE incoming[j].id = New
    BY <1>1, <1>3, <2>1
  <2>2. CASE incoming[j].id # New
    <3>1. 1..(nextId - 1) \subseteq 1..(nextId + total - 1)
      BY <1>3
    <3> QED
      BY <1>1, <2>2, <3>1
  <2> QED
    BY <2>1, <2>2
<1>6. ASSUME ~RepeatsId(incoming)
      PROVE  \A i, j \in 1..k : nb2[i].id = nb2[j].id => i = j
  <2> SUFFICES ASSUME NEW i \in 1..k, NEW j \in 1..k, nb2[i].id = nb2[j].id
               PROVE  i = j
    OBVIOUS
  <2>1. CASE incoming[i].id # New /\ incoming[j].id # New
    BY <1>1, <1>6, <2>1 DEF RepeatsId
  <2>2. CASE incoming[i].id = New /\ incoming[j].id = New
    <3>1. NewBefore(incoming, i) = NewBefore(incoming, j)
      BY <1>1, <1>3, <2>2
    <3> QED
      BY <1>3, <1>4, <2>2, <3>1
  <2>3. \A x, y \in 1..k : incoming[x].id = New /\ incoming[y].id # New => nb2[x].id # nb2[y].id
    <3> SUFFICES ASSUME NEW x \in 1..k, NEW y \in 1..k, incoming[x].id = New, incoming[y].id # New,
                        nb2[x].id = nb2[y].id
                 PROVE  FALSE
      OBVIOUS
    <3>1. nb2[x].id = nextId + NewBefore(incoming, x) /\ nb2[y].id \in Names \cup 1..(nextId - 1)
      BY <1>1
    <3>2. nextId + NewBefore(incoming, x) \in Int /\ nextId + NewBefore(incoming, x) \notin 1..(nextId - 1)
      BY <1>3
    <3> QED
      BY <3>1, <3>2, NotebookAssumption
  <2> QED
    BY <2>1, <2>2, <2>3
<1>7. ~RepeatsId(incoming) => Unique(nb2) /\ Keeps(nb, nb2)
  BY <1>1, <1>2, <1>6 DEF Keeps, Unique
<1>8. Cellular(nb2, nextId + total)
  BY <1>2, <1>3, <1>5 DEF Cellular
<1>9. ASSUME RepeatsId(incoming) PROVE ~Unique(nb2)
  <2>1. PICK i, j \in 1..k : i # j /\ incoming[i].id = incoming[j].id /\ incoming[i].id # New
    BY <1>9 DEF RepeatsId
  <2>2. nb2[i].id = nb2[j].id
    BY <1>1, <2>1
  <2> QED
    BY <1>2, <2>1, <2>2 DEF Unique
<1> QED
  BY <1>2, <1>7, <1>8, <1>9 DEF nb2, total

LEMMA OutputsCleared ==
    ASSUME NEW n \in Nat, NEW nb, Cellular(nb, n)
    PROVE  LET nb2 == [i \in 1..Len(nb) |-> Cleared(nb[i])] IN
           Cellular(nb2, n) /\ (Sound(nb) => Sound(nb2))
<1> DEFINE nb2 == [i \in 1..Len(nb) |-> Cleared(nb[i])]
<1>1. nb \in Seq(Cell) /\ Len(nb) \in Nat
  BY DEF Cellular
<1>2. \A i \in 1..Len(nb) : nb2[i] \in Cell /\ nb2[i].id = nb[i].id
  BY <1>1, ClearedTyped
<1>3. nb2 \in Seq(Cell) /\ Len(nb2) = Len(nb) /\ (nb # <<>> => nb2 # <<>>)
  <2>1. nb2 \in [1..Len(nb) -> Cell]
    BY <1>2
  <2> HIDE DEF nb2
  <2> QED
    BY <2>1, <1>1
<1> HIDE DEF nb2
<1> QED
  BY <1>2, <1>3 DEF Sound, Cellular, Unique, nb2

(* What is written of a notebook has its cells.                            *)
LEMMA WrittenTyped ==
    ASSUME NEW n \in Nat, NEW nb, Cellular(nb, n)
    PROVE  Cellular(Written(nb), n)
<1>1. nb \in Seq(Cell) /\ Len(nb) \in Nat
  BY DEF Cellular
<1>2. \A i \in 1..Len(nb) : Written(nb)[i] \in Cell /\ Written(nb)[i].id = nb[i].id
  BY <1>1, ClearedTyped DEF Written
<1>3. Written(nb) \in Seq(Cell) /\ Len(Written(nb)) = Len(nb)
  <2>1. Written(nb) \in [1..Len(nb) -> Cell]
    BY <1>2 DEF Written
  <2> QED
    BY <2>1, <1>1
<1> QED
  BY <1>2, <1>3 DEF Cellular

LEMMA CellCleared ==
    ASSUME NEW n \in Nat, NEW nb, Cellular(nb, n), NEW id, HasCell(nb, id)
    PROVE  LET nb2 == Update(nb, id, Cleared) IN
           Cellular(nb2, n) /\ (Sound(nb) => Sound(nb2)) /\ KeepsBut(nb, nb2, id)
<1> DEFINE k == Position(nb, id)
           c == Cleared(nb[k])
<1>1. k \in 1..Len(nb) /\ nb[k] \in Cell /\ nb[k].id = id
  BY PositionFound, ElementOfSeq DEF Cellular, HasCell
<1>2. c \in Cell /\ c.id = nb[k].id
  BY <1>1, ClearedTyped
<1>3. Update(nb, id, Cleared) = [nb EXCEPT ![k] = c]
  BY DEF Update
<1> HIDE DEF k, c
<1> DEFINE nb2 == [nb EXCEPT ![k] = c]
<1>4. /\ Cellular(nb2, n) /\ (Sound(nb) => Sound(nb2)) /\ Len(nb2) = Len(nb)
      /\ nb2[k] = c /\ \A j \in 1..Len(nb) : j # k => nb2[j] = nb[j]
  BY <1>1, <1>2, UpdatedInPlace
<1> HIDE DEF nb2
<1>6. \A j \in 1..Len(nb) : KeptFrom(nb, nb[j])
  BY DEF KeptFrom
<1>7. KeepsBut(nb, nb2, id)
  BY <1>1, <1>2, <1>4, <1>6 DEF KeepsBut
<1> QED
  BY <1>3, <1>4, <1>7 DEF nb2

LEMMA AppliedTyped ==
    ASSUME NEW c \in Cell, NEW n \in Runs, NEW kind \in EventKinds
    PROVE  Applied(c, n, kind) \in Cell /\ Applied(c, n, kind).id = c.id
<1>1. <<>> \in Seq(Runs) /\ n \in 0..MaxRuns /\ Append(c.outs, n) \in Seq(Runs)
  BY NotebookAssumption DEF Cell, CellWith, Runs
<1>2. CASE kind = "input"
  BY <1>1, <1>2 DEF Applied, Cell, CellWith
<1>3. CASE kind = "output"
  BY <1>1, <1>3 DEF Applied, Cell, CellWith
<1>4. CASE kind = "result"
  BY <1>1, <1>4 DEF Applied, Cell, CellWith
<1>5. CASE kind = "clear"
  BY <1>1, <1>5 DEF Applied, Cell, CellWith
<1> QED
  BY <1>2, <1>3, <1>4, <1>5 DEF EventKinds

(* An event changes the cell of its run, and no other.                     *)
LEMMA EventApplied ==
    ASSUME NEW m \in Nat, NEW nb, Cellular(nb, m), NEW id, HasCell(nb, id),
           NEW n \in Runs, NEW kind \in EventKinds
    PROVE  LET nb2 == Update(nb, id, LAMBDA c : Applied(c, n, kind)) IN
           Cellular(nb2, m) /\ (Sound(nb) => Sound(nb2)) /\ KeepsBut(nb, nb2, id)
<1> DEFINE k == Position(nb, id)
           c == Applied(nb[k], n, kind)
<1>1. k \in 1..Len(nb) /\ nb[k] \in Cell /\ nb[k].id = id
  BY PositionFound, ElementOfSeq DEF Cellular, HasCell
<1>2. c \in Cell /\ c.id = nb[k].id
  BY <1>1, AppliedTyped
<1>3. Update(nb, id, LAMBDA x : Applied(x, n, kind)) = [nb EXCEPT ![k] = c]
  BY DEF Update
<1> HIDE DEF k, c
<1> DEFINE nb2 == [nb EXCEPT ![k] = c]
<1>4. /\ Cellular(nb2, m) /\ (Sound(nb) => Sound(nb2)) /\ Len(nb2) = Len(nb)
      /\ nb2[k] = c /\ \A j \in 1..Len(nb) : j # k => nb2[j] = nb[j]
  BY <1>1, <1>2, UpdatedInPlace
<1> HIDE DEF nb2
<1>6. \A j \in 1..Len(nb) : KeptFrom(nb, nb[j])
  BY DEF KeptFrom
<1>7. KeepsBut(nb, nb2, id)
  BY <1>1, <1>2, <1>4, <1>6 DEF KeepsBut
<1> QED
  BY <1>3, <1>4, <1>7 DEF nb2

-----------------------------------------------------------------------------
(* What a file has: cells with ids made before n or given by clients, or   *)
(* without one.                                                            *)
InFile(nb, n) ==
    /\ nb \in Seq(FileCell)
    /\ \A i \in 1..Len(nb) : nb[i].id \in Names \cup {New} \cup 1..(n - 1)

LEMMA FileCells == Cell \subseteq FileCell /\ Seq(Cell) \subseteq Seq(FileCell)
<1>1. Cell \subseteq FileCell
  BY DEF Cell, FileCell, CellWith
<1> QED
  BY <1>1

(* A file is read: what lacks an id gets one, and no two get the same.     *)
LEMMA CellsLoaded ==
    ASSUME nextId \in 1..(MaxIds + 1), NEW nb, InFile(nb, nextId),
           nextId + NewBefore(nb, Len(nb) + 1) <= MaxIds + 1
    PROVE  /\ NewBefore(nb, Len(nb) + 1) \in Nat
           /\ Cellular(CellsRead(nb), nextId + NewBefore(nb, Len(nb) + 1))
           /\ Addressable(nb) => Sound(CellsRead(nb))
<1> DEFINE k == Len(nb)
           nb2 == CellsRead(nb)
           total == NewBefore(nb, k + 1)
<1>1. k \in Nat /\ nb \in Seq(FileCell) /\ nextId \in Nat /\ MaxIds \in Nat
  BY NotebookAssumption DEF InFile
<1>2. total \in Nat /\ \A j \in 1..k : NewBefore(nb, j) \in Nat
  <2>1. k + 1 \in 1..(k + 1) /\ \A j \in 1..k : j \in 1..(k + 1)
    BY <1>1
  <2> HIDE DEF k
  <2> QED
    BY <1>1, <2>1, NewCounted
<1>3. \A j \in 1..(k + 1) : \A i \in 1..(j - 1) :
          nb[i].id = New => NewBefore(nb, i) < NewBefore(nb, j)
  <2> HIDE DEF k
  <2> QED
    BY <1>1, NewCounted
<1>4. ASSUME NEW j \in 1..k
      PROVE  /\ nb2[j] \in Cell
             /\ nb[j].id = New => nb2[j].id = nextId + NewBefore(nb, j) /\ NewBefore(nb, j) < total
             /\ nb[j].id # New => nb2[j].id = nb[j].id /\ nb2[j].id \in Names \cup 1..(nextId - 1)
  <2>1. nb[j] \in FileCell /\ nb[j].id \in Names \cup {New} \cup 1..(nextId - 1)
    BY <1>1 DEF InFile
  <2>2. nb[j].id = New => NewBefore(nb, j) < total
    <3>1. k + 1 \in 1..(k + 1) /\ j \in 1..((k + 1) - 1)
      BY <1>1
    <3> HIDE DEF k
    <3> QED
      BY <1>3, <3>1
  <2>3. nb2[j] = IF nb[j].id = New THEN [nb[j] EXCEPT !.id = nextId + NewBefore(nb, j)] ELSE nb[j]
    BY DEF CellsRead
  <2> HIDE DEF nb2, total, k
  <2>4. CASE nb[j].id = New
    <3>1. nextId + NewBefore(nb, j) \in Ids
      BY <1>1, <1>2, <2>2, <2>4 DEF Ids, total, k
    <3> QED
      BY <2>1, <2>2, <2>3, <2>4, <3>1 DEF Cell, FileCell, CellWith
  <2>5. CASE nb[j].id # New
    <3>1. nb[j].id \in Ids /\ nb[j].id \in Names \cup 1..(nextId - 1)
      BY <1>1, <2>1, <2>5 DEF Ids
    <3>2. nb[j] \in Cell
      BY <2>1, <3>1 DEF Cell, FileCell, CellWith
    <3> QED
      BY <2>3, <2>5, <3>1, <3>2
  <2> QED
    BY <2>4, <2>5
<1>5. nb2 \in Seq(Cell) /\ Len(nb2) = k
  <2>1. nb2 \in [1..k -> Cell]
    <3>1. DOMAIN nb2 = 1..k /\ nb2 = [j \in 1..k |-> nb2[j]]
      BY DEF CellsRead
    <3> HIDE DEF nb2, k
    <3> QED
      BY <1>4, <3>1
  <2> HIDE DEF nb2
  <2> QED
    BY <1>1, <2>1
<1> HIDE DEF nb2, total, k
<1>6. \A j \in 1..k : nb2[j].id \in Names \cup 1..(nextId + total - 1)
  <2> SUFFICES ASSUME NEW j \in 1..k PROVE nb2[j].id \in Names \cup 1..(nextId + total - 1)
    OBVIOUS
  <2>1. CASE nb[j].id = New
    BY <1>1, <1>2, <1>4, <2>1
  <2>2. CASE nb[j].id # New
    <3>1. 1..(nextId - 1) \subseteq 1..(nextId + total - 1)
      BY <1>1, <1>2
    <3> QED
      BY <1>4, <2>2, <3>1
  <2> QED
    BY <2>1, <2>2
<1>7. ASSUME Addressable(nb), NEW i \in 1..k, NEW j \in 1..k, nb2[i].id = nb2[j].id
      PROVE  i = j
  <2>1. CASE nb[i].id # New /\ nb[j].id # New
    BY <1>4, <1>7, <2>1 DEF Addressable, RepeatsId, k
  <2>2. CASE nb[i].id = New /\ nb[j].id = New
    <3>1. NewBefore(nb, i) = NewBefore(nb, j) /\ NewBefore(nb, i) \in Nat
      BY <1>1, <1>2, <1>4, <1>7, <2>2
    <3>2. \A x, y \in 1..k : x < y => y \in 1..(k + 1) /\ x \in 1..(y - 1)
      BY <1>1
    <3>3. ~ (i < j) /\ ~ (j < i)
      BY <1>3, <2>2, <3>1, <3>2
    <3> QED
      BY <1>1, <3>3
  <2>3. \A x, y \in 1..k : nb[x].id = New /\ nb[y].id # New => nb2[x].id # nb2[y].id
    <3> SUFFICES ASSUME NEW x \in 1..k, NEW y \in 1..k, nb[x].id = New, nb[y].id # New,
                        nb2[x].id = nb2[y].id
                 PROVE  FALSE
      OBVIOUS
    <3>1. nb2[x].id = nextId + NewBefore(nb, x) /\ nb2[y].id \in Names \cup 1..(nextId - 1)
      BY <1>4
    <3>2. nextId + NewBefore(nb, x) \in Int /\ nextId + NewBefore(nb, x) \notin 1..(nextId - 1)
      BY <1>1, <1>2
    <3> QED
      BY <3>1, <3>2, NotebookAssumption
  <2> QED
    BY <1>7, <2>1, <2>2, <2>3
<1>8. Addressable(nb) => nb2 # <<>>
  <2> SUFFICES ASSUME nb # <<>> PROVE nb2 # <<>>
    BY DEF Addressable
  <2>1. Len(nb) # 0
    BY <1>1
  <2>2. Len(nb2) # 0
    BY <2>1, <1>5 DEF k
  <2> QED
    BY <2>2
<1>9. Cellular(nb2, nextId + total)
  <2> DEFINE m == nextId + total
  <2>1. \A j \in 1..Len(nb2) : nb2[j].id \in Names \cup 1..(m - 1)
    BY <1>1, <1>2, <1>5, <1>6
  <2> HIDE DEF m
  <2>2. Cellular(nb2, m)
    BY <1>5, <2>1 DEF Cellular
  <2> QED
    BY <2>2 DEF m
<1>10. ASSUME Addressable(nb) PROVE Sound(nb2)
  <2>1. Unique(nb2)
    BY <1>5, <1>7, <1>10 DEF Unique
  <2> QED
    BY <1>8, <1>10, <2>1 DEF Sound
<1>11. Addressable(nb) => Sound(nb2)
  BY <1>10
<1> QED
  BY <1>2, <1>9, <1>11, Zenon DEF nb2, total, k

LEMMA SoundIsAddressable ==
    ASSUME NEW nb \in Seq(Cell)
    PROVE  Addressable(nb) <=> Sound(nb)
<1>1. \A i \in 1..Len(nb) : nb[i].id # New
  <2> SUFFICES ASSUME NEW i \in 1..Len(nb) PROVE nb[i].id # New
    OBVIOUS
  <2>1. nb[i] \in Cell
    OBVIOUS
  <2>2. nb[i].id \in Ids
    BY <2>1 DEF Cell, CellWith
  <2> QED
    BY <2>2, NotebookAssumption DEF Ids
<1> QED
  BY <1>1 DEF Addressable, RepeatsId, Sound, Unique

-----------------------------------------------------------------------------
(* The invariant: notebooks have ids made before, wherever they are kept,  *)
(* and a save writes the notebook that its session still has.              *)

SessionsGood ==
    \A s \in Sessions : IF path[s] = Closed THEN cells[s] = <<>> ELSE Cellular(cells[s], nextId)

SavesGood ==
    \A i \in SaveTasks : save[i] # NoSave =>
        /\ save[i].step \in {"head", "tail"}
        /\ save[i].session \in Sessions /\ path[save[i].session] # Closed
        /\ save[i].path \in Paths
        /\ save[i].nb = Written(cells[save[i].session])

FilesGood ==
    \A p \in Paths :
        /\ Len(file[p]) <= 2
        /\ Len(file[p]) = 2 => InFile(file[p][2], nextId)

NInv == TypeOK /\ SessionsGood /\ SavesGood /\ FilesGood

(* What an edit does to session s.                                         *)
Edited(s, nb, fresh) ==
    /\ Edit(s, nb, fresh)
    /\ fresh \in Nat
    /\ Cellular(nb, nextId + fresh)
    /\ Sound(cells[s]) => Sound(nb) \/ GetsRepeatedId(s)
    /\ Sound(nb) =>
          \/ Keeps(cells[s], nb)
          \/ ClearOutputs(s)
          \/ \E id \in Ids : ClearCellOutput(s, id) /\ KeepsBut(cells[s], nb, id)

LEMMA EditsTyped ==
    ASSUME NInv, NEW s \in Sessions, EditRequest(s)
    PROVE  \E nb, fresh : Edited(s, nb, fresh)
<1> DEFINE nb == cells[s]
<1>1. nextId \in 1..(MaxIds + 1) /\ nextId \in Nat /\ MaxIds \in Nat /\ MaxCells \in Nat
  BY NotebookAssumption DEF NInv, TypeOK
<1>2. Writable(s)
  BY DEF EditRequest, UpdateCellSource, SetCellType, MoveCell, DeleteCell, ClearCellOutput,
         InsertCell, ReplaceCells, ClearOutputs, Edit
<1>3. Cellular(nb, nextId) /\ nb \in Seq(Cell)
  BY <1>2 DEF NInv, SessionsGood, Writable, Cellular
<1>4. nextId + 0 = nextId /\ nextId + 1 \in Nat
  BY <1>1
<1>5. ASSUME NEW id \in Names \cup 1..(nextId - 1), NEW source \in Sources, UpdateCellSource(s, id, source)
      PROVE  \E nb2, fresh : Edited(s, nb2, fresh)
  <2>1. CASE HasCell(nb, id)
    <3> DEFINE nb2 == Update(nb, id, LAMBDA c : [c EXCEPT !.source = source])
    <3>1. Edit(s, nb2, 0)
      BY <1>5, <2>1 DEF UpdateCellSource
    <3>2. Cellular(nb2, nextId) /\ (Sound(nb) => Sound(nb2)) /\ Keeps(nb, nb2)
      BY <1>1, <1>3, <2>1, SourceUpdated
    <3> QED
      BY <1>4, <3>1, <3>2 DEF Edited
  <2>2. CASE ~HasCell(nb, id)
    <3> DEFINE nb2 == Append(nb, NewCell(id, "code", source))
    <3>1. Edit(s, nb2, 0)
      BY <1>5, <2>2 DEF UpdateCellSource
    <3>2. Cellular(nb2, nextId) /\ (Sound(nb) => Sound(nb2)) /\ Keeps(nb, nb2)
      BY <1>1, <1>3, <2>2, CellAppended
    <3> QED
      BY <1>4, <3>1, <3>2 DEF Edited
  <2> QED
    BY <2>1, <2>2
<1>6. ASSUME NEW id \in Names \cup 1..(nextId - 1), NEW type \in Types, SetCellType(s, id, type)
      PROVE  \E nb2, fresh : Edited(s, nb2, fresh)
  <2> DEFINE nb2 == Update(nb, id, LAMBDA c : Retyped(c, type))
  <2>1. Edit(s, nb2, 0) /\ HasCell(nb, id)
    BY <1>6 DEF SetCellType
  <2>2. /\ Cellular(nb2, nextId) /\ (Sound(nb) => Sound(nb2))
        /\ Keeps(nb, nb2) \/ nb2 = Update(nb, id, Cleared)
    BY <1>1, <1>3, <2>1, CellRetyped
  <2>3. id \in Ids
    BY <1>1 DEF Ids
  <2>4. ASSUME nb2 = Update(nb, id, Cleared)
        PROVE  ClearCellOutput(s, id) /\ KeepsBut(nb, nb2, id)
    <3>1. KeepsBut(nb, Update(nb, id, Cleared), id)
      BY <1>1, <1>3, <2>1, CellCleared
    <3> QED
      BY <2>1, <2>4, <3>1 DEF ClearCellOutput
  <2> HIDE DEF nb2
  <2> QED
    BY <1>4, <2>1, <2>2, <2>3, <2>4 DEF Edited
<1>7. ASSUME NEW id, NEW delta \in {-1, 1}, MoveCell(s, id, delta)
      PROVE  \E nb2, fresh : Edited(s, nb2, fresh)
  <2> DEFINE at == Position(nb, id)
             to == Max({1, Min({Len(nb), at + delta})})
             nb2 == InsertAt(RemoveAt(nb, at), to, nb[at])
  <2>1. Edit(s, nb2, 0) /\ HasCell(nb, id)
    BY <1>7 DEF MoveCell
  <2>2. Cellular(nb2, nextId) /\ (Sound(nb) => Sound(nb2)) /\ Keeps(nb, nb2)
    <3>1. delta \in Int
      OBVIOUS
    <3> QED
      BY <1>1, <1>3, <2>1, <3>1, CellMoved
  <2> HIDE DEF nb2
  <2> QED
    BY <1>4, <2>1, <2>2 DEF Edited
<1>8. ASSUME NEW id, DeleteCell(s, id)
      PROVE  \E nb2, fresh : Edited(s, nb2, fresh)
  <2> DEFINE rest == RemoveAt(nb, Position(nb, id))
  <2>1. Edit(s, NeverEmpty(rest), IF rest = <<>> THEN 1 ELSE 0) /\ HasCell(nb, id)
    BY <1>8 DEF DeleteCell
  <2>2. Cellular(rest, nextId) /\ (Unique(nb) => Unique(rest)) /\ Keeps(nb, rest)
    BY <1>1, <1>3, <2>1, CellDeleted
  <2> HIDE DEF rest
  <2>3. CASE rest = <<>>
    <3>1. Edit(s, FreshNotebook(nextId), 1)
      BY <2>1, <2>3 DEF NeverEmpty
    <3>2. nextId \in 1..MaxIds
      BY <1>1, <3>1 DEF Edit
    <3>3. /\ Cellular(FreshNotebook(nextId), nextId + 1) /\ Sound(FreshNotebook(nextId))
          /\ Keeps(nb, FreshNotebook(nextId))
      BY <1>3, <3>2, Fresh
    <3> QED
      BY <3>1, <3>3 DEF Edited
  <2>4. CASE rest # <<>>
    <3>1. Edit(s, rest, 0)
      BY <2>1, <2>4 DEF NeverEmpty
    <3>2. Sound(nb) => Sound(rest)
      BY <2>2, <2>4 DEF Sound
    <3> QED
      BY <1>4, <2>2, <3>1, <3>2 DEF Edited
  <2> QED
    BY <2>3, <2>4
<1>9. ASSUME NEW id \in Names \cup 1..(nextId - 1), ClearCellOutput(s, id)
      PROVE  \E nb2, fresh : Edited(s, nb2, fresh)
  <2> DEFINE nb2 == Update(nb, id, Cleared)
  <2>1. Edit(s, nb2, 0) /\ HasCell(nb, id)
    BY <1>9 DEF ClearCellOutput
  <2>2. Cellular(nb2, nextId) /\ (Sound(nb) => Sound(nb2)) /\ KeepsBut(nb, nb2, id)
    BY <1>1, <1>3, <2>1, CellCleared
  <2>3. id \in Ids
    BY <1>1 DEF Ids
  <2> HIDE DEF nb2
  <2> QED
    BY <1>4, <1>9, <2>1, <2>2, <2>3 DEF Edited
<1>10. ASSUME NEW after \in -1..MaxCells, NEW type \in Types, InsertCell(s, after, type)
       PROVE  \E nb2, fresh : Edited(s, nb2, fresh)
  <2> DEFINE at == IF after + 1 <= Len(nb) THEN after + 1 ELSE Len(nb)
             nb2 == InsertAt(nb, at + 1, NewCell(nextId, type, EmptySource))
  <2>1. Edit(s, nb2, 1)
    BY <1>10 DEF InsertCell
  <2>2. Len(nb) \in Nat /\ at + 1 \in 1..(Len(nb) + 1)
    <3>1. Len(nb) \in Nat
      BY <1>3
    <3> HIDE DEF nb
    <3> QED
      BY <1>1, <3>1
  <2>3. nextId \in 1..MaxIds
    BY <1>1, <2>1 DEF Edit
  <2>4. EmptySource \in Sources
    BY NotebookAssumption
  <2> HIDE DEF at
  <2>5. Cellular(nb2, nextId + 1) /\ (Unique(nb) => Sound(nb2)) /\ Keeps(nb, nb2)
    BY <1>3, <2>2, <2>3, <2>4, NewInserted
  <2> HIDE DEF nb2
  <2> QED
    BY <2>1, <2>5 DEF Edited, Sound
<1>11. ASSUME NEW n \in 0..MaxCells, NEW incoming \in [1..n -> Incoming],
              \A i \in 1..n : incoming[i].id \notin nextId..MaxIds,
              ReplaceCells(s, incoming)
       PROVE  \E nb2, fresh : Edited(s, nb2, fresh)
  <2> DEFINE nb2 == [j \in 1..n |-> Replaced(nb, incoming, j)]
             total == NewBefore(incoming, n + 1)
  <2>1. Len(incoming) = n /\ n \in Nat
    BY <1>1
  <2>2. Edit(s, NeverEmpty(nb2), IF n = 0 THEN 1 ELSE total)
    BY <1>11, <2>1 DEF ReplaceCells
  <2>3. CASE n = 0
    <3>1. nb2 = <<>>
      BY <2>3
    <3> HIDE DEF nb2
    <3>2. Edit(s, FreshNotebook(nextId), 1)
      BY <2>2, <2>3, <3>1 DEF NeverEmpty
    <3>3. nextId \in 1..MaxIds
      BY <1>1, <3>2 DEF Edit
    <3>4. /\ Cellular(FreshNotebook(nextId), nextId + 1) /\ Sound(FreshNotebook(nextId))
          /\ Keeps(nb, FreshNotebook(nextId))
      BY <1>3, <3>3, Fresh
    <3> QED
      BY <3>2, <3>4 DEF Edited
  <2>4. CASE n # 0
    <3>1. total \in Nat
      <4>1. n + 1 \in 1..(n + 1)
        BY <2>1
      <4> QED
        BY <2>1, <4>1, NewCounted
    <3>2. Edit(s, NeverEmpty(nb2), total)
      BY <2>2, <2>4
    <3>3. nextId + total <= MaxIds + 1
      BY <3>2 DEF Edit
    <3>4. /\ Cellular(nb2, nextId + total) /\ Len(nb2) = n
          /\ IF RepeatsId(incoming) THEN ~Unique(nb2) ELSE Unique(nb2) /\ Keeps(nb, nb2)
      BY <1>1, <1>3, <1>11, <2>1, <3>3, CellsReplaced
    <3>7. RepeatsId(incoming) => GetsRepeatedId(s)
      BY <1>11 DEF GetsRepeatedId
    <3> HIDE DEF nb2, total
    <3>5. nb2 # <<>>
      BY <2>4, <3>4
    <3>6. Edit(s, nb2, total)
      BY <3>2, <3>5 DEF NeverEmpty
    <3> QED
      BY <3>1, <3>4, <3>5, <3>6, <3>7 DEF Edited, Sound
  <2> QED
    BY <2>3, <2>4
<1>12. ASSUME ClearOutputs(s)
       PROVE  \E nb2, fresh : Edited(s, nb2, fresh)
  <2> DEFINE nb2 == [i \in 1..Len(nb) |-> Cleared(nb[i])]
  <2>1. Edit(s, nb2, 0)
    BY <1>12 DEF ClearOutputs
  <2>2. Cellular(nb2, nextId) /\ (Sound(nb) => Sound(nb2))
    BY <1>1, <1>3, OutputsCleared
  <2> HIDE DEF nb2
  <2> QED
    BY <1>4, <1>12, <2>1, <2>2 DEF Edited
<1> QED
  BY <1>5, <1>6, <1>7, <1>8, <1>9, <1>10, <1>11, <1>12 DEF EditRequest

(* Notebooks keep their types as more ids are made.                        *)
LEMMA CellularLater ==
    ASSUME NEW n \in Nat, NEW m \in Nat, n <= m, NEW nb
    PROVE  /\ Cellular(nb, n) => Cellular(nb, m)
           /\ InFile(nb, n) => InFile(nb, m)
<1>1. 1..(n - 1) \subseteq 1..(m - 1)
  OBVIOUS
<1> QED
  BY <1>1 DEF Cellular, InFile

(* A step that leaves files and saves alone, and changes at most one       *)
(* session that no save is writing.                                        *)
LEMMA SessionChanged ==
    ASSUME NInv, NEW s \in Sessions, \A i \in SaveTasks : save[i] # NoSave => save[i].session # s,
           requests' \in 0..MaxRequests, nextId' \in 1..(MaxIds + 1), nextId <= nextId',
           NEW q \in Paths \cup {Closed}, path' = [path EXCEPT ![s] = q],
           NEW nb \in Seq(Cell), cells' = [cells EXCEPT ![s] = nb],
           IF q = Closed THEN nb = <<>> ELSE Cellular(nb, nextId'),
           route' \in [Runs -> {<<>>} \cup (Sessions \X Ids)],
           UNCHANGED <<lastRun, save, fileVars>>
    PROVE  NInv'
<1>1. nextId \in Nat /\ nextId' \in Nat
  BY DEF NInv, TypeOK
<1>2. UNCHANGED <<lastRun, save, file, saved, spoiled>>
  BY DEF fileVars
<1>3. path \in [Sessions -> Paths \cup {Closed}] /\ cells \in [Sessions -> Seq(Cell)]
  BY DEF NInv, TypeOK
<1>4. path' \in [Sessions -> Paths \cup {Closed}] /\ cells' \in [Sessions -> Seq(Cell)]
  BY <1>3
<1>5. TypeOK'
  BY <1>2, <1>4 DEF NInv, TypeOK
<1>6. SessionsGood'
  <2> SUFFICES ASSUME NEW t \in Sessions
               PROVE  IF path'[t] = Closed THEN cells'[t] = <<>> ELSE Cellular(cells'[t], nextId')
    BY DEF SessionsGood, Cellular
  <2>1. CASE t = s
    BY <1>3, <2>1
  <2>2. CASE t # s
    <3>1. path'[t] = path[t] /\ cells'[t] = cells[t]
      BY <1>3, <2>2
    <3>2. path[t] # Closed => Cellular(cells[t], nextId')
      BY <1>1, CellularLater DEF NInv, SessionsGood
    <3> QED
      BY <3>1, <3>2 DEF NInv, SessionsGood
  <2> QED
    BY <2>1, <2>2
<1>7. SavesGood'
  <2> SUFFICES ASSUME NEW i \in SaveTasks, save[i] # NoSave
               PROVE  /\ save[i].step \in {"head", "tail"}
                      /\ save[i].session \in Sessions /\ path'[save[i].session] # Closed
                      /\ save[i].path \in Paths
                      /\ save[i].nb = Written(cells'[save[i].session])
    BY <1>2 DEF SavesGood, Written
  <2>1. /\ save[i].step \in {"head", "tail"}
        /\ save[i].session \in Sessions /\ path[save[i].session] # Closed
        /\ save[i].path \in Paths
        /\ save[i].nb = Written(cells[save[i].session])
        /\ save[i].session # s
    BY DEF NInv, SavesGood
  <2>2. path'[save[i].session] = path[save[i].session] /\ cells'[save[i].session] = cells[save[i].session]
    BY <1>3, <2>1
  <2> QED
    BY <2>1, <2>2
<1>8. FilesGood'
  <2> SUFFICES ASSUME NEW p \in Paths
               PROVE  Len(file[p]) <= 2 /\ (Len(file[p]) = 2 => InFile(file[p][2], nextId'))
    BY <1>2 DEF FilesGood, InFile
  <2> QED
    BY <1>1, CellularLater DEF NInv, FilesGood
<1> QED
  BY <1>5, <1>6, <1>7, <1>8 DEF NInv

LEMMA InitTyped == Init => NInv
<1> SUFFICES ASSUME Init PROVE NInv
  OBVIOUS
<1>1. <<>> \in Seq(Cell) /\ <<>> \in Seq(FileCell) /\ <<>> \in Seq(Seq(FileCell) \cup {Hole}) /\ Len(<<>>) = 0
  OBVIOUS
<1>5. ASSUME NEW p \in Paths
      PROVE  /\ file[p] \in Seq(Seq(FileCell) \cup {Hole}) /\ saved[p] \in Seq(FileCell)
             /\ Len(file[p]) <= 2 /\ (Len(file[p]) = 2 => InFile(file[p][2], nextId))
  <2>1. saved[p] = IF file[p] = <<>> THEN <<>> ELSE file[p][1]
    BY DEF Init
  <2>2. file[p] = <<>> \/ \E nb \in FilesFound : file[p] = <<nb, nb>>
    BY DEF Init
  <2>3. CASE file[p] = <<>>
    BY <1>1, <2>1, <2>3
  <2>4. ASSUME NEW nb \in FilesFound, file[p] = <<nb, nb>>
        PROVE  /\ file[p] \in Seq(Seq(FileCell) \cup {Hole}) /\ saved[p] \in Seq(FileCell)
               /\ Len(file[p]) <= 2 /\ InFile(file[p][2], nextId)
    <3>1. CellWith(Names \cup {New}) \subseteq FileCell
      BY DEF FileCell, CellWith, Ids
    <3>2. nb \in Seq(CellWith(Names \cup {New}))
      BY FilesAssumption
    <3>6. \A i \in 1..Len(nb) : nb[i] \in CellWith(Names \cup {New})
      BY <3>2, ElementOfSeq
    <3>7. \A S, T : S \subseteq T => Seq(S) \subseteq Seq(T)
      OBVIOUS
    <3>3. nb \in Seq(FileCell) /\ \A i \in 1..Len(nb) : nb[i] \in CellWith(Names \cup {New})
      BY <3>1, <3>2, <3>6, <3>7
    <3>4. \A i \in 1..Len(nb) : nb[i].id \in Names \cup {New}
      BY <3>3 DEF CellWith
    <3>5. InFile(nb, nextId)
      BY <3>3, <3>4 DEF InFile
    <3> QED
      BY <2>1, <2>4, <3>3, <3>5
  <2> QED
    BY <2>2, <2>3, <2>4
<1>6. file \in [Paths -> Seq(Seq(FileCell) \cup {Hole})] /\ saved \in [Paths -> Seq(FileCell)]
  <2>1. file = [p \in Paths |-> file[p]] /\ saved = [p \in Paths |-> saved[p]]
    BY DEF Init
  <2> QED
    BY <1>5, <2>1
<1>2. NoSave \in SaveTask
  BY <1>1 DEF NoSave, SaveTask
<1>3. TypeOK
  BY <1>1, <1>2, <1>6, NotebookAssumption DEF Init, TypeOK
<1>4. SessionsGood /\ SavesGood /\ FilesGood
  BY <1>1, <1>5 DEF Init, SessionsGood, SavesGood, FilesGood
<1> QED
  BY <1>3, <1>4 DEF NInv

(* The head of a file: one part, then those that were there.               *)
LEMMA HeadWritten ==
    ASSUME NEW S, NEW f \in Seq(S), Len(f) <= 2, NEW w \in S
    PROVE  LET g == <<w>> \o SubSeq(f, 2, Len(f)) IN
           /\ g \in Seq(S) /\ Len(g) <= 2 /\ g # <<>> /\ g[1] = w
           /\ Len(g) = 2 => Len(f) = 2 /\ g[2] = f[2]
           /\ Len(f) = 2 => g = <<w, f[2]>>
           /\ Len(f) < 2 => g = <<w>>
<1> DEFINE t == SubSeq(f, 2, Len(f))
           g == <<w>> \o t
<1>1. Len(f) \in Nat /\ \A j \in 1..Len(f) : f[j] \in S
  OBVIOUS
<1>2. /\ t \in Seq(S) /\ Len(t) = IF 2 <= Len(f) THEN Len(f) - 2 + 1 ELSE 0
      /\ \A j \in 1..(Len(f) - 2 + 1) : t[j] = f[2 + j - 1]
  BY <1>1, SubSeqProperties
<1>3. <<w>> \in Seq(S) /\ Len(<<w>>) = 1 /\ <<w>>[1] = w
  OBVIOUS
<1> HIDE DEF t
<1>4. /\ g \in Seq(S) /\ Len(g) = 1 + Len(t)
      /\ g[1] = w /\ (Len(t) = 1 => g[2] = t[1])
  <2>1. /\ g \in Seq(S) /\ Len(g) = Len(<<w>>) + Len(t)
        /\ \A j \in 1..Len(<<w>>) + Len(t) : g[j] = IF j <= Len(<<w>>) THEN <<w>>[j] ELSE t[j - Len(<<w>>)]
    BY <1>2, <1>3, ConcatProperties
  <2>2. Len(t) \in Nat
    BY <1>2
  <2> HIDE DEF g
  <2> QED
    BY <1>3, <2>1, <2>2
<1> HIDE DEF g
<1>5. Len(f) = 2 => Len(g) = 2 /\ g[2] = f[2] /\ g = <<w, f[2]>>
  <2> SUFFICES ASSUME Len(f) = 2 PROVE Len(g) = 2 /\ g[2] = f[2] /\ g = <<w, f[2]>>
    OBVIOUS
  <2>1. Len(g) = 2 /\ g[2] = f[2] /\ f[2] \in S
    BY <1>1, <1>2, <1>4
  <2>2. g = <<w, f[2]>>
    <3>1. <<w, f[2]>> \in Seq(S) /\ Len(<<w, f[2]>>) = 2 /\ <<w, f[2]>>[1] = w /\ <<w, f[2]>>[2] = f[2]
      BY <2>1
    <3>2. \A j \in 1..2 : j = 1 \/ j = 2
      OBVIOUS
    <3> QED
      BY <1>4, <2>1, <3>1, <3>2, SeqEqual
  <2> QED
    BY <2>1, <2>2
<1>6. Len(f) < 2 => Len(g) = 1 /\ g = <<w>>
  <2> SUFFICES ASSUME Len(f) < 2 PROVE Len(g) = 1 /\ g = <<w>>
    OBVIOUS
  <2>1. Len(g) = 1
    BY <1>1, <1>2, <1>4
  <2>2. g = <<w>>
    <3>1. \A j \in 1..1 : j = 1
      OBVIOUS
    <3> QED
      BY <1>3, <1>4, <2>1, <3>1, SeqEqual
  <2> QED
    BY <2>1, <2>2
<1>7. /\ g \in Seq(S) /\ Len(g) <= 2 /\ g # <<>> /\ g[1] = w
      /\ Len(g) = 2 => Len(f) = 2 /\ g[2] = f[2]
      /\ Len(f) = 2 => g = <<w, f[2]>>
      /\ Len(f) < 2 => g = <<w>>
  <2>1. Len(f) = 2 \/ Len(f) < 2
    <3>1. \A n \in Nat : n <= 2 => n = 2 \/ n < 2
      OBVIOUS
    <3> QED
      BY <1>1, <3>1
  <2>2. Len(g) = 1 + Len(t) /\ Len(t) \in Nat
    BY <1>2, <1>4
  <2>3. g # <<>>
    BY <1>4, <2>2
  <2> HIDE DEF g
  <2> QED
    BY <1>4, <1>5, <1>6, <2>1, <2>3
<1> QED
  BY <1>7 DEF g, t

LEMMA SaveStepTyped ==
    ASSUME NInv, requests' \in 0..MaxRequests
    PROVE  /\ \A i \in SaveTasks, s \in Sessions, p \in Paths : BeginSave(i, s, p) => NInv'
           /\ \A i \in SaveTasks : WriteHead(i) \/ WriteTail(i) \/ SaveFails(i) => NInv'
<1> USE DEF NInv
<1>1. /\ save \in [SaveTasks -> SaveTask] /\ nextId \in Nat
      /\ NoSave \in SaveTask /\ NoSave.step = "idle" /\ <<>> \in Seq(Cell)
      /\ file \in [Paths -> Seq(Seq(FileCell) \cup {Hole})] /\ saved \in [Paths -> Seq(FileCell)]
  BY DEF TypeOK, NoSave, SaveTask
<1>7. Seq(Cell) \subseteq Seq(FileCell)
  BY FileCells
<1>2. ASSUME NEW i \in SaveTasks, NEW r \in SaveTask,
             \/ r = NoSave
             \/ /\ r.step \in {"head", "tail"} /\ r.path \in Paths
                /\ r.session \in Sessions /\ path[r.session] # Closed
                /\ r.nb = Written(cells[r.session]),
             save' = [save EXCEPT ![i] = r],
             file' \in [Paths -> Seq(Seq(FileCell) \cup {Hole})],
             \A p \in Paths : Len(file'[p]) <= 2 /\ (Len(file'[p]) = 2 => InFile(file'[p][2], nextId)),
             saved' \in [Paths -> Seq(FileCell)], spoiled' \subseteq Paths,
             UNCHANGED sessionVars
      PROVE  NInv'
  <2>1. UNCHANGED <<path, cells, nextId, route, lastRun>>
    BY <1>2 DEF sessionVars
  <2>2. \A j \in SaveTasks : save'[j] = IF j = i THEN r ELSE save[j]
    BY <1>1, <1>2
  <2>3. TypeOK'
    BY <1>1, <1>2, <2>1 DEF TypeOK
  <2>4. SessionsGood'
    BY <2>1 DEF SessionsGood, Cellular
  <2>5. SavesGood'
    <3> SUFFICES ASSUME NEW j \in SaveTasks, save'[j] # NoSave
                 PROVE  /\ save'[j].step \in {"head", "tail"}
                        /\ save'[j].session \in Sessions /\ path[save'[j].session] # Closed
                        /\ save'[j].path \in Paths
                        /\ save'[j].nb = Written(cells[save'[j].session])
      BY <2>1 DEF SavesGood, Written
    <3>1. CASE j = i
      BY <1>2, <2>2, <3>1
    <3>2. CASE j # i
      BY <2>2, <3>2 DEF SavesGood
    <3> QED
      BY <3>1, <3>2
  <2>6. FilesGood'
    BY <1>2, <2>1 DEF FilesGood, InFile
  <2> QED
    BY <2>3, <2>4, <2>5, <2>6
<1>3. ASSUME NEW i \in SaveTasks, NEW s \in Sessions, NEW p \in Paths, BeginSave(i, s, p)
      PROVE  NInv'
  <2> DEFINE r == [step |-> "head", session |-> s, path |-> p, nb |-> Written(cells[s])]
  <2>1. path[s] # Closed /\ Written(cells[s]) \in Seq(Cell)
    BY <1>1, <1>3, WrittenTyped DEF BeginSave, SessionsGood, Cellular
  <2>2. /\ r \in SaveTask /\ r.step = "head" /\ r.path = p /\ r.session = s
        /\ r.nb = Written(cells[s])
    BY <2>1 DEF SaveTask
  <2>3. save' = [save EXCEPT ![i] = r] /\ UNCHANGED sessionVars /\ saved' = saved
    BY <1>3 DEF BeginSave
  <2>4. file' = [file EXCEPT ![p] = <<>>]
    BY <1>3 DEF BeginSave
  <2> HIDE DEF r
  <2>5. /\ file' \in [Paths -> Seq(Seq(FileCell) \cup {Hole})]
        /\ \A q \in Paths : Len(file'[q]) <= 2 /\ (Len(file'[q]) = 2 => InFile(file'[q][2], nextId))
    <3>1. <<>> \in Seq(Seq(FileCell) \cup {Hole}) /\ Len(<<>>) = 0
      OBVIOUS
    <3> QED
      BY <1>1, <2>4, <3>1 DEF FilesGood
  <2>6. spoiled' \subseteq Paths
    BY <1>3 DEF BeginSave, TypeOK
  <2> QED
    BY <1>1, <1>2, <2>1, <2>2, <2>3, <2>5, <2>6
<1>4. ASSUME NEW i \in SaveTasks, WriteHead(i)
      PROVE  NInv'
  <2> DEFINE p == save[i].path
             w == save[i].nb
             r == [save[i] EXCEPT !.step = "tail"]
             g == <<w>> \o SubSeq(file[p], 2, Len(file[p]))
  <2>1. save[i] # NoSave /\ save[i] \in SaveTask
    BY <1>1, <1>4 DEF WriteHead
  <2>2. /\ p \in Paths /\ w \in Seq(Cell)
        /\ save[i].session \in Sessions /\ path[save[i].session] # Closed
        /\ w = Written(cells[save[i].session])
    BY <2>1 DEF SavesGood, SaveTask
  <2>3. /\ r \in SaveTask /\ r.step = "tail" /\ r.path = p /\ r.session = save[i].session
        /\ r.nb = w
    BY <2>1 DEF SaveTask
  <2>4. save' = [save EXCEPT ![i] = r] /\ file' = [file EXCEPT ![p] = g]
    BY <1>4 DEF WriteHead
  <2>5. UNCHANGED sessionVars /\ saved' = saved /\ spoiled' = spoiled
    BY <1>4 DEF WriteHead
  <2> HIDE DEF r
  <2>6. /\ g \in Seq(Seq(FileCell) \cup {Hole}) /\ Len(g) <= 2
        /\ Len(g) = 2 => InFile(g[2], nextId)
    <3>1. w \in Seq(FileCell) \cup {Hole} /\ file[p] \in Seq(Seq(FileCell) \cup {Hole})
      BY <1>1, <1>7, <2>2
    <3>2. Len(file[p]) <= 2 /\ (Len(file[p]) = 2 => InFile(file[p][2], nextId))
      BY <2>2 DEF FilesGood
    <3> HIDE DEF p, w
    <3>3. /\ g \in Seq(Seq(FileCell) \cup {Hole}) /\ Len(g) <= 2
          /\ Len(g) = 2 => Len(file[p]) = 2 /\ g[2] = file[p][2]
      BY <3>1, <3>2, HeadWritten
    <3> HIDE DEF g
    <3> QED
      BY <3>2, <3>3
  <2> HIDE DEF g
  <2>7. /\ file' \in [Paths -> Seq(Seq(FileCell) \cup {Hole})]
        /\ \A q \in Paths : Len(file'[q]) <= 2 /\ (Len(file'[q]) = 2 => InFile(file'[q][2], nextId))
    BY <1>1, <2>2, <2>4, <2>6 DEF FilesGood
  <2>8. spoiled' \subseteq Paths
    BY <2>5 DEF TypeOK
  <2> QED
    BY <1>1, <1>2, <2>2, <2>3, <2>4, <2>5, <2>7, <2>8
<1>5. ASSUME NEW i \in SaveTasks, WriteTail(i)
      PROVE  NInv'
  <2> DEFINE p == save[i].path
             w == save[i].nb
             g == << IF file[p] = <<>> THEN Hole ELSE file[p][1], w >>
  <2>1. save[i] # NoSave /\ save[i] \in SaveTask
    BY <1>1, <1>5 DEF WriteTail
  <2>2. /\ p \in Paths /\ w \in Seq(Cell)
        /\ save[i].session \in Sessions /\ path[save[i].session] # Closed
        /\ w = Written(cells[save[i].session])
    BY <2>1 DEF SavesGood, SaveTask
  <2>3. /\ save' = [save EXCEPT ![i] = NoSave] /\ file' = [file EXCEPT ![p] = g]
        /\ saved' = [saved EXCEPT ![p] = w]
    BY <1>5 DEF WriteTail
  <2>4. UNCHANGED sessionVars /\ spoiled' = spoiled
    BY <1>5 DEF WriteTail
  <2>5. InFile(w, nextId) /\ w \in Seq(FileCell)
    <3>1. Cellular(w, nextId)
      BY <1>1, <2>2, WrittenTyped DEF SessionsGood
    <3> QED
      BY <1>7, <3>1 DEF Cellular, InFile
  <2>6. g \in Seq(Seq(FileCell) \cup {Hole}) /\ Len(g) = 2 /\ g[2] = w
    <3>1. file[p] \in Seq(Seq(FileCell) \cup {Hole})
      BY <1>1, <2>2
    <3>2. (IF file[p] = <<>> THEN Hole ELSE file[p][1]) \in Seq(FileCell) \cup {Hole}
      BY <3>1
    <3> QED
      BY <2>5, <3>2
  <2> HIDE DEF g
  <2>9. Len(g) <= 2 /\ InFile(g[2], nextId)
    BY <2>5, <2>6
  <2>7. /\ file' \in [Paths -> Seq(Seq(FileCell) \cup {Hole})]
        /\ \A q \in Paths : Len(file'[q]) <= 2 /\ (Len(file'[q]) = 2 => InFile(file'[q][2], nextId))
    <3> HIDE DEF p, w
    <3>1. \A q \in Paths : file'[q] = IF q = p THEN g ELSE file[q]
      BY <1>1, <2>2, <2>3
    <3>2. file' \in [Paths -> Seq(Seq(FileCell) \cup {Hole})]
      BY <1>1, <2>2, <2>3, <2>6
    <3> QED
      BY <2>9, <3>1, <3>2 DEF FilesGood
  <2>8. saved' \in [Paths -> Seq(FileCell)] /\ spoiled' \subseteq Paths
    BY <1>1, <2>2, <2>3, <2>4, <2>5 DEF TypeOK
  <2> QED
    BY <1>1, <1>2, <2>3, <2>4, <2>7, <2>8
<1>6. ASSUME NEW i \in SaveTasks, SaveFails(i)
      PROVE  NInv'
  <2>1. save' = [save EXCEPT ![i] = NoSave] /\ file' = file /\ saved' = saved /\ UNCHANGED sessionVars
    BY <1>6 DEF SaveFails
  <2>2. spoiled' \subseteq Paths
    BY <1>6 DEF SaveFails, SavesGood, TypeOK
  <2>3. \A q \in Paths : Len(file'[q]) <= 2 /\ (Len(file'[q]) = 2 => InFile(file'[q][2], nextId))
    BY <2>1 DEF FilesGood
  <2> QED
    BY <1>1, <1>2, <2>1, <2>2, <2>3
<1> QED
  BY <1>3, <1>4, <1>5, <1>6

LEMMA CrashTyped ==
    ASSUME NInv, Crash, requests' \in 0..MaxRequests
    PROVE  NInv'
<1>1. <<>> \in Seq(Cell) /\ NoSave \in SaveTask
  BY DEF NoSave, SaveTask
<1>2. TypeOK'
  BY <1>1 DEF NInv, TypeOK, Crash
<1>3. SessionsGood' /\ SavesGood'
  BY DEF Crash, SessionsGood, SavesGood
<1>4. FilesGood'
  BY DEF Crash, NInv, FilesGood, InFile
<1> QED
  BY <1>2, <1>3, <1>4 DEF NInv

(* Requests that open, edit and close sessions, and runs.                  *)
LEMMA RequestTyped ==
    ASSUME NInv, requests' \in 0..MaxRequests, NEW s \in Sessions
    PROVE  /\ \A p \in Paths : Open(s, p) \/ OpenPy(s, p) => NInv'
           /\ EditRequest(s) \/ Close(s) => NInv'
           /\ \A id \in Ids : Execute(s, id) => NInv'
           /\ \A n \in Runs, kind \in EventKinds : ApplyEvent(n, kind) => NInv'
<1>1. /\ path \in [Sessions -> Paths \cup {Closed}] /\ cells \in [Sessions -> Seq(Cell)]
      /\ nextId \in 1..(MaxIds + 1) /\ nextId \in Nat /\ MaxIds \in Nat
      /\ route \in [Runs -> {<<>>} \cup (Sessions \X Ids)]
  BY NotebookAssumption DEF NInv, TypeOK
<1>2. \A t \in Sessions : path[t] = Closed => \A i \in SaveTasks : save[i] # NoSave => save[i].session # t
  BY DEF NInv, SavesGood
<1>3. \A t \in Sessions : (\A i \in SaveTasks : save[i].session # t) =>
          \A i \in SaveTasks : save[i] # NoSave => save[i].session # t
  OBVIOUS
<1>4. \A t \in Sessions : Writable(t) =>
          /\ \A i \in SaveTasks : save[i] # NoSave => save[i].session # t
          /\ path[t] # Closed /\ path[t] \in Paths \cup {Closed} /\ Cellular(cells[t], nextId)
          /\ path = [path EXCEPT ![t] = path[t]]
  BY <1>1, <1>3 DEF Writable, NInv, SessionsGood
<1>5. ASSUME NEW p \in Paths, OpenPy(s, p) PROVE NInv'
  <2> DEFINE nb == FreshNotebook(nextId)
  <2>1. nextId \in 1..MaxIds /\ nextId' = nextId + 1 /\ path[s] = Closed
    BY <1>1, <1>5 DEF OpenPy
  <2>2. Cellular(<<>>, nextId)
    BY DEF Cellular
  <2>3. Cellular(nb, nextId + 1)
    BY <2>1, <2>2, Fresh
  <2>4. nb \in Seq(Cell) /\ p # Closed /\ p \in Paths \cup {Closed}
    BY <2>3, NotebookAssumption DEF Cellular
  <2>5. nextId' \in 1..(MaxIds + 1) /\ nextId <= nextId'
    BY <1>1, <2>1
  <2>6. IF p = Closed THEN nb = <<>> ELSE Cellular(nb, nextId')
    BY <2>1, <2>3, <2>4
  <2>7. path' = [path EXCEPT ![s] = p] /\ cells' = [cells EXCEPT ![s] = nb] /\ route' = route
        /\ UNCHANGED <<lastRun, save, fileVars>>
    BY <1>5 DEF OpenPy
  <2>8. \A i \in SaveTasks : save[i] # NoSave => save[i].session # s
    BY <1>2, <2>1
  <2> HIDE DEF nb
  <2> QED
    BY <1>1, <2>4, <2>5, <2>6, <2>7, <2>8, SessionChanged
<1>6. ASSUME NEW p \in Paths, Open(s, p) PROVE NInv'
  <2>1. CASE OpenPy(s, p)
    BY <1>5, <2>1
  <2>2. CASE ~OpenPy(s, p)
    <3> DEFINE f == file[p][1]
               nb == CellsRead(f)
               fresh == NewBefore(f, Len(f) + 1)
    <3>1. /\ path[s] = Closed /\ Parses(p)
          /\ path' = [path EXCEPT ![s] = p] /\ cells' = [cells EXCEPT ![s] = nb]
          /\ nextId' = nextId + fresh /\ nextId + fresh <= MaxIds + 1
          /\ route' = route /\ UNCHANGED <<lastRun, save, fileVars>>
      BY <1>6, <2>2 DEF Open
    <3>2. InFile(f, nextId)
      BY <3>1 DEF Parses, NInv, FilesGood
    <3>6. fresh \in Nat /\ Cellular(nb, nextId + fresh) /\ nb \in Seq(Cell)
      BY <1>1, <3>1, <3>2, CellsLoaded DEF Cellular
    <3> HIDE DEF fresh, nb, f
    <3>3. p # Closed /\ p \in Paths \cup {Closed} /\ Cellular(nb, nextId')
      BY <3>1, <3>6, NotebookAssumption
    <3>4. nextId' \in 1..(MaxIds + 1) /\ nextId <= nextId'
      BY <1>1, <3>1, <3>6
    <3>5. \A i \in SaveTasks : save[i] # NoSave => save[i].session # s
      BY <1>2, <3>1
    <3> QED
      BY <1>1, <3>1, <3>3, <3>4, <3>5, <3>6, SessionChanged
  <2> QED
    BY <2>1, <2>2
<1>7. ASSUME EditRequest(s) PROVE NInv'
  <2>1. PICK nb, fresh : Edited(s, nb, fresh)
    BY <1>7, EditsTyped
  <2>2. /\ Edit(s, nb, fresh) /\ fresh \in Nat /\ Cellular(nb, nextId + fresh) /\ nb \in Seq(Cell)
    BY <2>1 DEF Edited, Cellular
  <2>3. /\ Writable(s) /\ nextId' = nextId + fresh /\ nextId + fresh <= MaxIds + 1
        /\ path' = path /\ cells' = [cells EXCEPT ![s] = nb] /\ route' = route
        /\ UNCHANGED <<lastRun, save, fileVars>>
    BY <2>2 DEF Edit
  <2>4. nextId' \in 1..(MaxIds + 1) /\ nextId <= nextId'
    BY <1>1, <2>2, <2>3
  <2>5. Cellular(nb, nextId')
    BY <2>2, <2>3
  <2> QED
    BY <1>1, <1>4, <2>2, <2>3, <2>4, <2>5, SessionChanged
<1>8. ASSUME Close(s) PROVE NInv'
  <2>1. /\ \A i \in SaveTasks : save[i] # NoSave => save[i].session # s
        /\ path' = [path EXCEPT ![s] = Closed] /\ cells' = [cells EXCEPT ![s] = <<>>]
        /\ nextId' = nextId
        /\ UNCHANGED <<lastRun, save, fileVars>>
    BY <1>8 DEF Close
  <2>2. route' \in [Runs -> {<<>>} \cup (Sessions \X Ids)]
    BY <1>1, <1>8 DEF Close
  <2>3. <<>> \in Seq(Cell) /\ Closed \in Paths \cup {Closed}
    OBVIOUS
  <2>4. nextId' \in 1..(MaxIds + 1) /\ nextId <= nextId'
    BY <1>1, <2>1
  <2> QED
    BY <2>1, <2>2, <2>3, <2>4, SessionChanged
<1>9. ASSUME NEW id \in Ids, Execute(s, id) PROVE NInv'
  <2>1. UNCHANGED <<path, cells, nextId, save, file, saved, spoiled>>
    BY <1>9 DEF Execute, fileVars
  <2>2. lastRun' \in 0..MaxRuns /\ lastRun' \in Runs
    BY <1>9, NotebookAssumption DEF Execute, NInv, TypeOK, Runs
  <2>3. route' \in [Runs -> {<<>>} \cup (Sessions \X Ids)]
    BY <1>1, <1>9, <2>2 DEF Execute
  <2>4. TypeOK'
    BY <2>1, <2>2, <2>3 DEF NInv, TypeOK
  <2>5. SessionsGood' /\ SavesGood' /\ FilesGood'
    BY <2>1 DEF NInv, SessionsGood, SavesGood, FilesGood, InFile, Cellular, Written
  <2> QED
    BY <2>4, <2>5 DEF NInv
<1>10. ASSUME NEW n \in Runs, NEW kind \in EventKinds, ApplyEvent(n, kind) PROVE NInv'
  <2> DEFINE t == route[n][1]
             id == route[n][2]
             nb == Update(cells[t], id, LAMBDA c : Applied(c, n, kind))
  <2>1. t \in Sessions
    BY <1>1, <1>10 DEF ApplyEvent
  <2>2. /\ Writable(t) /\ HasCell(cells[t], id) /\ cells' = [cells EXCEPT ![t] = nb]
        /\ path' = path /\ nextId' = nextId /\ route' = route
        /\ UNCHANGED <<lastRun, save, fileVars>>
    BY <1>10 DEF ApplyEvent
  <2> HIDE DEF t, id
  <2>3. Cellular(nb, nextId) /\ nb \in Seq(Cell)
    <3>1. Cellular(cells[t], nextId) /\ nextId \in Nat
      BY <1>1, <1>4, <2>1, <2>2
    <3>2. Cellular(nb, nextId)
      BY <2>2, <3>1, EventApplied
    <3> HIDE DEF nb
    <3> QED
      BY <3>2 DEF Cellular
  <2> HIDE DEF nb
  <2>4. nextId' \in 1..(MaxIds + 1) /\ nextId <= nextId' /\ Cellular(nb, nextId')
    BY <1>1, <2>2, <2>3
  <2> QED
    BY <1>1, <1>4, <2>1, <2>2, <2>3, <2>4, SessionChanged
<1> QED
  BY <1>5, <1>6, <1>7, <1>8, <1>9, <1>10

LEMMA StepTyped == NInv /\ [Next]_vars => NInv'
<1> SUFFICES ASSUME NInv, [Next]_vars PROVE NInv'
  OBVIOUS
<1>1. requests \in Nat /\ requests \in 0..MaxRequests
  BY DEF NInv, TypeOK
<1>2. CASE Request
  <2>1. requests' \in 0..MaxRequests
    BY <1>1, <1>2, NotebookAssumption DEF Request
  <2>2. \/ \E s \in Sessions, p \in Paths :
               Open(s, p) \/ OpenPy(s, p) \/ \E i \in SaveTasks : BeginSave(i, s, p)
        \/ \E s \in Sessions :
               EditRequest(s) \/ Close(s) \/ \E id \in Ids : Execute(s, id)
    BY <1>2 DEF Request
  <2> QED
    BY <2>1, <2>2, RequestTyped, SaveStepTyped
<1>3. CASE Step /\ UNCHANGED requests
  <2>1. requests' \in 0..MaxRequests
    BY <1>1, <1>3
  <2>2. CASE \E n \in Runs, kind \in EventKinds : ApplyEvent(n, kind)
    <3>1. PICK n \in Runs, kind \in EventKinds : ApplyEvent(n, kind)
      BY <2>2
    <3>2. PICK s \in Sessions : TRUE
      BY <3>1 DEF ApplyEvent, NInv, TypeOK
    <3> QED
      BY <2>1, <3>1, <3>2, RequestTyped
  <2>3. CASE \E i \in SaveTasks : SaveStep(i)
    BY <2>1, <2>3, SaveStepTyped DEF SaveStep
  <2>4. CASE Crash
    BY <2>1, <2>4, CrashTyped
  <2> QED
    BY <1>3, <2>2, <2>3, <2>4 DEF Step
<1>4. CASE UNCHANGED vars
  BY <1>4 DEF vars, sessionVars, fileVars, NInv, TypeOK, SessionsGood, SavesGood, FilesGood,
              InFile, Cellular, Written
<1> QED
  BY <1>2, <1>3, <1>4 DEF Next

LEMMA AlwaysTyped == Spec => []NInv
BY InitTyped, StepTyped, PTL DEF Spec

(* Every variable keeps its type: an edit that reorders, replaces or       *)
(* retypes cells makes a notebook again.                                   *)
THEOREM NotebookTypeCorrect == Spec => []TypeOK
<1>1. NInv => TypeOK
  BY DEF NInv
<1> QED
  BY <1>1, AlwaysTyped, PTL

(* A step leaves a session addressable, with the exceptions that the       *)
(* property has.                                                           *)
StaysAddressable(s) ==
    \/ Addressable(cells'[s])
    \/ path[s] # Closed /\ ~Addressable(cells[s])
    \/ path[s] = Closed /\ Parses(path'[s]) /\ ~Addressable(file[path'[s]][1])
    \/ GetsRepeatedId(s)

LEMMA StepAddressable ==
    ASSUME NInv, [Next]_vars, NEW s \in Sessions, path'[s] # Closed
    PROVE  StaysAddressable(s)
<1>1. /\ cells \in [Sessions -> Seq(Cell)] /\ path \in [Sessions -> Paths \cup {Closed}]
      /\ nextId \in 1..(MaxIds + 1) /\ MaxIds \in Nat /\ cells[s] \in Seq(Cell)
      /\ route \in [Runs -> {<<>>} \cup (Sessions \X Ids)]
  BY NotebookAssumption DEF NInv, TypeOK
<1>2. ASSUME cells'[s] = cells[s], path'[s] = path[s] PROVE StaysAddressable(s)
  BY <1>2 DEF StaysAddressable
<1>3. ASSUME NEW nb \in Seq(Cell), cells'[s] = nb, path'[s] = path[s], Sound(cells[s]) => Sound(nb)
      PROVE  StaysAddressable(s)
  <2>1. path[s] # Closed
    BY <1>3
  <2>2. /\ Addressable(nb) <=> Sound(nb)
        /\ Addressable(cells[s]) <=> Sound(cells[s])
    BY <1>1, <1>3, SoundIsAddressable
  <2> QED
    BY <1>3, <2>1, <2>2 DEF StaysAddressable
<1>4. ASSUME NEW t \in Sessions, NEW p \in Paths, OpenPy(t, p) PROVE StaysAddressable(s)
  <2>1. /\ cells' = [cells EXCEPT ![t] = FreshNotebook(nextId)] /\ path' = [path EXCEPT ![t] = p]
        /\ nextId \in 1..MaxIds
    BY <1>1, <1>4 DEF OpenPy
  <2>2. Cellular(FreshNotebook(nextId), nextId + 1) /\ Sound(FreshNotebook(nextId))
    <3>1. Cellular(<<>>, nextId)
      BY DEF Cellular
    <3> QED
      BY <2>1, <3>1, Fresh
  <2>3. Addressable(FreshNotebook(nextId))
    BY <2>2, SoundIsAddressable DEF Cellular
  <2>4. CASE t = s
    BY <1>1, <2>1, <2>3, <2>4 DEF StaysAddressable
  <2>5. CASE t # s
    BY <1>1, <1>2, <2>1, <2>5
  <2> QED
    BY <2>4, <2>5
<1>5. ASSUME NEW t \in Sessions, NEW p \in Paths, Open(t, p), ~OpenPy(t, p) PROVE StaysAddressable(s)
  <2> DEFINE f == file[p][1]
             fresh == NewBefore(f, Len(f) + 1)
  <2>1. /\ path[t] = Closed /\ Parses(p) /\ nextId + fresh <= MaxIds + 1
        /\ cells' = [cells EXCEPT ![t] = CellsRead(f)] /\ path' = [path EXCEPT ![t] = p]
    BY <1>5 DEF Open
  <2>2. InFile(f, nextId)
    BY <2>1 DEF Parses, NInv, FilesGood
  <2>3. Cellular(CellsRead(f), nextId + fresh) /\ (Addressable(f) => Sound(CellsRead(f)))
    BY <1>1, <2>1, <2>2, CellsLoaded
  <2>4. Addressable(f) => Addressable(CellsRead(f))
    BY <2>3, SoundIsAddressable DEF Cellular
  <2>5. CASE t = s
    <3>1. path'[s] = p /\ cells'[s] = CellsRead(f) /\ path[s] = Closed
      BY <1>1, <2>1, <2>5
    <3> QED
      BY <2>1, <2>4, <3>1 DEF StaysAddressable
  <2>6. CASE t # s
    BY <1>1, <1>2, <2>1, <2>6
  <2> QED
    BY <2>5, <2>6
<1>6. ASSUME NEW t \in Sessions, EditRequest(t) PROVE StaysAddressable(s)
  <2>1. PICK nb, fresh : Edited(t, nb, fresh)
    BY <1>6, EditsTyped
  <2>2. /\ cells' = [cells EXCEPT ![t] = nb] /\ path' = path /\ nb \in Seq(Cell)
        /\ Sound(cells[t]) => Sound(nb) \/ GetsRepeatedId(t)
    BY <2>1 DEF Edited, Edit, Cellular
  <2>3. CASE t = s
    <3>1. CASE GetsRepeatedId(s)
      BY <3>1 DEF StaysAddressable
    <3>2. CASE ~GetsRepeatedId(s)
      BY <1>1, <1>3, <2>2, <2>3, <3>2
    <3> QED
      BY <3>1, <3>2
  <2>4. CASE t # s
    BY <1>1, <1>2, <2>2, <2>4
  <2> QED
    BY <2>3, <2>4
<1>7. ASSUME NEW n \in Runs, NEW kind \in EventKinds, ApplyEvent(n, kind) PROVE StaysAddressable(s)
  <2> DEFINE t == route[n][1]
             x == route[n][2]
             nb == Update(cells[t], x, LAMBDA c : Applied(c, n, kind))
  <2>1. /\ HasCell(cells[t], x) /\ cells' = [cells EXCEPT ![t] = nb] /\ path[t] # Closed
        /\ path' = path /\ t \in Sessions
    BY <1>1, <1>7 DEF ApplyEvent, Writable
  <2> HIDE DEF t, x
  <2>2. Cellular(cells[t], nextId) /\ nextId \in Nat
    BY <1>1, <2>1 DEF NInv, SessionsGood
  <2>3. Cellular(nb, nextId) /\ (Sound(cells[t]) => Sound(nb))
    BY <2>1, <2>2, EventApplied
  <2> HIDE DEF nb
  <2>4. CASE t = s
    BY <1>1, <1>3, <2>1, <2>3, <2>4 DEF Cellular
  <2>5. CASE t # s
    BY <1>1, <1>2, <2>1, <2>5
  <2> QED
    BY <2>4, <2>5
<1>8. CASE Request
  <2>1. ASSUME NEW t \in Sessions, Close(t)
        PROVE  StaysAddressable(s)
    <3>1. cells' = [cells EXCEPT ![t] = <<>>] /\ path' = [path EXCEPT ![t] = Closed]
      BY <2>1 DEF Close
    <3>2. t # s
      BY <1>1, <3>1
    <3> QED
      BY <1>1, <1>2, <3>1, <3>2
  <2>2. ASSUME NEW t \in Sessions, NEW x \in Ids, Execute(t, x)
        PROVE  StaysAddressable(s)
    BY <1>2, <2>2 DEF Execute
  <2>3. ASSUME NEW i \in SaveTasks, NEW t \in Sessions, NEW p \in Paths, BeginSave(i, t, p)
        PROVE  StaysAddressable(s)
    BY <1>2, <2>3 DEF BeginSave, sessionVars
  <2> QED
    BY <1>4, <1>5, <1>6, <1>8, <2>1, <2>2, <2>3 DEF Request
<1>9. CASE Step
  <2>1. ASSUME NEW i \in SaveTasks, SaveStep(i)
        PROVE  StaysAddressable(s)
    BY <1>2, <2>1 DEF SaveStep, WriteHead, WriteTail, SaveFails, sessionVars
  <2>2. ~Crash
    BY DEF Crash
  <2> QED
    BY <1>7, <1>9, <2>1, <2>2 DEF Step
<1>10. CASE UNCHANGED vars
  BY <1>2, <1>10 DEF vars, sessionVars
<1> QED
  BY <1>8, <1>9, <1>10 DEF Next

(* An id names one cell of an open session, and there is at least one: no  *)
(* request, kernel's event, save, crash or load changes that, except for a *)
(* load of a file that is not so and a list that repeats an id.            *)
THEOREM CellsStayAddressable == Spec => CellsAddressable
<1> DEFINE A == \A s \in Sessions : path'[s] # Closed => StaysAddressable(s)
<1>1. NInv /\ [Next]_vars => A
  BY StepAddressable
<1>2. A => \A s \in Sessions : path'[s] # Closed =>
              \/ Addressable(cells'[s])
              \/ path[s] # Closed /\ ~Addressable(cells[s])
              \/ path[s] = Closed /\ Parses(path'[s]) /\ ~Addressable(file[path'[s]][1])
              \/ GetsRepeatedId(s)
  BY DEF StaysAddressable
<1> HIDE DEF A
<1>3. NInv /\ [Next]_vars => [A]_vars
  BY <1>1
<1>4. Spec => [][A]_vars
  BY <1>3, AlwaysTyped, PTL DEF Spec
<1> QED
  BY <1>2, <1>4, PTL DEF CellsAddressable

-----------------------------------------------------------------------------
(* Files.  While the saves of one session alone write a file, it has parts *)
(* of the one notebook they all write, and a save that has yet to write    *)
(* the head if the head is missing.                                        *)

PartsOf(p, W) ==
    /\ file[p] \in {<<>>, <<W>>, <<Hole, W>>, <<W, W>>}
    /\ file[p] = <<>> \/ file[p][1] # W => \E j \in Saving(p) : save[j].step = "head"

WholeAt(p) ==
    IF Saving(p) = {}
    THEN file[p] = <<saved[p], saved[p]>> \/ (file[p] = <<>> /\ saved[p] = <<>>)
    ELSE /\ \A i, j \in Saving(p) : save[i].session = save[j].session
         /\ \A i \in Saving(p) : PartsOf(p, save[i].nb)

Whole == \A p \in Paths : p \notin spoiled => WholeAt(p)

LEMMA InitWhole == Init => Whole
BY DEF Init, Whole, WholeAt, Saving, NoSave

(* A step that leaves a file alone, and the saves that write it.           *)
LEMMA WholeKept ==
    ASSUME NEW p \in Paths, WholeAt(p), file'[p] = file[p], saved'[p] = saved[p],
           Saving(p)' = Saving(p), \A i \in Saving(p) : save'[i] = save[i]
    PROVE  WholeAt(p)'
BY DEF WholeAt, PartsOf

LEMMA StepWhole == NInv /\ Whole /\ [Next]_vars => Whole'
<1> SUFFICES ASSUME NInv, Whole, [Next]_vars, NEW p \in Paths, p \notin spoiled'
             PROVE  WholeAt(p)'
  BY DEF Whole
<1>1. /\ save \in [SaveTasks -> SaveTask] /\ file \in [Paths -> Seq(Seq(FileCell) \cup {Hole})]
      /\ saved \in [Paths -> Seq(FileCell)]
  BY DEF NInv, TypeOK
<1>2. ASSUME UNCHANGED <<save, fileVars>> PROVE WholeAt(p)'
  BY <1>2, WholeKept DEF fileVars, Whole, Saving
<1>3. ASSUME NEW i \in SaveTasks, NEW s \in Sessions, NEW q \in Paths, BeginSave(i, s, q)
      PROVE  WholeAt(p)'
  <2> DEFINE r == [step |-> "head", session |-> s, path |-> q, nb |-> Written(cells[s])]
  <2>1. /\ save[i] = NoSave /\ save' = [save EXCEPT ![i] = r] /\ file' = [file EXCEPT ![q] = <<>>]
        /\ saved' = saved
        /\ spoiled' = IF \E j \in Saving(q) : save[j].session # s THEN spoiled \cup {q}
                      ELSE IF Saving(q) = {} THEN spoiled \ {q} ELSE spoiled
    BY <1>3 DEF BeginSave
  <2>2. r.step = "head" /\ r.path = q /\ r.session = s
    OBVIOUS
  <2> HIDE DEF r
  <2>3. \A j \in SaveTasks : save'[j] = IF j = i THEN r ELSE save[j]
    BY <1>1, <2>1
  <2>4. i \notin Saving(p) /\ i \notin Saving(q)
    BY <2>1 DEF Saving, NoSave
  <2>5. CASE p # q
    <3>1. Saving(p)' = Saving(p) /\ \A j \in Saving(p) : save'[j] = save[j]
      BY <2>2, <2>3, <2>4, <2>5 DEF Saving
    <3>2. p \notin spoiled /\ file'[p] = file[p] /\ saved'[p] = saved[p]
      BY <1>1, <2>1, <2>5
    <3> QED
      BY <3>1, <3>2, WholeKept DEF Whole
  <2>6. CASE p = q
    <3>1. Saving(p)' = Saving(p) \cup {i} /\ save'[i] = r
      BY <2>2, <2>3, <2>4, <2>6 DEF Saving
    <3>2. \A j \in Saving(p) : save[j].session = s /\ save'[j] = save[j]
      BY <2>1, <2>3, <2>4, <2>6 DEF Saving
    <3>3. file'[p] = <<>>
      BY <1>1, <2>1, <2>6
    <3>4. \A j \in Saving(p)' : save'[j].session = s
      BY <2>2, <3>1, <3>2
    <3>5. \A j \in Saving(p)' : PartsOf(p, save[j].nb)'
      BY <2>2, <3>1, <3>3 DEF PartsOf
    <3> QED
      BY <3>1, <3>4, <3>5 DEF WholeAt
  <2> QED
    BY <2>5, <2>6
<1>4. ASSUME NEW i \in SaveTasks, save[i] # NoSave
      PROVE  /\ save[i].path \in Paths /\ save[i].nb \in Seq(Cell)
             /\ i \in Saving(save[i].path)
             /\ save[i].path \notin spoiled =>
                    \A j \in Saving(save[i].path) : save[j].nb = save[i].nb
  <2>1. /\ save[i].path \in Paths /\ save[i].step # "idle" /\ save[i] \in SaveTask
        /\ save[i].nb = Written(cells[save[i].session])
    BY <1>1, <1>4 DEF NInv, SavesGood
  <2>2. i \in Saving(save[i].path)
    BY <2>1 DEF Saving
  <2>3. ASSUME save[i].path \notin spoiled, NEW j \in Saving(save[i].path)
        PROVE  save[j].nb = save[i].nb
    <3>1. save[j].session = save[i].session
      BY <2>1, <2>2, <2>3 DEF Whole, WholeAt
    <3>2. j \in SaveTasks /\ save[j] # NoSave
      BY <2>3 DEF Saving, NoSave
    <3> QED
      BY <2>1, <3>1, <3>2 DEF NInv, SavesGood
  <2> QED
    BY <2>1, <2>2, <2>3 DEF SaveTask
<1>5. ASSUME NEW i \in SaveTasks, WriteHead(i)
      PROVE  WholeAt(p)'
  <2> DEFINE q == save[i].path
             w == save[i].nb
             r == [save[i] EXCEPT !.step = "tail"]
             g == <<w>> \o SubSeq(file[q], 2, Len(file[q]))
  <2>1. /\ save[i].step = "head" /\ save[i] # NoSave /\ save[i] \in SaveTask
        /\ save' = [save EXCEPT ![i] = r] /\ file' = [file EXCEPT ![q] = g]
        /\ saved' = saved /\ spoiled' = spoiled
    BY <1>1, <1>5 DEF WriteHead, NoSave
  <2>2. /\ q \in Paths /\ w \in Seq(Cell) /\ i \in Saving(q)
        /\ q \notin spoiled => \A j \in Saving(q) : save[j].nb = w
    BY <1>4, <2>1
  <2>3. r.step = "tail" /\ r.path = q /\ r.session = save[i].session /\ r.nb = w
    BY <2>1 DEF SaveTask
  <2> HIDE DEF r
  <2>4. \A j \in SaveTasks : save'[j] = IF j = i THEN r ELSE save[j]
    BY <1>1, <2>1
  <2>5. CASE p # q
    <3>1. Saving(p)' = Saving(p) /\ \A j \in Saving(p) : save'[j] = save[j]
      BY <2>1, <2>3, <2>4, <2>5 DEF Saving
    <3>2. p \notin spoiled /\ file'[p] = file[p] /\ saved'[p] = saved[p]
      BY <1>1, <2>1, <2>5
    <3> QED
      BY <3>1, <3>2, WholeKept DEF Whole
  <2>6. CASE p = q
    <3>1. Saving(p)' = Saving(p)
      BY <2>1, <2>3, <2>4, <2>6 DEF Saving
    <3>2. \A j \in Saving(p) : save'[j].session = save[j].session /\ save'[j].nb = w
      BY <2>1, <2>2, <2>3, <2>4, <2>6 DEF Saving
    <3>3. /\ \A j, k \in Saving(p) : save[j].session = save[k].session
          /\ PartsOf(p, w)
      BY <2>1, <2>2, <2>6 DEF Whole, WholeAt
    <3>4. file'[p] \in {<<w>>, <<w, w>>} /\ file'[p] # <<>> /\ file'[p][1] = w
      <4>1. file[p] \in Seq(Seq(FileCell) \cup {Hole}) /\ Len(file[p]) <= 2 /\ w \in Seq(FileCell) \cup {Hole}
        BY <1>1, <2>2, FileCells DEF NInv, FilesGood
      <4>2. file[p] \in {<<>>, <<w>>, <<Hole, w>>, <<w, w>>}
        BY <3>3 DEF PartsOf
      <4> HIDE DEF w, q
      <4>3. file'[p] = <<w>> \o SubSeq(file[p], 2, Len(file[p]))
        BY <1>1, <2>1, <2>6
      <4>4. \/ Len(file[p]) = 2 /\ file[p][2] = w
            \/ Len(file[p]) < 2
        BY <4>2
      <4>5. /\ file'[p] # <<>> /\ file'[p][1] = w
            /\ Len(file[p]) = 2 => file'[p] = <<w, file[p][2]>>
            /\ Len(file[p]) < 2 => file'[p] = <<w>>
        BY <4>1, <4>3, HeadWritten
      <4> QED
        BY <4>4, <4>5
    <3>6. \A j \in Saving(p)' : PartsOf(p, save[j].nb)'
      <4> SUFFICES ASSUME NEW j \in Saving(p)' PROVE PartsOf(p, save[j].nb)'
        OBVIOUS
      <4>1. save'[j].nb = w
        BY <3>1, <3>2
      <4> HIDE DEF w
      <4> QED
        BY <3>4, <4>1 DEF PartsOf
    <3>7. \A j, k \in Saving(p)' : save'[j].session = save'[k].session
      BY <3>1, <3>2, <3>3
    <3>8. Saving(p)' # {}
      BY <2>2, <2>6, <3>1
    <3> QED
      BY <3>6, <3>7, <3>8 DEF WholeAt
  <2> QED
    BY <2>5, <2>6
<1>6. ASSUME NEW i \in SaveTasks, WriteTail(i)
      PROVE  WholeAt(p)'
  <2> DEFINE q == save[i].path
             w == save[i].nb
             g == << IF file[q] = <<>> THEN Hole ELSE file[q][1], w >>
  <2>1. /\ save[i].step = "tail" /\ save[i] # NoSave
        /\ save' = [save EXCEPT ![i] = NoSave] /\ file' = [file EXCEPT ![q] = g]
        /\ saved' = [saved EXCEPT ![q] = w] /\ spoiled' = spoiled
    BY <1>6 DEF WriteTail, NoSave
  <2>2. /\ q \in Paths /\ w \in Seq(Cell) /\ i \in Saving(q)
        /\ q \notin spoiled => \A j \in Saving(q) : save[j].nb = w
    BY <1>4, <2>1
  <2>3. \A j \in SaveTasks : save'[j] = IF j = i THEN NoSave ELSE save[j]
    BY <1>1, <2>1
  <2>4. NoSave.step = "idle"
    BY DEF NoSave
  <2>5. CASE p # q
    <3>1. Saving(p)' = Saving(p) /\ \A j \in Saving(p) : save'[j] = save[j]
      BY <2>3, <2>4, <2>5 DEF Saving
    <3>2. p \notin spoiled /\ file'[p] = file[p] /\ saved'[p] = saved[p]
      BY <1>1, <2>1, <2>5
    <3> QED
      BY <3>1, <3>2, WholeKept DEF Whole
  <2>6. CASE p = q
    <3>1. Saving(p)' = Saving(p) \ {i} /\ \A j \in Saving(p)' : save'[j] = save[j]
      BY <2>3, <2>4, <2>6 DEF Saving
    <3>2. /\ \A j, k \in Saving(p) : save[j].session = save[k].session
          /\ PartsOf(p, w)
      BY <2>1, <2>2, <2>6 DEF Whole, WholeAt
    <3>3. saved'[p] = w /\ file'[p] = << IF file[p] = <<>> THEN Hole ELSE file[p][1], w >>
      BY <1>1, <2>1, <2>2, <2>6
    <3>4. file[p] \in {<<>>, <<w>>, <<Hole, w>>, <<w, w>>}
      BY <3>2 DEF PartsOf
    <3>5. file[p] = <<>> \/ file[p][1] # w => \E j \in Saving(p)' : save'[j].step = "head"
      BY <2>1, <3>1, <3>2 DEF PartsOf
    <3> HIDE DEF w, q
    <3>6. /\ file'[p] \in {<<Hole, w>>, <<w, w>>}
          /\ file[p] # <<>> /\ file[p][1] = w => file'[p] = <<w, w>>
      BY <3>3, <3>4
    <3>7. CASE Saving(p)' = {}
      <4>1. file'[p] = <<w, w>>
        BY <3>5, <3>6, <3>7
      <4> QED
        BY <3>3, <3>7, <4>1 DEF WholeAt
    <3>8. CASE Saving(p)' # {}
      <4>1. \A j \in Saving(p)' : save'[j].nb = w
        BY <2>1, <2>2, <2>6, <3>1
      <4>2. file'[p] = <<>> \/ file'[p][1] # w => \E j \in Saving(p)' : save'[j].step = "head"
        BY <3>3, <3>5
      <4>3. \A j \in Saving(p)' : PartsOf(p, save[j].nb)'
        BY <3>6, <4>1, <4>2 DEF PartsOf
      <4>4. \A j, k \in Saving(p)' : save'[j].session = save'[k].session
        BY <3>1, <3>2
      <4> QED
        BY <3>8, <4>3, <4>4 DEF WholeAt
    <3> QED
      BY <3>7, <3>8
  <2> QED
    BY <2>5, <2>6
<1>7. ASSUME NEW i \in SaveTasks, SaveFails(i)
      PROVE  WholeAt(p)'
  <2>1. /\ save' = [save EXCEPT ![i] = NoSave] /\ file' = file /\ saved' = saved
        /\ p \notin spoiled /\ p # save[i].path
    BY <1>7 DEF SaveFails
  <2>2. \A j \in SaveTasks : save'[j] = IF j = i THEN NoSave ELSE save[j]
    BY <1>1, <2>1
  <2>3. Saving(p)' = Saving(p) /\ \A j \in Saving(p) : save'[j] = save[j]
    BY <2>1, <2>2 DEF Saving, NoSave
  <2> QED
    BY <2>1, <2>3, WholeKept DEF Whole
<1>8. ASSUME Crash PROVE WholeAt(p)'
  <2>1. p \notin spoiled /\ Saving(p) = {} /\ file' = file /\ saved' = saved
    BY <1>8 DEF Crash
  <2>2. Saving(p)' = {}
    BY <1>8 DEF Crash, Saving, NoSave
  <2> QED
    BY <2>1, <2>2, WholeKept DEF Whole
<1>9. CASE Request
  <2>1. ASSUME NEW s \in Sessions, NEW q \in Paths, Open(s, q) \/ OpenPy(s, q)
        PROVE  UNCHANGED <<save, fileVars>>
    BY <2>1 DEF Open, OpenPy
  <2>2. ASSUME NEW s \in Sessions, EditRequest(s)
        PROVE  UNCHANGED <<save, fileVars>>
    <3>1. PICK nb, fresh : Edited(s, nb, fresh)
      BY <2>2, EditsTyped
    <3> QED
      BY <3>1 DEF Edited, Edit
  <2>3. ASSUME NEW s \in Sessions, NEW id, Close(s) \/ Execute(s, id)
        PROVE  UNCHANGED <<save, fileVars>>
    BY <2>3 DEF Close, Execute
  <2> QED
    BY <1>2, <1>3, <1>9, <2>1, <2>2, <2>3 DEF Request
<1>10. CASE Step
  <2>1. ASSUME NEW n \in Runs, NEW kind \in EventKinds, ApplyEvent(n, kind)
        PROVE  UNCHANGED <<save, fileVars>>
    BY <2>1 DEF ApplyEvent
  <2> QED
    BY <1>2, <1>5, <1>6, <1>7, <1>8, <1>10, <2>1 DEF Step, SaveStep
<1>11. CASE UNCHANGED vars
  BY <1>2, <1>11 DEF vars
<1> QED
  BY <1>9, <1>10, <1>11 DEF Next

(* A file that no save is writing, and that none has spoiled, holds the    *)
(* whole of the notebook last saved to it: saves of one session may        *)
(* overlap, however their writes fall.                                     *)
THEOREM SavesStayWhole == Spec => []SavedWhole
<1>1. Whole => SavedWhole
  BY DEF Whole, WholeAt, SavedWhole
<1> QED
  BY <1>1, AlwaysTyped, InitWhole, StepWhole, PTL DEF Spec

-----------------------------------------------------------------------------
(* Results.  A cell kept by an edit is found where it went.                *)
LEMMA KeptResults ==
    ASSUME NEW nb \in Seq(Cell), Unique(nb), NEW nb2 \in Seq(Cell), NEW id, HasCell(nb2, id),
           KeptFrom(nb, nb2[Position(nb2, id)])
    PROVE  IF HasCell(nb, id)
           THEN Results(nb2, id) = Results(nb, id) \/ TypeOf(nb2, id) # TypeOf(nb, id)
           ELSE Results(nb2, id) = << <<>>, 0>>
<1> DEFINE c == nb2[Position(nb2, id)]
           k == Position(nb, id)
<1>1. c.id = id
  BY PositionFound DEF HasCell
<1>2. /\ k # 0 => k \in 1..Len(nb) /\ nb[k].id = id
      /\ k = 0 => \A i \in 1..Len(nb) : nb[i].id # id
  BY PositionFound
<1>3. KeptFrom(nb, c)
  OBVIOUS
<1> HIDE DEF c, k
<1>4. CASE k # 0
  <2>1. \A i \in 1..Len(nb) : nb[i].id = id => i = k
    BY <1>2, <1>4 DEF Unique
  <2>2. (nb[k].outs = c.outs /\ nb[k].count = c.count) \/ nb[k].type # c.type
    BY <1>1, <1>2, <1>3, <1>4, <2>1 DEF KeptFrom
  <2> QED
    BY <1>4, <2>2 DEF HasCell, Results, TypeOf, c, k
<1>5. CASE k = 0
  <2>1. c.outs = <<>> /\ c.count = 0
    BY <1>1, <1>2, <1>3, <1>5 DEF KeptFrom
  <2> QED
    BY <1>5, <2>1 DEF HasCell, Results, c, k
<1> QED
  BY <1>4, <1>5

KeptBy(s, id) ==
    HasCell(cells'[s], id) =>
        IF HasCell(cells[s], id)
        THEN Results(cells'[s], id) = Results(cells[s], id) \/ MayChange(s, id)
        ELSE Results(cells'[s], id) = << <<>>, 0>>

LEMMA StepKept ==
    ASSUME NInv, NInv', [Next]_vars, NEW s \in Sessions, path[s] # Closed, path'[s] # Closed,
           Addressable(cells[s]), Addressable(cells'[s]), NEW id \in Ids
    PROVE  KeptBy(s, id)
<1>1. /\ cells[s] \in Seq(Cell) /\ Unique(cells[s]) /\ cells'[s] \in Seq(Cell)
      /\ cells \in [Sessions -> Seq(Cell)]
  BY SoundIsAddressable DEF NInv, TypeOK, Sound
<1>2. ASSUME cells'[s] = cells[s] PROVE KeptBy(s, id)
  BY <1>2 DEF KeptBy
<1>3. ASSUME NEW t \in Sessions, EditRequest(t) PROVE KeptBy(s, id)
  <2>1. PICK nb, fresh : Edited(t, nb, fresh)
    BY <1>3, EditsTyped
  <2>2. cells' = [cells EXCEPT ![t] = nb]
    BY <2>1 DEF Edited, Edit
  <2>3. CASE t # s
    BY <1>1, <1>2, <2>2, <2>3
  <2>4. CASE t = s
    <3> SUFFICES ASSUME HasCell(cells'[s], id)
                 PROVE  IF HasCell(cells[s], id)
                        THEN Results(cells'[s], id) = Results(cells[s], id) \/ MayChange(s, id)
                        ELSE Results(cells'[s], id) = << <<>>, 0>>
      BY DEF KeptBy
    <3>1. cells'[s] = nb
      BY <1>1, <2>2, <2>4
    <3>9. Sound(nb)
      BY <1>1, <3>1, SoundIsAddressable
    <3> DEFINE k == Position(nb, id)
    <3>2. k \in 1..Len(nb) /\ nb[k].id = id
      BY <1>1, <3>1, PositionFound DEF HasCell
    <3>3. ASSUME KeptFrom(cells[s], nb[k])
          PROVE  IF HasCell(cells[s], id)
                 THEN Results(nb, id) = Results(cells[s], id) \/ TypeOf(nb, id) # TypeOf(cells[s], id)
                 ELSE Results(nb, id) = << <<>>, 0>>
      BY <1>1, <3>1, <3>3, KeptResults
    <3>4. TypeOf(cells'[s], id) # TypeOf(cells[s], id) => MayChange(s, id)
      BY DEF MayChange
    <3>5. CASE KeptFrom(cells[s], nb[k])
      BY <3>1, <3>3, <3>4, <3>5
    <3>6. CASE Keeps(cells[s], nb)
      BY <3>2, <3>5, <3>6 DEF Keeps
    <3>7. CASE ClearOutputs(s)
      <4>1. MayChange(s, id)
        BY <3>7 DEF MayChange
      <4>2. nb = [i \in 1..Len(cells[s]) |-> Cleared(cells[s][i])]
        BY <1>1, <3>1, <3>7 DEF ClearOutputs, Edit
      <4>3. HasCell(cells[s], id)
        <5>1. Len(cells[s]) \in Nat
          BY <1>1
        <5>2. k \in 1..Len(cells[s]) /\ nb[k] = Cleared(cells[s][k])
          BY <3>2, <4>2, <5>1
        <5>3. cells[s][k].id = id
          BY <1>1, <3>2, <5>2, ClearedTyped
        <5> QED
          BY <1>1, <5>2, <5>3, PositionFound DEF HasCell
      <4> QED
        BY <4>1, <4>3
    <3>8. ASSUME NEW x \in Ids, ClearCellOutput(s, x), KeepsBut(cells[s], nb, x)
          PROVE  IF HasCell(cells[s], id)
                 THEN Results(cells'[s], id) = Results(cells[s], id) \/ MayChange(s, id)
                 ELSE Results(cells'[s], id) = << <<>>, 0>>
      <4>1. CASE x = id
        BY <3>8, <4>1 DEF MayChange, ClearCellOutput
      <4>2. CASE x # id
        BY <3>2, <3>5, <3>8, <4>2 DEF KeepsBut
      <4> QED
        BY <4>1, <4>2
    <3> QED
      BY <2>1, <2>4, <3>6, <3>7, <3>8, <3>9 DEF Edited
  <2> QED
    BY <2>3, <2>4
<1>4. ASSUME NEW n \in Runs, NEW kind \in EventKinds, ApplyEvent(n, kind) PROVE KeptBy(s, id)
  <2> DEFINE t == route[n][1]
             x == route[n][2]
             nb == Update(cells[t], x, LAMBDA c : Applied(c, n, kind))
  <2>1. /\ HasCell(cells[t], x) /\ cells' = [cells EXCEPT ![t] = nb] /\ path[t] # Closed
        /\ route[n] # <<>>
    BY <1>4 DEF ApplyEvent, Writable
  <2>2. t \in Sessions /\ route[n] = <<t, x>> /\ nextId \in Nat
    <3>1. nextId \in Nat /\ route \in [Runs -> {<<>>} \cup (Sessions \X Ids)]
      BY DEF NInv, TypeOK
    <3>2. route[n] \in Sessions \X Ids
      BY <2>1, <3>1
    <3> QED
      BY <3>1, <3>2
  <2> HIDE DEF t, x
  <2>3. Cellular(cells[t], nextId)
    BY <2>1, <2>2 DEF NInv, SessionsGood
  <2>4. Cellular(nb, nextId) /\ KeepsBut(cells[t], nb, x)
    BY <2>1, <2>2, <2>3, EventApplied
  <2> HIDE DEF nb
  <2>5. CASE t # s
    BY <1>1, <1>2, <2>1, <2>5
  <2>6. CASE t = s
    <3> SUFFICES ASSUME HasCell(cells'[s], id)
                 PROVE  IF HasCell(cells[s], id)
                        THEN Results(cells'[s], id) = Results(cells[s], id) \/ MayChange(s, id)
                        ELSE Results(cells'[s], id) = << <<>>, 0>>
      BY DEF KeptBy
    <3>1. cells'[s] = nb
      BY <1>1, <2>1, <2>6
    <3> DEFINE k == Position(nb, id)
    <3>2. k \in 1..Len(nb) /\ nb[k].id = id
      BY <1>1, <3>1, PositionFound DEF HasCell
    <3>3. CASE x = id
      <4>1. MayChange(s, id)
        BY <1>4, <2>2, <2>6, <3>3 DEF MayChange
      <4>2. HasCell(cells[s], id)
        BY <2>1, <2>6, <3>3
      <4> QED
        BY <4>1, <4>2
    <3>4. CASE x # id
      <4>1. KeptFrom(cells[s], nb[k])
        BY <2>4, <2>6, <3>2, <3>4 DEF KeepsBut
      <4>2. IF HasCell(cells[s], id)
            THEN Results(nb, id) = Results(cells[s], id) \/ TypeOf(nb, id) # TypeOf(cells[s], id)
            ELSE Results(nb, id) = << <<>>, 0>>
        BY <1>1, <3>1, <4>1, KeptResults
      <4>3. TypeOf(cells'[s], id) # TypeOf(cells[s], id) => MayChange(s, id)
        BY DEF MayChange
      <4> QED
        BY <3>1, <4>2, <4>3
    <3> QED
      BY <3>3, <3>4
  <2> QED
    BY <2>5, <2>6
<1>5. CASE Request
  <2>1. ASSUME NEW t \in Sessions, NEW p \in Paths, Open(t, p) \/ OpenPy(t, p)
        PROVE  KeptBy(s, id)
    <3>1. path[t] = Closed /\ \E nb : cells' = [cells EXCEPT ![t] = nb]
      BY <2>1 DEF Open, OpenPy
    <3> QED
      BY <1>1, <1>2, <3>1
  <2>2. ASSUME NEW t \in Sessions, Close(t)
        PROVE  KeptBy(s, id)
    <3>1. path \in [Sessions -> Paths \cup {Closed}]
      BY DEF NInv, TypeOK
    <3>2. t # s
      BY <2>2, <3>1 DEF Close
    <3> QED
      BY <1>1, <1>2, <2>2, <3>2 DEF Close
  <2>3. ASSUME NEW t \in Sessions, NEW x \in Ids, Execute(t, x)
        PROVE  KeptBy(s, id)
    BY <1>2, <2>3 DEF Execute
  <2>4. ASSUME NEW i \in SaveTasks, NEW t \in Sessions, NEW p \in Paths, BeginSave(i, t, p)
        PROVE  KeptBy(s, id)
    BY <1>2, <2>4 DEF BeginSave, sessionVars
  <2> QED
    BY <1>3, <1>5, <2>1, <2>2, <2>3, <2>4 DEF Request
<1>6. CASE Step
  <2>1. ASSUME NEW i \in SaveTasks, SaveStep(i)
        PROVE  KeptBy(s, id)
    BY <1>2, <2>1 DEF SaveStep, WriteHead, WriteTail, SaveFails, sessionVars
  <2>2. ~Crash
    BY DEF Crash
  <2> QED
    BY <1>4, <1>6, <2>1, <2>2 DEF Step
<1>7. CASE UNCHANGED vars
  BY <1>2, <1>7 DEF vars, sessionVars
<1> QED
  BY <1>5, <1>6, <1>7 DEF Next

(* A cell that its id names keeps its results, also through edits that     *)
(* move it or replace the list of cells, until they are cleared or its     *)
(* type changes; only its own runs add to them; and a new cell has none.   *)
THEOREM ResultsStayKept == Spec => ResultsKept
<1> DEFINE A == \A s \in Sessions :
                    /\ path[s] # Closed /\ Addressable(cells[s])
                    /\ path'[s] # Closed /\ Addressable(cells'[s])
                    => \A id \in Ids : HasCell(cells'[s], id) =>
                        IF HasCell(cells[s], id)
                        THEN Results(cells'[s], id) = Results(cells[s], id) \/ MayChange(s, id)
                        ELSE Results(cells'[s], id) = << <<>>, 0>>
<1>1. NInv /\ NInv' /\ [Next]_vars => A
  <2> SUFFICES ASSUME NInv, NInv', [Next]_vars,
                      NEW s \in Sessions, path[s] # Closed, path'[s] # Closed,
                      Addressable(cells[s]), Addressable(cells'[s]), NEW id \in Ids
               PROVE  KeptBy(s, id)
    BY DEF KeptBy
  <2> QED
    BY StepKept
<1> HIDE DEF A
<1>2. NInv /\ NInv' /\ [Next]_vars => [A]_vars
  BY <1>1
<1>3. Spec => [][A]_vars
  BY <1>2, AlwaysTyped, PTL DEF Spec
<1> QED
  BY <1>3 DEF ResultsKept, A
=============================================================================
