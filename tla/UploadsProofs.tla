---------------------------- MODULE UploadsProofs -----------------------------
(***************************************************************************)
(* That an upload which breaks off leaves nothing behind, and that a form  *)
(* arrives as it was sent, whatever is sent, however it is cut into pieces *)
(* and wherever the connection breaks.                                     *)
(*                                                                         *)
(* A chunked body is a row of chunks, each of a size, a line end, as much  *)
(* data and a line end; only the last has the size 0, and the sender only  *)
(* writes it when it has written all the others.  So as long as the        *)
(* receiver reads sizes where the sender has written them, it cannot take  *)
(* anything for the end that is not.  Framed says where in what it has and *)
(* is to get the chunks begin.  That what the sender writes is made of     *)
(* cells takes what the digits of a number and a flattened sequence are:   *)
(* functions that call themselves.                                         *)
(*                                                                         *)
(* A form has a delimiter after the data of each of its parts.  PostInv    *)
(* says at which place of the form Web Drop's reader is, what it has kept  *)
(* of the parts before, and that it finds the end of a part's data exactly *)
(* where the data ends.                                                    *)
(***************************************************************************)
EXTENDS Uploads, WebDropPost, FiniteSetTheorems, SequenceTheorems, WellFoundedInduction, TLAPS

-----------------------------------------------------------------------------
(* Functions that call themselves, on numbers.                             *)

\* A nonempty set of numbers has a least one.
LEMMA SetMinimum ==
    ASSUME NEW S \in SUBSET Nat, S # {}
    PROVE  \E i \in S : \A j \in S : i <= j
<1>1. PICK R : /\ IsWellFoundedOn(R, Nat)
               /\ \A i, j \in Nat : j < i => <<j, i>> \in R
    <2>1. \A i, j \in Nat : j < i => <<j, i>> \in OpToRel(<, Nat)
        BY DEF OpToRel
    <2> QED
        BY <2>1, NatLessThanWellFounded
<1>2. PICK i \in S : \A j \in S : ~ (<<j, i>> \in R)
    BY <1>1, WFMin
<1>3. \A j \in S : ~ (j < i)
    BY <1>1, <1>2
<1> QED
    BY <1>3

\* f is defined below n by its values on B and what h makes of the value before.
Below(D, n) == {i \in D : i < n}
ValueAt(f, i, B, base, pred, h) == IF i \in B THEN base[i] ELSE h[i][f[pred[i]]]
IsRecursive(f, D, B, base, pred, h) == f = [i \in D |-> ValueAt(f, i, B, base, pred, h)]

\* Two such functions agree where both are defined.
LEMMA SameValues ==
    ASSUME NEW D \in SUBSET Nat, NEW E, D \subseteq E, NEW B, NEW base, NEW pred, NEW h,
           \A i \in D \ B : pred[i] \in D /\ pred[i] < i,
           NEW f, IsRecursive(f, D, B, base, pred, h),
           NEW g, IsRecursive(g, E, B, base, pred, h)
    PROVE  \A i \in D : f[i] = g[i]
<1> DEFINE T == {j \in D : f[j] # g[j]}
<1>1. SUFFICES ASSUME T # {} PROVE FALSE
    OBVIOUS
<1>2. T \in SUBSET Nat
    OBVIOUS
<1> HIDE DEF T
<1>3. PICK j \in T : \A k \in T : j <= k
    BY <1>1, <1>2, SetMinimum
<1> USE DEF T
<1>4. j \in D /\ f[j] # g[j]
    OBVIOUS
<1>5. f[j] = ValueAt(f, j, B, base, pred, h) /\ g[j] = ValueAt(g, j, B, base, pred, h)
    BY <1>4 DEF IsRecursive
<1>6. CASE j \in B
    BY <1>4, <1>5, <1>6 DEF ValueAt
<1>7. CASE j \notin B
    <2>1. pred[j] \in D /\ pred[j] < j
        BY <1>4, <1>7
    <2>2. pred[j] \in Nat /\ j \in Nat
        BY <1>4, <2>1
    <2>3. pred[j] \notin T
        BY <1>3, <2>1, <2>2
    <2> QED
        BY <1>4, <1>5, <1>7, <2>1, <2>3 DEF ValueAt
<1> QED
    BY <1>6, <1>7

\* There is one such function if what is asked for is always smaller.
LEMMA Recursion ==
    ASSUME NEW D \in SUBSET Nat, NEW B \in SUBSET D, NEW V,
           NEW base \in [B -> V], NEW pred \in [D \ B -> D],
           \A i \in D \ B : pred[i] < i,
           NEW h \in [D \ B -> [V -> V]]
    PROVE  \E f \in [D -> V] : IsRecursive(f, D, B, base, pred, h)
<1> DEFINE Part(n, f) == IsRecursive(f, Below(D, n), B, base, pred, h)
           S == {n \in Nat : ~ \E f \in [Below(D, n) -> V] : Part(n, f)}
<1>0. \A i \in D : i \in Nat
    OBVIOUS
<1>a. \A n, i : i \in Below(D, n) <=> i \in D /\ i < n
    BY DEF Below
<1>1. ASSUME NEW n \in Nat, NEW m \in Nat, n <= m, NEW f, Part(n, f), NEW g, Part(m, g),
             NEW i \in Below(D, n)
      PROVE  f[i] = g[i]
    <2>1. Below(D, n) \in SUBSET Nat /\ Below(D, n) \subseteq Below(D, m)
        <3>1. ASSUME NEW j \in Below(D, n) PROVE j \in Nat /\ j \in Below(D, m)
            <4>1. j \in Nat /\ j \in D /\ j < n
                BY <1>0, <1>a
            <4>2. j < m
                BY <1>1, <4>1
            <4> QED
                BY <1>a, <4>1, <4>2
        <3> QED
            BY <3>1
    <2>2. ASSUME NEW j \in Below(D, n) \ B PROVE pred[j] \in Below(D, n) /\ pred[j] < j
        <3>1. j \in Nat /\ j \in D /\ j < n /\ pred[j] \in D /\ pred[j] < j
            BY <1>0, <1>a
        <3>2. pred[j] \in Nat
            BY <1>0, <3>1
        <3>3. pred[j] < n
            BY <3>1, <3>2
        <3> QED
            BY <1>a, <3>1, <3>3
    <2> QED
        BY <1>1, <2>1, <2>2, SameValues
<1>2. ASSUME NEW n \in Nat PROVE \E f \in [Below(D, n) -> V] : Part(n, f)
    <2>1. SUFFICES ASSUME S # {} PROVE FALSE
        OBVIOUS
    <2>2. S \in SUBSET Nat
        OBVIOUS
    <2> HIDE DEF S
    <2>3. PICK m \in S : \A j \in S : m <= j
        BY <2>1, <2>2, SetMinimum
    <2> USE DEF S
    <2>4. m # 0
        <3>1. Below(D, 0) = {}
            <4>1. SUFFICES ASSUME NEW i \in Below(D, 0) PROVE FALSE
                OBVIOUS
            <4>2. i \in Nat /\ i < 0
                BY <1>0, <1>a
            <4> QED
                BY <4>2
        <3>2. [i \in {} |-> i] \in [Below(D, 0) -> V] /\ Part(0, [i \in {} |-> i])
            BY <3>1 DEF IsRecursive
        <3> QED
            BY <3>2
    <2>5. m - 1 \in Nat /\ m - 1 \notin S
        BY <2>3, <2>4
    <2>6. PICK f \in [Below(D, m - 1) -> V] : Part(m - 1, f)
        BY <2>5
    <2> DEFINE g == [i \in Below(D, m) |-> ValueAt(f, i, B, base, pred, h)]
    <2>7. ASSUME NEW i \in Below(D, m)
          PROVE  /\ ValueAt(f, i, B, base, pred, h) = ValueAt(g, i, B, base, pred, h)
                 /\ ValueAt(f, i, B, base, pred, h) \in V
        <3>1. i \in D
            BY DEF Below
        <3>2. CASE i \in B
            BY <3>2 DEF ValueAt
        <3>3. CASE i \notin B
            <4>1. pred[i] \in D /\ pred[i] < i
                BY <3>1, <3>3
            <4>2. pred[i] \in Below(D, m - 1) /\ pred[i] \in Below(D, m)
                <5>1. pred[i] \in Nat /\ i \in Nat /\ i < m
                    BY <1>0, <1>a, <3>1, <4>1
                <5>2. pred[i] < m - 1 /\ pred[i] < m
                    BY <2>5, <4>1, <5>1
                <5> QED
                    BY <1>a, <4>1, <5>2
            <4>3. f[pred[i]] = g[pred[i]] /\ f[pred[i]] \in V
                BY <2>6, <4>2 DEF IsRecursive
            <4> HIDE DEF g
            <4> QED
                BY <3>1, <3>3, <4>3 DEF ValueAt
        <3> QED
            BY <3>2, <3>3
    <2>8. g \in [Below(D, m) -> V] /\ g = [i \in Below(D, m) |-> ValueAt(g, i, B, base, pred, h)]
        BY <2>7
    <2> HIDE DEF g
    <2>9. Part(m, g)
        BY <2>8 DEF IsRecursive
    <2> QED
        BY <2>8, <2>9
<1> HIDE DEF S
<1> DEFINE Upto(n) == CHOOSE f : f \in [Below(D, n) -> V] /\ Part(n, f)
           F == [i \in D |-> Upto(i + 1)[i]]
<1>3. ASSUME NEW i \in D
      PROVE  /\ i + 1 \in Nat /\ i \in Below(D, i + 1)
             /\ Upto(i + 1) \in [Below(D, i + 1) -> V] /\ Part(i + 1, Upto(i + 1))
    <2>1. i + 1 \in Nat /\ i \in Below(D, i + 1)
        BY DEF Below
    <2> QED
        BY <1>2, <2>1
<1> HIDE DEF Upto
<1>4. ASSUME NEW i \in D PROVE F[i] = ValueAt(F, i, B, base, pred, h) /\ F[i] \in V
    <2> DEFINE f == Upto(i + 1)
    <2>1. f[i] = ValueAt(f, i, B, base, pred, h) /\ F[i] = f[i] /\ F[i] \in V
        BY <1>3 DEF IsRecursive
    <2>2. CASE i \in B
        BY <2>1, <2>2 DEF ValueAt
    <2>3. CASE i \notin B
        <3>1. pred[i] \in D /\ pred[i] < i
            BY <2>3
        <3>2. F[pred[i]] = Upto(pred[i] + 1)[pred[i]]
            BY <3>1
        <3>3. pred[i] + 1 \in Nat /\ i + 1 \in Nat /\ pred[i] + 1 <= i + 1
            <4>1. pred[i] \in Nat /\ i \in Nat
                BY <1>0, <3>1
            <4> QED
                BY <3>1, <4>1
        <3>4. Part(pred[i] + 1, Upto(pred[i] + 1)) /\ Part(i + 1, f) /\ pred[i] \in Below(D, pred[i] + 1)
            BY <1>3, <3>1
        <3> HIDE DEF F, f
        <3>5. Upto(pred[i] + 1)[pred[i]] = f[pred[i]]
            BY <1>1, <3>3, <3>4
        <3> QED
            BY <2>1, <2>3, <3>2, <3>5 DEF ValueAt
    <2> QED
        BY <2>2, <2>3
<1>5. F \in [D -> V] /\ F = [i \in D |-> ValueAt(F, i, B, base, pred, h)]
    BY <1>4
<1> HIDE DEF F
<1> QED
    BY <1>5 DEF IsRecursive

-----------------------------------------------------------------------------
(* Cells.                                                                  *)

\* The prover does not know the literals for strings.
AnyCell == STRING \cup {Odc, Newc, Gzip, NUL, HEAD, EOL, ".", "0", "1", "2", "3",
                        "file", "dir", "none", Trailer[1],
                        CRLF, Dashes, "B", DISPOSITION, "content-type"}

LEMMA CellsAre ==
    /\ \A d \in 0..3 : Cell(d) \in AnyCell /\ Cell(d) # EOL /\ IsDigit(Cell(d)) /\ Digit(Cell(d)) = d
    /\ ~IsDigit(EOL)
<1>1. Cell(0) = "0" /\ Cell(1) = "1" /\ Cell(2) = "2" /\ Cell(3) = "3"
    BY DEF Cell
<1>2. \A d \in 0..3 : d = 0 \/ d = 1 \/ d = 2 \/ d = 3
    OBVIOUS
<1>3. {Cell(d) : d \in 0..Base - 1} = {"0", "1", "2", "3"}
    BY <1>1, <1>2 DEF Base
<1>4. ASSUME NEW d \in 0..3 PROVE Digit(Cell(d)) = d
    <2>1. \A e \in 0..Base - 1 : Cell(e) = Cell(d) <=> e = d
        BY <1>1, <1>2 DEF Base
    <2>2. d \in 0..Base - 1
        BY DEF Base
    <2> QED
        BY <2>1, <2>2 DEF Digit
<1>5. ASSUME NEW d \in 0..3 PROVE Cell(d) \in AnyCell /\ Cell(d) # EOL /\ IsDigit(Cell(d))
    <2>1. Cell(d) \in {"0", "1", "2", "3"}
        BY <1>1, <1>2
    <2> QED
        <3>1. Cell(d) \in AnyCell
            BY <2>1 DEF AnyCell
        <3>3. Cell(d) # EOL
            BY <2>1 DEF EOL
        <3>2. IsDigit(Cell(d))
            BY <1>3, <2>1 DEF IsDigit
        <3> QED
            BY <3>1, <3>2, <3>3
<1>6. ~IsDigit(EOL)
    BY <1>3 DEF EOL, IsDigit
<1> QED
    BY <1>4, <1>5, <1>6

LEMMA DigitsAre ==
    Digits = [n \in Nat |-> IF n < Base THEN <<Cell(n)>>
                            ELSE Append(Digits[n \div Base], Cell(n % Base))]
<1> DEFINE B == {i \in Nat : i < Base}
           V == Seq(AnyCell)
           base == [i \in B |-> <<Cell(i)>>]
           pred == [i \in Nat \ B |-> i \div Base]
           h == [i \in Nat \ B |-> [v \in V |-> Append(v, Cell(i % Base))]]
<1>1. ASSUME NEW i \in Nat
      PROVE  /\ i % Base \in 0..3 /\ i \div Base \in Nat
             /\ i \in B => i \in 0..3
             /\ i \notin B => i \div Base < i
    BY DEF Base
<1>2. base \in [B -> V]
    BY <1>1, CellsAre
<1>3. pred \in [Nat \ B -> Nat] /\ \A i \in Nat \ B : pred[i] < i
    BY <1>1
<1>4. h \in [Nat \ B -> [V -> V]]
    <2>1. ASSUME NEW i \in Nat \ B, NEW v \in V PROVE Append(v, Cell(i % Base)) \in V
        <3>1. Cell(i % Base) \in AnyCell
            BY <1>1, CellsAre
        <3> QED
            BY <3>1, AppendProperties
    <2> QED
        BY <2>1
<1>5. B \in SUBSET Nat
    OBVIOUS
<1> HIDE DEF B, base, pred, h
<1>6. PICK f \in [Nat -> V] : IsRecursive(f, Nat, B, base, pred, h)
    BY <1>2, <1>3, <1>4, <1>5, Recursion
<1> USE DEF B, base, pred, h
<1>7. f = [i \in Nat |-> IF i < Base THEN <<Cell(i)>> ELSE Append(f[i \div Base], Cell(i % Base))]
    <2>1. ASSUME NEW i \in Nat
          PROVE  ValueAt(f, i, B, base, pred, h) =
                    IF i < Base THEN <<Cell(i)>> ELSE Append(f[i \div Base], Cell(i % Base))
        <3>1. CASE i < Base
            BY <3>1 DEF ValueAt
        <3>2. CASE ~(i < Base)
            <4>1. i \in Nat \ B /\ f[i \div Base] \in V
                BY <1>1, <3>2
            <4> QED
                BY <3>2, <4>1 DEF ValueAt
        <3> QED
            BY <3>1, <3>2
    <2> QED
        BY <1>6, <2>1 DEF IsRecursive
<1> HIDE DEF B, base, pred, h
<1> QED
    BY <1>7, Zenon DEF Digits

LEMMA DigitsType ==
    ASSUME NEW n \in Nat
    PROVE  Digits[n] \in Seq(AnyCell)
<1> DEFINE S == {i \in Nat : Digits[i] \notin Seq(AnyCell)}
<1>1. SUFFICES ASSUME S # {} PROVE FALSE
    OBVIOUS
<1>2. S \in SUBSET Nat
    OBVIOUS
<1> HIDE DEF S
<1>3. PICK i \in S : \A j \in S : i <= j
    BY <1>1, <1>2, SetMinimum
<1> USE DEF S
<1>4. Digits[i] = IF i < Base THEN <<Cell(i)>> ELSE Append(Digits[i \div Base], Cell(i % Base))
    BY <1>3, DigitsAre
<1>5. CASE i < Base
    <2>1. i \in 0..3
        BY <1>3, <1>5 DEF Base
    <2>2. Cell(i) \in AnyCell
        BY <2>1, CellsAre
    <2>3. <<Cell(i)>> \in Seq(AnyCell)
        BY <2>2
    <2> QED
        BY <1>3, <1>4, <1>5, <2>3
<1>6. CASE ~(i < Base)
    <2>1. i \div Base \in Nat /\ i \div Base < i /\ i % Base \in 0..3
        BY <1>3, <1>6 DEF Base
    <2>2. Digits[i \div Base] \in Seq(AnyCell)
        BY <1>3, <2>1
    <2>3. Cell(i % Base) \in AnyCell
        BY <2>1, CellsAre
    <2>4. Append(Digits[i \div Base], Cell(i % Base)) \in Seq(AnyCell)
        BY <2>2, <2>3, AppendProperties
    <2> QED
        BY <1>3, <1>4, <1>6, <2>4
<1> QED
    BY <1>5, <1>6

\* A row of sequences becomes one: each begins where those before it end.
Laid(seqs, whole, off) ==
    /\ off \in [0..Len(seqs) -> Nat] /\ off[0] = 0
    /\ \A i \in 1..Len(seqs) :
          /\ off[i] = off[i - 1] + Len(seqs[i])
          /\ off[i] <= off[Len(seqs)]
          /\ \A j \in 1..Len(seqs[i]) : whole[off[i - 1] + j] = seqs[i][j]
    /\ Len(whole) = off[Len(seqs)]

LEMMA FlattenIs ==
    ASSUME NEW S, NEW seqs \in Seq(Seq(S))
    PROVE  FlattenSeq(seqs) \in Seq(S) /\ \E off : Laid(seqs, FlattenSeq(seqs), off)
<1> DEFINE n == Len(seqs)
           D == 1..n
           V == Seq(S)
           base == [i \in {1} |-> seqs[1]]
           pred == [i \in D \ {1} |-> i - 1]
           h == [i \in D \ {1} |-> [v \in V |-> v \o seqs[i]]]
           Flat(f) == f = [i \in 1..n |-> IF i = 1 THEN seqs[i] ELSE f[i - 1] \o seqs[i]]
<1>1. CASE n = 0
    <2>1. FlattenSeq(seqs) = <<>>
        BY <1>1 DEF FlattenSeq
    <2>2. Laid(seqs, <<>>, [i \in 0..0 |-> 0])
        BY <1>1 DEF Laid
    <2> QED
        BY <2>1, <2>2
<1>2. CASE n # 0
    <2>1. n \in Nat /\ n >= 1 /\ \A i \in D : i \in Nat /\ seqs[i] \in V /\ (i # 1 => i - 1 \in D)
        BY <1>2
    <2>2. /\ base \in [{1} -> V] /\ {1} \in SUBSET D /\ D \in SUBSET Nat
          /\ pred \in [D \ {1} -> D] /\ \A i \in D \ {1} : pred[i] < i
        BY <1>2, <2>1
    <2>3. h \in [D \ {1} -> [V -> V]]
        <3>1. ASSUME NEW i \in D, NEW v \in V PROVE v \o seqs[i] \in V
            BY <2>1, ConcatProperties
        <3> QED
            BY <3>1
    <2> HIDE DEF base, pred, h
    <2>4. PICK f \in [D -> V] : IsRecursive(f, D, {1}, base, pred, h)
        BY <2>2, <2>3, Recursion
    <2> USE DEF base, pred, h
    <2>5. ASSUME NEW i \in D
          PROVE  ValueAt(f, i, {1}, base, pred, h) = IF i = 1 THEN seqs[i] ELSE f[i - 1] \o seqs[i]
        <3>1. CASE i = 1
            BY <3>1 DEF ValueAt
        <3>2. CASE i # 1
            <4>1. i \in D \ {1} /\ f[i - 1] \in V
                BY <2>1, <2>4, <3>2
            <4> QED
                BY <3>2, <4>1 DEF ValueAt
        <3> QED
            BY <3>1, <3>2
    <2>6. Flat(f)
        BY <2>4, <2>5 DEF IsRecursive
    <2> DEFINE flatten == CHOOSE g : Flat(g)
               Longer(k, i) == /\ Len(flatten[k]) <= Len(flatten[i])
                               /\ \A j \in 1..Len(flatten[k]) : flatten[i][j] = flatten[k][j]
               Bad == {i \in D : flatten[i] \notin V \/ \E k \in 1..i : ~Longer(k, i)}
    <2> HIDE DEF base, pred, h, Flat
    <2>7. Flat(flatten)
        BY <2>6
    <2>8. FlattenSeq(seqs) = flatten[n]
        BY <1>2 DEF FlattenSeq, Flat
    <2> HIDE DEF flatten
    <2>9. ASSUME NEW i \in D
          PROVE  flatten[i] = IF i = 1 THEN seqs[i] ELSE flatten[i - 1] \o seqs[i]
        BY <2>7 DEF Flat
    <2>10. ASSUME NEW i \in D, i # 1, flatten[i - 1] \in V
           PROVE  /\ flatten[i] \in V /\ Len(flatten[i - 1]) \in Nat /\ Len(seqs[i]) \in Nat
                  /\ Len(flatten[i]) = Len(flatten[i - 1]) + Len(seqs[i])
                  /\ \A j \in 1..Len(flatten[i - 1]) : flatten[i][j] = flatten[i - 1][j]
                  /\ \A j \in 1..Len(seqs[i]) : flatten[i][Len(flatten[i - 1]) + j] = seqs[i][j]
        <3> DEFINE s == flatten[i - 1]
                   t == seqs[i]
        <3>1. s \in V /\ t \in V /\ flatten[i] = s \o t
            BY <2>1, <2>9, <2>10
        <3> HIDE DEF s, t
        <3>2. /\ s \o t \in V /\ Len(s) \in Nat /\ Len(t) \in Nat
              /\ Len(s \o t) = Len(s) + Len(t)
              /\ \A j \in 1..Len(s) : (s \o t)[j] = s[j]
              /\ \A j \in 1..Len(t) : (s \o t)[Len(s) + j] = t[j]
            BY <3>1, ConcatProperties
        <3> QED
            BY <3>1, <3>2 DEF s, t
    <2>11. Bad = {}
        <3>1. SUFFICES ASSUME Bad # {} PROVE FALSE
            OBVIOUS
        <3>2. Bad \in SUBSET Nat
            OBVIOUS
        <3> HIDE DEF Bad
        <3>3. PICK i \in Bad : \A j \in Bad : i <= j
            BY <3>1, <3>2, SetMinimum
        <3> USE DEF Bad
        <3>4. i \in D /\ i \in Nat
            BY <2>1, <3>3
        <3>5. CASE i = 1
            <4>1. flatten[1] \in V
                BY <2>1, <2>9, <3>4, <3>5
            <4>2. Len(flatten[1]) \in Nat
                BY <4>1, LenProperties
            <4>3. Longer(1, 1) /\ \A k \in 1..1 : k = 1
                BY <4>2
            <4> QED
                BY <3>3, <3>5, <4>1, <4>3
        <3>6. CASE i # 1
            <4>a. i - 1 \in D /\ i - 1 < i /\ i - 1 \in Nat
                BY <2>1, <3>4, <3>6
            <4>1. i - 1 \in D /\ i - 1 \notin Bad
                <5> HIDE DEF Bad
                <5>1. i - 1 \in Bad => i <= i - 1
                    BY <3>3
                <5> QED
                    BY <3>4, <4>a, <5>1
            <4>2. flatten[i - 1] \in V /\ \A k \in 1..i - 1 : Longer(k, i - 1)
                BY <4>1
            <4>3. /\ flatten[i] \in V /\ Len(flatten[i - 1]) \in Nat /\ Len(seqs[i]) \in Nat
                  /\ Len(flatten[i]) = Len(flatten[i - 1]) + Len(seqs[i])
                  /\ \A j \in 1..Len(flatten[i - 1]) : flatten[i][j] = flatten[i - 1][j]
                BY <2>10, <3>4, <3>6, <4>2
            <4>4. ASSUME NEW k \in 1..i PROVE Longer(k, i)
                <5>0. Len(flatten[i]) \in Nat
                    BY <4>3, LenProperties
                <5>1. CASE k = i
                    BY <5>0, <5>1
                <5>2. CASE k # i
                    <6>1. k \in 1..i - 1
                        BY <3>4, <5>2
                    <6>2. Longer(k, i - 1) /\ flatten[k] \in V
                        <7>1. k \in D /\ k < i /\ k \notin Bad
                            BY <2>1, <3>3, <3>4, <6>1
                        <7> QED
                            BY <4>2, <6>1, <7>1
                    <6>3. Len(flatten[k]) \in Nat
                        BY <6>2, LenProperties
                    <6>4. Len(flatten[k]) <= Len(flatten[i])
                        <7> DEFINE a == Len(flatten[k])
                                   b == Len(flatten[i - 1])
                                   c == Len(flatten[i])
                                   d == Len(seqs[i])
                        <7>1. a \in Nat /\ b \in Nat /\ d \in Nat /\ a <= b /\ c = b + d
                            BY <4>3, <6>2, <6>3
                        <7> HIDE DEF a, b, c, d
                        <7>2. a <= c
                            BY <7>1
                        <7> QED
                            BY <7>2 DEF a, c
                    <6>5. ASSUME NEW j \in 1..Len(flatten[k]) PROVE flatten[i][j] = flatten[k][j]
                        <7>1. j \in 1..Len(flatten[i - 1])
                            <8>1. Len(flatten[k]) <= Len(flatten[i - 1]) /\ Len(flatten[i - 1]) \in Nat
                                BY <4>3, <6>2
                            <8> QED
                                BY <6>3, <8>1
                        <7>2. flatten[i][j] = flatten[i - 1][j]
                            BY <4>3, <7>1
                        <7>3. flatten[i - 1][j] = flatten[k][j]
                            BY <6>2
                        <7> QED
                            BY <7>2, <7>3
                    <6> QED
                        BY <6>4, <6>5
                <5> QED
                    BY <5>1, <5>2
            <4> QED
                BY <3>3, <4>3, <4>4
        <3> QED
            BY <3>5, <3>6
    <2>12. ASSUME NEW i \in D
           PROVE  flatten[i] \in V /\ Len(flatten[i]) \in Nat /\ \A k \in 1..i : Longer(k, i)
        <3>1. flatten[i] \in V /\ \A k \in 1..i : Longer(k, i)
            BY <2>11
        <3> QED
            BY <3>1, LenProperties
    <2> DEFINE off == [i \in 0..n |-> IF i = 0 THEN 0 ELSE Len(flatten[i])]
    <2>13. off \in [0..n -> Nat] /\ off[0] = 0 /\ n \in D
        BY <2>1, <2>12
    <2>14. ASSUME NEW i \in D
           PROVE  /\ off[i] = off[i - 1] + Len(seqs[i])
                  /\ off[i] <= off[n]
                  /\ \A j \in 1..Len(seqs[i]) : flatten[n][off[i - 1] + j] = seqs[i][j]
        <3>1. i \in Nat /\ i \in 0..n /\ i # 0 /\ off[i] = Len(flatten[i]) /\ off[n] = Len(flatten[n])
            BY <2>1, <2>13
        <3>2. Longer(i, n) /\ Len(seqs[i]) \in Nat
            <4>1. i \in 1..n
                OBVIOUS
            <4>2. seqs[i] \in V
                BY <2>1
            <4> QED
                BY <2>12, <2>13, <4>1, <4>2, LenProperties
        <3>3. CASE i = 1
            <4>1. flatten[1] = seqs[1] /\ off[i - 1] = 0
                BY <2>9, <2>13, <3>3
            <4>2. \A j \in 1..Len(seqs[i]) : 0 + j = j
                BY <3>2
            <4> QED
                BY <3>1, <3>2, <3>3, <4>1, <4>2
        <3>4. CASE i # 1
            <4>1. i - 1 \in D /\ i - 1 # 0 /\ i - 1 \in 0..n
                BY <2>1, <3>1, <3>4
            <4>2. /\ Len(flatten[i - 1]) \in Nat /\ off[i - 1] = Len(flatten[i - 1])
                  /\ Len(flatten[i]) = Len(flatten[i - 1]) + Len(seqs[i])
                  /\ \A j \in 1..Len(seqs[i]) : flatten[i][Len(flatten[i - 1]) + j] = seqs[i][j]
                BY <2>10, <2>12, <3>4, <4>1
            <4>3. ASSUME NEW j \in 1..Len(seqs[i])
                  PROVE  flatten[n][off[i - 1] + j] = seqs[i][j]
                <5> DEFINE l == Len(flatten[i - 1]) + j
                <5>1. l \in 1..Len(flatten[i])
                    <6>1. /\ Len(seqs[i]) \in Nat /\ Len(flatten[i - 1]) \in Nat
                          /\ Len(flatten[i]) = Len(flatten[i - 1]) + Len(seqs[i])
                        BY <3>2, <4>2
                    <6> DEFINE a == Len(flatten[i - 1])
                               b == Len(seqs[i])
                               c == Len(flatten[i])
                    <6>2. a \in Nat /\ b \in Nat /\ c = a + b /\ j \in 1..b /\ l = a + j
                        BY <6>1
                    <6> HIDE DEF a, b, c, l
                    <6>3. l \in 1..c
                        BY <6>2
                    <6> QED
                        BY <6>3 DEF c
                <5>2. flatten[i][l] = seqs[i][j] /\ off[i - 1] + j = l
                    BY <4>2
                <5> HIDE DEF l, off
                <5>3. flatten[n][l] = flatten[i][l]
                    BY <3>2, <5>1
                <5> QED
                    BY <5>2, <5>3
            <4> QED
                BY <3>1, <3>2, <4>2, <4>3
        <3> QED
            BY <3>3, <3>4
    <2> HIDE DEF off
    <2>15. Laid(seqs, flatten[n], off)
        <3>1. Len(flatten[n]) = off[n]
            BY <2>1, <2>13 DEF off
        <3> QED
            BY <2>13, <2>14, <3>1 DEF Laid
    <2> QED
        BY <2>8, <2>12, <2>13, <2>15
<1> QED
    BY <1>1, <1>2

Cells == Seq(AnyCell)

LEMMA Wider ==
    ASSUME NEW S, NEW s \in Seq(S), S \subseteq AnyCell
    PROVE  s \in Cells
<1>1. s \in [1..Len(s) -> AnyCell] /\ Len(s) \in Nat
    BY LenProperties
<1> QED
    BY <1>1, SeqDef DEF Cells

LEMMA FieldType ==
    ASSUME NEW n \in Nat, NEW width \in Nat
    PROVE  Field(n, width) \in Cells
<1>1. Digits[n] \in Cells
    BY DigitsType DEF Cells
<1>2. CASE Len(Digits[n]) >= width
    BY <1>1, <1>2 DEF Field
<1>3. CASE ~(Len(Digits[n]) >= width)
    <2> DEFINE zeros == [i \in 1..width - Len(Digits[n]) |-> "0"]
    <2>1. width - Len(Digits[n]) \in Nat
        BY <1>1, <1>3 DEF Cells
    <2>2. zeros \in Cells
        BY <2>1, SeqDef DEF Cells, AnyCell
    <2>3. zeros \o Digits[n] \in Cells
        BY <1>1, <2>2 DEF Cells
    <2> QED
        BY <1>3, <2>3 DEF Field
<1> QED
    BY <1>2, <1>3

LEMMA HeaderType ==
    ASSUME NEW name \in Cells, NEW mode \in AnyCell, NEW size \in Nat
    PROVE  OdcHeader(name, mode, size) \in Cells
<1>1. Len(name) + 1 \in Nat
    BY DEF Cells
<1>2. Field(Len(name) + 1, NameDigits) \in Cells /\ Field(size, SizeDigits) \in Cells
    BY <1>1, FieldType, WidthsAssumption
<1>3. <<Odc, mode>> \in Cells /\ <<NUL>> \in Cells
    BY DEF Cells, AnyCell
<1>4. \A s, t \in Cells : s \o t \in Cells
    BY DEF Cells
<1> QED
    BY <1>2, <1>3, <1>4 DEF OdcHeader

LEMMA FileRecordType ==
    ASSUME NEW entry, entry.name \in Cells, entry.size \in Nat, NEW read \in Cells
    PROVE  FileRecord(entry, read) \in Cells
<1>1. \A s, t \in Cells : s \o t \in Cells
    BY DEF Cells
<1>2. Pad(entry.size, read) \in Cells
    <2>1. CASE entry.size > Len(read)
        <3>1. entry.size - Len(read) \in Nat
            BY <2>1 DEF Cells
        <3>2. Zeros(entry.size - Len(read)) \in Cells
            BY <3>1, SeqDef DEF Zeros, Cells, AnyCell
        <3> QED
            BY <2>1, <3>2 DEF Pad
    <2>2. CASE ~(entry.size > Len(read))
        BY <2>2 DEF Pad, Cells
    <2> QED
        BY <2>1, <2>2
<1>3. <<".">> \in Cells /\ "file" \in AnyCell
    BY DEF Cells, AnyCell
<1>4. <<".">> \o entry.name \in Cells
    BY <1>1, <1>3
<1>5. OdcHeader(<<".">> \o entry.name, "file", entry.size) \in Cells
    BY <1>3, <1>4, HeaderType
<1> QED
    BY <1>1, <1>2, <1>5 DEF FileRecord

LEMMA DirRecordsType ==
    ASSUME NEW dirs \in Seq(Cells)
    PROVE  DirRecords(dirs) \in Cells
<1> DEFINE record(i) == IF dirs[i] \in {dirs[j] : j \in 1 .. i - 1} THEN <<>>
                        ELSE OdcHeader(<<".">> \o dirs[i], "dir", 0)
<1>1. ASSUME NEW i \in DOMAIN dirs PROVE record(i) \in Cells
    <2>1. dirs[i] \in Cells /\ <<".">> \in Cells /\ "dir" \in AnyCell
        BY DEF Cells, AnyCell
    <2>2. <<".">> \o dirs[i] \in Cells
        BY <2>1 DEF Cells
    <2>3. OdcHeader(<<".">> \o dirs[i], "dir", 0) \in Cells
        BY <2>1, <2>2, HeaderType
    <2>4. <<>> \in Cells
        BY DEF Cells
    <2> QED
        BY <2>3, <2>4
<1> HIDE DEF record
<1>2. DOMAIN dirs = 1..Len(dirs) /\ Len(dirs) \in Nat
    BY LenProperties
<1>3. [i \in DOMAIN dirs |-> record(i)] \in Seq(Cells)
    BY <1>1, <1>2, SeqDef
<1>4. FlattenSeq([i \in DOMAIN dirs |-> record(i)]) \in Cells
    BY <1>3, FlattenIs DEF Cells
<1> QED
    BY <1>4 DEF DirRecords, record

LEMMA ArchiveType ==
    ASSUME NEW entries, DOMAIN entries = 1..Len(entries), Len(entries) \in Nat,
           \A i \in DOMAIN entries :
              entries[i].name \in Cells /\ entries[i].name # <<>> /\ entries[i].size \in Nat,
           NEW reads, \A i \in DOMAIN entries : reads[i] \in Cells
    PROVE  BuildArchive(entries, reads) \in Cells
<1> DEFINE parents == [i \in DOMAIN entries |-> Parents(entries[i].name)]
           bodies == [i \in DOMAIN entries |-> FileRecord(entries[i], reads[i])]
<1>1. ASSUME NEW i \in DOMAIN entries PROVE Parents(entries[i].name) \in Seq(Cells)
    <2> DEFINE name == entries[i].name
    <2>1. name \in Cells /\ name # <<>>
        OBVIOUS
    <2> HIDE DEF name
    <2>2. Len(name) - 1 \in Nat
        BY <2>1 DEF Cells
    <2>3. \A k \in 1..Len(name) - 1 : SubSeq(name, 1, k) \in Cells
        BY <2>1 DEF Cells
    <2>4. Parents(name) \in Seq(Cells)
        BY <2>2, <2>3, SeqDef DEF Parents
    <2> QED
        BY <2>4 DEF name
<1>2. parents \in Seq(Seq(Cells))
    BY <1>1, SeqDef
<1>3. FlattenSeq(parents) \in Seq(Cells)
    BY <1>2, FlattenIs
<1>4. \A i \in DOMAIN entries : FileRecord(entries[i], reads[i]) \in Cells
    BY FileRecordType
<1>5. bodies \in Seq(Cells)
    BY <1>4, SeqDef
<1>6. FlattenSeq(bodies) \in Cells
    BY <1>5, FlattenIs DEF Cells
<1>7. DirRecords(FlattenSeq(parents)) \in Cells
    BY <1>3, DirRecordsType
<1>8. OdcHeader(Trailer, "none", 0) \in Cells
    <2>1. Trailer \in Cells /\ "none" \in AnyCell
        BY DEF Trailer, Cells, AnyCell
    <2> QED
        BY <2>1, HeaderType
<1>9. <<Gzip>> \in Cells /\ \A s, t \in Cells : s \o t \in Cells
    BY DEF Cells, AnyCell
<1> HIDE DEF parents, bodies
<1> QED
    BY <1>6, <1>7, <1>8, <1>9 DEF BuildArchive, parents, bodies

-----------------------------------------------------------------------------
(* The frames of a chunked body.                                           *)

\* Chunks begin in cells at the places `at`: a size, a line end, as much data, and
\* a line end, or as much of it as there is; the last has no data and is only
\* there when the sender is done.
Framed(cells, at, done) ==
    /\ at \in SUBSET Nat /\ 1 \in at
    /\ \A s \in at : s \in 1..Len(cells) =>
          \E k \in 0..ChunkSize :
              /\ cells[s] = Cell(k)
              /\ s + 1 <= Len(cells) => cells[s + 1] = EOL
              /\ k = 0 => done
              /\ k > 0 => s + k + 3 \in at

\* Behind the last cell another chunk may begin.
AtEnd(cells, at) == at \subseteq 1..Len(cells) + 1 /\ Len(cells) + 1 \in at

\* What the receiver has of the body and is to get.
Coming == IF server = "head" THEN From(up, 1) ELSE Stream

Writing == sender \in {"awaiting", "sending"} /\ link = "up"

FrameInv ==
    /\ server \in {"head", "handling", "chunks"} =>
          \E at : Framed(Coming, at, complete) /\ (Writing => AtEnd(Coming, at))
    /\ server \in {"opening", "unpacking"} => complete
    /\ disk # before => complete

OrderInv ==
    /\ sender \in {"choosing", "asking", "ready"} => up = <<>> /\ server \in {"head", "closed"}
    /\ sender \in {"choosing", "asking", "ready", "awaiting", "sending"} => ~complete
    /\ server = "head" => pending = <<>> /\ (Writing => up # <<>>)
    /\ server = "length" => job.framing # "chunked"
    /\ server = "chunks" => job.framing = "chunked"

IsEntry(e) == e.file \in Files /\ e.name \in Cells /\ e.name # <<>> /\ e.size \in Nat

TypeInv ==
    /\ source \in [Files -> Cells \cup {Gone}]
    /\ job = [own |-> job.own, framing |-> job.framing, expect |-> job.expect,
              cpio |-> job.cpio, entries |-> job.entries, data |-> job.data,
              length |-> job.length]
    /\ sender = "asking" =>
          /\ Len(job.entries) \in Nat /\ DOMAIN job.entries = 1..Len(job.entries)
          /\ \A i \in DOMAIN job.entries : IsEntry(job.entries[i])
    /\ unsent \in Cells /\ up \in Cells /\ pending \in Cells
    /\ complete \in BOOLEAN /\ job.length \in Nat

Inv == TypeInv /\ OrderInv /\ (job.framing = "chunked" => FrameInv)

-----------------------------------------------------------------------------
(* What becomes of the frames.                                             *)

LEMMA ChunkSizes == ChunkSize \in Nat /\ \A k \in 0..ChunkSize : k \in 0..3
BY UploadsAssumption DEF Base

\* A size other than that of the last chunk.
LEMMA SizeIs == \A k \in 1..ChunkSize : k \in 0..3 /\ k \in Nat /\ k > 0
<1>1. ChunkSize \in Nat /\ \A k \in 0..ChunkSize : k \in 0..3
    BY ChunkSizes
<1>2. SUFFICES ASSUME NEW k \in 1..ChunkSize PROVE k \in 0..3 /\ k \in Nat /\ k > 0
    OBVIOUS
<1>3. k \in 0..ChunkSize /\ k \in Nat /\ k > 0
    BY <1>1
<1> QED
    BY <1>1, <1>3

\* Sequences with the same beginning.
LEMMA SameBeginning ==
    ASSUME NEW cells \in Cells, NEW other \in Cells, NEW at, NEW done, NEW later,
           Framed(cells, at, done), done => later,
           Len(other) <= Len(cells), \A i \in 1..Len(other) : other[i] = cells[i]
    PROVE  Framed(other, at, later)
<1>1. Len(cells) \in Nat /\ Len(other) \in Nat
    BY DEF Cells
<1>2. ASSUME NEW s \in at, s \in 1..Len(other)
      PROVE  \E k \in 0..ChunkSize :
                /\ other[s] = Cell(k)
                /\ s + 1 <= Len(other) => other[s + 1] = EOL
                /\ k = 0 => later
                /\ k > 0 => s + k + 3 \in at
    <2>1. s \in 1..Len(cells)
        BY <1>1, <1>2
    <2>2. PICK k \in 0..ChunkSize : /\ cells[s] = Cell(k)
                                    /\ s + 1 <= Len(cells) => cells[s + 1] = EOL
                                    /\ k = 0 => done
                                    /\ k > 0 => s + k + 3 \in at
        BY <2>1 DEF Framed
    <2>3. s + 1 <= Len(other) => s + 1 \in 1..Len(other) /\ s + 1 <= Len(cells)
        BY <1>1, <1>2
    <2> QED
        BY <1>2, <2>2, <2>3
<1> QED
    BY <1>2 DEF Framed

LEMMA Joined ==
    ASSUME NEW s \in Cells, NEW t \in Cells
    PROVE  /\ Len(s) \in Nat /\ Len(t) \in Nat
           /\ s \o t \in Cells /\ Len(s \o t) = Len(s) + Len(t)
           /\ \A i \in 1..Len(s) : (s \o t)[i] = s[i]
           /\ \A i \in 1..Len(t) : (s \o t)[Len(s) + i] = t[i]
BY ConcatProperties DEF Cells

LEMMA NothingYet == Framed(<<>>, {1}, FALSE) /\ AtEnd(<<>>, {1})
BY DEF Framed, AtEnd

LEMMA OneMoreChunk ==
    ASSUME NEW cells \in Cells, NEW at, Framed(cells, at, FALSE), AtEnd(cells, at),
           NEW piece \in Cells, Len(piece) \in 1..ChunkSize
    PROVE  \E at2 : Framed(cells \o Chunk(piece), at2, FALSE) /\ AtEnd(cells \o Chunk(piece), at2)
<1> DEFINE n == Len(cells)
           k == Len(piece)
           longer == cells \o Chunk(piece)
           at2 == at \cup {n + k + 4}
<1>1. n \in Nat /\ k \in Nat /\ k > 0 /\ k \in 0..ChunkSize
    BY ChunkSizes DEF Cells
<1>2. Chunk(piece) \in Cells /\ Len(Chunk(piece)) = k + 3 /\ Chunk(piece)[1] = Cell(k) /\ Chunk(piece)[2] = EOL
    <2>1. Cell(k) \in AnyCell /\ EOL \in AnyCell
        BY <1>1, ChunkSizes, CellsAre DEF AnyCell
    <2> QED
        BY <1>1, <2>1 DEF Chunk, Cells
<1>3. /\ longer \in Cells /\ Len(longer) = n + k + 3
      /\ \A i \in 1..n : longer[i] = cells[i]
      /\ longer[n + 1] = Cell(k) /\ longer[n + 2] = EOL
    <2> DEFINE c == Chunk(piece)
    <2>1. c \in Cells /\ Len(c) = k + 3 /\ c[1] = Cell(k) /\ c[2] = EOL
        BY <1>2
    <2>2. n = Len(cells) /\ longer = cells \o c
        OBVIOUS
    <2> HIDE DEF c, n, k, longer
    <2>3. /\ longer \in Cells /\ Len(longer) = n + Len(c)
          /\ \A i \in 1..n : longer[i] = cells[i]
          /\ \A i \in 1..Len(c) : longer[n + i] = c[i]
        BY <2>1, <2>2, Joined
    <2>4. 1 \in 1..Len(c) /\ 2 \in 1..Len(c)
        BY <1>1, <2>1
    <2>5. longer[n + 1] = Cell(k) /\ longer[n + 2] = EOL
        BY <2>1, <2>3, <2>4
    <2> QED
        BY <1>1, <2>1, <2>3, <2>5
<1> HIDE DEF n, k, longer
<1>4. at \subseteq 1..n + 1 /\ n + 1 \in at /\ 1 \in at
    BY DEF AtEnd, Framed, n
<1>5. at2 \in SUBSET Nat /\ 1 \in at2 /\ at2 \subseteq 1..Len(longer) + 1 /\ Len(longer) + 1 \in at2
    BY <1>1, <1>3, <1>4
<1>6. ASSUME NEW s \in at2, s \in 1..Len(longer)
      PROVE  \E l \in 0..ChunkSize :
                /\ longer[s] = Cell(l)
                /\ s + 1 <= Len(longer) => longer[s + 1] = EOL
                /\ l = 0 => FALSE
                /\ l > 0 => s + l + 3 \in at2
    <2>1. s \in at /\ s \in 1..n + 1
        BY <1>1, <1>3, <1>4, <1>6
    <2>2. CASE s = n + 1
        BY <1>1, <1>3, <2>2
    <2>3. CASE s # n + 1
        <3>1. s \in 1..n
            BY <1>1, <2>1, <2>3
        <3>2. PICK l \in 0..ChunkSize : /\ cells[s] = Cell(l)
                                        /\ s + 1 <= n => cells[s + 1] = EOL
                                        /\ l = 0 => FALSE
                                        /\ l > 0 => s + l + 3 \in at
            BY <2>1, <3>1 DEF Framed, n
        <3>3. s + 1 \in 1..n
            <4>1. l \in Nat /\ l > 0 /\ s + l + 3 \in 1..n + 1
                BY <1>4, <3>2, ChunkSizes
            <4> QED
                BY <1>1, <3>1, <4>1
        <3>5. longer[s + 1] = EOL
            BY <1>3, <3>2, <3>3
        <3>4. longer[s] = cells[s]
            BY <1>3, <3>1
        <3> QED
            BY <3>2, <3>4, <3>5
    <2> QED
        BY <2>2, <2>3
<1> QED
    BY <1>5, <1>6 DEF Framed, AtEnd, longer

LEMMA TheLastChunk ==
    ASSUME NEW cells \in Cells, NEW at, Framed(cells, at, FALSE), AtEnd(cells, at)
    PROVE  Framed(cells \o LastChunk, at, TRUE)
<1> DEFINE n == Len(cells)
           longer == cells \o LastChunk
<1>1. n \in Nat
    BY DEF Cells
<1>2. LastChunk \in Cells /\ Len(LastChunk) = 3 /\ LastChunk[1] = "0" /\ LastChunk[2] = EOL
    BY DEF LastChunk, Cells, AnyCell
<1>3. /\ longer \in Cells /\ Len(longer) = n + 3
      /\ \A i \in 1..n : longer[i] = cells[i]
      /\ longer[n + 1] = "0" /\ longer[n + 2] = EOL
    <2> DEFINE c == LastChunk
    <2>1. c \in Cells /\ Len(c) = 3 /\ c[1] = "0" /\ c[2] = EOL
        BY <1>2
    <2>2. n = Len(cells) /\ longer = cells \o c
        OBVIOUS
    <2> HIDE DEF c, n, longer
    <2>3. /\ longer \in Cells /\ Len(longer) = n + Len(c)
          /\ \A i \in 1..n : longer[i] = cells[i]
          /\ \A i \in 1..Len(c) : longer[n + i] = c[i]
        BY <2>1, <2>2, Joined
    <2>4. 1 \in 1..Len(c) /\ 2 \in 1..Len(c)
        BY <2>1
    <2>5. longer[n + 1] = "0" /\ longer[n + 2] = EOL
        BY <2>1, <2>3, <2>4
    <2> QED
        BY <1>1, <2>1, <2>3, <2>5
<1>4. Cell(0) = "0" /\ 0 \in 0..ChunkSize
    BY ChunkSizes DEF Cell
<1> HIDE DEF n, longer
<1>5. at \in SUBSET Nat /\ at \subseteq 1..n + 1 /\ n + 1 \in at /\ 1 \in at
    BY DEF AtEnd, Framed, n
<1>6. ASSUME NEW s \in at, s \in 1..Len(longer)
      PROVE  \E l \in 0..ChunkSize :
                /\ longer[s] = Cell(l)
                /\ s + 1 <= Len(longer) => longer[s + 1] = EOL
                /\ l = 0 => TRUE
                /\ l > 0 => s + l + 3 \in at
    <2>1. s \in 1..n + 1
        BY <1>5
    <2>2. CASE s = n + 1
        BY <1>1, <1>3, <1>4, <2>2
    <2>3. CASE s # n + 1
        <3>1. s \in 1..n
            BY <1>1, <2>1, <2>3
        <3>2. PICK l \in 0..ChunkSize : /\ cells[s] = Cell(l)
                                        /\ s + 1 <= n => cells[s + 1] = EOL
                                        /\ l = 0 => FALSE
                                        /\ l > 0 => s + l + 3 \in at
            BY <3>1 DEF Framed, n
        <3>3. s + 1 \in 1..n
            <4>1. l \in Nat /\ l > 0 /\ s + l + 3 \in 1..n + 1
                BY <1>5, <3>2, ChunkSizes
            <4> QED
                BY <1>1, <3>1, <4>1
        <3>4. longer[s] = cells[s]
            BY <1>3, <3>1
        <3>5. longer[s + 1] = EOL
            BY <1>3, <3>2, <3>3
        <3> QED
            BY <3>2, <3>4, <3>5
    <2> QED
        BY <2>2, <2>3
<1> QED
    BY <1>5, <1>6 DEF Framed, longer

\* A number of one digit.
LEMMA NumberOfOne ==
    ASSUME NEW k \in 0..3
    PROVE  Number(<<Cell(k)>>) = k
<1> DEFINE cells == <<Cell(k)>>
           IsValue(f) == f = [i \in 0 .. Len(cells) |-> IF i = 0 THEN 0 ELSE Base * f[i - 1] + Digit(cells[i])]
           g == [i \in 0..1 |-> IF i = 0 THEN 0 ELSE k]
<1>1. Len(cells) = 1 /\ cells[1] = Cell(k) /\ Digit(Cell(k)) = k
    BY CellsAre
<1> HIDE DEF cells
<1>2. IsValue(g)
    <2>1. ASSUME NEW i \in 0..1
          PROVE  g[i] = IF i = 0 THEN 0 ELSE Base * g[i - 1] + Digit(cells[i])
        <3>1. CASE i = 0
            BY <3>1
        <3>2. CASE i = 1
            BY <1>1, <3>2 DEF Base
        <3> QED
            BY <3>1, <3>2
    <2> QED
        BY <1>1, <2>1
<1> HIDE DEF g
<1> DEFINE value == CHOOSE f : IsValue(f)
<1>3. IsValue(value)
    BY <1>2
<1>4. value[1] = k
    <2> HIDE DEF value
    <2>1. value[1] = Base * value[0] + Digit(cells[1]) /\ value[0] = 0
        BY <1>1, <1>3
    <2> QED
        BY <1>1, <2>1 DEF Base
<1>5. Number(cells) = value[1]
    BY <1>1 DEF Number
<1> QED
    BY <1>4, <1>5 DEF cells

\* Cells from which n have been taken.
LEMMA FromIs ==
    ASSUME NEW cells \in Cells, NEW n \in 0..Len(cells)
    PROVE  /\ From(cells, n) \in Cells /\ Len(cells) \in Nat /\ Len(From(cells, n)) = Len(cells) - n
           /\ \A i \in 1..Len(cells) - n : From(cells, n)[i] = cells[n + i]
BY SubSeqProperties DEF From, Cells

LEMMA UpToIs ==
    ASSUME NEW cells \in Cells, NEW n \in 0..Len(cells)
    PROVE  /\ UpTo(cells, n) \in Cells /\ Len(UpTo(cells, n)) = n
           /\ \A i \in 1..n : UpTo(cells, n)[i] = cells[i]
BY SubSeqProperties DEF UpTo, Cells

FirstEol(cells) ==
    CHOOSE i \in {i \in DOMAIN cells : cells[i] = EOL} :
        \A j \in {j \in DOMAIN cells : cells[j] = EOL} : i <= j

\* The first line end is behind the size of the first chunk.
LEMMA FirstSize ==
    ASSUME NEW cells \in Cells, NEW at, NEW done, Framed(cells, at, done),
           {i \in DOMAIN cells : cells[i] = EOL} # {}
    PROVE  \E k \in 0..ChunkSize :
              /\ FirstEol(cells) = 2
              /\ Len(cells) >= 2 /\ cells[1] = Cell(k)
              /\ Number(UpTo(cells, 1)) = k
              /\ k = 0 => done
<1> DEFINE ends == {i \in DOMAIN cells : cells[i] = EOL}
<1>1. Len(cells) \in Nat /\ DOMAIN cells = 1..Len(cells)
    BY DEF Cells
<1>2. PICK e \in 1..Len(cells) : cells[e] = EOL
    BY <1>1
<1>3. 1 \in 1..Len(cells)
    BY <1>1
<1>4. PICK k \in 0..ChunkSize : /\ cells[1] = Cell(k)
                                /\ 2 <= Len(cells) => cells[2] = EOL
                                /\ k = 0 => done
    <2>1. 1 \in at /\ 1 + 1 = 2
        BY DEF Framed
    <2> QED
        BY <1>3, <2>1 DEF Framed
<1>5. k \in 0..3 /\ Cell(k) # EOL
    BY ChunkSizes, CellsAre
<1>6. e # 1 /\ 2 <= Len(cells) /\ 2 \in 1..Len(cells)
    BY <1>1, <1>2, <1>4, <1>5
<1>7. 2 \in ends /\ 1 \notin ends /\ ends \subseteq 1..Len(cells)
    BY <1>1, <1>4, <1>5, <1>6
<1>8. (CHOOSE i \in ends : \A j \in ends : i <= j) = 2
    <2> HIDE DEF ends
    <2>1. \A j \in ends : j \in Nat /\ 2 <= j
        BY <1>1, <1>7
    <2>2. \A i \in ends : (\A j \in ends : i <= j) => i = 2
        BY <1>7, <2>1
    <2> QED
        BY <1>7, <2>1, <2>2
<1>9. UpTo(cells, 1) = <<Cell(k)>>
    <2>1. UpTo(cells, 1) = <<cells[1]>>
        <3>1. /\ UpTo(cells, 1) \in Cells /\ Len(UpTo(cells, 1)) = 1
              /\ UpTo(cells, 1)[1] = cells[1]
            <4>1. 1 \in 0..Len(cells) /\ 1 \in 1..1
                BY <1>1, <1>6
            <4> QED
                BY <4>1, UpToIs
        <3>2. \A t \in Cells : Len(t) = 1 => t = <<t[1]>>
            BY DEF Cells
        <3> QED
            BY <3>1, <3>2
    <2> QED
        BY <1>4, <2>1
<1>10. Number(UpTo(cells, 1)) = k
    BY <1>5, <1>9, NumberOfOne
<1>11. FirstEol(cells) = 2
    BY <1>8 DEF FirstEol
<1> QED
    BY <1>4, <1>6, <1>10, <1>11

\* Behind the first chunk the next begins.
LEMMA NextFrames ==
    ASSUME NEW cells \in Cells, NEW at, NEW done, Framed(cells, at, done),
           NEW k \in 1..ChunkSize, cells[1] = Cell(k), k + 3 <= Len(cells),
           NEW rest \in Cells, Len(rest) = Len(cells) - (k + 3),
           \A i \in 1..Len(rest) : rest[i] = cells[k + 3 + i]
    PROVE  \E at2 : Framed(rest, at2, done) /\ (AtEnd(cells, at) => AtEnd(rest, at2))
<1> DEFINE m == k + 3
           at2 == {i \in Nat : i > 0 /\ i + m \in at}
<1>1. Len(cells) \in Nat /\ Len(rest) \in Nat /\ k \in 0..3 /\ m \in Nat /\ k > 0 /\ m = k + 3
    <2>1. Len(cells) \in Nat /\ Len(rest) \in Nat
        BY DEF Cells
    <2>2. k \in 0..3 /\ k \in Nat /\ k > 0
        BY SizeIs
    <2>3. m \in Nat /\ m = k + 3
        BY <2>2
    <2> QED
        BY <2>1, <2>2, <2>3
<1>2. m + 1 \in at
    <2>1. 1 \in at /\ 1 \in 1..Len(cells)
        BY <1>1 DEF Framed
    <2>2. PICK l \in 0..ChunkSize : cells[1] = Cell(l) /\ (l > 0 => 1 + l + 3 \in at)
        BY <2>1 DEF Framed
    <2>3. l = k
        BY <1>1, <2>2, ChunkSizes, CellsAre
    <2>4. 1 + k + 3 \in at
        BY <1>1, <2>2, <2>3
    <2>5. 1 + k + 3 = m + 1
        BY <1>1
    <2> QED
        BY <2>4, <2>5
<1> HIDE DEF m
<1>3. at2 \in SUBSET Nat /\ 1 \in at2
    BY <1>1, <1>2
<1>4. ASSUME NEW s \in at2, s \in 1..Len(rest)
      PROVE  \E l \in 0..ChunkSize :
                /\ rest[s] = Cell(l)
                /\ s + 1 <= Len(rest) => rest[s + 1] = EOL
                /\ l = 0 => done
                /\ l > 0 => s + l + 3 \in at2
    <2>1. s \in Nat /\ s + m \in at /\ s + m \in 1..Len(cells)
        BY <1>1, <1>4
    <2>2. PICK l \in 0..ChunkSize : /\ cells[s + m] = Cell(l)
                                    /\ s + m + 1 <= Len(cells) => cells[s + m + 1] = EOL
                                    /\ l = 0 => done
                                    /\ l > 0 => s + m + l + 3 \in at
        BY <2>1 DEF Framed
    <2>3. rest[s] = cells[s + m]
        <3>1. m + s = s + m
            BY <1>1, <2>1
        <3>2. rest[s] = cells[m + s]
            BY <1>1, <1>4
        <3> QED
            BY <3>1, <3>2
    <2>4. s + 1 <= Len(rest) => rest[s + 1] = EOL
        <3>1. SUFFICES ASSUME s + 1 <= Len(rest) PROVE rest[s + 1] = EOL
            OBVIOUS
        <3>2. s + 1 \in 1..Len(rest) /\ m + (s + 1) = s + m + 1 /\ s + m + 1 <= Len(cells)
            BY <1>1, <2>1, <3>1
        <3>3. rest[s + 1] = cells[m + (s + 1)]
            BY <1>1, <3>2
        <3> QED
            BY <2>2, <3>2, <3>3
    <2>5. l > 0 => s + l + 3 \in at2
        <3>1. l \in Nat /\ s + l + 3 \in Nat /\ s + l + 3 > 0 /\ s + m + l + 3 = s + l + 3 + m
            BY <1>1, <2>1, ChunkSizes
        <3> QED
            BY <2>2, <3>1
    <2> QED
        BY <2>2, <2>3, <2>4, <2>5
<1>5. AtEnd(cells, at) => AtEnd(rest, at2)
    <2>1. SUFFICES ASSUME AtEnd(cells, at) PROVE AtEnd(rest, at2)
        OBVIOUS
    <2>2. Len(rest) + 1 \in at2
        <3>1. Len(rest) + 1 \in Nat /\ Len(rest) + 1 > 0 /\ Len(rest) + 1 + m = Len(cells) + 1
            BY <1>1
        <3> QED
            BY <2>1, <3>1 DEF AtEnd
    <2>3. ASSUME NEW i \in at2 PROVE i \in 1..Len(rest) + 1
        <3>1. i \in Nat /\ i > 0 /\ i + m \in 1..Len(cells) + 1
            BY <2>1 DEF AtEnd
        <3> QED
            BY <1>1, <3>1
    <2> QED
        BY <2>2, <2>3 DEF AtEnd
<1> HIDE DEF at2
<1> QED
    BY <1>3, <1>4, <1>5 DEF Framed

-----------------------------------------------------------------------------
(* Each step keeps the invariant.                                          *)

IsJob(j) == j = [own |-> j.own, framing |-> j.framing, expect |-> j.expect, cpio |-> j.cpio,
                 entries |-> j.entries, data |-> j.data, length |-> j.length]

LEMMA StringsAreCells == \A s \in Seq(STRING) : s \in Cells
<1>1. STRING \subseteq AnyCell
    BY DEF AnyCell
<1> QED
    BY <1>1, Wider

LEMMA InitInv == UploadsInit => Inv
<1> SUFFICES ASSUME UploadsInit PROVE Inv
    OBVIOUS
<1>1. up = <<>> /\ pending = <<>> /\ server = "head" /\ disk = before /\ complete = FALSE
    BY DEF UploadsInit
<1>2. sender \in {"choosing", "ready"}
    BY DEF UploadsInit
<1>3. <<>> \in Cells
    BY DEF Cells
<1>4. TypeInv
    <2>1. CASE /\ source \in Sources /\ job = OwnJob /\ unsent = <<>>
        <3>1. source \in [Files -> Cells \cup {Gone}]
            BY <2>1, UploadsAssumption, StringsAreCells
        <3>2. IsJob(job) /\ job.length \in Nat
            BY <2>1 DEF OwnJob, IsJob
        <3> QED
            BY <1>1, <1>2, <1>3, <2>1, <3>1, <3>2 DEF TypeInv, IsJob
    <2>2. CASE /\ source = [f \in Files |-> Gone]
               /\ \E f \in Foreign : job = ForeignJob(f) /\ unsent = f.body
        <3>1. PICK f \in Foreign : job = ForeignJob(f) /\ unsent = f.body
            BY <2>2
        <3>2. IsJob(job) /\ job.length = Len(f.body)
            BY <3>1 DEF ForeignJob, IsJob
        <3>3. unsent \in Cells /\ job.length \in Nat
            BY <3>1, <3>2, UploadsAssumption, StringsAreCells
        <3> QED
            BY <1>1, <1>2, <1>3, <2>2, <3>2, <3>3 DEF TypeInv, IsJob
    <2> QED
        BY <2>1, <2>2 DEF UploadsInit
<1>5. Framed(Coming, {1}, complete) /\ ~Writing
    <2>1. From(up, 1) = <<>>
        BY <1>1 DEF From
    <2> QED
        BY <1>1, <1>2, <2>1, NothingYet DEF Coming, Writing
<1> QED
    BY <1>1, <1>2, <1>4, <1>5 DEF Inv, OrderInv, FrameInv

\* A step that leaves the body, its frames and what the receiver has of it alone.
LEMMA QuietStep ==
    ASSUME Inv, UNCHANGED <<server, pending, up, link, complete, disk, before>>,
           job'.framing = job.framing, Writing' => Writing
    PROVE  (job'.framing = "chunked" => FrameInv')
<1>1. Coming' = Coming
    BY DEF Coming, Stream
<1> QED
    BY <1>1 DEF Inv, FrameInv

LEMMA WalkedIs ==
    ASSUME TypeInv, NEW items \in Selections, NEW walk \in Walked(items)
    PROVE  walk \in Seq({f \in Files : source[f] # Gone})
<1> DEFINE There == {f \in Files : source[f] # Gone}
<1>1. /\ Len(items) \in Nat /\ DOMAIN items = 1..Len(items)
      /\ \A i \in DOMAIN items : items[i].files \subseteq Files
    <2> DEFINE R == [folder : BOOLEAN, files : SUBSET Files]
    <2>1. items \in Seq(R)
        BY UploadsAssumption
    <2>2. \A r \in R : r.files \subseteq Files
        OBVIOUS
    <2> HIDE DEF R
    <2> QED
        BY <2>1, <2>2, LenProperties, ElementOfSeq
<1>2. ASSUME NEW these \in SUBSET Files, NEW w \in Walks(these) PROVE w \in Seq(There)
    <2> DEFINE there == {f \in these : source[f] # Gone}
    <2>1. there \subseteq There /\ IsFiniteSet(there)
        BY UploadsAssumption, FS_Subset
    <2>2. Cardinality(there) \in Nat
        BY <2>1, FS_CardinalityType
    <2>3. w \in [1..Cardinality(there) -> there]
        BY DEF Walks
    <2> HIDE DEF there, There
    <2>4. w \in [1..Cardinality(there) -> There]
        BY <2>1, <2>3
    <2> QED
        BY <2>2, <2>4, SeqDef
<1>3. PICK w : /\ walk = FlattenSeq(w) /\ DOMAIN w = DOMAIN items
               /\ w = [i \in DOMAIN w |-> w[i]]
               /\ \A i \in DOMAIN items : w[i] \in Walks(items[i].files)
    BY DEF Walked
<1>4. \A i \in DOMAIN items : w[i] \in Seq(There)
    BY <1>1, <1>2, <1>3
<1>5. w \in [1..Len(items) -> Seq(There)]
    BY <1>1, <1>3, <1>4
<1>6. w \in Seq(Seq(There))
    BY <1>1, <1>5, SeqDef
<1> QED
    BY <1>3, <1>6, FlattenIs

LEMMA CollectStep == ASSUME Inv, Collect PROVE Inv'
<1>1. /\ sender = "choosing" /\ ~Writing /\ ~Writing'
      /\ up = <<>> /\ server \in {"head", "closed"} /\ ~complete
    BY DEF Collect, Inv, OrderInv, Writing
<1>2. CASE sender' = "failed" /\ UNCHANGED job
    <2>1. UNCHANGED <<source, unsent, complete, server, pending, disk, link, up, before>>
        BY DEF Collect, receiverVars
    <2>2. TypeInv' /\ OrderInv'
        BY <1>1, <1>2, <2>1 DEF Inv, TypeInv, OrderInv, Writing
    <2> QED
        BY <1>1, <1>2, <2>1, <2>2, QuietStep DEF Inv
<1>3. ASSUME NEW items \in Selections, NEW walk \in Walked(items),
             job' = [job EXCEPT !.entries = [i \in DOMAIN walk |->
                        [file |-> walk[i], name |-> Rel[walk[i]], size |-> Len(source[walk[i]])]]],
             sender' = "asking"
      PROVE  Inv'
    <2> DEFINE entry(i) == [file |-> walk[i], name |-> Rel[walk[i]], size |-> Len(source[walk[i]])]
               entries == [i \in DOMAIN walk |-> entry(i)]
    <2>1. UNCHANGED <<source, unsent, complete, server, pending, disk, link, up, before>>
        BY DEF Collect, receiverVars
    <2>2. walk \in Seq({f \in Files : source[f] # Gone})
        BY WalkedIs DEF Inv
    <2>3. /\ Len(walk) \in Nat /\ DOMAIN walk = 1..Len(walk)
          /\ \A i \in DOMAIN walk : walk[i] \in Files /\ source[walk[i]] # Gone
        BY <2>2
    <2>4. ASSUME NEW i \in DOMAIN walk PROVE IsEntry(entry(i))
        <3>1. walk[i] \in Files /\ source[walk[i]] \in Cells
            BY <2>3 DEF Inv, TypeInv
        <3>2. Len(source[walk[i]]) \in Nat
            BY <3>1 DEF Cells
        <3>3. Rel[walk[i]] \in Cells /\ Rel[walk[i]] # <<>>
            BY <3>1, UploadsAssumption, StringsAreCells
        <3> QED
            BY <3>1, <3>2, <3>3 DEF IsEntry
    <2> HIDE DEF entry
    <2>5. Len(entries) = Len(walk) /\ DOMAIN entries = 1..Len(walk)
        BY <2>3
    <2> HIDE DEF entries
    <2>6. job' = [job EXCEPT !.entries = entries] /\ \A i \in DOMAIN walk : entries[i] = entry(i)
        BY <1>3 DEF entries, entry
    <2>7. IsJob(job') /\ job'.framing = job.framing /\ job'.entries = entries
        BY <2>6 DEF Inv, TypeInv, IsJob
    <2>8. TypeInv'
        BY <1>3, <2>1, <2>3, <2>4, <2>5, <2>6, <2>7 DEF Inv, TypeInv, IsJob, IsEntry
    <2>9. OrderInv'
        BY <1>1, <1>3, <2>1, <2>7 DEF Inv, OrderInv
    <2> QED
        BY <1>1, <2>1, <2>7, <2>8, <2>9, QuietStep DEF Inv
<1> QED
    BY <1>2, <1>3 DEF Collect

LEMMA FileChangesStep == ASSUME Inv, NEW f \in Files, FileChanges(f) PROVE Inv'
<1>1. /\ UNCHANGED <<job, sender, unsent, complete, server, pending, disk, link, up, before>>
      /\ source[f] \in Cells
    BY DEF FileChanges, receiverVars, Inv, TypeInv
<1>2. source' \in [Files -> Cells \cup {Gone}]
    <2>1. Append(source[f], Growth) \in Cells
        <3>1. Growth \in AnyCell
            BY UploadsAssumption DEF AnyCell
        <3> QED
            BY <1>1, <3>1, AppendProperties DEF Cells
    <2>2. source[f] # <<>> => UpTo(source[f], Len(source[f]) - 1) \in Cells
        <3>1. source[f] # <<>> => Len(source[f]) - 1 \in 0..Len(source[f])
            BY <1>1 DEF Cells
        <3> QED
            BY <1>1, <3>1, UpToIs
    <2>3. source \in [Files -> Cells \cup {Gone}]
        BY DEF Inv, TypeInv
    <2> QED
        BY <2>1, <2>2, <2>3 DEF FileChanges
<1>3. TypeInv' /\ OrderInv'
    BY <1>1, <1>2 DEF Inv, TypeInv, OrderInv, Writing
<1> QED
    BY <1>1, <1>3, QuietStep DEF Inv, Writing

LEMMA BuildStep == ASSUME Inv, Build PROVE Inv'
<1> DEFINE reads == [i \in DOMAIN job.entries |-> source[job.entries[i].file]]
<1>1. /\ sender = "asking" /\ ~Writing /\ ~Writing'
      /\ up = <<>> /\ server \in {"head", "closed"} /\ ~complete
      /\ UNCHANGED <<source, complete, server, pending, disk, link, up, before>>
    BY DEF Build, receiverVars, Inv, OrderInv, Writing
<1>2. CASE sender' = "failed" /\ UNCHANGED <<job, unsent>>
    <2>1. TypeInv' /\ OrderInv'
        BY <1>1, <1>2 DEF Inv, TypeInv, OrderInv, Writing
    <2> QED
        BY <1>1, <1>2, <2>1, QuietStep DEF Inv
<1>3. CASE /\ sender' = "ready" /\ job' = [job EXCEPT !.data = reads]
           /\ unsent' = BuildArchive(job.entries, reads)
           /\ ~ \E i \in DOMAIN reads : reads[i] = Gone
    <2>1. /\ Len(job.entries) \in Nat /\ DOMAIN job.entries = 1..Len(job.entries)
          /\ \A i \in DOMAIN job.entries : IsEntry(job.entries[i])
        BY <1>1 DEF Inv, TypeInv
    <2>2. \A i \in DOMAIN job.entries : reads[i] \in Cells
        BY <1>3, <2>1 DEF Inv, TypeInv, IsEntry
    <2> HIDE DEF reads
    <2>3. unsent' \in Cells
        BY <1>3, <2>1, <2>2, ArchiveType DEF IsEntry
    <2>4. IsJob(job') /\ job'.framing = job.framing
        BY <1>3 DEF Inv, TypeInv, IsJob
    <2>5. TypeInv'
        BY <1>1, <1>3, <2>3, <2>4 DEF Inv, TypeInv, IsJob
    <2>6. OrderInv'
        BY <1>1, <1>3, <2>4 DEF Inv, OrderInv
    <2> QED
        BY <1>1, <2>4, <2>5, <2>6, QuietStep DEF Inv
<1> QED
    BY <1>2, <1>3 DEF Build

LEMMA SendHeadStep == ASSUME Inv, SendHead PROVE Inv'
<1>1. /\ sender = "ready" /\ up = <<>> /\ server \in {"head", "closed"} /\ ~complete
      /\ UNCHANGED <<source, job, unsent, complete, server, pending, disk, link, before>>
    BY DEF SendHead, SenderOnly, receiverVars, Inv, OrderInv
<1>2. CASE link # "up"
    <2>1. sender' = "failed" /\ UNCHANGED up
        BY <1>2 DEF SendHead
    <2>2. TypeInv' /\ OrderInv' /\ ~Writing'
        BY <1>1, <2>1 DEF Inv, TypeInv, OrderInv, Writing
    <2> QED
        BY <1>1, <2>1, <2>2, QuietStep DEF Inv
<1>3. CASE link = "up"
    <2>1. sender' \in {"awaiting", "sending"} /\ up' = <<HEAD>>
        BY <1>1, <1>3 DEF SendHead
    <2>2. <<HEAD>> \in Cells /\ From(<<HEAD>>, 1) = <<>>
        BY DEF Cells, AnyCell, From
    <2>3. TypeInv' /\ OrderInv'
        BY <1>1, <2>1, <2>2 DEF Inv, TypeInv, OrderInv, Writing
    <2>4. server' = "head" => Coming' = <<>>
        BY <2>1, <2>2 DEF Coming
    <2>5. ASSUME job.framing = "chunked" PROVE FrameInv'
        <3>1. complete = FALSE /\ disk = before /\ server' \in {"head", "closed"}
            BY <1>1, <2>5 DEF Inv, TypeInv, FrameInv
        <3>2. server' = "head" => Framed(Coming', {1}, complete') /\ AtEnd(Coming', {1})
            BY <1>1, <2>4, <3>1, NothingYet
        <3> QED
            BY <1>1, <3>1, <3>2 DEF FrameInv
    <2> QED
        BY <1>1, <2>3, <2>5 DEF Inv
<1> QED
    BY <1>2, <1>3

\* The sender goes on without a word to the receiver.
LEMMA SenderStepInv ==
    ASSUME Inv, AwaitContinue \/ SendFails \/ HearAnswer
    PROVE  Inv'
<1>1. /\ UNCHANGED <<source, job, unsent, complete, server, pending, disk, link, up, before>>
      /\ sender \in {"awaiting", "sending", "answering"}
      /\ sender' \in {"sending", "answering", "ok", "failed"}
      /\ sender' = "sending" => sender = "awaiting"
    BY DEF AwaitContinue, SendFails, HearAnswer, SenderOnly, receiverVars
<1>2. Writing' => Writing
    BY <1>1 DEF Writing
<1>3. TypeInv' /\ OrderInv'
    BY <1>1, <1>2 DEF Inv, TypeInv, OrderInv
<1> QED
    BY <1>1, <1>2, <1>3, QuietStep DEF Inv

\* The sender adds to what is on its way.
LEMMA MoreComes ==
    ASSUME Inv, server \in {"head", "handling", "chunks"}, Writing, server' = server, pending' = pending,
           NEW more \in Cells, up' = up \o more
    PROVE  /\ Coming \in Cells /\ Coming' \in Cells /\ Len(Coming') = Len(Coming \o more)
           /\ \A i \in 1..Len(Coming') : Coming'[i] = (Coming \o more)[i]
<1>1. up \in Cells /\ pending \in Cells /\ up \o more \in Cells
    BY Joined DEF Inv, TypeInv
<1>2. CASE server = "head"
    <2>1. /\ Len(up) \in Nat /\ Len(more) \in Nat /\ Len(up) >= 1 /\ Len(up \o more) = Len(up) + Len(more)
          /\ \A i \in 1..Len(up) : (up \o more)[i] = up[i]
          /\ \A i \in 1..Len(more) : (up \o more)[Len(up) + i] = more[i]
        <3>1. up # <<>>
            BY <1>2 DEF Inv, OrderInv
        <3> QED
            BY <1>1, <3>1, Joined DEF Cells
    <2> DEFINE c == From(up, 1)
               l == From(up \o more, 1)
    <2>2. /\ c \in Cells /\ Len(c) = Len(up) - 1
          /\ \A i \in 1..Len(up) - 1 : c[i] = up[1 + i]
        <3>1. 1 \in 0..Len(up)
            BY <2>1
        <3> QED
            BY <1>1, <3>1, FromIs
    <2>3. /\ l \in Cells /\ Len(l) = Len(up) + Len(more) - 1
          /\ \A i \in 1..Len(up) + Len(more) - 1 : l[i] = (up \o more)[1 + i]
        <3> DEFINE u == up \o more
        <3>1. u \in Cells /\ Len(u) = Len(up) + Len(more) /\ l = From(u, 1)
            BY <1>1, <2>1
        <3> HIDE DEF u, l
        <3>2. 1 \in 0..Len(u)
            BY <2>1, <3>1
        <3>3. l \in Cells /\ Len(l) = Len(u) - 1 /\ \A i \in 1..Len(u) - 1 : l[i] = u[1 + i]
            BY <3>1, <3>2, FromIs
        <3> QED
            BY <3>1, <3>3 DEF u
    <2>4. Coming = c /\ Coming' = l
        BY <1>2 DEF Coming
    <2> HIDE DEF c, l
    <2>5. /\ Len(c \o more) = Len(up) - 1 + Len(more)
          /\ \A i \in 1..Len(c) : (c \o more)[i] = c[i]
          /\ \A i \in 1..Len(more) : (c \o more)[Len(c) + i] = more[i]
        BY <2>2, Joined
    <2>6. ASSUME NEW i \in 1..Len(l) PROVE l[i] = (c \o more)[i]
        <3>1. CASE i \in 1..Len(up) - 1
            <4>1. i \in 1..Len(c) /\ 1 + i \in 1..Len(up) /\ i \in 1..Len(up) + Len(more) - 1
                BY <2>1, <2>2, <3>1
            <4> QED
                BY <2>1, <2>2, <2>3, <2>5, <3>1, <4>1
        <3>2. CASE i \notin 1..Len(up) - 1
            <4> DEFINE j == i - (Len(up) - 1)
            <4>1. j \in 1..Len(more) /\ 1 + i = Len(up) + j /\ i = Len(c) + j
                BY <2>1, <2>2, <2>3, <3>2
            <4> HIDE DEF j
            <4>2. l[i] = (up \o more)[1 + i]
                BY <2>3
            <4> QED
                BY <2>1, <2>5, <4>1, <4>2
        <3> QED
            BY <3>1, <3>2
    <2>7. Len(l) = Len(c \o more)
        BY <2>1, <2>3, <2>5
    <2> QED
        BY <2>2, <2>3, <2>4, <2>6, <2>7
<1>3. CASE server \in {"handling", "chunks"}
    <2>1. Coming = pending \o up /\ Coming' = pending \o (up \o more)
        BY <1>3 DEF Coming, Stream
    <2>2. pending \o (up \o more) = (pending \o up) \o more
        BY <1>1, ConcatAssociative DEF Cells
    <2>3. (pending \o up) \o more \in Cells /\ pending \o up \in Cells
        BY <1>1, Joined
    <2> QED
        BY <2>1, <2>2, <2>3
<1> QED
    BY <1>2, <1>3

LEMMA SendBodyStep == ASSUME Inv, SendBody PROVE Inv'
<1>1. /\ sender = "sending" /\ link = "up" /\ Writing /\ complete = FALSE
      /\ UNCHANGED <<source, job, server, pending, disk, link, before>>
    BY DEF SendBody, SenderOnly, receiverVars, Inv, OrderInv, TypeInv, Writing
<1>2. up \in Cells /\ unsent \in Cells
    BY DEF Inv, TypeInv
<1>3. ASSUME job.framing = "chunked", server \in {"head", "handling", "chunks"}
      PROVE  \E at : Framed(Coming, at, FALSE) /\ AtEnd(Coming, at)
    BY <1>1, <1>3 DEF Inv, FrameInv
<1>4. CASE /\ unsent # <<>>
           /\ up' = up \o (IF job.framing = "chunked" THEN Chunk(Piece) ELSE Piece)
           /\ unsent' = From(unsent, Len(Piece))
           /\ UNCHANGED <<sender, complete>>
    <2>1. Piece \in Cells /\ Len(Piece) \in 1..ChunkSize /\ From(unsent, Len(Piece)) \in Cells
        <3> DEFINE n == IF Len(unsent) < ChunkSize THEN Len(unsent) ELSE ChunkSize
        <3>1. n \in 0..Len(unsent) /\ n \in 1..ChunkSize
            BY <1>2, <1>4, UploadsAssumption, ChunkSizes DEF Cells
        <3> HIDE DEF n
        <3>2. UpTo(unsent, n) \in Cells /\ Len(UpTo(unsent, n)) = n
            BY <1>2, <3>1, UpToIs
        <3>3. Piece = UpTo(unsent, n)
            BY DEF Piece, n
        <3> QED
            BY <1>2, <3>1, <3>2, <3>3, FromIs
    <2>2. Chunk(Piece) \in Cells
        <3>1. Cell(Len(Piece)) \in AnyCell /\ EOL \in AnyCell
            BY <2>1, ChunkSizes, CellsAre DEF AnyCell
        <3> HIDE DEF Piece
        <3>2. <<Cell(Len(Piece)), EOL>> \in Cells /\ <<EOL>> \in Cells
            BY <3>1 DEF Cells
        <3> QED
            BY <2>1, <3>2, Joined DEF Chunk
    <2> DEFINE more == IF job.framing = "chunked" THEN Chunk(Piece) ELSE Piece
    <2>3. more \in Cells /\ up' = up \o more
        BY <1>4, <2>1, <2>2
    <2>4. up' \in Cells /\ (up # <<>> => up' # <<>>)
        <3> HIDE DEF more
        <3>1. up' \in Cells /\ Len(up') = Len(up) + Len(more) /\ Len(up) \in Nat /\ Len(more) \in Nat
            BY <1>2, <2>3, Joined
        <3> QED
            BY <1>2, <3>1 DEF Cells
    <2>5. TypeInv' /\ OrderInv'
        BY <1>1, <1>4, <2>1, <2>4 DEF Inv, TypeInv, OrderInv, Writing
    <2>6. ASSUME job.framing = "chunked", server \in {"head", "handling", "chunks"}
          PROVE  \E at : Framed(Coming', at, FALSE) /\ AtEnd(Coming', at)
        <3>1. PICK at : Framed(Coming, at, FALSE) /\ AtEnd(Coming, at)
            BY <1>3, <2>6
        <3>2. /\ Coming \in Cells /\ Coming' \in Cells /\ Len(Coming') = Len(Coming \o Chunk(Piece))
              /\ \A i \in 1..Len(Coming') : Coming'[i] = (Coming \o Chunk(Piece))[i]
            BY <1>1, <2>2, <2>3, <2>6, MoreComes
        <3> HIDE DEF Coming, Piece
        <3>3. PICK at2 : Framed(Coming \o Chunk(Piece), at2, FALSE) /\ AtEnd(Coming \o Chunk(Piece), at2)
            BY <2>1, <3>1, <3>2, OneMoreChunk
        <3>4. Coming \o Chunk(Piece) \in Cells /\ Len(Coming') <= Len(Coming \o Chunk(Piece))
            BY <2>2, <3>2, Joined DEF Cells
        <3>5. Framed(Coming', at2, FALSE)
            BY <3>2, <3>3, <3>4, SameBeginning
        <3>6. AtEnd(Coming', at2)
            BY <3>2, <3>3 DEF AtEnd
        <3> QED
            BY <3>5, <3>6
    <2>7. job.framing = "chunked" => FrameInv'
        BY <1>1, <1>4, <2>6 DEF Inv, FrameInv
    <2> QED
        BY <1>1, <2>5, <2>7 DEF Inv
<1>5. CASE /\ unsent = <<>>
           /\ up' = IF job.framing = "chunked" THEN up \o LastChunk ELSE up
           /\ sender' = "answering" /\ complete' = TRUE /\ UNCHANGED unsent
    <2>1. LastChunk \in Cells
        BY DEF LastChunk, Cells, AnyCell
    <2>2. up' \in Cells
        BY <1>2, <1>5, <2>1, Joined
    <2>3. TypeInv' /\ OrderInv' /\ ~Writing'
        BY <1>1, <1>5, <2>2 DEF Inv, TypeInv, OrderInv, Writing
    <2>4. ASSUME job.framing = "chunked", server \in {"head", "handling", "chunks"}
          PROVE  \E at : Framed(Coming', at, TRUE)
        <3>1. PICK at : Framed(Coming, at, FALSE) /\ AtEnd(Coming, at)
            BY <1>3, <2>4
        <3>2. /\ Coming \in Cells /\ Coming' \in Cells /\ Len(Coming') = Len(Coming \o LastChunk)
              /\ \A i \in 1..Len(Coming') : Coming'[i] = (Coming \o LastChunk)[i]
            BY <1>1, <1>5, <2>1, <2>4, MoreComes
        <3> HIDE DEF Coming
        <3>3. Framed(Coming \o LastChunk, at, TRUE)
            BY <3>1, <3>2, TheLastChunk
        <3>4. Coming \o LastChunk \in Cells /\ Len(Coming') <= Len(Coming \o LastChunk)
            BY <2>1, <3>2, Joined DEF Cells
        <3> QED
            BY <3>2, <3>3, <3>4, SameBeginning
    <2>5. job.framing = "chunked" => FrameInv'
        BY <1>1, <1>5, <2>3, <2>4 DEF Inv, FrameInv
    <2> QED
        BY <1>1, <2>3, <2>5 DEF Inv
<1> QED
    BY <1>4, <1>5 DEF SendBody

LEMMA ReadHeadStep == ASSUME Inv, ReadHead PROVE Inv'
<1>1. /\ server = "head" /\ pending = <<>> /\ up \in Cells /\ Len(up) \in Nat
      /\ UNCHANGED <<source, job, sender, unsent, complete, before, disk>>
    BY DEF ReadHead, ReceiverOnly, senderVars, Inv, TypeInv, OrderInv, Cells
<1>2. ASSUME NEW n \in 1..Len(up), pending' = SubSeq(up, 2, n), up' = From(up, n),
             server' = IF job.framing = "length" THEN "length" ELSE "handling",
             UNCHANGED link
      PROVE  Inv'
    <2>1. /\ pending' \in Cells /\ Len(pending') = n - 1 /\ \A i \in 1..n - 1 : pending'[i] = up[1 + i]
        BY <1>1, <1>2, SubSeqProperties DEF Cells
    <2>2. /\ up' \in Cells /\ Len(up') = Len(up) - n /\ \A i \in 1..Len(up) - n : up'[i] = up[n + i]
        <3>1. n \in 0..Len(up)
            BY <1>1
        <3> QED
            BY <1>1, <1>2, <3>1, FromIs
    <2>3. up # <<>>
        BY <1>1
    <2>4. TypeInv' /\ OrderInv' /\ (Writing' <=> Writing)
        BY <1>1, <1>2, <2>1, <2>2, <2>3 DEF Inv, TypeInv, OrderInv, Writing
    <2>5. ASSUME job.framing # "length"
          PROVE  /\ Coming \in Cells /\ Coming' \in Cells /\ Len(Coming') = Len(Coming)
                 /\ \A i \in 1..Len(Coming') : Coming'[i] = Coming[i]
        <3> DEFINE p == pending'
                   u == up'
                   joint == p \o u
                   c == From(up, 1)
        <3>1. Coming = c /\ Coming' = joint
            BY <1>1, <1>2, <2>5 DEF Coming, Stream
        <3>2. c \in Cells /\ Len(c) = Len(up) - 1 /\ \A i \in 1..Len(up) - 1 : c[i] = up[1 + i]
            <4>1. 1 \in 0..Len(up)
                BY <1>1
            <4> QED
                BY <1>1, <4>1, FromIs
        <3>3. /\ p \in Cells /\ Len(p) = n - 1 /\ \A i \in 1..n - 1 : p[i] = up[1 + i]
              /\ u \in Cells /\ Len(u) = Len(up) - n /\ \A i \in 1..Len(up) - n : u[i] = up[n + i]
            BY <2>1, <2>2
        <3> HIDE DEF c, p, u
        <3>4. /\ joint \in Cells /\ Len(joint) = Len(p) + Len(u)
              /\ \A i \in 1..Len(p) : joint[i] = p[i]
              /\ \A i \in 1..Len(u) : joint[Len(p) + i] = u[i]
            BY <3>3, Joined
        <3> HIDE DEF joint
        <3>5. Len(joint) = Len(c) /\ Len(c) = Len(up) - 1
            BY <1>1, <3>2, <3>3, <3>4
        <3>6. ASSUME NEW i \in 1..Len(joint) PROVE joint[i] = c[i]
            <4>1. i \in 1..Len(up) - 1
                BY <3>5
            <4>2. CASE i \in 1..n - 1
                BY <3>2, <3>3, <3>4, <4>1, <4>2
            <4>3. CASE i \notin 1..n - 1
                <5> DEFINE j == i - (n - 1)
                <5>1. j \in 1..Len(up) - n /\ i = Len(p) + j /\ n + j = 1 + i
                    BY <1>1, <3>3, <4>1, <4>3
                <5> HIDE DEF j
                <5>2. joint[i] = u[j] /\ u[j] = up[n + j]
                    BY <3>3, <3>4, <5>1
                <5> QED
                    BY <3>2, <4>1, <5>1, <5>2
            <4> QED
                BY <4>2, <4>3
        <3> QED
            BY <3>1, <3>2, <3>4, <3>5, <3>6
    <2>6. ASSUME job.framing = "chunked" PROVE FrameInv'
        <3>1. PICK at : Framed(Coming, at, complete) /\ (Writing => AtEnd(Coming, at))
            BY <1>1, <2>6 DEF Inv, FrameInv
        <3> HIDE DEF Coming
        <3>2. Framed(Coming', at, complete)
            BY <2>5, <2>6, <3>1, SameBeginning DEF Cells
        <3>3. Writing => AtEnd(Coming', at)
            BY <2>5, <2>6, <3>1 DEF AtEnd
        <3> QED
            BY <1>1, <1>2, <2>4, <2>6, <3>2, <3>3 DEF Inv, FrameInv
    <2> QED
        BY <1>1, <2>4, <2>6 DEF Inv
<1>3. CASE up = <<>> /\ server' = "closed" /\ UNCHANGED <<pending, up>>
    <2>1. TypeInv' /\ OrderInv'
        BY <1>1, <1>3 DEF Inv, TypeInv, OrderInv
    <2>2. job.framing = "chunked" => FrameInv'
        BY <1>1, <1>3 DEF Inv, FrameInv
    <2> QED
        BY <1>1, <2>1, <2>2 DEF Inv
<1> QED
    BY <1>2, <1>3 DEF ReadHead

\* What is left of the stream after n cells were taken.
LEMMA TakeIs ==
    ASSUME pending \in Cells, up \in Cells, NEW n \in 0..Len(Stream), Take(n)
    PROVE  /\ pending' \in Cells /\ up' \in Cells /\ Stream \in Cells /\ Stream' \in Cells
           /\ Len(Stream') = Len(Stream) - n
           /\ \A i \in 1..Len(Stream') : Stream'[i] = Stream[n + i]
<1> DEFINE p == Len(pending)
           l == Len(up)
<1>1. /\ p \in Nat /\ l \in Nat /\ Stream \in Cells /\ Len(Stream) = p + l /\ n \in Nat
      /\ \A i \in 1..p : Stream[i] = pending[i]
      /\ \A i \in 1..l : Stream[p + i] = up[i]
    <2> DEFINE stream == Stream
    <2>1. stream = pending \o up /\ p = Len(pending) /\ l = Len(up)
        BY DEF Stream
    <2> HIDE DEF stream, p, l
    <2>2. /\ p \in Nat /\ l \in Nat /\ stream \in Cells /\ Len(stream) = p + l
          /\ \A i \in 1..p : stream[i] = pending[i]
          /\ \A i \in 1..l : stream[p + i] = up[i]
        BY <2>1, Joined
    <2>3. n \in 0..Len(stream)
        BY DEF stream
    <2>4. n \in Nat
        BY <2>2, <2>3
    <2> QED
        BY <2>2, <2>4 DEF stream
<1>2. CASE n <= p
    <2>1. /\ pending' \in Cells /\ Len(pending') = p - n
          /\ \A i \in 1..p - n : pending'[i] = pending[n + i]
        <3>1. n \in 0..Len(pending)
            BY <1>1, <1>2
        <3> QED
            BY <3>1, FromIs DEF Take
    <2>2. up' = up
        BY <1>1, <1>2 DEF Take
    <2> DEFINE after == Stream'
    <2>3. /\ after \in Cells /\ Len(after) = p - n + l
          /\ \A i \in 1..p - n : after[i] = pending'[i]
          /\ \A i \in 1..l : after[p - n + i] = up[i]
        <3> DEFINE q == pending'
        <3>1. q \in Cells /\ Len(q) = p - n /\ after = q \o up /\ l = Len(up)
            BY <2>1, <2>2 DEF Stream
        <3> HIDE DEF q, after, p, l
        <3>2. after \in Cells /\ Len(after) = p - n + l /\ (\A i \in 1..p - n : after[i] = q[i])
              /\ \A i \in 1..l : after[p - n + i] = up[i]
            <4>1. /\ after \in Cells /\ Len(after) = Len(q) + Len(up)
                  /\ \A i \in 1..Len(q) : after[i] = q[i]
                  /\ \A i \in 1..Len(up) : after[Len(q) + i] = up[i]
                BY <3>1, Joined
            <4> QED
                BY <3>1, <4>1
        <3> QED
            BY <3>2 DEF q
    <2> HIDE DEF after, p, l
    <2>4. ASSUME NEW i \in 1..Len(after) PROVE after[i] = Stream[n + i]
        <3>1. CASE i \in 1..p - n
            <4>1. n + i \in 1..p
                BY <1>1, <1>2, <3>1
            <4> QED
                BY <1>1, <2>1, <2>3, <3>1, <4>1
        <3>2. CASE i \notin 1..p - n
            <4> DEFINE j == i - (p - n)
            <4>1. j \in 1..l /\ i = p - n + j /\ n + i = p + j
                BY <1>1, <1>2, <2>3, <3>2
            <4> HIDE DEF j
            <4> QED
                BY <1>1, <2>3, <4>1
        <3> QED
            BY <3>1, <3>2
    <2>5. Len(after) = Len(Stream) - n
        BY <1>1, <2>3
    <2> QED
        BY <1>1, <2>1, <2>2, <2>3, <2>4, <2>5 DEF after
<1>3. CASE n > p
    <2>1. pending' = <<>>
        BY <1>1, <1>3 DEF Take, From, Cells
    <2>2. /\ up' \in Cells /\ Len(up') = l - (n - p)
          /\ \A i \in 1..l - (n - p) : up'[i] = up[n - p + i]
        <3>1. n - p \in 0..l
            BY <1>1, <1>3
        <3>2. up' = From(up, n - p)
            BY <1>3 DEF Take
        <3> HIDE DEF p
        <3> QED
            BY <3>1, <3>2, FromIs
    <2>3. Stream' = up' /\ <<>> \in Cells
        BY <2>1, <2>2 DEF Stream, Cells
    <2> DEFINE after == up'
    <2> HIDE DEF p, l
    <2>4. ASSUME NEW i \in 1..Len(after) PROVE after[i] = Stream[n + i]
        <3>1. n - p + i \in 1..l /\ n + i = p + (n - p + i) /\ i \in 1..l - (n - p)
            BY <1>1, <1>3, <2>2
        <3> QED
            BY <1>1, <2>2, <3>1
    <2>5. Len(after) = Len(Stream) - n
        BY <1>1, <1>3, <2>2
    <2> QED
        BY <1>1, <2>1, <2>2, <2>3, <2>4, <2>5
<1> QED
    BY <1>1, <1>2, <1>3

\* The stream while the receiver reads, and that it is only read from.
LEMMA StreamStep ==
    ASSUME Inv, server \in {"handling", "chunks"}
    PROVE  Stream \in Cells /\ Coming = Stream /\ up \in Cells /\ pending \in Cells
<1>1. up \in Cells /\ pending \in Cells
    BY DEF Inv, TypeInv
<1>2. Stream \in Cells
    BY <1>1, Joined DEF Stream
<1> QED
    BY <1>1, <1>2 DEF Coming

\* The receiver is done with the connection.
LEMMA ClosingStep ==
    ASSUME Inv, server' = "closed", UNCHANGED <<source, job, sender, unsent, complete, before, disk>>,
           UNCHANGED <<up, pending>>, link' = link \/ link' # "up", sender \notin {"choosing", "asking", "ready"} \/ up = <<>>
    PROVE  Inv'
<1>1. TypeInv' /\ OrderInv'
    BY DEF Inv, TypeInv, OrderInv
<1>2. job.framing = "chunked" => FrameInv'
    BY DEF Inv, FrameInv
<1> QED
    BY <1>1, <1>2 DEF Inv

LEMMA ReadLengthStep == ASSUME Inv, ReadLength PROVE Inv'
<1>1. /\ server = "length" /\ job.framing # "chunked" /\ pending \in Cells /\ up \in Cells
      /\ sender \notin {"choosing", "asking", "ready"}
      /\ UNCHANGED <<source, job, sender, unsent, complete, before, disk>>
      /\ server' \in {"length", "handling", "closed"}
    BY DEF ReadLength, ReceiverOnly, senderVars, Inv, TypeInv, OrderInv
<1>2. pending' \in Cells /\ up' \in Cells
    <2>1. CASE Len(pending) >= job.length /\ pending' = UpTo(pending, job.length) /\ UNCHANGED up
        <3>1. job.length \in 0..Len(pending)
            BY <1>1, <2>1 DEF Inv, TypeInv, Cells
        <3> QED
            BY <1>1, <2>1, <3>1, UpToIs
    <2>2. CASE \E n \in 1..Len(up) : pending' = pending \o UpTo(up, n) /\ up' = From(up, n)
        <3>1. PICK n \in 1..Len(up) : pending' = pending \o UpTo(up, n) /\ up' = From(up, n)
            BY <2>2
        <3>2. n \in 0..Len(up)
            BY <1>1 DEF Cells
        <3> DEFINE taken == UpTo(up, n)
        <3>3. taken \in Cells /\ From(up, n) \in Cells
            BY <1>1, <3>2, UpToIs, FromIs
        <3> HIDE DEF taken
        <3>4. pending \o taken \in Cells
            BY <1>1, <3>3, Joined
        <3> QED
            BY <3>1, <3>3, <3>4 DEF taken
    <2>3. CASE UNCHANGED <<pending, up>>
        BY <1>1, <2>3
    <2> QED
        BY <2>1, <2>2, <2>3 DEF ReadLength
<1>3. TypeInv' /\ OrderInv'
    BY <1>1, <1>2 DEF Inv, TypeInv, OrderInv
<1> QED
    BY <1>1, <1>3 DEF Inv

LEMMA HandleStep == ASSUME Inv, Handle PROVE Inv'
<1>1. /\ server = "handling"
      /\ UNCHANGED <<source, job, sender, unsent, complete, before, disk, pending, up>>
      /\ sender \notin {"choosing", "asking", "ready"}
      /\ server' \in {"closed", "chunks", "opening"}
      /\ job.framing = "chunked" => server' \in {"closed", "chunks"}
      /\ server' = "chunks" => job.framing = "chunked"
      /\ link' = link \/ server' = "closed"
    BY DEF Handle, ReceiverOnly, senderVars, Inv, OrderInv
<1>2. TypeInv' /\ OrderInv'
    BY <1>1 DEF Inv, TypeInv, OrderInv
<1>3. ASSUME job.framing = "chunked" PROVE FrameInv'
    <2>1. Coming' = Coming
        BY <1>1, <1>3 DEF Coming, Stream
    <2> QED
        BY <1>1, <1>3, <2>1 DEF Inv, FrameInv, Writing
<1> QED
    BY <1>1, <1>2, <1>3 DEF Inv

LEMMA OpenAndUnpackStep == ASSUME Inv, OpenArchive \/ Unpack PROVE Inv'
<1>1. /\ server \in {"opening", "unpacking"}
      /\ UNCHANGED <<source, job, sender, unsent, complete, before, pending, up>>
      /\ sender \notin {"choosing", "asking", "ready"}
      /\ server' \in {"closed", "unpacking"}
    BY DEF OpenArchive, Unpack, ReceiverOnly, senderVars, Inv, OrderInv
<1>2. TypeInv' /\ OrderInv'
    BY <1>1 DEF Inv, TypeInv, OrderInv
<1>3. job.framing = "chunked" => FrameInv'
    BY <1>1 DEF Inv, FrameInv
<1> QED
    BY <1>1, <1>2, <1>3 DEF Inv

LEMMA NextChunkStep == ASSUME Inv, NextChunk PROVE Inv'
<1> DEFINE ends == {i \in DOMAIN Stream : Stream[i] = EOL}
           eol == CHOOSE i \in ends : \A j \in ends : i <= j
           size == Number(UpTo(Stream, eol - 1))
           rest == Len(Stream) - eol
           more == size > 0 /\ rest > size /\ Take(eol + size + 1) /\ server' = server
           last == size = 0 /\ Take(eol + (IF rest >= 1 THEN 1 ELSE 0)) /\ server' = "opening"
<1>1. /\ server = "chunks" /\ Stream \in Cells /\ Coming = Stream /\ up \in Cells /\ pending \in Cells
      /\ sender \notin {"choosing", "asking", "ready"}
      /\ UNCHANGED <<source, job, sender, unsent, complete, before, disk>>
    BY StreamStep DEF NextChunk, Failed, CutOff, ReceiverOnly, senderVars, Inv, OrderInv
<1>2. \/ Failed
      \/ ends # {} /\ UNCHANGED link /\ (more \/ last)
    BY DEF NextChunk, CutOff
<1>3. CASE Failed
    <2>1. server' = "closed" /\ UNCHANGED <<up, pending>> /\ (link' = link \/ link' # "up")
        BY <1>3 DEF Failed, Closed
    <2> QED
        BY <1>1, <2>1, ClosingStep
<1>4. CASE ends # {} /\ UNCHANGED link /\ (more \/ last)
    <2>1. ASSUME NEW at, NEW done, Framed(Stream, at, done)
          PROVE  \E k \in 0..ChunkSize : /\ eol = 2 /\ Len(Stream) >= 2 /\ Stream[1] = Cell(k) /\ size = k
                                         /\ k = 0 => done
        <3>1. PICK k \in 0..ChunkSize :
                 /\ FirstEol(Stream) = 2
                 /\ Len(Stream) >= 2 /\ Stream[1] = Cell(k)
                 /\ Number(UpTo(Stream, 1)) = k
                 /\ k = 0 => done
            BY <1>1, <1>4, <2>1, FirstSize
        <3>2. eol = 2
            BY <3>1 DEF FirstEol
        <3>3. eol - 1 = 1
            BY <3>2
        <3> HIDE DEF eol
        <3>4. size = k
            BY <3>1, <3>3
        <3> QED
            BY <3>1, <3>2, <3>4
    <2>2. PICK at : Framed(Stream, at, complete) /\ (Writing => AtEnd(Stream, at))
        BY <1>1 DEF Inv, OrderInv, FrameInv
    <2>3. PICK k \in 0..ChunkSize : /\ eol = 2 /\ Len(Stream) >= 2 /\ Stream[1] = Cell(k) /\ size = k
                                    /\ k = 0 => complete
        BY <2>1, <2>2
    <2>a. rest = Len(Stream) - eol
        OBVIOUS
    <2> HIDE DEF eol, size, rest, ends
    <2>4. k \in Nat /\ Len(Stream) \in Nat /\ rest = Len(Stream) - 2
        <3>1. Len(Stream) \in Nat
            BY <1>1 DEF Cells
        <3> QED
            BY <2>3, <2>a, <3>1, ChunkSizes
    <2>5. CASE more
        <3> DEFINE n == k + 3
                   stream == Stream'
        <3>1. k \in 1..ChunkSize /\ n \in 0..Len(Stream) /\ n <= Len(Stream) /\ Take(n)
            <4>1. k > 0 /\ eol + size + 1 = k + 3 /\ k + 3 <= Len(Stream)
                BY <2>3, <2>4, <2>5
            <4>2. k \in 1..ChunkSize
                BY <2>4, <4>1, ChunkSizes
            <4> QED
                BY <2>4, <2>5, <4>1, <4>2
        <3>2. /\ pending' \in Cells /\ up' \in Cells /\ stream \in Cells /\ Len(stream) = Len(Stream) - n
              /\ \A i \in 1..Len(stream) : stream[i] = Stream[n + i]
            <4> HIDE DEF n
            <4> QED
                BY <1>1, <3>1, TakeIs
        <3>3. Coming' = stream /\ (Writing' => Writing)
            BY <1>1, <1>4, <2>5 DEF Coming, Writing
        <3> HIDE DEF stream
        <3>4. PICK at2 : Framed(stream, at2, complete) /\ (AtEnd(Stream, at) => AtEnd(stream, at2))
            <4> HIDE DEF Stream
            <4> QED
                BY <1>1, <2>2, <2>3, <3>1, <3>2, NextFrames
        <3>5. FrameInv'
            BY <1>1, <2>2, <2>5, <3>3, <3>4 DEF Inv, OrderInv, FrameInv
        <3>6. TypeInv' /\ OrderInv'
            BY <1>1, <2>5, <3>2 DEF Inv, TypeInv, OrderInv
        <3> QED
            BY <3>5, <3>6 DEF Inv
    <2>6. CASE last
        <3> DEFINE n == 2 + (IF rest >= 1 THEN 1 ELSE 0)
        <3>1. complete /\ n \in 0..Len(Stream) /\ Take(n)
            BY <2>3, <2>4, <2>6
        <3> HIDE DEF n
        <3>2. pending' \in Cells /\ up' \in Cells
            BY <1>1, <3>1, TakeIs
        <3>3. TypeInv' /\ OrderInv' /\ FrameInv'
            BY <1>1, <2>6, <3>1, <3>2 DEF Inv, TypeInv, OrderInv, FrameInv
        <3> QED
            BY <3>3 DEF Inv
    <2> QED
        BY <1>4, <2>5, <2>6
<1> QED
    BY <1>2, <1>3, <1>4

LEMMA BreakStep == ASSUME Inv, Break PROVE Inv'
<1>1. /\ UNCHANGED <<source, job, unsent, complete, before, disk, pending, server>>
      /\ sender \in {"awaiting", "sending", "answering"} /\ up \in Cells /\ pending \in Cells
      /\ sender' \in {sender, "failed"} /\ link' # "up"
    BY DEF Break, receiverVars, Inv, TypeInv
<1>2. PICK n \in 0..Len(up) : up' = UpTo(up, n)
    <2>1. CASE UNCHANGED up
        <3>1. Len(up) \in Nat /\ Len(up) \in 0..Len(up) /\ UpTo(up, Len(up)) = up
            BY <1>1 DEF UpTo, Cells
        <3> QED
            BY <2>1, <3>1
    <2> QED
        BY <2>1 DEF Break
<1>3. up' \in Cells /\ Len(up') = n /\ \A i \in 1..n : up'[i] = up[i]
    BY <1>1, <1>2, UpToIs
<1>4. TypeInv' /\ OrderInv' /\ ~Writing'
    BY <1>1, <1>3 DEF Inv, TypeInv, OrderInv, Writing
<1>5. ASSUME server \in {"head", "handling", "chunks"}
      PROVE  /\ Coming \in Cells /\ Coming' \in Cells /\ Len(Coming') <= Len(Coming)
             /\ \A i \in 1..Len(Coming') : Coming'[i] = Coming[i]
    <2> DEFINE u == up'
    <2>1. CASE server = "head"
        <3> DEFINE c == From(up, 1)
                   d == From(u, 1)
        <3>1. Coming = c /\ Coming' = d /\ Len(up) \in Nat /\ n \in Nat /\ n <= Len(up)
            BY <1>1, <2>1 DEF Coming, Cells
        <3> HIDE DEF u
        <3>2. CASE n = 0
            <4>1. d = <<>> /\ <<>> \in Cells /\ c \in Cells
                <5>1. u = <<>>
                    BY <1>3, <3>2 DEF u, Cells
                <5>2. c \in Cells
                    BY <1>1, SubSeqProperties DEF From, Cells
                <5> QED
                    BY <5>1, <5>2 DEF From, Cells
            <4> HIDE DEF c, d
            <4> QED
                BY <3>1, <4>1 DEF Cells
        <3>3. CASE n # 0
            <4>1. 1 \in 0..Len(up) /\ 1 \in 0..n
                BY <3>1, <3>3
            <4>2. c \in Cells /\ Len(c) = Len(up) - 1 /\ \A i \in 1..Len(up) - 1 : c[i] = up[1 + i]
                BY <1>1, <4>1, FromIs
            <4>3. d \in Cells /\ Len(d) = n - 1 /\ \A i \in 1..n - 1 : d[i] = u[1 + i]
                <5>1. u \in Cells /\ Len(u) = n
                    BY <1>3 DEF u
                <5> QED
                    BY <4>1, <5>1, FromIs
            <4> HIDE DEF c, d
            <4>4. ASSUME NEW i \in 1..n - 1 PROVE d[i] = c[i]
                <5>1. 1 + i \in 1..n /\ i \in 1..Len(up) - 1
                    BY <3>1, <3>3
                <5> QED
                    BY <1>3, <4>2, <4>3, <5>1 DEF u
            <4> QED
                BY <3>1, <4>2, <4>3, <4>4
        <3> QED
            BY <3>2, <3>3
    <2>2. CASE server \in {"handling", "chunks"}
        <3> DEFINE c == pending \o up
                   d == pending \o u
        <3>1. Coming = c /\ Coming' = d /\ u \in Cells /\ Len(u) = n
            BY <1>1, <1>3, <2>2 DEF Coming, Stream
        <3>2. \A i \in 1..n : u[i] = up[i]
            BY <1>3
        <3> HIDE DEF u, c, d
        <3>3. /\ Len(pending) \in Nat /\ Len(up) \in Nat /\ n \in Nat /\ n <= Len(up)
              /\ c \in Cells /\ Len(c) = Len(pending) + Len(up)
              /\ \A i \in 1..Len(pending) : c[i] = pending[i]
              /\ \A i \in 1..Len(up) : c[Len(pending) + i] = up[i]
            BY <1>1, Joined DEF c
        <3>4. /\ d \in Cells /\ Len(d) = Len(pending) + n
              /\ \A i \in 1..Len(pending) : d[i] = pending[i]
              /\ \A i \in 1..n : d[Len(pending) + i] = u[i]
            BY <1>1, <3>1, Joined DEF d
        <3>5. ASSUME NEW i \in 1..Len(d) PROVE d[i] = c[i]
            <4>1. CASE i \in 1..Len(pending)
                BY <3>3, <3>4, <4>1
            <4>2. CASE i \notin 1..Len(pending)
                <5> DEFINE j == i - Len(pending)
                <5>1. j \in 1..n /\ j \in 1..Len(up) /\ i = Len(pending) + j
                    BY <3>3, <3>4, <4>2
                <5> HIDE DEF j
                <5> QED
                    BY <3>2, <3>3, <3>4, <5>1
            <4> QED
                BY <4>1, <4>2
        <3> QED
            BY <3>1, <3>3, <3>4, <3>5
    <2> QED
        BY <1>5, <2>1, <2>2
<1>6. ASSUME job.framing = "chunked", server \in {"head", "handling", "chunks"}
      PROVE  \E at : Framed(Coming', at, complete)
    <2>1. PICK at : Framed(Coming, at, complete)
        BY <1>6 DEF Inv, FrameInv
    <2> HIDE DEF Coming
    <2> QED
        BY <1>5, <1>6, <2>1, SameBeginning
<1>7. job.framing = "chunked" => FrameInv'
    BY <1>1, <1>4, <1>6 DEF Inv, FrameInv
<1> QED
    BY <1>1, <1>4, <1>7 DEF Inv

LEMMA NextInv == ASSUME Inv, [UploadsNext]_uploadVars PROVE Inv'
<1>1. CASE SenderStep
    BY <1>1, CollectStep, BuildStep, SendHeadStep, SenderStepInv, SendBodyStep DEF SenderStep
<1>2. CASE ReceiverStep
    BY <1>2, ReadHeadStep, ReadLengthStep, HandleStep, NextChunkStep, OpenAndUnpackStep DEF ReceiverStep
<1>3. CASE Break
    BY <1>3, BreakStep
<1>4. CASE \E f \in Files : FileChanges(f)
    BY <1>4, FileChangesStep
<1>5. CASE UNCHANGED uploadVars
    <2>1. UNCHANGED <<source, job, sender, unsent, complete, server, pending, disk, link, up, before>>
        BY <1>5 DEF uploadVars, senderVars, receiverVars
    <2>2. TypeInv' /\ OrderInv' /\ (Writing' <=> Writing)
        BY <2>1 DEF Inv, TypeInv, OrderInv, Writing
    <2> QED
        BY <2>1, <2>2, QuietStep DEF Inv
<1> QED
    BY <1>1, <1>2, <1>3, <1>4, <1>5 DEF UploadsNext

\* A chunked upload that breaks off leaves nothing behind, for any files and
\* senders, and in whatever pieces the connection hands it over or breaks in
\* (read_chunked_body, handle_upload): the receiver only unpacks what ends with
\* the chunk that is the sender's last.
THEOREM NothingOfABrokenUpload == UploadsSpec => []BrokenUploadLeavesNothing
<1>1. Inv => BrokenUploadLeavesNothing
    BY DEF Inv, FrameInv, BrokenUploadLeavesNothing
<1> QED
    BY <1>1, InitInv, NextInv, PTL DEF UploadsSpec

-----------------------------------------------------------------------------
(* What a browser sends.                                                   *)

IsPart(p) == p.field \in STRING /\ p.filename \in STRING /\ p.data \in Cells

\* Behind the place o, the cells of a part.
PartAt(p, cells, o) ==
    /\ cells[o + 1] = Dashes /\ cells[o + 2] = "B" /\ cells[o + 3] = CRLF
    /\ cells[o + 4] = DISPOSITION /\ cells[o + 5] = p.field /\ cells[o + 6] = p.filename
    /\ cells[o + 7] = CRLF /\ cells[o + 8] = "content-type" /\ cells[o + 9] = CRLF
    /\ cells[o + 10] = CRLF
    /\ \A j \in 1..Len(p.data) : cells[o + 10 + j] = p.data[j]
    /\ cells[o + 11 + Len(p.data)] = CRLF

\* Two sequences one behind the other.
LEMMA Behind ==
    ASSUME NEW s \in Cells, NEW t \in Cells
    PROVE  /\ s \o t \in Cells /\ Len(s) \in Nat /\ Len(t) \in Nat
           /\ Len(s \o t) = Len(s) + Len(t)
           /\ \A i \in 1..Len(s) : (s \o t)[i] = s[i]
           /\ \A i \in Len(s) + 1..Len(s) + Len(t) : (s \o t)[i] = t[i - Len(s)]
<1> DEFINE c == s \o t
<1>1. /\ c \in Cells /\ Len(s) \in Nat /\ Len(t) \in Nat /\ Len(c) = Len(s) + Len(t)
      /\ \A i \in 1..Len(s) : c[i] = s[i]
      /\ \A i \in 1..Len(t) : c[Len(s) + i] = t[i]
    BY Joined
<1> HIDE DEF c
<1>2. ASSUME NEW i \in Len(s) + 1..Len(s) + Len(t) PROVE c[i] = t[i - Len(s)]
    <2>1. i - Len(s) \in 1..Len(t) /\ Len(s) + (i - Len(s)) = i
        BY <1>1
    <2> QED
        BY <1>1, <2>1
<1> QED
    BY <1>1, <1>2 DEF c

LEMMA Literals ==
    /\ \A c \in {CRLF, Dashes, "B", DISPOSITION, "content-type", "HEAD"} : c \in AnyCell
    /\ \A c \in STRING : c \in AnyCell
BY DEF AnyCell, HEAD

LEMMA DelimIs ==
    /\ Delim \in Cells /\ Len(Delim) = 2 /\ Delim[1] = Dashes /\ Delim[2] = "B"
BY Literals DEF Delim, Cells

LEMMA PartCellsAre ==
    ASSUME NEW p, IsPart(p)
    PROVE  /\ PartCells(p) \in Cells /\ Len(p.data) \in Nat
           /\ Len(PartCells(p)) = Len(p.data) + 11
           /\ PartAt(p, PartCells(p), 0)
<1> DEFINE line == Delim \o <<CRLF>>
           lines == PartHead(p)
           head == line \o lines
           data == p.data
           most == head \o data
           whole == PartCells(p)
           L == Len(p.data)
<1>1. <<CRLF>> \in Cells /\ Len(<<CRLF>>) = 1 /\ <<CRLF>>[1] = CRLF
    BY Literals DEF Cells
<1>2. line \in Cells /\ Len(line) = 3 /\ line[1] = Dashes /\ line[2] = "B" /\ line[3] = CRLF
    <2> DEFINE d == Delim
               e == <<CRLF>>
    <2>1. d \in Cells /\ e \in Cells /\ line = d \o e /\ Len(d) = 2 /\ Len(e) = 1
          /\ d[1] = Dashes /\ d[2] = "B" /\ e[1] = CRLF
        BY <1>1, DelimIs
    <2> HIDE DEF d, e, line
    <2>2. /\ line \in Cells /\ Len(line) = Len(d) + Len(e)
          /\ \A i \in 1..Len(d) : line[i] = d[i]
          /\ \A i \in Len(d) + 1..Len(d) + Len(e) : line[i] = e[i - Len(d)]
        BY <2>1, Behind
    <2>3. 1 \in 1..2 /\ 2 \in 1..2 /\ 3 \in 3..3 /\ 3 - 2 = 1
        OBVIOUS
    <2> QED
        BY <2>1, <2>2, <2>3
<1>3. /\ lines \in Cells /\ Len(lines) = 7 /\ lines[1] = DISPOSITION /\ lines[2] = p.field
      /\ lines[3] = p.filename /\ lines[4] = CRLF /\ lines[5] = "content-type"
      /\ lines[6] = CRLF /\ lines[7] = CRLF
    <2>1. /\ DISPOSITION \in AnyCell /\ p.field \in AnyCell /\ p.filename \in AnyCell
          /\ CRLF \in AnyCell /\ "content-type" \in AnyCell
        BY Literals DEF IsPart
    <2> QED
        BY <2>1 DEF PartHead, Cells
<1> HIDE DEF line, lines
<1>4. head \in Cells /\ Len(head) = 10 /\ head[1] = Dashes /\ head[2] = "B" /\ head[3] = CRLF
      /\ head[4] = DISPOSITION /\ head[5] = p.field /\ head[6] = p.filename /\ head[7] = CRLF
      /\ head[8] = "content-type" /\ head[9] = CRLF /\ head[10] = CRLF
    <2>1. head = line \o lines
        OBVIOUS
    <2> HIDE DEF head
    <2>2. /\ head \in Cells /\ Len(head) = Len(line) + Len(lines)
          /\ \A i \in 1..Len(line) : head[i] = line[i]
          /\ \A i \in Len(line) + 1..Len(line) + Len(lines) : head[i] = lines[i - Len(line)]
        BY <1>2, <1>3, <2>1, Behind
    <2>3. Len(head) = 10 /\ \A i \in 4..10 : head[i] = lines[i - 3]
        BY <1>2, <1>3, <2>2
    <2>4. /\ 4 \in 4..10 /\ 5 \in 4..10 /\ 6 \in 4..10 /\ 7 \in 4..10 /\ 8 \in 4..10
          /\ 9 \in 4..10 /\ 10 \in 4..10 /\ 4 - 3 = 1 /\ 5 - 3 = 2 /\ 6 - 3 = 3
          /\ 7 - 3 = 4 /\ 8 - 3 = 5 /\ 9 - 3 = 6 /\ 10 - 3 = 7
          /\ 1 \in 1..3 /\ 2 \in 1..3 /\ 3 \in 1..3
        OBVIOUS
    <2> QED
        BY <1>2, <1>3, <2>2, <2>3, <2>4
<1>5. data \in Cells /\ L \in Nat /\ L = Len(data) /\ whole = most \o <<CRLF>>
    BY DEF IsPart, Cells, PartCells, line, lines
<1> HIDE DEF head, data, L, whole
<1>6. /\ most \in Cells /\ Len(most) = 10 + L
      /\ \A i \in 1..10 : most[i] = head[i]
      /\ \A i \in 11..10 + L : most[i] = data[i - 10]
    <2>1. most = head \o data
        OBVIOUS
    <2> HIDE DEF most
    <2>2. /\ most \in Cells /\ Len(most) = Len(head) + Len(data)
          /\ \A i \in 1..Len(head) : most[i] = head[i]
          /\ \A i \in Len(head) + 1..Len(head) + Len(data) : most[i] = data[i - Len(head)]
        BY <1>4, <1>5, <2>1, Behind
    <2> QED
        BY <1>4, <1>5, <2>2
<1> HIDE DEF most
<1>7. /\ whole \in Cells /\ Len(whole) = L + 11
      /\ \A i \in 1..10 + L : whole[i] = most[i]
      /\ whole[11 + L] = CRLF
    <2> DEFINE e == <<CRLF>>
    <2>1. e \in Cells /\ Len(e) = 1 /\ e[1] = CRLF /\ whole = most \o e
        BY <1>1, <1>5
    <2> HIDE DEF e
    <2>2. /\ whole \in Cells /\ Len(whole) = Len(most) + Len(e)
          /\ \A i \in 1..Len(most) : whole[i] = most[i]
          /\ \A i \in Len(most) + 1..Len(most) + Len(e) : whole[i] = e[i - Len(most)]
        BY <1>6, <2>1, Behind
    <2>3. 11 + L \in Len(most) + 1..Len(most) + Len(e) /\ 11 + L - Len(most) = 1
        BY <1>5, <1>6, <2>1, <2>2
    <2> QED
        BY <1>5, <1>6, <2>1, <2>2, <2>3
<1>8. \A i \in 1..10 : i \in 1..10 + L /\ 0 + i = i /\ whole[i] = head[i]
    BY <1>5, <1>6, <1>7
<1>9. ASSUME NEW i \in 1..L PROVE whole[0 + 10 + i] = data[i]
    <2>1. 10 + i \in 11..10 + L /\ 10 + i \in 1..10 + L /\ 0 + 10 + i = 10 + i /\ 10 + i - 10 = i
        BY <1>5
    <2> QED
        BY <1>6, <1>7, <2>1
<1>10. 0 + 11 + L = 11 + L
    BY <1>5
<1>11. /\ 1 \in 1..10 /\ 2 \in 1..10 /\ 3 \in 1..10 /\ 4 \in 1..10 /\ 5 \in 1..10
       /\ 6 \in 1..10 /\ 7 \in 1..10 /\ 8 \in 1..10 /\ 9 \in 1..10 /\ 10 \in 1..10
    OBVIOUS
<1>12. PartAt(p, whole, 0)
    <2>1. /\ whole[0 + 1] = Dashes /\ whole[0 + 2] = "B" /\ whole[0 + 3] = CRLF
          /\ whole[0 + 4] = DISPOSITION /\ whole[0 + 5] = p.field /\ whole[0 + 6] = p.filename
          /\ whole[0 + 7] = CRLF /\ whole[0 + 8] = "content-type" /\ whole[0 + 9] = CRLF
          /\ whole[0 + 10] = CRLF
        BY <1>4, <1>8, <1>11
    <2> QED
        BY <1>7, <1>9, <1>10, <2>1 DEF PartAt, data, L
<1> QED
    BY <1>5, <1>7, <1>12 DEF whole, L

\* Where the parts of a form begin, and the delimiter behind the last.
FormLaid(parts, cells, off) ==
    /\ off \in [0..Len(parts) -> Nat] /\ off[0] = 0
    /\ \A i \in 1..Len(parts) :
          /\ off[i] = off[i - 1] + Len(parts[i].data) + 11 /\ off[i] <= off[Len(parts)]
          /\ PartAt(parts[i], cells, off[i - 1])
    /\ cells \in Cells /\ Len(cells) = off[Len(parts)] + 4
    /\ cells[off[Len(parts)] + 1] = Dashes /\ cells[off[Len(parts)] + 2] = "B"
    /\ cells[off[Len(parts)] + 3] = Dashes /\ cells[off[Len(parts)] + 4] = CRLF

LEMMA FormIs ==
    ASSUME NEW parts, Len(parts) \in Nat, DOMAIN parts = 1..Len(parts),
           \A i \in 1..Len(parts) : IsPart(parts[i])
    PROVE  \E off : FormLaid(parts, Form(parts), off)
<1> DEFINE seqs == [i \in DOMAIN parts |-> PartCells(parts[i])]
           flat == FlattenSeq(seqs)
           last == Delim \o <<Dashes, CRLF>>
           n == Len(parts)
           whole == Form(parts)
<1>1. /\ seqs \in Seq(Cells) /\ Len(seqs) = n
      /\ \A i \in 1..n : seqs[i] = PartCells(parts[i])
    <2>1. \A i \in 1..n : PartCells(parts[i]) \in Cells
        BY PartCellsAre
    <2> QED
        BY <2>1, SeqDef
<1> HIDE DEF seqs
<1>2. PICK off : flat \in Cells /\ Laid(seqs, flat, off)
    BY <1>1, FlattenIs DEF Cells
<1> HIDE DEF flat
<1>3. /\ last \in Cells /\ Len(last) = 4 /\ flat \in Cells
      /\ last[1] = Dashes /\ last[2] = "B" /\ last[3] = Dashes /\ last[4] = CRLF
    <2> DEFINE d == Delim
               e == <<Dashes, CRLF>>
    <2>1. /\ d \in Cells /\ Len(d) = 2 /\ d[1] = Dashes /\ d[2] = "B"
          /\ e \in Cells /\ Len(e) = 2 /\ e[1] = Dashes /\ e[2] = CRLF /\ last = d \o e
        BY Literals, DelimIs DEF Cells
    <2> HIDE DEF d, e, last
    <2>2. /\ last \in Cells /\ Len(last) = Len(d) + Len(e)
          /\ \A i \in 1..Len(d) : last[i] = d[i]
          /\ \A i \in Len(d) + 1..Len(d) + Len(e) : last[i] = e[i - Len(d)]
        BY <2>1, Behind
    <2>3. 1 \in 1..2 /\ 2 \in 1..2 /\ 3 \in 3..4 /\ 4 \in 3..4 /\ 3 - 2 = 1 /\ 4 - 2 = 2
        OBVIOUS
    <2> QED
        BY <1>2, <2>1, <2>2, <2>3
<1>4. whole = flat \o last
    <2>1. whole = (flat \o Delim) \o <<Dashes, CRLF>>
        BY DEF Form, flat, seqs
    <2>2. Delim \in Cells /\ <<Dashes, CRLF>> \in Cells
        BY Literals, DelimIs DEF Cells
    <2>3. (flat \o Delim) \o <<Dashes, CRLF>> = flat \o (Delim \o <<Dashes, CRLF>>)
        BY <1>3, <2>2, ConcatAssociative DEF Cells
    <2> QED
        BY <2>1, <2>3
<1> HIDE DEF whole, last, n
<1>5. /\ Len(flat) = off[n] /\ off[n] \in Nat /\ off \in [0..n -> Nat] /\ off[0] = 0
      /\ \A i \in 1..n : /\ off[i] = off[i - 1] + Len(seqs[i]) /\ off[i] <= off[n]
                         /\ \A j \in 1..Len(seqs[i]) : flat[off[i - 1] + j] = seqs[i][j]
    BY <1>1, <1>2 DEF Laid, n
<1>6. /\ whole \in Cells /\ Len(whole) = off[n] + 4
      /\ \A i \in 1..off[n] : whole[i] = flat[i]
      /\ \A i \in 1..4 : whole[off[n] + i] = last[i]
    <2> DEFINE c == flat \o last
    <2>1. /\ c \in Cells /\ Len(c) = Len(flat) + Len(last)
          /\ \A i \in 1..Len(flat) : c[i] = flat[i]
          /\ \A i \in 1..Len(last) : c[Len(flat) + i] = last[i]
        BY <1>3, Joined
    <2>2. whole = c
        BY <1>4
    <2> HIDE DEF c
    <2> QED
        BY <1>3, <1>5, <2>1, <2>2
<1>7. ASSUME NEW i \in 1..n
      PROVE  off[i] = off[i - 1] + Len(parts[i].data) + 11 /\ PartAt(parts[i], whole, off[i - 1])
    <2> DEFINE p == parts[i]
               o == off[i - 1]
               c == PartCells(p)
               L == Len(p.data)
    <2>1. IsPart(p) /\ L \in Nat /\ o \in Nat /\ off[i] \in Nat
        <3>1. i \in Nat /\ i \in 0..n /\ i - 1 \in 0..n /\ n \in Nat
            BY DEF n
        <3>2. IsPart(p)
            BY DEF n
        <3> QED
            <4>1. L \in Nat
                <5>1. p.data \in Cells
                    BY <3>2 DEF IsPart
                <5> QED
                    BY <5>1 DEF Cells
            <4>2. o \in Nat /\ off[i] \in Nat
                BY <1>5, <3>1
            <4> QED
                BY <3>2, <4>1, <4>2
    <2>2. c \in Cells /\ Len(c) = L + 11 /\ PartAt(p, c, 0)
        BY <2>1, PartCellsAre
    <2>3. off[i] = o + (L + 11) /\ off[i] <= off[n] /\ \A j \in 1..L + 11 : flat[o + j] = c[j]
        BY <1>1, <1>5, <2>2
    <2> HIDE DEF p, o, c, L
    <2>4. ASSUME NEW j \in 1..L + 11 PROVE whole[o + j] = c[j]
        <3>1. o + j \in 1..off[n]
            BY <1>5, <2>1, <2>3
        <3> QED
            BY <1>6, <2>3, <3>1
    <2>5. \A j \in 1..10 : j \in 1..L + 11 /\ 0 + j = j
        BY <2>1
    <2>6. 0 + 11 + L \in 1..L + 11 /\ o + (0 + 11 + L) = o + 11 + L
        BY <2>1
    <2>7. ASSUME NEW j \in 1..L PROVE whole[o + 10 + j] = p.data[j]
        <3>1. 0 + 10 + j \in 1..L + 11 /\ o + (0 + 10 + j) = o + 10 + j
            BY <2>1
        <3> QED
            BY <2>2, <2>4, <3>1 DEF PartAt, L
    <2>8. \A j \in 1..10 : whole[o + j] = c[0 + j]
        BY <2>4, <2>5
    <2>9. whole[o + 11 + L] = CRLF
        BY <2>2, <2>4, <2>6 DEF PartAt, L
    <2>10. PartAt(p, whole, o)
        <3>1. \A j \in 1..10 : c[0 + j] = c[j] /\ whole[o + j] = c[j]
            BY <2>5, <2>8
        <3>2. /\ 1 \in 1..10 /\ 2 \in 1..10 /\ 3 \in 1..10 /\ 4 \in 1..10 /\ 5 \in 1..10
              /\ 6 \in 1..10 /\ 7 \in 1..10 /\ 8 \in 1..10 /\ 9 \in 1..10 /\ 10 \in 1..10
            OBVIOUS
        <3>3. /\ c[0 + 1] = Dashes /\ c[0 + 2] = "B" /\ c[0 + 3] = CRLF /\ c[0 + 4] = DISPOSITION
              /\ c[0 + 5] = p.field /\ c[0 + 6] = p.filename /\ c[0 + 7] = CRLF
              /\ c[0 + 8] = "content-type" /\ c[0 + 9] = CRLF /\ c[0 + 10] = CRLF
            BY <2>2 DEF PartAt
        <3>4. /\ whole[o + 1] = Dashes /\ whole[o + 2] = "B" /\ whole[o + 3] = CRLF
              /\ whole[o + 4] = DISPOSITION /\ whole[o + 5] = p.field /\ whole[o + 6] = p.filename
              /\ whole[o + 7] = CRLF /\ whole[o + 8] = "content-type" /\ whole[o + 9] = CRLF
              /\ whole[o + 10] = CRLF
            BY <3>1, <3>2, <3>3
        <3> QED
            BY <2>7, <2>9, <3>4 DEF PartAt, L
    <2>11. off[i] = o + L + 11
        BY <2>1, <2>3
    <2> QED
        BY <2>10, <2>11 DEF p, o, L
<1> QED
    <2>1. /\ 1 \in 1..4 /\ 2 \in 1..4 /\ 3 \in 1..4 /\ 4 \in 1..4
        OBVIOUS
    <2>2. /\ whole[off[n] + 1] = Dashes /\ whole[off[n] + 2] = "B"
          /\ whole[off[n] + 3] = Dashes /\ whole[off[n] + 4] = CRLF
        BY <1>3, <1>6, <2>1
    <2> QED
        BY <1>5, <1>6, <1>7, <2>2 DEF FormLaid, n, whole

-----------------------------------------------------------------------------
\* How many files the first parts of a form have.
FilesLaid(parts, count) ==
    /\ count \in [0..Len(parts) -> Nat] /\ count[0] = 0
    /\ \A i \in 1..Len(parts) :
          /\ count[i] = count[i - 1] + (IF HasFile(parts[i]) THEN 1 ELSE 0)
          /\ count[i] <= count[Len(parts)]
          /\ HasFile(parts[i]) => FileParts(parts)[count[i]] = parts[i]
    /\ Len(FileParts(parts)) = count[Len(parts)]

LEMMA FilePartsAre ==
    ASSUME NEW parts, Len(parts) \in Nat, DOMAIN parts = 1..Len(parts)
    PROVE  \E count : FilesLaid(parts, count)
<1> DEFINE one(i) == IF HasFile(parts[i]) THEN <<parts[i]>> ELSE <<>>
           seqs == [i \in DOMAIN parts |-> one(i)]
           S == {parts[i] : i \in DOMAIN parts}
           n == Len(parts)
<1>1. ASSUME NEW i \in 1..n
      PROVE  /\ one(i) \in Seq(S) /\ Len(one(i)) = IF HasFile(parts[i]) THEN 1 ELSE 0
             /\ HasFile(parts[i]) => one(i)[1] = parts[i]
    <2>1. parts[i] \in S
        OBVIOUS
    <2> HIDE DEF S
    <2>2. CASE HasFile(parts[i])
        BY <2>1, <2>2
    <2>3. CASE ~HasFile(parts[i])
        BY <2>3
    <2> QED
        BY <2>2, <2>3
<1> HIDE DEF one, S
<1>2. seqs \in Seq(Seq(S)) /\ Len(seqs) = n /\ \A i \in 1..n : seqs[i] = one(i)
    BY <1>1, SeqDef
<1>3. FileParts(parts) = FlattenSeq(seqs)
    BY DEF FileParts, one
<1> HIDE DEF seqs
<1>4. PICK off : Laid(seqs, FlattenSeq(seqs), off)
    BY <1>2, FlattenIs
<1>5. ASSUME NEW i \in 1..n, HasFile(parts[i])
      PROVE  FileParts(parts)[off[i]] = parts[i]
    <2>1. Len(seqs[i]) = 1 /\ seqs[i][1] = parts[i]
        BY <1>1, <1>2, <1>5
    <2>2. off[i] = off[i - 1] + 1 /\ \A j \in 1..Len(seqs[i]) : FlattenSeq(seqs)[off[i - 1] + j] = seqs[i][j]
        BY <1>2, <1>4, <2>1 DEF Laid
    <2>3. 1 \in 1..Len(seqs[i])
        BY <2>1
    <2> QED
        BY <1>3, <2>1, <2>2, <2>3
<1>6. FilesLaid(parts, off)
    <2>1. /\ off \in [0..n -> Nat] /\ off[0] = 0 /\ Len(FileParts(parts)) = off[n]
          /\ \A i \in 1..n : off[i] = off[i - 1] + Len(seqs[i]) /\ off[i] <= off[n]
        BY <1>2, <1>3, <1>4 DEF Laid
    <2>2. \A i \in 1..n : Len(seqs[i]) = IF HasFile(parts[i]) THEN 1 ELSE 0
        BY <1>1, <1>2
    <2>3. \A i \in 1..n : off[i] = off[i - 1] + (IF HasFile(parts[i]) THEN 1 ELSE 0)
        BY <2>1, <2>2
    <2> QED
        BY <1>5, <2>1, <2>3 DEF FilesLaid
<1> QED
    BY <1>6

\* find_subslice finds the first place.
LEMMA FindIs ==
    ASSUME NEW cells \in Cells, NEW needle \in Cells, Len(needle) >= 1
    PROVE  LET Occurs(i) == /\ i \in 1..Len(cells) - Len(needle) + 1
                            /\ SubSeq(cells, i, i + Len(needle) - 1) = needle
               at == FindIn(cells, needle)
           IN  \/ at = 0 /\ \A i \in Nat : ~Occurs(i)
               \/ at # 0 /\ at \in Nat /\ Occurs(at) /\ \A i \in Nat : i < at => ~Occurs(i)
<1> DEFINE Occurs(i) == /\ i \in 1..Len(cells) - Len(needle) + 1
                        /\ SubSeq(cells, i, i + Len(needle) - 1) = needle
           all == {i \in 1..Len(cells) - Len(needle) + 1 : SubSeq(cells, i, i + Len(needle) - 1) = needle}
           at == FindIn(cells, needle)
<1>1. Len(cells) \in Nat /\ Len(needle) \in Nat
    BY DEF Cells
<1>2. at = IF all = {} THEN 0 ELSE CHOOSE i \in all : \A j \in all : i <= j
    BY DEF FindIn
<1>3. all \in SUBSET Nat /\ 0 \notin all /\ \A i : i \in all <=> Occurs(i)
    BY <1>1
<1> HIDE DEF all, Occurs, at
<1>4. CASE all = {}
    BY <1>2, <1>3, <1>4 DEF at, Occurs
<1>5. CASE all # {}
    <2>1. \E i \in all : \A j \in all : i <= j
        BY <1>3, <1>5, SetMinimum
    <2>2. at \in all /\ \A j \in all : at <= j
        BY <1>2, <1>5, <2>1
    <2>3. at # 0 /\ at \in Nat /\ Occurs(at) /\ \A i \in Nat : i < at => ~Occurs(i)
        BY <1>3, <2>2
    <2> QED
        BY <2>3 DEF at, Occurs
<1> QED
    BY <1>4, <1>5

LEMMA PieceIs ==
    ASSUME NEW cells \in Cells, NEW a \in 1..Len(cells) + 1, NEW b \in 0..Len(cells), a <= b + 1
    PROVE  /\ SubSeq(cells, a, b) \in Cells /\ Len(SubSeq(cells, a, b)) = b - a + 1
           /\ \A i \in 1..b - a + 1 : SubSeq(cells, a, b)[i] = cells[a + i - 1]
<1>1. Len(cells) \in Nat /\ a \in Int /\ b \in Int /\ \A i \in a..b : cells[i] \in AnyCell
    BY DEF Cells
<1>2. /\ SubSeq(cells, a, b) \in Seq(AnyCell)
      /\ Len(SubSeq(cells, a, b)) = IF a <= b THEN b - a + 1 ELSE 0
      /\ \A i \in 1..b - a + 1 : SubSeq(cells, a, b)[i] = cells[a + i - 1]
    BY <1>1, SubSeqProperties
<1>3. (IF a <= b THEN b - a + 1 ELSE 0) = b - a + 1
    BY <1>1
<1> QED
    BY <1>2, <1>3 DEF Cells

LEMMA OneCell ==
    ASSUME NEW cells \in Cells, NEW i \in 1..Len(cells), NEW c \in AnyCell
    PROVE  SubSeq(cells, i, i + Len(<<c>>) - 1) = <<c>> <=> cells[i] = c
<1> DEFINE s == SubSeq(cells, i, i + Len(<<c>>) - 1)
           t == <<c>>
<1>1. Len(cells) \in Nat /\ i \in Nat
    BY DEF Cells
<1>2. t \in Cells /\ Len(t) = 1 /\ t[1] = c
    BY DEF Cells
<1>3. s = SubSeq(cells, i, i)
    BY <1>1
<1> HIDE DEF s, t
<1>4. s \in Cells /\ Len(s) = i - i + 1 /\ \A k \in 1..i - i + 1 : s[k] = cells[i + k - 1]
    <2>1. i \in 1..Len(cells) + 1 /\ i \in 0..Len(cells) /\ i <= i + 1
        BY <1>1
    <2>2. /\ SubSeq(cells, i, i) \in Cells /\ Len(SubSeq(cells, i, i)) = i - i + 1
          /\ \A k \in 1..i - i + 1 : SubSeq(cells, i, i)[k] = cells[i + k - 1]
        BY <2>1, PieceIs
    <2> QED
        BY <1>3, <2>2
<1>5. s \in Cells /\ Len(s) = 1 /\ s[1] = cells[i]
    <2>1. i - i + 1 = 1 /\ 1 \in 1..1 /\ i + 1 - 1 = i
        BY <1>1
    <2> QED
        BY <1>4, <2>1
<1>6. s[1] = t[1] => s = t
    <2>1. ASSUME s[1] = t[1] PROVE s = t
        BY <1>2, <1>5, <2>1, SeqEqual DEF Cells
    <2> QED
        BY <2>1
<1> QED
    BY <1>2, <1>5, <1>6 DEF s, t

LEMMA NeedleCells ==
    /\ Needle \in Cells /\ Len(Needle) = 3
    /\ Needle[1] = CRLF /\ Needle[2] = Dashes /\ Needle[3] = "B"
<1> DEFINE d == <<CRLF>>
           e == Delim
<1>1. d \in Cells /\ Len(d) = 1 /\ d[1] = CRLF
    BY Literals DEF Cells
<1>2. e \in Cells /\ Len(e) = 2 /\ e[1] = Dashes /\ e[2] = "B" /\ Needle = d \o e
    BY DelimIs DEF Needle
<1> HIDE DEF d, e
<1>3. /\ Needle \in Cells /\ Len(Needle) = Len(d) + Len(e)
      /\ \A i \in 1..Len(d) : Needle[i] = d[i]
      /\ \A i \in Len(d) + 1..Len(d) + Len(e) : Needle[i] = e[i - Len(d)]
    BY <1>1, <1>2, Behind
<1>4. 1 \in 1..1 /\ 2 \in 2..3 /\ 3 \in 2..3 /\ 2 - 1 = 1 /\ 3 - 1 = 2
    OBVIOUS
<1> QED
    BY <1>1, <1>2, <1>3, <1>4

LEMMA NeedleIs ==
    ASSUME NEW cells \in Cells, NEW i \in 1..Len(cells) - 2
    PROVE  SubSeq(cells, i, i + 2) = Needle <=>
              cells[i] = CRLF /\ cells[i + 1] = Dashes /\ cells[i + 2] = "B"
<1> DEFINE s == SubSeq(cells, i, i + 2)
<1>1. Len(cells) \in Nat /\ i \in Nat
    BY DEF Cells
<1>2. i \in 1..Len(cells) + 1 /\ i + 2 \in 0..Len(cells) /\ i <= i + 2 + 1 /\ i + 2 - i + 1 = 3
    BY <1>1
<1>3. s \in Cells /\ Len(s) = 3 /\ \A k \in 1..3 : s[k] = cells[i + k - 1]
    BY <1>2, PieceIs
<1>4. s[1] = cells[i] /\ s[2] = cells[i + 1] /\ s[3] = cells[i + 2]
    <2>1. 1 \in 1..3 /\ 2 \in 1..3 /\ 3 \in 1..3 /\ i + 1 - 1 = i /\ i + 2 - 1 = i + 1 /\ i + 3 - 1 = i + 2
        BY <1>1
    <2> QED
        BY <1>3, <2>1
<1> HIDE DEF s
<1>5. ASSUME s[1] = CRLF, s[2] = Dashes, s[3] = "B" PROVE s = Needle
    <2>1. \A k \in 1..3 : k = 1 \/ k = 2 \/ k = 3
        OBVIOUS
    <2>2. \A k \in 1..3 : s[k] = Needle[k]
        BY <1>5, <2>1, NeedleCells
    <2> QED
        BY <1>3, <2>2, NeedleCells, SeqEqual DEF Cells
<1> QED
    BY <1>3, <1>4, <1>5, NeedleCells DEF s

-----------------------------------------------------------------------------
(* Where the reader is in the form.                                        *)

\* What was read and what is on its way goes on with the form behind pos, up to
\* its end or to where the browser went away.
ReadFrom(cells, pos) ==
    /\ buf \in Cells /\ wire \in Cells
    /\ pos + Len(buf) + Len(wire) <= Len(cells)
    /\ gone = "no" => pos + Len(buf) + Len(wire) = Len(cells)
    /\ gone # "no" => wire = <<>>
    /\ \A j \in 1..Len(buf) : buf[j] = cells[pos + j]
    /\ \A j \in 1..Len(wire) : wire[j] = cells[pos + Len(buf) + j]

Shown(p) == [field |-> p.field, filename |-> p.filename]

\* i parts are done: the reader is at a delimiter, at a line of the next part's
\* headers, or in its data; or the form has been cut off behind a part.
Stage(parts, off, i, pos) ==
    \/ reader = "first" /\ i = 0 /\ pos = 0
    \/ reader = "boundary" /\ pos = off[i]
    \/ /\ reader = "headers" /\ i < Len(parts)
       /\ \/ pos = off[i] + 3 /\ part = NoPart
          \/ pos \in {off[i] + 7, off[i] + 9} /\ part = Shown(parts[i + 1])
    \/ reader = "headers" /\ gone # "no" /\ LineEnd = 0
    \/ /\ reader = "body" /\ i < Len(parts) /\ part = Shown(parts[i + 1])
       /\ Len(out) <= Len(parts[i + 1].data) /\ pos = off[i] + 10 + Len(out)
       /\ \A j \in 1..Len(out) : out[j] = parts[i + 1].data[j]

\* The fields of the first i parts have been kept.
KeptField(parts, i, name) ==
    /\ \A j \in 1..i : parts[j].field = name => fields[name] = parts[j].data
    /\ (\A j \in 1..i : parts[j].field # name) => fields[name] = <<>>

AllFields == [device_id : Cells, device_label : Cells]
SavedFile == [name : STRING, data : Cells, by : AllFields]

WholeUpTo(m) == \A k \in 1..m : files[k].data = FileParts(request.parts)[k].data

Reading(parts, off, count, i, pos) ==
    /\ parts = request.parts
    /\ FormLaid(parts, Form(parts), off) /\ FilesLaid(parts, count)
    /\ i \in 0..Len(parts) /\ pos \in Nat
    /\ ReadFrom(Form(parts), pos) /\ Stage(parts, off, i, pos)
    /\ out \in Cells /\ (reader # "body" => out = <<>>)
    /\ KeptField(parts, i, "device_id") /\ KeptField(parts, i, "device_label")
    /\ Len(files) = count[i] /\ WholeUpTo(Len(files))

Start ==
    /\ files = <<>> /\ answer = 0 /\ out = <<>> /\ part = NoPart
    /\ fields = [device_id |-> <<>>, device_label |-> <<>>]
    /\ \/ wire = <<>>
       \/ /\ gone = "no"
          /\ wire = <<"HEAD">> \o (IF request.path = "upload" THEN Form(request.parts) ELSE <<>>)

Over ==
    /\ WholeUpTo(Len(files) - 1)
    /\ gone = "no" => WholeUpTo(Len(files))
    /\ (reader = "finished" \/ answer = 200) /\ request.path = "upload" /\ gone = "no"
          => Len(files) = Len(FileParts(request.parts))

FilesNamed ==
    \A k \in 1..Len(files) :
        /\ files[k].name = Sanitized(FileParts(request.parts)[k].filename)
        /\ files[k].by = [device_id |-> SentFields("device_id"),
                          device_label |-> SentFields("device_label")]

PostInv ==
    /\ request \in Requests /\ files \in Seq(SavedFile) /\ fields \in AllFields
    /\ FilesNamed
    /\ \/ reader = "head" /\ Start
       \/ /\ reader \in {"first", "headers", "body", "boundary"}
          /\ request.path = "upload" /\ answer = 0
          /\ \E parts, off, count, i, pos : Reading(parts, off, count, i, pos)
       \/ reader \in {"finished", "closed"} /\ Over

\* What RequestsAssumption says of a request for an upload.
LEMMA UploadIs ==
    ASSUME request \in Requests, request.path = "upload"
    PROVE  LET parts == request.parts IN
           /\ Len(parts) \in Nat /\ DOMAIN parts = 1..Len(parts)
           /\ \A i \in 1..Len(parts) :
                 /\ IsPart(parts[i]) /\ parts[i].field # CRLF /\ parts[i].filename # CRLF
                 /\ \A j \in 1..Len(parts[i].data) - 2 : SubSeq(parts[i].data, j, j + 2) # Needle
                 /\ HasFile(parts[i]) => Leaf[parts[i].filename] \in STRING
                 /\ parts[i].field \in DeviceFields =>
                       /\ ~HasFile(parts[i])
                       /\ \A j \in 1..i - 1 : parts[j].field # parts[i].field /\ ~HasFile(parts[j])
<1> DEFINE parts == request.parts
<1>1. /\ parts \in Seq(FormPart)
      /\ \A i \in DOMAIN parts :
            /\ parts[i].field # CRLF /\ parts[i].filename # CRLF
            /\ \A j \in 1..Len(parts[i].data) - 2 : SubSeq(parts[i].data, j, j + 2) # Needle
            /\ HasFile(parts[i]) => parts[i].filename \in DOMAIN Leaf
            /\ parts[i].field \in DeviceFields =>
                  /\ ~HasFile(parts[i])
                  /\ \A j \in 1..i - 1 : parts[j].field # parts[i].field /\ ~HasFile(parts[j])
    BY RequestsAssumption
<1>2. \A f \in DOMAIN Leaf : Leaf[f] \in STRING
    BY RequestsAssumption
<1> HIDE DEF parts
<1>3. Len(parts) \in Nat /\ DOMAIN parts = 1..Len(parts)
    BY <1>1, LenProperties
<1>4. ASSUME NEW i \in 1..Len(parts) PROVE IsPart(parts[i])
    <2>1. parts[i] \in FormPart
        BY <1>1
    <2>2. parts[i].field \in STRING /\ parts[i].filename \in STRING /\ parts[i].data \in Seq(STRING)
        BY <2>1 DEF FormPart
    <2>3. \A s \in Seq(STRING) : s \in Cells
        BY Wider, Literals
    <2> QED
        BY <2>2, <2>3 DEF IsPart
<1> QED
    BY <1>1, <1>2, <1>3, <1>4 DEF parts

\* At the place behind i parts there is a delimiter, of the next part or the last.
LEMMA DelimiterAt ==
    ASSUME NEW parts, Len(parts) \in Nat, \A i \in 1..Len(parts) : IsPart(parts[i]),
           NEW cells, NEW off, FormLaid(parts, cells, off), NEW i \in 0..Len(parts)
    PROVE  /\ off[i] \in Nat /\ off[i] + 4 <= Len(cells) /\ Len(cells) \in Nat
           /\ cells[off[i] + 1] = Dashes /\ cells[off[i] + 2] = "B"
           /\ i = Len(parts) => cells[off[i] + 3] = Dashes /\ cells[off[i] + 4] = CRLF
           /\ i < Len(parts) => /\ i + 1 \in 1..Len(parts) /\ PartAt(parts[i + 1], cells, off[i])
                                /\ off[i + 1] = off[i] + Len(parts[i + 1].data) + 11
                                /\ off[i + 1] + 4 <= Len(cells)
<1> DEFINE n == Len(parts)
<1>1. off[i] \in Nat /\ off[n] \in Nat /\ cells \in Cells /\ Len(cells) = off[n] + 4
    BY DEF FormLaid
<1>2. Len(cells) \in Nat
    BY <1>1
<1>3. CASE i = n
    BY <1>1, <1>2, <1>3 DEF FormLaid
<1>4. CASE i < n
    <2>1. i + 1 \in 1..n /\ i + 1 - 1 = i
        BY <1>4
    <2>2. /\ off[i + 1] = off[i] + Len(parts[i + 1].data) + 11 /\ off[i + 1] <= off[n]
          /\ PartAt(parts[i + 1], cells, off[i])
        BY <2>1 DEF FormLaid
    <2>3. Len(parts[i + 1].data) \in Nat
        BY <2>1 DEF IsPart, Cells
    <2>4. off[i] + 4 <= Len(cells) /\ off[i + 1] + 4 <= Len(cells)
        <3> DEFINE L == Len(parts[i + 1].data)
        <3>1. L \in Nat /\ off[i + 1] = off[i] + L + 11 /\ off[i + 1] <= off[n]
            BY <2>2, <2>3
        <3> HIDE DEF L, n
        <3> QED
            BY <1>1, <3>1
    <2> QED
        BY <1>1, <1>2, <1>4, <2>1, <2>2, <2>4 DEF PartAt
<1> QED
    BY <1>3, <1>4

LEMMA PartBehind ==
    ASSUME NEW parts, Len(parts) \in Nat, \A i \in 1..Len(parts) : IsPart(parts[i]),
           NEW cells, NEW off, FormLaid(parts, cells, off), NEW i \in 0..Len(parts), i < Len(parts)
    PROVE  /\ off[i] \in Nat /\ i + 1 \in 1..Len(parts) /\ PartAt(parts[i + 1], cells, off[i])
           /\ off[i + 1] = off[i] + Len(parts[i + 1].data) + 11 /\ off[i + 1] + 4 <= Len(cells)
<1>1. i < Len(parts) => /\ i + 1 \in 1..Len(parts) /\ PartAt(parts[i + 1], cells, off[i])
                        /\ off[i + 1] = off[i] + Len(parts[i + 1].data) + 11
                        /\ off[i + 1] + 4 <= Len(cells)
    BY DelimiterAt, Zenon
<1>2. off[i] \in Nat
    BY DelimiterAt
<1> QED
    BY <1>1, <1>2

-----------------------------------------------------------------------------
(* Reading on.                                                             *)

LEMMA SkipIs ==
    ASSUME NEW cells \in Cells, NEW n \in 0..Len(cells)
    PROVE  /\ Skip(cells, n) \in Cells /\ Len(Skip(cells, n)) = Len(cells) - n
           /\ \A i \in 1..Len(cells) - n : Skip(cells, n)[i] = cells[n + i]
<1>1. Len(cells) \in Nat /\ n \in Nat
    BY DEF Cells
<1>2. /\ n + 1 \in 1..Len(cells) + 1 /\ Len(cells) \in 0..Len(cells) /\ n + 1 <= Len(cells) + 1
      /\ Len(cells) - (n + 1) + 1 = Len(cells) - n
    BY <1>1
<1>3. /\ Skip(cells, n) \in Cells /\ Len(Skip(cells, n)) = Len(cells) - n
      /\ \A i \in 1..Len(cells) - n : Skip(cells, n)[i] = cells[n + 1 + i - 1]
    BY <1>2, PieceIs DEF Skip
<1>4. \A i \in 1..Len(cells) - n : n + 1 + i - 1 = n + i
    BY <1>1
<1> QED
    BY <1>3, <1>4

LEMMA Advance ==
    ASSUME NEW cells, Len(cells) \in Nat, NEW pos \in Nat, ReadFrom(cells, pos),
           NEW n \in 0..Len(buf), buf' = Skip(buf, n), UNCHANGED <<wire, gone>>
    PROVE  ReadFrom(cells, pos + n)' /\ pos + n \in Nat
<1>1. /\ buf \in Cells /\ wire \in Cells /\ Len(buf) \in Nat /\ Len(wire) \in Nat /\ n \in Nat
      /\ pos + Len(buf) + Len(wire) <= Len(cells)
      /\ gone = "no" => pos + Len(buf) + Len(wire) = Len(cells)
      /\ gone # "no" => wire = <<>>
      /\ \A j \in 1..Len(buf) : buf[j] = cells[pos + j]
      /\ \A j \in 1..Len(wire) : wire[j] = cells[pos + Len(buf) + j]
    BY DEF ReadFrom, Cells
<1>2. /\ buf' \in Cells /\ Len(buf') = Len(buf) - n
      /\ \A j \in 1..Len(buf) - n : buf'[j] = buf[n + j]
    BY <1>1, SkipIs
<1>3. pos + n + Len(buf') = pos + Len(buf) /\ wire' = wire /\ gone' = gone
    BY <1>1, <1>2
<1>4. ASSUME NEW j \in 1..Len(buf') PROVE buf'[j] = cells[pos + n + j]
    <2>1. n + j \in 1..Len(buf) /\ j \in 1..Len(buf) - n /\ pos + (n + j) = pos + n + j
        BY <1>1, <1>2
    <2> QED
        BY <1>1, <1>2, <2>1
<1>5. \A j \in 1..Len(wire) : wire[j] = cells[pos + n + Len(buf') + j]
    BY <1>1, <1>3
<1>6. /\ pos + n + Len(buf') + Len(wire) <= Len(cells)
      /\ gone = "no" => pos + n + Len(buf') + Len(wire) = Len(cells)
    BY <1>1, <1>3
<1>7. pos + n \in Nat
    BY <1>1
<1> QED
    BY <1>1, <1>2, <1>3, <1>4, <1>5, <1>6, <1>7 DEF ReadFrom

\* The first line end that is to come is the end of the line, once it is there.
LEMMA LineIs ==
    ASSUME NEW cells, Len(cells) \in Nat, NEW pos \in Nat, ReadFrom(cells, pos),
           NEW e \in Nat \ {0}, pos + e <= Len(cells), cells[pos + e] = CRLF,
           \A j \in 1..e - 1 : cells[pos + j] # CRLF
    PROVE  /\ LineEnd = 0 => gone # "no" \/ wire # <<>>
           /\ LineEnd # 0 => /\ LineEnd = e /\ e \in 1..Len(buf)
                             /\ Len(Line) = e - 1 /\ Line \in Cells
                             /\ \A j \in 1..e - 1 : Line[j] = cells[pos + j]
<1> DEFINE mark == <<CRLF>>
           Occurs(i) == /\ i \in 1..Len(buf) - Len(mark) + 1
                        /\ SubSeq(buf, i, i + Len(mark) - 1) = mark
<1>1. /\ buf \in Cells /\ wire \in Cells /\ Len(buf) \in Nat /\ Len(wire) \in Nat
      /\ gone = "no" => pos + Len(buf) + Len(wire) = Len(cells)
      /\ \A j \in 1..Len(buf) : buf[j] = cells[pos + j]
    BY DEF ReadFrom, Cells
<1>2. mark \in Cells /\ Len(mark) = 1 /\ CRLF \in AnyCell
    BY Literals DEF Cells
<1>3. \/ LineEnd = 0 /\ \A i \in Nat : ~Occurs(i)
      \/ LineEnd # 0 /\ LineEnd \in Nat /\ Occurs(LineEnd) /\ \A i \in Nat : i < LineEnd => ~Occurs(i)
    <2>1. Len(mark) >= 1
        BY <1>2
    <2> HIDE DEF mark
    <2> QED
        BY <1>1, <1>2, <2>1, FindIs DEF LineEnd, mark
<1>4. ASSUME NEW i \in Nat PROVE Occurs(i) <=> i \in 1..Len(buf) /\ cells[pos + i] = CRLF
    <2>1. i \in 1..Len(buf) - Len(mark) + 1 <=> i \in 1..Len(buf)
        <3> HIDE DEF mark
        <3> QED
            BY <1>1, <1>2
    <2>2. CASE i \in 1..Len(buf)
        <3>1. SubSeq(buf, i, i + Len(mark) - 1) = mark <=> buf[i] = CRLF
            BY <1>1, <1>2, <2>2, OneCell
        <3>2. buf[i] = cells[pos + i]
            BY <1>1, <2>2
        <3> QED
            BY <2>1, <2>2, <3>1, <3>2
    <2>3. CASE i \notin 1..Len(buf)
        BY <2>1, <2>3
    <2> QED
        BY <2>2, <2>3
<1> HIDE DEF Occurs, mark
<1>5. \A i \in Nat : i < e => ~Occurs(i)
    <2>1. ASSUME NEW i \in Nat, i < e, Occurs(i) PROVE FALSE
        <3>1. i \in 1..e - 1
            BY <1>1, <1>4, <2>1
        <3> QED
            BY <1>4, <2>1, <3>1
    <2> QED
        BY <2>1
<1>6. Occurs(e) <=> e <= Len(buf)
    BY <1>1, <1>4
<1>7. CASE LineEnd = 0
    <2>1. ~(e <= Len(buf))
        BY <1>3, <1>6, <1>7
    <2>2. gone = "no" => Len(wire) # 0
        BY <1>1, <2>1
    <2> QED
        BY <1>7, <2>2
<1>8. CASE LineEnd # 0
    <2>1. LineEnd \in Nat /\ Occurs(LineEnd) /\ \A i \in Nat : i < LineEnd => ~Occurs(i)
        BY <1>3, <1>8
    <2>2. LineEnd \in 1..Len(buf) /\ ~(LineEnd < e)
        BY <1>4, <1>5, <2>1
    <2>3. LineEnd = e /\ e \in 1..Len(buf)
        BY <1>1, <1>6, <2>1, <2>2
    <2>4. /\ 1 \in 1..Len(buf) + 1 /\ LineEnd - 1 \in 0..Len(buf) /\ 1 <= LineEnd - 1 + 1
          /\ LineEnd - 1 - 1 + 1 = e - 1
        BY <1>1, <2>3
    <2>5. /\ Line \in Cells /\ Len(Line) = e - 1
          /\ \A j \in 1..e - 1 : Line[j] = buf[1 + j - 1]
        BY <1>1, <2>4, PieceIs DEF Line
    <2>6. ASSUME NEW j \in 1..e - 1 PROVE Line[j] = cells[pos + j]
        <3>1. j \in 1..Len(buf) /\ 1 + j - 1 = j
            BY <1>1, <2>3
        <3> QED
            BY <1>1, <2>5, <3>1
    <2> QED
        BY <1>8, <2>3, <2>5, <2>6
<1> QED
    BY <1>7, <1>8

\* Behind d cells of its data, the delimiter is found at the end of the data of a
\* part, and nowhere before.
LEMMA DataEnd ==
    ASSUME NEW cells, Len(cells) \in Nat, NEW pos \in Nat, ReadFrom(cells, pos),
           NEW p, IsPart(p), NEW o \in Nat, PartAt(p, cells, o),
           NEW next, next = o + Len(p.data) + 11, next + 4 <= Len(cells),
           cells[next + 1] = Dashes, cells[next + 2] = "B",
           \A j \in 1..Len(p.data) - 2 : SubSeq(p.data, j, j + 2) # Needle,
           NEW d \in 0..Len(p.data), pos = o + 10 + d
    PROVE  LET at == FindIn(buf, Needle) IN
           /\ at = 0 => Len(buf) < Len(p.data) - d + 3 /\ (gone # "no" \/ wire # <<>>)
           /\ at # 0 => at = Len(p.data) - d + 1 /\ at + 2 <= Len(buf)
<1> DEFINE at == FindIn(buf, Needle)
           L == Len(p.data)
           Occurs(i) == /\ i \in 1..Len(buf) - Len(Needle) + 1
                        /\ SubSeq(buf, i, i + Len(Needle) - 1) = Needle
           Three(k) == cells[k] = CRLF /\ cells[k + 1] = Dashes /\ cells[k + 2] = "B"
<1>1. /\ buf \in Cells /\ wire \in Cells /\ Len(buf) \in Nat /\ Len(wire) \in Nat
      /\ gone = "no" => pos + Len(buf) + Len(wire) = Len(cells)
      /\ \A j \in 1..Len(buf) : buf[j] = cells[pos + j]
    BY DEF ReadFrom, Cells
<1>2. L \in Nat /\ d \in Nat /\ d <= L /\ p.data \in Cells
    BY DEF IsPart, Cells
<1>3. Needle \in Cells /\ Len(Needle) = 3
    BY NeedleCells
<1>4. \/ at = 0 /\ \A i \in Nat : ~Occurs(i)
      \/ at # 0 /\ at \in Nat /\ Occurs(at) /\ \A i \in Nat : i < at => ~Occurs(i)
    <2>1. Len(Needle) >= 1
        BY <1>3
    <2> QED
        BY <1>1, <1>3, <2>1, FindIs
<1>5. ASSUME NEW i \in Nat PROVE Occurs(i) <=> i \in 1..Len(buf) - 2 /\ Three(pos + i)
    <2>1. i \in 1..Len(buf) - Len(Needle) + 1 <=> i \in 1..Len(buf) - 2
        BY <1>1, <1>3
    <2>2. i + Len(Needle) - 1 = i + 2
        BY <1>3
    <2>3. CASE i \in 1..Len(buf) - 2
        <3>1. SubSeq(buf, i, i + 2) = Needle <=>
                 buf[i] = CRLF /\ buf[i + 1] = Dashes /\ buf[i + 2] = "B"
            BY <1>1, <2>3, NeedleIs
        <3>2. /\ i \in 1..Len(buf) /\ i + 1 \in 1..Len(buf) /\ i + 2 \in 1..Len(buf)
              /\ pos + (i + 1) = pos + i + 1 /\ pos + (i + 2) = pos + i + 2
            BY <1>1, <2>3
        <3>3. buf[i] = cells[pos + i] /\ buf[i + 1] = cells[pos + i + 1] /\ buf[i + 2] = cells[pos + i + 2]
            BY <1>1, <3>2
        <3> QED
            BY <2>1, <2>2, <2>3, <3>1, <3>3
    <2>4. CASE i \notin 1..Len(buf) - 2
        BY <2>1, <2>4
    <2> QED
        BY <2>3, <2>4
<1> HIDE DEF Occurs, at
<1>6. CRLF # Dashes /\ CRLF # "B"
    BY DEF CRLF, Dashes
<1>7. /\ \A j \in 1..L : cells[o + 10 + j] = p.data[j]
      /\ cells[o + 11 + L] = CRLF
    BY DEF PartAt
<1> HIDE DEF L
<1>8. ASSUME NEW k \in 1..L, Three(o + 10 + k) PROVE FALSE
    <2>1. CASE k \in 1..L - 2
        <3>1. /\ k + 1 \in 1..L /\ k + 2 \in 1..L /\ k \in 1..L
              /\ o + 10 + (k + 1) = o + 10 + k + 1 /\ o + 10 + (k + 2) = o + 10 + k + 2
            BY <1>2, <2>1
        <3>2. p.data[k] = CRLF /\ p.data[k + 1] = Dashes /\ p.data[k + 2] = "B"
            BY <1>7, <1>8, <3>1
        <3>3. SubSeq(p.data, k, k + 2) = Needle
            BY <1>2, <2>1, <3>2, NeedleIs DEF L
        <3> QED
            BY <2>1, <3>3 DEF L
    <2>2. CASE k = L - 1
        <3>1. o + 10 + k + 2 = o + 11 + L
            BY <1>2, <2>2
        <3> QED
            BY <1>6, <1>7, <1>8, <3>1
    <2>3. CASE k = L
        <3>1. o + 10 + k + 1 = o + 11 + L
            BY <1>2, <2>3
        <3> QED
            BY <1>6, <1>7, <1>8, <3>1
    <2> QED
        BY <1>2, <2>1, <2>2, <2>3
<1>9. \A i \in Nat : i < L - d + 1 => ~Occurs(i)
    <2>1. ASSUME NEW i \in Nat, i < L - d + 1, Occurs(i) PROVE FALSE
        <3>1. i \in 1..Len(buf) - 2 /\ Three(pos + i)
            BY <1>5, <2>1
        <3>2. d + i \in 1..L /\ pos + i = o + 10 + (d + i)
            BY <1>1, <1>2, <2>1, <3>1
        <3> QED
            BY <1>8, <3>1, <3>2
    <2> QED
        BY <2>1
<1>10. L - d + 1 \in Nat /\ Three(pos + (L - d + 1))
    <2>1. /\ pos + (L - d + 1) = o + 11 + L /\ pos + (L - d + 1) + 1 = next + 1
          /\ pos + (L - d + 1) + 2 = next + 2 /\ L - d + 1 \in Nat
        <3>1. next = o + L + 11
            BY DEF L
        <3>2. pos + (L - d + 1) = o + 11 + L /\ L - d + 1 \in Nat
            BY <1>2
        <3>3. o + 11 + L + 1 = o + L + 11 + 1 /\ o + 11 + L + 2 = o + L + 11 + 2
            BY <1>2
        <3> QED
            BY <3>1, <3>2, <3>3
    <2> QED
        BY <1>7, <2>1
<1>11. Occurs(L - d + 1) <=> L - d + 1 <= Len(buf) - 2
    <2>1. Occurs(L - d + 1) <=> L - d + 1 \in 1..Len(buf) - 2
        BY <1>5, <1>10
    <2> QED
        BY <1>1, <1>2, <2>1
<1>12. CASE at = 0
    <2>1. ~(L - d + 1 <= Len(buf) - 2)
        BY <1>4, <1>10, <1>11, <1>12
    <2>2. Len(buf) < L - d + 3
        BY <1>1, <1>2, <2>1
    <2>3. gone = "no" => Len(wire) # 0
        BY <1>1, <1>2, <2>2 DEF L
    <2> QED
        BY <1>12, <2>2, <2>3 DEF at, L
<1>13. CASE at # 0
    <2>1. at \in Nat /\ Occurs(at) /\ \A i \in Nat : i < at => ~Occurs(i)
        BY <1>4, <1>13
    <2>2. at \in 1..Len(buf) - 2 /\ ~(at < L - d + 1)
        BY <1>5, <1>9, <2>1
    <2>3. L - d + 1 <= Len(buf) - 2
        BY <1>1, <1>2, <2>2
    <2>4. ~(L - d + 1 < at)
        BY <1>10, <1>11, <2>1, <2>3
    <2>5. at = L - d + 1 /\ at + 2 <= Len(buf)
        BY <1>1, <1>2, <2>2, <2>4
    <2> QED
        BY <1>13, <2>5 DEF at, L
<1> QED
    BY <1>12, <1>13

-----------------------------------------------------------------------------
(* What becomes of a part.                                                 *)

\* The fields come before the files: those of a file are all there.
LEMMA FieldsHeard ==
    ASSUME request \in Requests, request.path = "upload", NEW parts, parts = request.parts,
           NEW i \in Nat, i + 1 \in 1..Len(parts), HasFile(parts[i + 1]),
           NEW name \in DeviceFields, KeptField(parts, i, name)
    PROVE  fields[name] = SentFields(name)
<1> DEFINE at == {j \in DOMAIN parts : parts[j].field = name}
           first == CHOOSE j \in at : \A k \in at : j <= k
<1>1. /\ Len(parts) \in Nat /\ DOMAIN parts = 1..Len(parts)
      /\ \A j \in 1..Len(parts) : parts[j].field \in DeviceFields =>
            ~HasFile(parts[j]) /\ \A k \in 1..j - 1 : ~HasFile(parts[k])
    BY UploadIs
<1>2. SentFields(name) = IF at = {} THEN <<>> ELSE parts[first].data
    BY DEF SentFields
<1>3. ASSUME NEW j \in at PROVE j \in 1..i
    <2>1. j \in 1..Len(parts) /\ parts[j].field \in DeviceFields
        BY <1>1
    <2>2. ~HasFile(parts[j]) /\ \A k \in 1..j - 1 : ~HasFile(parts[k])
        BY <1>1, <2>1
    <2>3. i + 1 \notin 1..j - 1 /\ j # i + 1
        BY <2>2
    <2> QED
        BY <1>1, <2>1, <2>3
<1>4. \A j \in at : fields[name] = parts[j].data
    BY <1>3 DEF KeptField
<1>5. CASE at = {}
    <2>1. \A j \in 1..i : parts[j].field # name
        BY <1>1, <1>5
    <2> QED
        BY <1>2, <1>5, <2>1 DEF KeptField
<1>6. CASE at # {}
    <2>1. at \in SUBSET Nat
        BY <1>1
    <2>2. \E j \in at : \A k \in at : j <= k
        BY <1>6, <2>1, SetMinimum
    <2>3. first \in at
        BY <2>2
    <2> QED
        BY <1>2, <1>4, <1>6, <2>3
<1> QED
    BY <1>5, <1>6

\* The next part of a form that is being read.
LEMMA NextPart ==
    ASSUME request \in Requests, request.path = "upload",
           NEW parts, NEW off, NEW count, NEW i, NEW pos, Reading(parts, off, count, i, pos)
    PROVE  /\ parts = request.parts /\ i \in Nat /\ Len(parts) \in Nat /\ DOMAIN parts = 1..Len(parts)
           /\ \A j \in 1..Len(parts) : IsPart(parts[j])
           /\ Len(Form(parts)) \in Nat /\ pos \in Nat
           /\ count[i] \in Nat /\ Len(files) = count[i]
           /\ i < Len(parts) =>
                 /\ i + 1 \in 1..Len(parts) /\ i + 1 \in 0..Len(parts) /\ i + 1 - 1 = i
                 /\ IsPart(parts[i + 1]) /\ count[i + 1] \in Nat
                 /\ HasFile(parts[i + 1]) => /\ count[i + 1] = count[i] + 1
                                             /\ FileParts(parts)[count[i + 1]] = parts[i + 1]
                                             /\ parts[i + 1].field \notin DeviceFields
                                             /\ Leaf[parts[i + 1].filename] \in STRING
                 /\ ~HasFile(parts[i + 1]) => count[i + 1] = count[i]
<1>1. /\ parts = request.parts /\ i \in 0..Len(parts) /\ pos \in Nat /\ FilesLaid(parts, count)
      /\ Len(files) = count[i] /\ FormLaid(parts, Form(parts), off)
    BY DEF Reading
<1>2. /\ Len(parts) \in Nat /\ DOMAIN parts = 1..Len(parts)
      /\ \A j \in 1..Len(parts) : IsPart(parts[j])
      /\ \A j \in 1..Len(parts) : /\ HasFile(parts[j]) => Leaf[parts[j].filename] \in STRING
                                  /\ parts[j].field \in DeviceFields => ~HasFile(parts[j])
    BY <1>1, UploadIs
<1>3. Form(parts) \in Cells
    BY <1>1 DEF FormLaid
<1>4. Len(Form(parts)) \in Nat
    BY <1>3 DEF Cells
<1>5. /\ count \in [0..Len(parts) -> Nat]
      /\ \A j \in 1..Len(parts) :
            /\ count[j] = count[j - 1] + (IF HasFile(parts[j]) THEN 1 ELSE 0)
            /\ HasFile(parts[j]) => FileParts(parts)[count[j]] = parts[j]
    BY <1>1 DEF FilesLaid
<1>6. ASSUME i < Len(parts) PROVE i + 1 \in 1..Len(parts) /\ i + 1 \in 0..Len(parts) /\ i + 1 - 1 = i
    BY <1>1, <1>2, <1>6
<1>7. ASSUME i < Len(parts)
      PROVE  /\ HasFile(parts[i + 1]) => count[i + 1] = count[i] + 1
             /\ ~HasFile(parts[i + 1]) => count[i + 1] = count[i]
    <2>1. i + 1 \in 1..Len(parts) /\ i + 1 - 1 = i /\ i \in Nat /\ count[i] \in Nat
        BY <1>1, <1>2, <1>5, <1>6, <1>7
    <2> DEFINE One(j) == /\ HasFile(parts[j]) => count[j] = count[j - 1] + 1
                         /\ ~HasFile(parts[j]) => count[j] = count[j - 1] + 0
    <2>2. One(i + 1)
        <3>1. \A j \in 1..Len(parts) : One(j)
            BY <1>5
        <3> HIDE DEF One
        <3> QED
            BY <2>1, <3>1
    <2> QED
        BY <2>1, <2>2
<1>8. count[i] \in Nat /\ (i < Len(parts) => count[i + 1] \in Nat)
    BY <1>1, <1>5, <1>6
<1>9. i \in Nat
    BY <1>1, <1>2
<1>10. ASSUME i < Len(parts)
       PROVE  /\ i + 1 \in 1..Len(parts) /\ i + 1 \in 0..Len(parts) /\ i + 1 - 1 = i
              /\ IsPart(parts[i + 1]) /\ count[i + 1] \in Nat
    BY <1>2, <1>6, <1>8, <1>10
<1>11. ASSUME i < Len(parts), HasFile(parts[i + 1])
       PROVE  /\ count[i + 1] = count[i] + 1 /\ FileParts(parts)[count[i + 1]] = parts[i + 1]
              /\ parts[i + 1].field \notin DeviceFields /\ Leaf[parts[i + 1].filename] \in STRING
    BY <1>2, <1>5, <1>7, <1>10, <1>11
<1> QED
    BY <1>1, <1>2, <1>4, <1>7, <1>8, <1>9, <1>10, <1>11

\* A part is done with: its file is announced as its headers name it, or its
\* field kept.
LEMMA PartEnds ==
    ASSUME request \in Requests, request.path = "upload",
           files \in Seq(SavedFile), fields \in AllFields, FilesNamed,
           NEW parts, NEW off, NEW count, NEW i, NEW pos, Reading(parts, off, count, i, pos),
           reader = "body", NEW data \in Cells, NEW next, PartDone(data, next), request' = request
    PROVE  /\ files' \in Seq(SavedFile) /\ fields' \in AllFields /\ FilesNamed'
           /\ Len(files)' = count[i + 1] /\ Len(files)' \in {Len(files), Len(files) + 1}
           /\ \A k \in 1..Len(files) : files'[k] = files[k]
           /\ WholeUpTo(Len(files) - 1)'
           /\ data = parts[i + 1].data => WholeUpTo(Len(files))'
           /\ out' = <<>>
           /\ \/ reader' = "closed" /\ answer' = 400
              \/ /\ reader' = next /\ answer' = answer
                 /\ data = parts[i + 1].data =>
                       \A name \in DeviceFields : KeptField(parts, i + 1, name)'
<1> DEFINE p == parts[i + 1]
           file == [name |-> Sanitized(part.filename), data |-> data, by |-> fields]
<1>1. /\ parts = request.parts /\ i \in Nat /\ Len(parts) \in Nat
      /\ count[i] \in Nat /\ Len(files) = count[i]
    BY NextPart
<1>2. i < Len(parts) /\ part = Shown(p)
    BY DEF Reading, Stage
<1>3. /\ i + 1 \in 1..Len(parts) /\ IsPart(p) /\ count[i + 1] \in Nat
      /\ HasFile(p) => /\ count[i + 1] = count[i] + 1 /\ FileParts(parts)[count[i + 1]] = p
                       /\ p.field \notin DeviceFields /\ Leaf[p.filename] \in STRING
      /\ ~HasFile(p) => count[i + 1] = count[i]
    BY <1>2, NextPart
<1>4. /\ KeptField(parts, i, "device_id") /\ KeptField(parts, i, "device_label")
      /\ WholeUpTo(Len(files))
    BY DEF Reading
<1>5. /\ part.filename = p.filename /\ part.field = p.field /\ (HasFile(part) <=> HasFile(p))
      /\ DOMAIN fields = DeviceFields
      /\ fields = [device_id |-> fields["device_id"], device_label |-> fields["device_label"]]
    BY <1>2 DEF Shown, HasFile, AllFields, DeviceFields
<1>6. Len(files) \in Nat /\ files \in [1..Len(files) -> SavedFile]
    BY <1>1, LenProperties
<1> HIDE DEF p
<1>7. CASE HasFile(p)
    <2>1. /\ files' = Append(files, file) /\ fields' = fields /\ out' = <<>>
          /\ reader' = next /\ answer' = answer
        BY <1>5, <1>7 DEF PartDone, IsField
    <2>2. file \in SavedFile
        <3>1. Sanitized(part.filename) \in STRING
            BY <1>3, <1>5, <1>7 DEF Sanitized
        <3> QED
            BY <3>1 DEF SavedFile
    <2>3. /\ file.name = Sanitized(p.filename) /\ file.data = data /\ file.by = fields
        BY <1>5
    <2> HIDE DEF file
    <2>4. /\ files' \in Seq(SavedFile) /\ Len(files') = Len(files) + 1
          /\ \A k \in 1..Len(files) : files'[k] = files[k]
          /\ files'[Len(files) + 1] = file
        BY <2>1, <2>2, AppendProperties
    <2>5. fields = [device_id |-> SentFields("device_id"), device_label |-> SentFields("device_label")]
        <3>1. "device_id" \in DeviceFields /\ "device_label" \in DeviceFields
            BY DEF DeviceFields
        <3>2. /\ fields["device_id"] = SentFields("device_id")
              /\ fields["device_label"] = SentFields("device_label")
            BY <1>1, <1>3, <1>4, <1>7, <3>1, FieldsHeard DEF p
        <3> QED
            BY <1>5, <3>2
    <2>6. \A name : SentFields(name)' = SentFields(name)
        BY DEF SentFields
    <2>7. \A k \in 1..Len(files') : k \in 1..Len(files) \/ k = Len(files) + 1
        BY <1>6, <2>4
    <2>8. FileParts(request'.parts) = FileParts(parts) /\ FileParts(parts)[Len(files) + 1] = p
        BY <1>1, <1>3, <1>7
    <2>9. FilesNamed'
        <3>1. ASSUME NEW k \in 1..Len(files')
              PROVE  /\ files'[k].name = Leaf[FileParts(request'.parts)[k].filename]
                     /\ files'[k].by = [device_id |-> SentFields("device_id"),
                                        device_label |-> SentFields("device_label")]
            <4>1. CASE k \in 1..Len(files)
                BY <1>1, <2>4, <2>8, <4>1 DEF FilesNamed, Sanitized
            <4>2. CASE k = Len(files) + 1
                BY <2>3, <2>4, <2>5, <2>8, <4>2 DEF Sanitized
            <4> QED
                BY <2>7, <4>1, <4>2
        <3> QED
            BY <2>6, <3>1 DEF FilesNamed, Sanitized
    <2>10. \A k \in 1..Len(files) : files'[k].data = FileParts(request'.parts)[k].data
        BY <1>1, <1>4, <2>4, <2>8 DEF WholeUpTo
    <2>11. Len(files') - 1 = Len(files)
        BY <1>6, <2>4
    <2>12. WholeUpTo(Len(files) - 1)'
        BY <2>10, <2>11 DEF WholeUpTo
    <2>13. data = p.data => WholeUpTo(Len(files))'
        BY <2>3, <2>4, <2>7, <2>8, <2>10 DEF WholeUpTo
    <2>14. ASSUME NEW name \in DeviceFields PROVE KeptField(parts, i + 1, name)'
        <3>1. \A j \in 1..i + 1 : j \in 1..i \/ j = i + 1
            BY <1>1
        <3>2. p.field # name
            BY <1>3, <1>7
        <3>3. KeptField(parts, i, name)
            BY <1>4 DEF DeviceFields
        <3>4. \A j \in 1..i : j \in 1..i + 1
            BY <1>1
        <3> QED
            BY <2>1, <3>1, <3>2, <3>3, <3>4 DEF KeptField, p
    <2> QED
        BY <1>1, <1>3, <1>7, <2>1, <2>4, <2>9, <2>12, <2>13, <2>14 DEF p
<1>8. CASE ~HasFile(p)
    <2>1. /\ files' = files /\ out' = <<>>
          /\ fields' = IF IsField /\ ~TooLong(data) THEN [fields EXCEPT ![p.field] = data] ELSE fields
          /\ IF IsField /\ TooLong(data) THEN reader' = "closed" /\ answer' = 400
             ELSE reader' = next /\ answer' = answer
        BY <1>5, <1>8 DEF PartDone, Answer
    <2>2. IsField <=> p.field \in DeviceFields
        BY <1>5, <1>8 DEF IsField
    <2>3. fields' \in AllFields
        <3>1. CASE IsField /\ ~TooLong(data)
            <4>1. p.field = "device_id" \/ p.field = "device_label"
                BY <2>2, <3>1 DEF DeviceFields
            <4>2. fields' = [fields EXCEPT ![p.field] = data]
                BY <2>1, <3>1
            <4> QED
                BY <4>1, <4>2 DEF AllFields
        <3>2. CASE ~(IsField /\ ~TooLong(data))
            BY <2>1, <3>2
        <3> QED
            BY <3>1, <3>2
    <2>4. \A name : SentFields(name)' = SentFields(name)
        BY DEF SentFields
    <2>5. FilesNamed'
        BY <2>1, <2>4 DEF FilesNamed, Sanitized
    <2>6. Len(files') = Len(files) /\ \A k \in 1..Len(files) : files'[k] = files[k]
        BY <2>1
    <2>7. WholeUpTo(Len(files))' /\ WholeUpTo(Len(files) - 1)'
        <3>1. \A k \in 1..Len(files) - 1 : k \in 1..Len(files)
            BY <1>6
        <3> QED
            BY <1>4, <2>1, <3>1 DEF WholeUpTo
    <2>8. ASSUME reader' # "closed" \/ ~(IsField /\ TooLong(data)), data = p.data, NEW name \in DeviceFields
          PROVE  KeptField(parts, i + 1, name)'
        <3>1. ~(IsField /\ TooLong(data))
            BY <2>1, <2>8
        <3>2. \A j \in 1..i + 1 : j \in 1..i \/ j = i + 1
            BY <1>1
        <3>3. \A j \in 1..i : j \in 1..i + 1
            BY <1>1
        <3>4. KeptField(parts, i, name)
            BY <1>4 DEF DeviceFields
        <3>5. CASE p.field = name
            <4>1. fields' = [fields EXCEPT ![name] = data]
                BY <2>1, <2>2, <3>1, <3>5
            <4>2. fields'[name] = data
                BY <1>5, <4>1
            <4>3. \A j \in 1..i : parts[j].field # name
                <5>1. /\ DOMAIN parts = 1..Len(parts)
                      /\ \A j \in 1..i + 1 - 1 : parts[j].field # p.field
                    BY <1>1, <1>3, <3>5, UploadIs DEF p
                <5> QED
                    BY <1>1, <3>5, <5>1
            <4>4. i + 1 \in 1..i + 1
                BY <1>1
            <4> QED
                BY <2>8, <3>2, <3>5, <4>2, <4>3, <4>4 DEF KeptField, p
        <3>6. CASE p.field # name
            <4>1. fields'[name] = fields[name]
                BY <1>5, <2>1, <3>6
            <4> QED
                BY <3>2, <3>3, <3>4, <3>6, <4>1 DEF KeptField, p
        <3> QED
            BY <3>5, <3>6
    <2> QED
        BY <1>1, <1>3, <1>8, <2>1, <2>3, <2>5, <2>6, <2>7, <2>8 DEF p
<1> QED
    BY <1>7, <1>8

-----------------------------------------------------------------------------
(* What the reader finds.                                                  *)

LEMMA DelimiterLine ==
    ASSUME request \in Requests, request.path = "upload",
           NEW parts, NEW off, NEW count, NEW i, NEW pos, Reading(parts, off, count, i, pos),
           reader \in {"first", "boundary"}
    PROVE  /\ LineEnd = 0 => gone # "no" \/ wire # <<>>
           /\ LineEnd # 0 =>
                 /\ LineEnd \in 1..Len(buf) /\ SubSeq(Line, 1, Len(Delim)) = Delim
                 /\ pos = off[i] /\ i \in 0..Len(parts)
                 /\ i < Len(parts) => LineEnd = 3 /\ ~Closing(Line)
                 /\ i = Len(parts) => Closing(Line)
<1> DEFINE cells == Form(parts)
<1>1. /\ i \in 0..Len(parts) /\ FormLaid(parts, cells, off) /\ ReadFrom(cells, pos)
      /\ pos = off[i] /\ pos \in Nat
    BY DEF Reading, Stage, FormLaid
<1>2. Len(parts) \in Nat /\ (\A j \in 1..Len(parts) : IsPart(parts[j])) /\ Len(cells) \in Nat
    BY NextPart
<1> HIDE DEF cells
<1>3. /\ pos + 4 <= Len(cells) /\ cells[pos + 1] = Dashes /\ cells[pos + 2] = "B"
      /\ i = Len(parts) => cells[pos + 3] = Dashes /\ cells[pos + 4] = CRLF
      /\ i < Len(parts) => cells[pos + 3] = CRLF
    BY <1>1, <1>2, DelimiterAt DEF PartAt
<1>4. Dashes # CRLF /\ "B" # CRLF /\ "B" # Dashes
    BY DEF Dashes, CRLF
<1>5. ASSUME NEW e \in {3, 4}, cells[pos + e] = CRLF,
             \A j \in 1..e - 1 : cells[pos + j] # CRLF, LineEnd # 0
      PROVE  /\ LineEnd = e /\ LineEnd \in 1..Len(buf)
             /\ Len(Line) = e - 1 /\ SubSeq(Line, 1, Len(Delim)) = Delim
             /\ \A j \in 1..e - 1 : Line[j] = cells[pos + j]
    <2>1. e \in Nat \ {0} /\ pos + e <= Len(cells)
        BY <1>1, <1>2, <1>3
    <2>2. /\ LineEnd = e /\ e \in 1..Len(buf) /\ Len(Line) = e - 1 /\ Line \in Cells
          /\ \A j \in 1..e - 1 : Line[j] = cells[pos + j]
        BY <1>1, <1>2, <1>5, <2>1, LineIs
    <2> HIDE DEF LineEnd
    <2>3. 1 \in 1..Len(Line) + 1 /\ 2 \in 0..Len(Line) /\ 1 <= 2 + 1 /\ 2 - 1 + 1 = 2
        BY <2>2
    <2>4. /\ SubSeq(Line, 1, 2) \in Cells /\ Len(SubSeq(Line, 1, 2)) = 2
          /\ \A j \in 1..2 : SubSeq(Line, 1, 2)[j] = Line[1 + j - 1]
        BY <2>2, <2>3, PieceIs
    <2>5. \A j \in 1..2 : SubSeq(Line, 1, 2)[j] = Delim[j]
        <3>1. \A j \in 1..2 : (j = 1 \/ j = 2) /\ j \in 1..e - 1 /\ 1 + j - 1 = j
            OBVIOUS
        <3> QED
            BY <1>3, <2>2, <2>4, <3>1, DelimIs
    <2>6. SubSeq(Line, 1, 2) = Delim
        BY <2>4, <2>5, DelimIs, SeqEqual DEF Cells
    <2> QED
        BY <2>2, <2>6, DelimIs
<1>6. CASE i < Len(parts)
    <2>1. \A j \in 1..3 - 1 : j = 1 \/ j = 2
        OBVIOUS
    <2>2. cells[pos + 3] = CRLF /\ \A j \in 1..3 - 1 : cells[pos + j] # CRLF
        BY <1>3, <1>4, <1>6, <2>1
    <2>3. LineEnd = 0 => gone # "no" \/ wire # <<>>
        <3>1. 3 \in Nat \ {0} /\ pos + 3 <= Len(cells)
            BY <1>1, <1>2, <1>3
        <3> QED
            BY <1>1, <1>2, <2>2, <3>1, LineIs
    <2>4. ASSUME LineEnd # 0
          PROVE  LineEnd = 3 /\ ~Closing(Line) /\ LineEnd \in 1..Len(buf)
                 /\ SubSeq(Line, 1, Len(Delim)) = Delim
        <3>1. /\ LineEnd = 3 /\ LineEnd \in 1..Len(buf) /\ Len(Line) = 3 - 1
              /\ SubSeq(Line, 1, Len(Delim)) = Delim
              /\ \A j \in 1..3 - 1 : Line[j] = cells[pos + j]
            <4>1. 3 \in {3, 4}
                OBVIOUS
            <4> QED
                BY <1>5, <2>2, <2>4, <4>1
        <3>2. Line[2] = "B"
            <4>1. 2 \in 1..3 - 1
                OBVIOUS
            <4> QED
                BY <1>3, <3>1, <4>1
        <3> QED
            BY <1>4, <3>1, <3>2 DEF Closing
    <2> QED
        BY <1>1, <1>2, <1>6, <2>3, <2>4
<1>7. CASE i = Len(parts)
    <2>1. \A j \in 1..4 - 1 : j = 1 \/ j = 2 \/ j = 3
        OBVIOUS
    <2>2. cells[pos + 4] = CRLF /\ \A j \in 1..4 - 1 : cells[pos + j] # CRLF
        BY <1>3, <1>4, <1>7, <2>1
    <2>3. LineEnd = 0 => gone # "no" \/ wire # <<>>
        <3>1. 4 \in Nat \ {0} /\ pos + 4 <= Len(cells)
            BY <1>1, <1>2, <1>3
        <3> QED
            BY <1>1, <1>2, <2>2, <3>1, LineIs
    <2>4. ASSUME LineEnd # 0
          PROVE  Closing(Line) /\ LineEnd \in 1..Len(buf) /\ SubSeq(Line, 1, Len(Delim)) = Delim
        <3>1. /\ LineEnd = 4 /\ LineEnd \in 1..Len(buf) /\ Len(Line) = 4 - 1
              /\ SubSeq(Line, 1, Len(Delim)) = Delim
              /\ \A j \in 1..4 - 1 : Line[j] = cells[pos + j]
            <4>1. 4 \in {3, 4}
                OBVIOUS
            <4> QED
                BY <1>5, <2>2, <2>4, <4>1
        <3>2. Line[3] = Dashes
            <4>1. 3 \in 1..4 - 1
                OBVIOUS
            <4> QED
                BY <1>3, <1>7, <3>1, <4>1
        <3> QED
            BY <3>1, <3>2 DEF Closing
    <2> QED
        BY <1>1, <1>2, <1>7, <2>3, <2>4
<1> QED
    BY <1>1, <1>2, <1>6, <1>7

LEMMA HeadersLine ==
    ASSUME request \in Requests, request.path = "upload",
           NEW parts, NEW off, NEW count, NEW i, NEW pos, Reading(parts, off, count, i, pos),
           reader = "headers"
    PROVE  /\ LineEnd = 0 => gone # "no" \/ wire # <<>>
           /\ LineEnd # 0 =>
                 /\ i < Len(parts) /\ LineEnd \in 1..Len(buf) /\ off[i] \in Nat
                 /\ \/ /\ pos = off[i] + 3 /\ LineEnd = 4 /\ part = NoPart /\ Line # <<>>
                       /\ Line[1] = DISPOSITION /\ Line[2] = parts[i + 1].field
                       /\ Line[3] = parts[i + 1].filename
                    \/ /\ pos = off[i] + 7 /\ LineEnd = 2 /\ part = Shown(parts[i + 1])
                       /\ Line # <<>> /\ Line[1] # DISPOSITION
                    \/ /\ pos = off[i] + 9 /\ LineEnd = 1 /\ part = Shown(parts[i + 1])
                       /\ Line = <<>>
<1> DEFINE cells == Form(parts)
           p == parts[i + 1]
           o == off[i]
<1>1. /\ parts = request.parts /\ i \in 0..Len(parts) /\ FormLaid(parts, cells, off)
      /\ ReadFrom(cells, pos) /\ pos \in Nat
    BY DEF Reading
<1>2. Len(parts) \in Nat /\ (\A j \in 1..Len(parts) : IsPart(parts[j])) /\ Len(cells) \in Nat
    BY NextPart
<1> HIDE DEF cells
<1>3. CASE gone # "no" /\ LineEnd = 0
    BY <1>3
<1>4. CASE ~(gone # "no" /\ LineEnd = 0)
    <2>1. /\ i < Len(parts)
          /\ \/ pos = o + 3 /\ part = NoPart
             \/ pos \in {o + 7, o + 9} /\ part = Shown(p)
        BY <1>4 DEF Reading, Stage
    <2>2. /\ o \in Nat /\ i + 1 \in 1..Len(parts) /\ PartAt(p, cells, o)
          /\ off[i + 1] = o + Len(p.data) + 11 /\ off[i + 1] + 4 <= Len(cells)
        <3>1. /\ off[i] \in Nat /\ i + 1 \in 1..Len(parts) /\ PartAt(parts[i + 1], cells, off[i])
              /\ off[i + 1] = off[i] + Len(parts[i + 1].data) + 11 /\ off[i + 1] + 4 <= Len(cells)
            BY <1>1, <1>2, <2>1, PartBehind
        <3> QED
            BY <3>1
    <2>3. Len(p.data) \in Nat /\ p.field # CRLF /\ p.filename # CRLF
        <3>1. IsPart(p)
            BY <1>2, <2>2
        <3> QED
            BY <1>1, <2>2, <3>1, UploadIs DEF IsPart, Cells
    <2>4. o + 10 <= Len(cells)
        <3> DEFINE L == Len(p.data)
        <3>1. L \in Nat /\ off[i + 1] = o + L + 11 /\ off[i + 1] + 4 <= Len(cells)
            BY <2>2, <2>3
        <3> HIDE DEF L, o
        <3> QED
            BY <1>2, <2>2, <3>1
    <2>5. /\ cells[o + 4] = DISPOSITION /\ cells[o + 5] = p.field /\ cells[o + 6] = p.filename
          /\ cells[o + 7] = CRLF /\ cells[o + 8] = "content-type" /\ cells[o + 9] = CRLF
          /\ cells[o + 10] = CRLF
        BY <2>2 DEF PartAt
    <2>6. DISPOSITION # CRLF /\ "content-type" # CRLF /\ "content-type" # DISPOSITION
        BY DEF CRLF, DISPOSITION
    <2> HIDE DEF p, o
    <2>7. CASE pos = o + 3
        <3>1. \A j \in 1..4 - 1 : j = 1 \/ j = 2 \/ j = 3
            OBVIOUS
        <3>2. o + 3 + 1 = o + 4 /\ o + 3 + 2 = o + 5 /\ o + 3 + 3 = o + 6 /\ o + 3 + 4 = o + 7
            BY <2>2
        <3>3. /\ cells[pos + 4] = CRLF /\ \A j \in 1..4 - 1 : cells[pos + j] # CRLF
              /\ cells[pos + 1] = DISPOSITION /\ cells[pos + 2] = p.field
              /\ cells[pos + 3] = p.filename
            BY <2>3, <2>5, <2>6, <2>7, <3>1, <3>2
        <3>4. 4 \in Nat \ {0} /\ pos + 4 <= Len(cells)
            BY <1>2, <2>2, <2>4, <2>7
        <3>5. LineEnd = 0 => gone # "no" \/ wire # <<>>
            BY <1>1, <1>2, <3>3, <3>4, LineIs
        <3>6. ASSUME LineEnd # 0
              PROVE  /\ LineEnd = 4 /\ LineEnd \in 1..Len(buf) /\ Line # <<>>
                     /\ Line[1] = DISPOSITION /\ Line[2] = p.field /\ Line[3] = p.filename
            <4>1. /\ LineEnd = 4 /\ 4 \in 1..Len(buf) /\ Len(Line) = 4 - 1
                  /\ \A j \in 1..4 - 1 : Line[j] = cells[pos + j]
                BY <1>1, <1>2, <3>3, <3>4, <3>6, LineIs
            <4>2. 1 \in 1..4 - 1 /\ 2 \in 1..4 - 1 /\ 3 \in 1..4 - 1
                OBVIOUS
            <4>3. Line # <<>>
                <5>1. Len(Line) # 0
                    BY <4>1
                <5>2. Len(<<>>) = 0
                    OBVIOUS
                <5> QED
                    BY <5>1, <5>2
            <4> QED
                BY <3>3, <4>1, <4>2, <4>3
        <3>7. part = NoPart
            BY <2>1, <2>2, <2>7 DEF o
        <3> QED
            BY <2>1, <2>2, <2>7, <3>5, <3>6, <3>7 DEF o, p
    <2>8. CASE pos = o + 7
        <3>1. \A j \in 1..2 - 1 : j = 1
            OBVIOUS
        <3>2. o + 7 + 1 = o + 8 /\ o + 7 + 2 = o + 9
            BY <2>2
        <3>3. /\ cells[pos + 2] = CRLF /\ \A j \in 1..2 - 1 : cells[pos + j] # CRLF
              /\ cells[pos + 1] = "content-type"
            BY <2>5, <2>6, <2>8, <3>1, <3>2
        <3>4. 2 \in Nat \ {0} /\ pos + 2 <= Len(cells)
            BY <1>2, <2>2, <2>4, <2>8
        <3>5. LineEnd = 0 => gone # "no" \/ wire # <<>>
            BY <1>1, <1>2, <3>3, <3>4, LineIs
        <3>6. ASSUME LineEnd # 0
              PROVE  /\ LineEnd = 2 /\ LineEnd \in 1..Len(buf) /\ Line # <<>>
                     /\ Line[1] # DISPOSITION
            <4>1. /\ LineEnd = 2 /\ 2 \in 1..Len(buf) /\ Len(Line) = 2 - 1
                  /\ \A j \in 1..2 - 1 : Line[j] = cells[pos + j]
                BY <1>1, <1>2, <3>3, <3>4, <3>6, LineIs
            <4>2. 1 \in 1..2 - 1
                OBVIOUS
            <4>3. Line # <<>>
                <5>1. Len(Line) # 0
                    BY <4>1
                <5>2. Len(<<>>) = 0
                    OBVIOUS
                <5> QED
                    BY <5>1, <5>2
            <4> QED
                BY <2>6, <3>3, <4>1, <4>2, <4>3
        <3>7. part = Shown(p)
            BY <2>1, <2>2, <2>8 DEF o
        <3> QED
            BY <2>1, <2>2, <2>8, <3>5, <3>6, <3>7 DEF o, p
    <2>9. CASE pos = o + 9
        <3>1. cells[pos + 1] = CRLF /\ \A j \in 1..1 - 1 : cells[pos + j] # CRLF
            <4>1. o + 9 + 1 = o + 10
                BY <2>2
            <4> QED
                BY <2>5, <2>9, <4>1
        <3>2. 1 \in Nat \ {0} /\ pos + 1 <= Len(cells)
            BY <1>2, <2>2, <2>4, <2>9
        <3>3. LineEnd = 0 => gone # "no" \/ wire # <<>>
            BY <1>1, <1>2, <3>1, <3>2, LineIs
        <3>4. ASSUME LineEnd # 0 PROVE LineEnd = 1 /\ LineEnd \in 1..Len(buf) /\ Line = <<>>
            <4>1. LineEnd = 1 /\ 1 \in 1..Len(buf) /\ Len(Line) = 1 - 1 /\ Line \in Cells
                BY <1>1, <1>2, <3>1, <3>2, <3>4, LineIs
            <4>2. Line = <<>>
                BY <4>1 DEF Cells
            <4> QED
                BY <4>1, <4>2
        <3>5. part = Shown(p)
            BY <2>1, <2>2, <2>9 DEF o
        <3> QED
            BY <2>1, <2>2, <2>9, <3>3, <3>4, <3>5 DEF o, p
    <2> QED
        BY <2>1, <2>7, <2>8, <2>9 DEF o
<1> QED
    BY <1>3, <1>4

LEMMA BodyData ==
    ASSUME request \in Requests, request.path = "upload",
           NEW parts, NEW off, NEW count, NEW i, NEW pos, Reading(parts, off, count, i, pos),
           reader = "body"
    PROVE  LET at == FindIn(buf, Needle)
               L == Len(parts[i + 1].data)
           IN
           /\ i < Len(parts) /\ L \in Nat /\ Len(out) \in 0..L
           /\ off[i] \in Nat /\ off[i + 1] = off[i] + L + 11
           /\ pos = off[i] + 10 + Len(out) /\ Len(buf) \in Nat
           /\ \A j \in 1..L : Form(parts)[off[i] + 10 + j] = parts[i + 1].data[j]
           /\ at = 0 => Len(buf) < L - Len(out) + 3 /\ (gone # "no" \/ wire # <<>>)
           /\ at # 0 => at = L - Len(out) + 1 /\ at + 2 <= Len(buf)
<1> DEFINE cells == Form(parts)
           p == parts[i + 1]
           o == off[i]
           d == Len(out)
<1>1. /\ parts = request.parts /\ i \in 0..Len(parts) /\ FormLaid(parts, cells, off)
      /\ ReadFrom(cells, pos) /\ pos \in Nat /\ out \in Cells
    BY DEF Reading
<1>2. Len(parts) \in Nat /\ (\A j \in 1..Len(parts) : IsPart(parts[j])) /\ Len(cells) \in Nat
    BY NextPart
<1>3. i < Len(parts) /\ d <= Len(p.data) /\ pos = o + 10 + d
    BY DEF Reading, Stage
<1> HIDE DEF cells
<1>4. /\ o \in Nat /\ i + 1 \in 1..Len(parts) /\ PartAt(p, cells, o)
      /\ off[i + 1] = o + Len(p.data) + 11 /\ off[i + 1] + 4 <= Len(cells)
    <2>1. /\ off[i] \in Nat /\ i + 1 \in 1..Len(parts) /\ PartAt(parts[i + 1], cells, off[i])
          /\ off[i + 1] = off[i] + Len(parts[i + 1].data) + 11 /\ off[i + 1] + 4 <= Len(cells)
        BY <1>1, <1>2, <1>3, PartBehind
    <2> QED
        BY <2>1
<1>5. cells[off[i + 1] + 1] = Dashes /\ cells[off[i + 1] + 2] = "B"
    <2>1. i + 1 \in 0..Len(parts)
        BY <1>4
    <2> QED
        BY <1>1, <1>2, <2>1, DelimiterAt
<1>6. IsPart(p) /\ \A j \in 1..Len(p.data) - 2 : SubSeq(p.data, j, j + 2) # Needle
    BY <1>1, <1>2, <1>4, UploadIs
<1>7. d \in 0..Len(p.data) /\ Len(p.data) \in Nat /\ Len(buf) \in Nat
    <2>1. Len(p.data) \in Nat /\ d \in Nat /\ Len(buf) \in Nat
        <3>1. p.data \in Cells /\ out \in Cells /\ buf \in Cells
            BY <1>1, <1>6 DEF IsPart, ReadFrom
        <3> QED
            BY <3>1 DEF Cells
    <2> QED
        BY <1>3, <2>1
<1>8. \A j \in 1..Len(p.data) : cells[o + 10 + j] = p.data[j]
    BY <1>4 DEF PartAt
<1> HIDE DEF p, o, d
<1>9. LET at == FindIn(buf, Needle) IN
      /\ at = 0 => Len(buf) < Len(p.data) - d + 3 /\ (gone # "no" \/ wire # <<>>)
      /\ at # 0 => at = Len(p.data) - d + 1 /\ at + 2 <= Len(buf)
    BY <1>1, <1>2, <1>3, <1>4, <1>5, <1>6, <1>7, DataEnd
<1> QED
    BY <1>3, <1>4, <1>7, <1>8, <1>9 DEF p, o, d, cells

-----------------------------------------------------------------------------
(* The steps.                                                              *)

Busy == {"first", "headers", "body", "boundary"}

\* What does not change when the reader only reads on.
LEMMA Unchanging ==
    ASSUME PostInv, UNCHANGED <<request, fields, files>>
    PROVE  /\ request' \in Requests /\ files' \in Seq(SavedFile) /\ fields' \in AllFields
           /\ FilesNamed' /\ request'.path = request.path
           /\ \A m : WholeUpTo(m) => WholeUpTo(m)'
           /\ Len(files)' = Len(files)
<1>1. \A name : SentFields(name)' = SentFields(name)
    BY DEF SentFields
<1>2. FilesNamed'
    BY <1>1 DEF PostInv, FilesNamed, Sanitized
<1> QED
    BY <1>2 DEF PostInv, WholeUpTo

LEMMA ReadsOn ==
    ASSUME PostInv, UNCHANGED <<request, fields, files, answer>>,
           reader \in Busy, reader' \in Busy, request.path = "upload", answer = 0,
           NEW parts, NEW off, NEW count, NEW i, NEW pos, Reading(parts, off, count, i, pos),
           NEW next \in Nat, ReadFrom(Form(parts), next)', Stage(parts, off, i, next)',
           out' \in Cells, reader' # "body" => out' = <<>>
    PROVE  PostInv'
<1>1. /\ parts = request'.parts /\ FormLaid(parts, Form(parts), off) /\ FilesLaid(parts, count)
      /\ i \in 0..Len(parts) /\ Len(files)' = count[i] /\ WholeUpTo(Len(files))'
      /\ KeptField(parts, i, "device_id")' /\ KeptField(parts, i, "device_label")'
    BY Unchanging DEF Reading, KeptField
<1>2. Reading(parts, off, count, i, next)'
    BY <1>1 DEF Reading
<1> QED
    BY <1>2, Unchanging DEF PostInv, Busy

\* A reader that is done, or has failed, without another file.
LEMMA ReaderEnds ==
    ASSUME PostInv, UNCHANGED <<request, fields, files>>, reader' \in {"finished", "closed"},
           reader \in Busy \/ files = <<>>,
           (reader' = "finished" \/ answer' = 200) /\ request.path = "upload"
              => Len(files) = Len(FileParts(request.parts))
    PROVE  PostInv'
<1>1. WholeUpTo(Len(files))
    <2>1. CASE files = <<>>
        BY <2>1 DEF WholeUpTo
    <2>2. CASE reader \in Busy
        BY <2>2 DEF PostInv, Busy, Reading
    <2> QED
        BY <2>1, <2>2
<1>2. Len(files) \in Nat
    BY DEF PostInv
<1>3. WholeUpTo(Len(files) - 1)
    BY <1>1, <1>2 DEF WholeUpTo
<1>4. Over'
    BY <1>1, <1>3, Unchanging DEF Over
<1> QED
    BY <1>4, Unchanging DEF PostInv

LEMMA InitPost == PostInit => PostInv
<1> SUFFICES ASSUME PostInit PROVE PostInv
    OBVIOUS
<1>1. files \in Seq(SavedFile) /\ files = <<>> /\ Len(files) = 0
    BY DEF PostInit
<1>2. fields \in AllFields
    <2>1. <<>> \in Cells
        BY DEF Cells
    <2> QED
        BY <2>1 DEF PostInit, AllFields
<1>3. FilesNamed
    BY <1>1 DEF FilesNamed
<1>4. Start
    BY DEF PostInit, Start
<1> QED
    BY <1>1, <1>2, <1>3, <1>4 DEF PostInv, PostInit

\* A reader in the middle of a form.
LEMMA InTheMiddle ==
    ASSUME PostInv, reader \in Busy
    PROVE  /\ request \in Requests /\ request.path = "upload" /\ answer = 0
           /\ \E parts, off, count, i, pos : Reading(parts, off, count, i, pos)
BY DEF PostInv, Busy

LEMMA FillStep == ASSUME PostInv, Fill PROVE PostInv'
<1>1. reader \in Busy /\ wire # <<>>
    BY DEF Fill, Hungry, Busy
<1>2. PICK parts, off, count, i, pos : Reading(parts, off, count, i, pos)
    BY <1>1, InTheMiddle
<1> DEFINE cells == Form(parts)
<1>3. /\ ReadFrom(cells, pos) /\ pos \in Nat /\ Stage(parts, off, i, pos)
      /\ out \in Cells /\ (reader # "body" => out = <<>>)
    BY <1>2 DEF Reading
<1>4. /\ buf \in Cells /\ wire \in Cells /\ Len(buf) \in Nat /\ Len(wire) \in Nat
      /\ pos + Len(buf) + Len(wire) <= Len(cells)
      /\ gone = "no" => pos + Len(buf) + Len(wire) = Len(cells)
      /\ gone # "no" => wire = <<>>
      /\ \A j \in 1..Len(buf) : buf[j] = cells[pos + j]
      /\ \A j \in 1..Len(wire) : wire[j] = cells[pos + Len(buf) + j]
    BY <1>3 DEF ReadFrom, Cells
<1>5. PICK n \in 1..Len(wire) : buf' = buf \o SubSeq(wire, 1, n) /\ wire' = Skip(wire, n)
    BY DEF Fill
<1>6. UNCHANGED <<request, gone, reader, part, out, fields, files, answer>>
    BY DEF Fill
<1> HIDE DEF cells
<1> DEFINE piece == SubSeq(wire, 1, n)
<1>7. piece \in Cells /\ Len(piece) = n /\ \A j \in 1..n : piece[j] = wire[j]
    <2>1. /\ 1 \in 1..Len(wire) + 1 /\ n \in 0..Len(wire) /\ 1 <= n + 1 /\ n - 1 + 1 = n
          /\ \A j \in 1..n : 1 + j - 1 = j
        BY <1>4
    <2>2. piece \in Cells /\ Len(piece) = n - 1 + 1 /\ \A j \in 1..n - 1 + 1 : piece[j] = wire[1 + j - 1]
        BY <1>4, <2>1, PieceIs
    <2> QED
        BY <2>1, <2>2
<1>8. /\ wire' \in Cells /\ Len(wire') = Len(wire) - n
      /\ \A j \in 1..Len(wire) - n : wire'[j] = wire[n + j]
    <2>1. n \in 0..Len(wire)
        BY <1>4
    <2> QED
        BY <1>4, <1>5, <2>1, SkipIs
<1> HIDE DEF piece
<1>9. /\ buf' \in Cells /\ Len(buf') = Len(buf) + n
      /\ \A j \in 1..Len(buf) : buf'[j] = buf[j]
      /\ \A j \in Len(buf) + 1..Len(buf) + n : buf'[j] = piece[j - Len(buf)]
    <2>1. buf' = buf \o piece
        BY <1>5 DEF piece
    <2> QED
        BY <1>4, <1>7, <2>1, Behind
<1>10. ASSUME NEW j \in 1..Len(buf') PROVE buf'[j] = cells[pos + j]
    <2>1. CASE j \in 1..Len(buf)
        BY <1>4, <1>9, <2>1
    <2>2. CASE j \notin 1..Len(buf)
        <3>1. /\ j \in Len(buf) + 1..Len(buf) + n /\ j - Len(buf) \in 1..n
              /\ j - Len(buf) \in 1..Len(wire) /\ pos + Len(buf) + (j - Len(buf)) = pos + j
            BY <1>3, <1>4, <1>9, <2>2
        <3> QED
            BY <1>4, <1>7, <1>9, <3>1
    <2> QED
        BY <2>1, <2>2
<1>11. ASSUME NEW j \in 1..Len(wire') PROVE wire'[j] = cells[pos + Len(buf') + j]
    <2>1. /\ j \in 1..Len(wire) - n /\ n + j \in 1..Len(wire)
          /\ pos + Len(buf) + (n + j) = pos + Len(buf') + j
        BY <1>3, <1>4, <1>8, <1>9
    <2> QED
        BY <1>4, <1>8, <2>1
<1>12. pos + Len(buf') + Len(wire') = pos + Len(buf) + Len(wire)
    BY <1>3, <1>4, <1>8, <1>9
<1>13. gone = "no" /\ gone' = "no"
    BY <1>1, <1>4, <1>6
<1>14. ReadFrom(cells, pos)'
    BY <1>4, <1>8, <1>9, <1>10, <1>11, <1>12, <1>13 DEF ReadFrom
<1>15. Stage(parts, off, i, pos)'
    BY <1>3, <1>6, <1>13 DEF Stage
<1>16. out' \in Cells /\ (reader' # "body" => out' = <<>>) /\ reader' \in Busy
    BY <1>1, <1>3, <1>6
<1> QED
    BY <1>1, <1>2, <1>3, <1>6, <1>14, <1>15, <1>16, InTheMiddle, ReadsOn DEF cells

LEMMA BrowserGoesStep == ASSUME PostInv, BrowserGoes PROVE PostInv'
<1>1. /\ UNCHANGED <<request, fields, files, answer, buf, reader, part, out>>
      /\ gone = "no" /\ gone' # "no" /\ wire' = <<>>
    BY DEF BrowserGoes
<1>2. CASE reader = "head"
    <2>1. Start'
        BY <1>1, <1>2 DEF PostInv, Start
    <2> QED
        BY <1>1, <1>2, <2>1, Unchanging DEF PostInv
<1>3. CASE reader \in Busy
    <2>1. PICK parts, off, count, i, pos : Reading(parts, off, count, i, pos)
        BY <1>3, InTheMiddle
    <2>2. /\ ReadFrom(Form(parts), pos) /\ pos \in Nat /\ Stage(parts, off, i, pos)
          /\ out \in Cells /\ (reader # "body" => out = <<>>)
        BY <2>1 DEF Reading
    <2> DEFINE cells == Form(parts)
    <2>3. /\ buf \in Cells /\ Len(buf) \in Nat /\ Len(wire) \in Nat
          /\ pos + Len(buf) + Len(wire) <= Len(cells)
          /\ \A j \in 1..Len(buf) : buf[j] = cells[pos + j]
        BY <2>2 DEF ReadFrom, Cells
    <2>4. Len(cells) \in Nat
        BY <1>3, <2>1, InTheMiddle, NextPart
    <2> HIDE DEF cells
    <2>5. /\ wire' = <<>> /\ Len(wire') = 0 /\ wire' \in Cells
          /\ pos + Len(buf) + Len(wire') <= Len(cells)
        <3>1. wire' \in Cells /\ Len(wire') = 0
            BY <1>1 DEF Cells
        <3> QED
            BY <1>1, <2>2, <2>3, <2>4, <3>1
    <2>6. ReadFrom(cells, pos)'
        BY <1>1, <2>3, <2>5 DEF ReadFrom
    <2>7. Stage(parts, off, i, pos)'
        BY <1>1, <2>2 DEF Stage, LineEnd
    <2> QED
        BY <1>1, <1>3, <2>1, <2>2, <2>6, <2>7, InTheMiddle, ReadsOn DEF cells
<1>4. CASE reader \in {"finished", "closed"}
    <2>1. Over'
        BY <1>1, <1>4, Unchanging DEF PostInv, Over
    <2> QED
        BY <1>1, <1>4, <2>1, Unchanging DEF PostInv
<1> QED
    BY <1>2, <1>3, <1>4 DEF PostInv, Busy

LEMMA HandleHeadStep == ASSUME PostInv, HandleHead PROVE PostInv'
<1>1. /\ reader = "head" /\ wire # <<>> /\ UNCHANGED <<request, gone, part, out, fields, files>>
      /\ Start /\ request \in Requests
    BY DEF HandleHead, PostInv
<1>2. CASE reader' = "closed"
    <2>1. request.path = "upload" => answer' # 200
        BY <1>2 DEF HandleHead, Answer
    <2> QED
        BY <1>1, <1>2, <2>1, ReaderEnds DEF Start
<1>3. CASE reader' # "closed"
    <2> DEFINE parts == request.parts
    <2>1. request.path = "upload" /\ reader' = "first" /\ answer' = 0
        BY <1>1, <1>3 DEF HandleHead, Answer, Start
    <2>2. /\ Len(parts) \in Nat /\ DOMAIN parts = 1..Len(parts)
          /\ \A i \in 1..Len(parts) : IsPart(parts[i])
        BY <1>1, <2>1, UploadIs
    <2>3. PICK off : FormLaid(parts, Form(parts), off)
        BY <2>2, FormIs
    <2>4. PICK count : FilesLaid(parts, count)
        BY <2>2, FilePartsAre
    <2> DEFINE cells == Form(parts)
               head == <<"HEAD">>
    <2>5. cells \in Cells /\ Len(cells) \in Nat
        BY <2>3 DEF FormLaid, Cells
    <2>6. gone = "no" /\ wire = head \o cells
        BY <1>1, <2>1 DEF Start
    <2>7. head \in Cells /\ Len(head) = 1
        BY Literals DEF Cells
    <2>8. PICK n \in 1..Len(wire) : buf' = SubSeq(wire, 2, n) /\ wire' = Skip(wire, n)
        BY DEF HandleHead
    <2> HIDE DEF cells, head
    <2>9. /\ wire \in Cells /\ Len(wire) = 1 + Len(cells)
          /\ \A j \in 2..Len(wire) : wire[j] = cells[j - 1]
        <3>1. /\ wire \in Cells /\ Len(wire) = Len(head) + Len(cells)
              /\ \A j \in Len(head) + 1..Len(head) + Len(cells) : wire[j] = cells[j - Len(head)]
            BY <2>5, <2>6, <2>7, Behind
        <3> QED
            BY <2>7, <3>1
    <2>10. /\ buf' \in Cells /\ Len(buf') = n - 1
           /\ \A j \in 1..n - 1 : buf'[j] = cells[0 + j]
        <3>1. /\ 2 \in 1..Len(wire) + 1 /\ n \in 0..Len(wire) /\ 2 <= n + 1 /\ n - 2 + 1 = n - 1
            BY <2>5, <2>9
        <3>2. /\ buf' \in Cells /\ Len(buf') = n - 1
              /\ \A j \in 1..n - 1 : buf'[j] = wire[2 + j - 1]
            BY <2>8, <2>9, <3>1, PieceIs
        <3>3. \A j \in 1..n - 1 : 2 + j - 1 \in 2..Len(wire) /\ 2 + j - 1 - 1 = 0 + j
            BY <2>5, <2>9
        <3>4. ASSUME NEW j \in 1..n - 1 PROVE buf'[j] = cells[0 + j]
            <4> DEFINE k == 2 + j - 1
            <4>1. buf'[j] = wire[k] /\ k \in 2..Len(wire) /\ k - 1 = 0 + j
                BY <3>2, <3>3
            <4> HIDE DEF k
            <4>2. wire[k] = cells[k - 1]
                BY <2>9, <4>1
            <4> QED
                BY <4>1, <4>2
        <3> QED
            BY <3>2, <3>4
    <2>11. /\ wire' \in Cells /\ Len(wire') = Len(wire) - n
           /\ \A j \in 1..Len(wire) - n : wire'[j] = cells[0 + Len(buf') + j]
        <3>1. n \in 0..Len(wire)
            BY <2>5, <2>9
        <3>2. /\ wire' \in Cells /\ Len(wire') = Len(wire) - n
              /\ \A j \in 1..Len(wire) - n : wire'[j] = wire[n + j]
            BY <2>8, <2>9, <3>1, SkipIs
        <3>3. \A j \in 1..Len(wire) - n : n + j \in 2..Len(wire) /\ n + j - 1 = 0 + Len(buf') + j
            BY <2>5, <2>9, <2>10
        <3> QED
            BY <2>9, <3>2, <3>3
    <2>12. 0 + Len(buf') + Len(wire') = Len(cells)
        BY <2>5, <2>9, <2>10, <2>11
    <2>13. ReadFrom(cells, 0)'
        <3>1. gone' = "no" /\ 0 + Len(buf') + Len(wire') <= Len(cells)
            BY <1>1, <2>5, <2>6, <2>12
        <3>2. \A j \in 1..Len(buf') : buf'[j] = cells[0 + j]
            BY <2>10
        <3>3. \A j \in 1..Len(wire') : wire'[j] = cells[0 + Len(buf') + j]
            BY <2>11
        <3>4. cells' = cells
            BY <1>1 DEF cells
        <3> QED
            BY <2>10, <2>11, <2>12, <3>1, <3>2, <3>3, <3>4 DEF ReadFrom
    <2>14. Stage(parts, off, 0, 0)'
        BY <2>1 DEF Stage
    <2>15. /\ files' = <<>> /\ fields' = [device_id |-> <<>>, device_label |-> <<>>] /\ out' = <<>>
           /\ out' \in Cells
        BY <1>1 DEF Start, Cells
    <2>16. \A name \in DeviceFields : KeptField(parts, 0, name)'
        BY <2>15 DEF KeptField, DeviceFields
    <2>17. Len(files)' = count[0] /\ WholeUpTo(Len(files))' /\ 0 \in 0..Len(parts)
        BY <2>2, <2>4, <2>15 DEF FilesLaid, WholeUpTo
    <2>18. Reading(parts, off, count, 0, 0)'
        <3>1. parts' = parts /\ cells' = cells
            BY <1>1 DEF cells
        <3>2. "device_id" \in DeviceFields /\ "device_label" \in DeviceFields
            BY DEF DeviceFields
        <3> QED
            BY <2>3, <2>4, <2>13, <2>14, <2>15, <2>16, <2>17, <3>1, <3>2 DEF Reading, cells
    <2>19. \E ps, os, cs, i, pos : Reading(ps, os, cs, i, pos)'
        BY <2>18
    <2> QED
        BY <1>1, <2>1, <2>19, Unchanging DEF PostInv
<1> QED
    BY <1>2, <1>3

\* The line of a delimiter has been read: there is another part, or the form is
\* all there.
LEMMA DelimiterStep ==
    ASSUME PostInv, reader \in {"first", "boundary"}, LineEnd # 0,
           UNCHANGED <<request, wire, gone, out, fields, files, answer>>,
           reader' = IF Closing(Line) THEN "finished" ELSE "headers",
           buf' = AfterLine, part' = NoPart
    PROVE  PostInv'
<1>1. reader \in Busy
    BY DEF Busy
<1>2. PICK parts, off, count, i, pos : Reading(parts, off, count, i, pos)
    BY <1>1, InTheMiddle
<1>3. request \in Requests /\ request.path = "upload" /\ answer = 0
    BY <1>1, InTheMiddle
<1>4. /\ LineEnd \in 1..Len(buf) /\ pos = off[i] /\ i \in 0..Len(parts)
      /\ i < Len(parts) => LineEnd = 3 /\ ~Closing(Line)
      /\ i = Len(parts) => Closing(Line)
    BY <1>2, <1>3, DelimiterLine
<1>5. /\ parts = request.parts /\ Len(parts) \in Nat /\ Len(Form(parts)) \in Nat /\ pos \in Nat
      /\ Len(files) = count[i]
    BY <1>2, <1>3, NextPart
<1>6. /\ FilesLaid(parts, count) /\ ReadFrom(Form(parts), pos)
      /\ out = <<>> /\ out \in Cells
    BY <1>2 DEF Reading
<1>7. CASE i < Len(parts)
    <2>1. reader' = "headers" /\ LineEnd = 3 /\ LineEnd \in 0..Len(buf)
        BY <1>4, <1>7
    <2>2. ReadFrom(Form(parts), pos + 3)' /\ pos + 3 \in Nat
        <3>1. 3 \in 0..Len(buf) /\ buf' = Skip(buf, 3)
            BY <2>1 DEF AfterLine
        <3> QED
            BY <1>5, <1>6, <3>1, Advance
    <2>3. Stage(parts, off, i, pos + 3)'
        BY <1>4, <1>7, <2>1 DEF Stage
    <2>4. out' \in Cells /\ out' = <<>> /\ reader' \in Busy
        BY <1>6, <2>1 DEF Busy
    <2> QED
        BY <1>1, <1>2, <1>3, <2>2, <2>3, <2>4, ReadsOn
<1>8. CASE i = Len(parts)
    <2>1. reader' = "finished"
        BY <1>4, <1>8
    <2>2. Len(files) = Len(FileParts(request.parts))
        BY <1>5, <1>6, <1>8 DEF FilesLaid
    <2> QED
        BY <1>1, <2>1, <2>2, ReaderEnds
<1> QED
    BY <1>4, <1>5, <1>7, <1>8

LEMMA FirstLineStep == ASSUME PostInv, FirstLine PROVE PostInv'
<1>1. CASE SubSeq(Line, 1, Len(Delim)) # Delim
    <2>1. /\ UNCHANGED <<request, fields, files>> /\ reader' = "closed" /\ answer' = 400
          /\ reader \in Busy
        BY <1>1 DEF FirstLine, Answer, Busy
    <2> QED
        BY <2>1, ReaderEnds
<1>2. CASE SubSeq(Line, 1, Len(Delim)) = Delim
    BY <1>2, DelimiterStep DEF FirstLine
<1> QED
    BY <1>1, <1>2

LEMMA BoundaryLineStep == ASSUME PostInv, BoundaryLine PROVE PostInv'
BY DelimiterStep DEF BoundaryLine

LEMMA HeaderLineStep == ASSUME PostInv, HeaderLine PROVE PostInv'
<1>1. /\ reader = "headers" /\ LineEnd # 0 /\ reader \in Busy /\ reader' \in Busy
      /\ reader' = IF Line = <<>> THEN "body" ELSE "headers"
      /\ buf' = Skip(buf, LineEnd)
      /\ UNCHANGED <<request, wire, gone, out, fields, files, answer>>
    BY DEF HeaderLine, Busy, AfterLine
<1>2. PICK parts, off, count, i, pos : Reading(parts, off, count, i, pos)
    BY <1>1, InTheMiddle
<1>3. request \in Requests /\ request.path = "upload" /\ answer = 0
    BY <1>1, InTheMiddle
<1> DEFINE p == parts[i + 1]
           o == off[i]
<1>4. /\ i < Len(parts) /\ LineEnd \in 1..Len(buf) /\ o \in Nat
      /\ \/ /\ pos = o + 3 /\ LineEnd = 4 /\ part = NoPart /\ Line # <<>>
            /\ Line[1] = DISPOSITION /\ Line[2] = p.field /\ Line[3] = p.filename
         \/ /\ pos = o + 7 /\ LineEnd = 2 /\ part = Shown(p)
            /\ Line # <<>> /\ Line[1] # DISPOSITION
         \/ pos = o + 9 /\ LineEnd = 1 /\ part = Shown(p) /\ Line = <<>>
    BY <1>1, <1>2, <1>3, HeadersLine
<1>5. Len(Form(parts)) \in Nat /\ pos \in Nat
    BY <1>2, <1>3, NextPart
<1>6. ReadFrom(Form(parts), pos) /\ out = <<>> /\ out \in Cells
    BY <1>1, <1>2 DEF Reading
<1>7. PICK e : e = LineEnd
    OBVIOUS
<1>8. ReadFrom(Form(parts), pos + e)' /\ pos + e \in Nat
    <2>1. e \in 0..Len(buf) /\ buf' = Skip(buf, e)
        BY <1>1, <1>4, <1>7
    <2> QED
        BY <1>1, <1>5, <1>6, <2>1, Advance
<1>9. Stage(parts, off, i, pos + e)'
    <2> HIDE DEF p, o
    <2>1. CASE pos = o + 3 /\ LineEnd = 4 /\ part = NoPart
        <3>1. /\ Line # <<>> /\ Line[1] = DISPOSITION /\ Line[2] = p.field /\ Line[3] = p.filename
              /\ pos + e = o + 7
            <4>1. o + 3 # o + 7 /\ o + 3 # o + 9 /\ o + 3 + 4 = o + 7
                BY <1>4
            <4> QED
                BY <1>4, <1>7, <2>1, <4>1
        <3>2. /\ part.field = NoName /\ part.filename = NoName
              /\ Disposition(Line).field = p.field /\ Disposition(Line).filename = p.filename
            BY <2>1, <3>1 DEF NoPart, Disposition
        <3>3. part' = [field |-> p.field,
                       filename |-> IF p.filename # NoName THEN p.filename ELSE NoName]
            BY <3>1, <3>2 DEF HeaderLine
        <3>4. part' = Shown(p)
            BY <3>3 DEF Shown
        <3>5. reader' = "headers"
            BY <1>1, <3>1
        <3> QED
            BY <1>4, <3>1, <3>4, <3>5 DEF Stage, p, o
    <2>2. CASE pos = o + 7 /\ LineEnd = 2 /\ part = Shown(p) /\ Line # <<>> /\ Line[1] # DISPOSITION
        <3>1. part' = Shown(p) /\ reader' = "headers"
            BY <1>1, <2>2 DEF HeaderLine
        <3>2. pos + e = o + 9
            BY <1>4, <1>7, <2>2
        <3> QED
            BY <1>4, <3>1, <3>2 DEF Stage, p, o
    <2>3. CASE pos = o + 9 /\ LineEnd = 1 /\ part = Shown(p) /\ Line = <<>>
        <3>1. part' = Shown(p) /\ reader' = "body"
            BY <1>1, <2>3 DEF HeaderLine
        <3>2. out' = <<>> /\ Len(out') = 0
            BY <1>1, <1>6
        <3>3. pos + e = o + 10 + Len(out') /\ \A j \in 1..Len(out') : FALSE
            BY <1>4, <1>7, <2>3, <3>2
        <3>4. Len(out') <= Len(p.data)
            <4>1. i + 1 \in 1..Len(parts) /\ IsPart(p)
                BY <1>2, <1>3, <1>4, NextPart DEF p
            <4> QED
                BY <3>2, <4>1 DEF IsPart, Cells
        <3> QED
            BY <1>4, <3>1, <3>3, <3>4 DEF Stage, p, o
    <2> QED
        BY <1>4, <2>1, <2>2, <2>3
<1> QED
    <2>1. out' \in Cells /\ (reader' # "body" => out' = <<>>)
        BY <1>1, <1>6
    <2> QED
        BY <1>1, <1>2, <1>3, <1>8, <1>9, <2>1, ReadsOn

\* All but the tail is handed on.
LEMMA FlushStep == ASSUME PostInv, Flush PROVE PostInv'
<1>1. /\ reader = "body" /\ reader \in Busy /\ reader' = reader /\ part' = part
      /\ FindIn(buf, Needle) = 0 /\ Len(buf) > Kept
      /\ out' = out \o SubSeq(buf, 1, Len(buf) - Kept)
      /\ buf' = Skip(buf, Len(buf) - Kept)
      /\ UNCHANGED <<request, wire, gone, fields, files, answer>>
    BY DEF Flush, Busy
<1>2. PICK parts, off, count, i, pos : Reading(parts, off, count, i, pos)
    BY <1>1, InTheMiddle
<1>3. request \in Requests /\ request.path = "upload" /\ answer = 0
    BY <1>1, InTheMiddle
<1> DEFINE p == parts[i + 1]
           o == off[i]
           L == Len(p.data)
           cells == Form(parts)
<1>4. /\ i < Len(parts) /\ L \in Nat /\ Len(out) \in 0..L /\ o \in Nat
      /\ pos = o + 10 + Len(out) /\ Len(buf) \in Nat
      /\ \A j \in 1..L : cells[o + 10 + j] = p.data[j]
      /\ Len(buf) < L - Len(out) + 3
    BY <1>1, <1>2, <1>3, BodyData
<1>5. Len(cells) \in Nat /\ pos \in Nat
    BY <1>2, <1>3, NextPart
<1>6. /\ ReadFrom(cells, pos) /\ out \in Cells /\ part = Shown(p)
      /\ \A j \in 1..Len(out) : out[j] = p.data[j]
    BY <1>1, <1>2 DEF Reading, Stage
<1>7. buf \in Cells /\ \A j \in 1..Len(buf) : buf[j] = cells[pos + j]
    BY <1>6 DEF ReadFrom
<1>8. Kept = 3
    BY NeedleCells DEF Kept
<1>9. PICK n : n = Len(buf) - Kept
    OBVIOUS
<1> HIDE DEF p, o, L, cells
<1>10. n \in 1..Len(buf) /\ n \in Nat /\ n < L - Len(out)
    BY <1>1, <1>4, <1>8, <1>9
<1> DEFINE piece == SubSeq(buf, 1, n)
<1>11. piece \in Cells /\ Len(piece) = n /\ \A j \in 1..n : piece[j] = buf[j]
    <2>1. /\ 1 \in 1..Len(buf) + 1 /\ n \in 0..Len(buf) /\ 1 <= n + 1 /\ n - 1 + 1 = n
          /\ \A j \in 1..n : 1 + j - 1 = j
        BY <1>4, <1>10
    <2>2. piece \in Cells /\ Len(piece) = n - 1 + 1 /\ \A j \in 1..n - 1 + 1 : piece[j] = buf[1 + j - 1]
        BY <1>7, <2>1, PieceIs
    <2> QED
        BY <2>1, <2>2
<1>12. out' = out \o piece
    BY <1>1, <1>9
<1> HIDE DEF piece
<1>13. /\ out' \in Cells /\ Len(out') = Len(out) + n
       /\ \A j \in 1..Len(out) : out'[j] = out[j]
       /\ \A j \in Len(out) + 1..Len(out) + n : out'[j] = piece[j - Len(out)]
    BY <1>6, <1>11, <1>12, Behind
<1>14. ASSUME NEW j \in 1..Len(out') PROVE out'[j] = p.data[j]
    <2>1. CASE j \in 1..Len(out)
        BY <1>6, <1>13, <2>1
    <2>2. CASE j \notin 1..Len(out)
        <3>1. /\ j \in Len(out) + 1..Len(out) + n /\ j - Len(out) \in 1..n
              /\ j - Len(out) \in 1..Len(buf) /\ j \in 1..L
              /\ pos + (j - Len(out)) = o + 10 + j
            BY <1>4, <1>10, <1>13, <2>2
        <3> QED
            <4> DEFINE k == j - Len(out)
            <4>1. out'[j] = piece[k] /\ k \in 1..n /\ k \in 1..Len(buf)
                BY <1>13, <3>1
            <4>2. piece[k] = buf[k] /\ buf[k] = cells[pos + k]
                BY <1>7, <1>11, <4>1
            <4>3. cells[pos + k] = p.data[j]
                BY <1>4, <3>1
            <4> QED
                BY <4>1, <4>2, <4>3
    <2> QED
        BY <2>1, <2>2
<1>15. ReadFrom(cells, pos + n)' /\ pos + n \in Nat
    <2>1. n \in 0..Len(buf) /\ buf' = Skip(buf, n)
        BY <1>1, <1>9, <1>10
    <2> QED
        BY <1>1, <1>5, <1>6, <2>1, Advance DEF cells
<1>16. Stage(parts, off, i, pos + n)'
    <2>1. Len(out') <= L /\ pos + n = o + 10 + Len(out')
        <3> DEFINE d == Len(out)
        <3>1. d \in Nat /\ L \in Nat /\ o \in Nat /\ n \in Nat /\ pos = o + 10 + d /\ Len(out') = d + n /\ n < L - d
            BY <1>4, <1>10, <1>13
        <3>2. Len(out') <= L
            <4> HIDE DEF d
            <4> QED
                BY <3>1
        <3>3. pos + n = o + 10 + Len(out')
            <4> HIDE DEF d
            <4> QED
                BY <3>1
        <3> QED
            BY <3>2, <3>3
    <2> QED
        BY <1>1, <1>4, <1>6, <1>14, <2>1 DEF Stage, p, o, L
<1>17. reader' \in Busy /\ (reader' # "body" => out' = <<>>)
    BY <1>1
<1> QED
    BY <1>1, <1>2, <1>3, <1>13, <1>15, <1>16, <1>17, ReadsOn DEF cells

\* The data of the part is all there.
LEMMA EndPartStep == ASSUME PostInv, EndPart PROVE PostInv'
<1>1. PICK at : at = FindIn(buf, Needle)
    OBVIOUS
<1>2. /\ reader = "body" /\ reader \in Busy /\ at # 0
      /\ PartDone(out \o SubSeq(buf, 1, at - 1), "boundary")
      /\ buf' = Skip(buf, at) /\ UNCHANGED <<request, wire, gone, part>>
    BY <1>1 DEF EndPart, Busy
<1>3. PICK parts, off, count, i, pos : Reading(parts, off, count, i, pos)
    BY <1>2, InTheMiddle
<1>4. request \in Requests /\ request.path = "upload" /\ answer = 0
    BY <1>2, InTheMiddle
<1> DEFINE p == parts[i + 1]
           o == off[i]
           L == Len(p.data)
           cells == Form(parts)
           piece == SubSeq(buf, 1, at - 1)
           data == out \o piece
<1>5. /\ i < Len(parts) /\ L \in Nat /\ Len(out) \in 0..L /\ o \in Nat
      /\ off[i + 1] = o + L + 11 /\ pos = o + 10 + Len(out) /\ Len(buf) \in Nat
      /\ \A j \in 1..L : cells[o + 10 + j] = p.data[j]
      /\ at = L - Len(out) + 1 /\ at + 2 <= Len(buf)
    BY <1>1, <1>2, <1>3, <1>4, BodyData
<1>6. /\ Len(cells) \in Nat /\ pos \in Nat /\ parts = request.parts /\ IsPart(p)
      /\ i + 1 \in 0..Len(parts) /\ i \in Nat
    BY <1>3, <1>4, <1>5, NextPart
<1>7. /\ ReadFrom(cells, pos) /\ out \in Cells /\ FormLaid(parts, cells, off)
      /\ FilesLaid(parts, count) /\ \A j \in 1..Len(out) : out[j] = p.data[j]
    BY <1>2, <1>3 DEF Reading, Stage
<1>8. buf \in Cells /\ \A j \in 1..Len(buf) : buf[j] = cells[pos + j]
    BY <1>7 DEF ReadFrom
<1>9. p.data \in Cells
    BY <1>6 DEF IsPart
<1> HIDE DEF p, o, L, cells
<1>10. at \in Nat /\ at \in 0..Len(buf) /\ Len(out) + (at - 1) = L /\ at - 1 \in Nat
    BY <1>5
<1>11. piece \in Cells /\ Len(piece) = at - 1 /\ \A j \in 1..at - 1 : piece[j] = buf[j]
    <2>1. /\ 1 \in 1..Len(buf) + 1 /\ at - 1 \in 0..Len(buf) /\ 1 <= at - 1 + 1
          /\ at - 1 - 1 + 1 = at - 1 /\ \A j \in 1..at - 1 : 1 + j - 1 = j
        BY <1>5, <1>10
    <2>2. /\ piece \in Cells /\ Len(piece) = at - 1 - 1 + 1
          /\ \A j \in 1..at - 1 - 1 + 1 : piece[j] = buf[1 + j - 1]
        BY <1>8, <2>1, PieceIs
    <2> QED
        BY <2>1, <2>2
<1> HIDE DEF piece
<1>12. /\ data \in Cells /\ Len(data) = L
       /\ \A j \in 1..Len(out) : data[j] = out[j]
       /\ \A j \in Len(out) + 1..L : data[j] = piece[j - Len(out)]
    <2>1. /\ data \in Cells /\ Len(data) = Len(out) + Len(piece)
          /\ \A j \in 1..Len(out) : data[j] = out[j]
          /\ \A j \in Len(out) + 1..Len(out) + Len(piece) : data[j] = piece[j - Len(out)]
        BY <1>7, <1>11, Behind
    <2> HIDE DEF data
    <2>2. Len(out) + Len(piece) = L
        BY <1>10, <1>11
    <2> QED
        BY <2>1, <2>2
<1>13. PartDone(data, "boundary")
    BY <1>2 DEF piece
<1> HIDE DEF data
<1>14. ASSUME NEW j \in 1..L PROVE data[j] = p.data[j]
    <2>1. CASE j \in 1..Len(out)
        BY <1>7, <1>12, <2>1
    <2>2. CASE j \notin 1..Len(out)
        <3> DEFINE k == j - Len(out)
        <3>1. j \in Len(out) + 1..L /\ k \in 1..at - 1 /\ k \in 1..Len(buf) /\ pos + k = o + 10 + j
            BY <1>5, <1>10, <2>2
        <3>2. data[j] = piece[k]
            BY <1>12, <3>1
        <3>3. piece[k] = buf[k] /\ buf[k] = cells[pos + k]
            BY <1>8, <1>11, <3>1
        <3>4. cells[pos + k] = p.data[j]
            BY <1>5, <3>1
        <3> QED
            BY <3>2, <3>3, <3>4
    <2> QED
        BY <2>1, <2>2
<1>15. data = p.data
    BY <1>9, <1>12, <1>14, SeqEqual DEF Cells, L
<1>16. /\ files \in Seq(SavedFile) /\ fields \in AllFields /\ FilesNamed
    BY DEF PostInv
<1>17. /\ files' \in Seq(SavedFile) /\ fields' \in AllFields /\ FilesNamed'
       /\ Len(files)' = count[i + 1] /\ WholeUpTo(Len(files) - 1)' /\ WholeUpTo(Len(files))'
       /\ out' = <<>>
       /\ \/ reader' = "closed" /\ answer' = 400
          \/ /\ reader' = "boundary" /\ answer' = answer
             /\ \A name \in DeviceFields : KeptField(parts, i + 1, name)'
    BY <1>2, <1>3, <1>4, <1>12, <1>13, <1>15, <1>16, PartEnds DEF p
<1>18. CASE reader' = "closed" /\ answer' = 400
    <2>1. Over'
        BY <1>17, <1>18 DEF Over
    <2> QED
        BY <1>2, <1>4, <1>17, <1>18, <2>1 DEF PostInv
<1>19. CASE /\ reader' = "boundary" /\ answer' = answer
            /\ \A name \in DeviceFields : KeptField(parts, i + 1, name)'
    <2>1. ReadFrom(cells, pos + at)' /\ pos + at \in Nat
        BY <1>2, <1>6, <1>7, <1>10, Advance DEF cells
    <2>2. pos + at = off[i + 1]
        BY <1>5, <1>10
    <2>3. Stage(parts, off, i + 1, pos + at)'
        BY <1>19, <2>2 DEF Stage
    <2>4. out' \in Cells
        BY <1>17 DEF Cells
    <2>5. "device_id" \in DeviceFields /\ "device_label" \in DeviceFields
        BY DEF DeviceFields
    <2>6. parts = request'.parts
        BY <1>2, <1>6
    <2>7. Reading(parts, off, count, i + 1, pos + at)'
        BY <1>6, <1>7, <1>17, <1>19, <2>1, <2>3, <2>4, <2>5, <2>6 DEF Reading, cells
    <2>8. \E ps, os, cs, k, at2 : Reading(ps, os, cs, k, at2)'
        BY <2>7
    <2> QED
        BY <1>2, <1>4, <1>17, <1>19, <2>8 DEF PostInv
<1> QED
    BY <1>17, <1>18, <1>19

\* There is no more: only of a browser that has gone.
LEMMA StarvedStep == ASSUME PostInv, Starved PROVE PostInv'
<1>1. /\ reader \in Busy /\ wire = <<>> /\ UNCHANGED <<request, wire, gone, part>>
      /\ reader \in {"first", "headers", "boundary"} => LineEnd = 0
      /\ reader = "body" => FindIn(buf, Needle) = 0
    BY DEF Starved, Hungry, Busy
<1>2. PICK parts, off, count, i, pos : Reading(parts, off, count, i, pos)
    BY <1>1, InTheMiddle
<1>3. request \in Requests /\ request.path = "upload" /\ answer = 0
    BY <1>1, InTheMiddle
<1>4. gone # "no"
    <2>1. CASE reader \in {"first", "boundary"}
        BY <1>1, <1>2, <1>3, <2>1, DelimiterLine
    <2>2. CASE reader = "headers"
        BY <1>1, <1>2, <1>3, <2>2, HeadersLine
    <2>3. CASE reader = "body"
        BY <1>1, <1>2, <1>3, <2>3, BodyData
    <2> QED
        BY <1>1, <2>1, <2>2, <2>3 DEF Busy
<1>5. CASE Answer(400) /\ UNCHANGED <<fields, files>>
    <2>1. reader' = "closed" /\ answer' = 400
        BY <1>5 DEF Answer
    <2> QED
        BY <1>1, <1>5, <2>1, ReaderEnds
<1>6. CASE reader = "body" /\ PartDone(out \o buf, "finished")
    <2>1. out \o buf \in Cells
        <3>1. out \in Cells /\ buf \in Cells
            BY <1>2 DEF Reading, ReadFrom
        <3> QED
            BY <3>1, Behind
    <2>2. /\ files \in Seq(SavedFile) /\ fields \in AllFields /\ FilesNamed
        BY DEF PostInv
    <2>3. /\ files' \in Seq(SavedFile) /\ fields' \in AllFields /\ FilesNamed'
          /\ WholeUpTo(Len(files) - 1)' /\ reader' \in {"finished", "closed"}
        BY <1>1, <1>2, <1>3, <1>6, <2>1, <2>2, PartEnds
    <2>4. gone' # "no"
        BY <1>1, <1>4
    <2>5. Over'
        BY <2>3, <2>4 DEF Over
    <2> QED
        BY <1>1, <1>3, <2>3, <2>5 DEF PostInv
<1>7. CASE reader = "boundary" /\ reader' = "headers" /\ UNCHANGED <<buf, out, fields, files, answer>>
    <2>1. /\ ReadFrom(Form(parts), pos) /\ pos \in Nat /\ out \in Cells /\ out = <<>>
        BY <1>2, <1>7 DEF Reading
    <2>2. ReadFrom(Form(parts), pos)'
        BY <1>1, <1>7, <2>1 DEF ReadFrom
    <2>3. LineEnd' = 0
        BY <1>1, <1>7 DEF LineEnd
    <2>4. Stage(parts, off, i, pos)'
        BY <1>1, <1>4, <1>7, <2>3 DEF Stage
    <2>5. reader' \in Busy /\ out' \in Cells /\ (reader' # "body" => out' = <<>>)
        BY <1>7, <2>1 DEF Busy
    <2> QED
        BY <1>1, <1>2, <1>3, <1>7, <2>1, <2>2, <2>4, <2>5, ReadsOn
<1> QED
    BY <1>5, <1>6, <1>7 DEF Starved

LEMMA NextPost == ASSUME PostInv, [PostNext]_postVars PROVE PostInv'
<1>1. CASE HeadMissing
    <2>1. /\ UNCHANGED <<request, fields, files, answer>> /\ reader' = "closed"
          /\ files = <<>> /\ answer = 0
        BY <1>1 DEF HeadMissing, PostInv, Start
    <2> QED
        BY <2>1, ReaderEnds
<1>2. CASE Finish
    <2>1. /\ reader = "finished" /\ reader' = "closed" /\ answer' = 200
          /\ UNCHANGED <<request, gone, fields, files>> /\ Over
        BY <1>2 DEF Finish, Answer, PostInv
    <2>2. Over'
        BY <2>1, Unchanging DEF Over
    <2> QED
        BY <2>1, <2>2, Unchanging DEF PostInv
<1>3. CASE UNCHANGED postVars
    <2>1. /\ UNCHANGED <<request, fields, files, answer, gone, wire, buf, reader, part, out>>
        BY <1>3 DEF postVars
    <2>2. CASE reader = "head"
        <3>1. Start'
            BY <2>1, <2>2 DEF PostInv, Start
        <3> QED
            BY <2>1, <2>2, <3>1, Unchanging DEF PostInv
    <2>3. CASE reader \in Busy
        <3>1. PICK parts, off, count, i, pos : Reading(parts, off, count, i, pos)
            BY <2>3, InTheMiddle
        <3>2. /\ ReadFrom(Form(parts), pos) /\ pos \in Nat /\ Stage(parts, off, i, pos)
              /\ out \in Cells /\ (reader # "body" => out = <<>>)
            BY <3>1 DEF Reading
        <3>3. ReadFrom(Form(parts), pos)' /\ Stage(parts, off, i, pos)'
            BY <2>1, <3>2 DEF ReadFrom, Stage, LineEnd
        <3> QED
            BY <2>1, <2>3, <3>1, <3>2, <3>3, InTheMiddle, ReadsOn
    <2>4. CASE reader \in {"finished", "closed"}
        <3>1. Over'
            BY <2>1, <2>4, Unchanging DEF PostInv, Over
        <3> QED
            BY <2>1, <2>4, <3>1, Unchanging DEF PostInv
    <2> QED
        BY <2>2, <2>3, <2>4 DEF PostInv, Busy
<1> QED
    BY <1>1, <1>2, <1>3, FillStep, HandleHeadStep, StarvedStep, FirstLineStep, HeaderLineStep,
       FlushStep, EndPartStep, BoundaryLineStep, BrowserGoesStep DEF PostNext, ReaderStep

\* The guest's files arrive as they were sent, with the guest's fields, for any
\* form, any fields, names and data, however it is cut into pieces and wherever
\* the browser goes away (MultipartReader, receive_upload).
THEOREM FormsArriveAsSent == PostSpec => []PartsArriveAsSent
<1>1. PostInv => PartsArriveAsSent
    <2> SUFFICES ASSUME PostInv PROVE PartsArriveAsSent
        OBVIOUS
    <2>1. Len(files) \in Nat /\ DOMAIN files = 1..Len(files) /\ FilesNamed
        BY LenProperties DEF PostInv
    <2>2. WholeUpTo(Len(files) - 1) /\ (gone = "no" => WholeUpTo(Len(files)))
        <3>1. CASE reader = "head"
            BY <3>1 DEF PostInv, Start, WholeUpTo
        <3>2. CASE reader \in Busy
            <4>1. WholeUpTo(Len(files))
                BY <3>2, InTheMiddle DEF Reading
            <4> QED
                BY <2>1, <4>1 DEF WholeUpTo
        <3>3. CASE reader \in {"finished", "closed"}
            BY <3>3 DEF PostInv, Over
        <3> QED
            BY <3>1, <3>2, <3>3 DEF PostInv, Busy
    <2>3. ASSUME NEW k \in DOMAIN files, gone = "no" \/ k < Len(files)
          PROVE  files[k].data = FileParts(request.parts)[k].data
        <3>1. k \in 1..Len(files) /\ (k < Len(files) => k \in 1..Len(files) - 1)
            BY <2>1
        <3> QED
            BY <2>2, <2>3, <3>1 DEF WholeUpTo
    <2>4. answer = 200 /\ request.path = "upload" /\ gone = "no"
             => Len(files) = Len(FileParts(request.parts))
        BY DEF PostInv, Start, Over
    <2> QED
        BY <2>1, <2>3, <2>4 DEF PartsArriveAsSent, FilesNamed
<1> QED
    BY <1>1, InitPost, NextPost, PTL DEF PostSpec

=============================================================================
