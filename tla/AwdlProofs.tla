------------------------------ MODULE AwdlProofs ------------------------------
(***************************************************************************)
(* That a frame of OWDL is read as it was written; that a manager which    *)
(* says Running is served; and that a peer table holds what other daemons  *)
(* announce, for any machines, names, starts and stops.                    *)
(*                                                                         *)
(* ParseAll calls itself; that it is defined, and by which equation, is    *)
(* shown by taking the shortest bytes for which it would not be.           *)
(***************************************************************************)
EXTENDS Awdl, SequenceTheorems, WellFoundedInduction, TLAPS

-----------------------------------------------------------------------------
(* The frames.                                                             *)

\* A nonempty set of numbers has a least one.
LEMMA SetMinimum ==
    ASSUME NEW S \in SUBSET Nat, S # {}
    PROVE  \E i \in S : \A j \in S : i <= j
<1>1. PICK R : /\ IsWellFoundedOn(R, Nat)
               /\ \A i, j \in Nat : j < i => <<j, i>> \in R
    <2>1. \A i, j \in Nat : j < i => <<j, i>> \in OpToRel(<, Nat)
        BY DEF OpToRel
    <2> QED
        BY <2>1, NatLessThanWellFounded
<1>2. PICK i \in S : \A j \in S : ~ (<<j, i>> \in R)
    BY <1>1, WFMin
<1>3. \A j \in S : ~ (j < i)
    BY <1>1, <1>2
<1> QED
    BY <1>3

\* One turn of Tlv::parse_all, with f for the turns after it.
ParseTurn(f, b) ==
    IF Len(b) < 3 THEN <<>>
    ELSE LET value == Read(b, 4, Value(SubSeq(b, 2, 3)))
         IN  IF value = None THEN <<>>
             ELSE <<[ty |-> b[1], value |-> value]>> \o f[Rest(b, Len(value) + 4)]

Shorter(n) == {b \in Seq(Byte) : Len(b) < n}

\* f parses everything shorter than n.
Parses(n, f) == f = [b \in Shorter(n) |-> ParseTurn(f, b)]

\* What is left after one TLV is shorter.
LEMMA RestIsShorter ==
    ASSUME NEW b \in Seq(Byte), Len(b) >= 3,
           LET value == Read(b, 4, Value(SubSeq(b, 2, 3)))
           IN  value # None
    PROVE  LET value == Read(b, 4, Value(SubSeq(b, 2, 3)))
           IN  Rest(b, Len(value) + 4) \in Shorter(Len(b))
<1> DEFINE k == Value(SubSeq(b, 2, 3))
<1>0. Len(b) \in Nat /\ \A i \in 1..Len(b) : b[i] \in Byte
    BY LenProperties, ElementOfSeq
<1>1. k \in Nat
    <2>1. /\ Len(SubSeq(b, 2, 3)) = 2 /\ SubSeq(b, 2, 3)[1] \in Byte /\ SubSeq(b, 2, 3)[2] \in Byte
        BY <1>0
    <2>2. ASSUME NEW s, Len(s) = 2, s[1] \in Byte, s[2] \in Byte PROVE Value(s) \in Nat
        <3>1. Value(s) = 256 * s[1] + s[2]
            BY <2>2 DEF Value
        <3>2. s[1] \in Nat /\ s[2] \in Nat
            <4>1. \A x \in Byte : x \in Nat
                BY DEF Byte
            <4> QED
                BY <2>2, <4>1
        <3> QED
            BY <3>1, <3>2, SMT
    <2> QED
        BY <2>1, <2>2
<1> HIDE DEF k
<1>2. k + 3 <= Len(b) /\ Read(b, 4, k) = SubSeq(b, 4, k + 3)
    BY <1>0, <1>1 DEF Read, k
<1>3. Len(SubSeq(b, 4, k + 3)) = k
    <2>1. \A i \in 4..(k + 3) : b[i] \in Byte
        BY <1>0, <1>1, <1>2
    <2> QED
        BY <1>1, <2>1, SubSeqProperties
<1>4. /\ SubSeq(b, k + 4, Len(b)) \in Seq(Byte)
      /\ Len(SubSeq(b, k + 4, Len(b))) < Len(b)
    <2>1. \A i \in (k + 4)..Len(b) : b[i] \in Byte
        BY <1>0, <1>1
    <2> QED
        BY <1>0, <1>1, <1>2, <2>1, SubSeqProperties
<1>5. Rest(b, Len(Read(b, 4, k)) + 4) = SubSeq(b, k + 4, Len(b))
    BY <1>2, <1>3 DEF Rest
<1> QED
    BY <1>4, <1>5 DEF Shorter, k

\* A turn depends on the turns for what is shorter only.
LEMMA TurnUses ==
    ASSUME NEW b \in Seq(Byte), NEW f, NEW g, \A c \in Shorter(Len(b)) : f[c] = g[c]
    PROVE  ParseTurn(f, b) = ParseTurn(g, b)
BY RestIsShorter DEF ParseTurn

\* The bytes shorter than n, and those shorter than one of them.
LEMMA ShorterGrows ==
    ASSUME NEW n \in Nat, NEW b \in Shorter(n)
    PROVE  /\ b \in Seq(Byte) /\ Len(b) \in Nat /\ Len(b) < n
           /\ \A c \in Shorter(Len(b)) : c \in Shorter(n)
BY LenProperties DEF Shorter

\* Two functions that parse what is shorter agree where both do.
LEMMA ParsesUnique ==
    ASSUME NEW n \in Nat, NEW m \in Nat, NEW f, NEW g, Parses(n, f), Parses(m, g),
           NEW b0 \in Shorter(n), b0 \in Shorter(m)
    PROVE  f[b0] = g[b0]
<1> DEFINE S == {k \in Nat : \E b \in Shorter(n) \cap Shorter(m) : Len(b) = k /\ f[b] # g[b]}
<1>1. SUFFICES ASSUME S # {} PROVE FALSE
    BY ShorterGrows
<1>2. S \in SUBSET Nat
    OBVIOUS
<1> HIDE DEF S
<1>3. PICK k \in S : \A j \in S : k <= j
    BY <1>1, <1>2, SetMinimum
<1> USE DEF S
<1>4. PICK b \in Shorter(n) \cap Shorter(m) : Len(b) = k /\ f[b] # g[b]
    BY <1>3
<1>5. \A c \in Shorter(Len(b)) : f[c] = g[c]
    <2> SUFFICES ASSUME NEW c \in Shorter(Len(b)), f[c] # g[c] PROVE FALSE
        OBVIOUS
    <2>1. c \in Shorter(n) \cap Shorter(m) /\ Len(c) \in Nat /\ Len(c) < k
        BY <1>4, ShorterGrows
    <2>2. Len(c) \in S
        BY <2>1
    <2> QED
        BY <1>3, <2>1, <2>2
<1>6. ParseTurn(f, b) = ParseTurn(g, b)
    BY <1>4, <1>5, ShorterGrows, TurnUses
<1>7. f[b] = ParseTurn(f, b) /\ g[b] = ParseTurn(g, b)
    BY <1>4 DEF Parses
<1> QED
    BY <1>4, <1>6, <1>7

\* For each length there is one: the function for what is shorter gives the next.
LEMMA ParsesExists ==
    ASSUME NEW n0 \in Nat
    PROVE  \E f : Parses(n0, f)
<1> DEFINE S == {n \in Nat : ~ \E f : Parses(n, f)}
<1>1. SUFFICES ASSUME S # {} PROVE FALSE
    OBVIOUS
<1>2. S \in SUBSET Nat
    OBVIOUS
<1> HIDE DEF S
<1>3. PICK n \in S : \A j \in S : n <= j
    BY <1>1, <1>2, SetMinimum
<1> USE DEF S
<1>4. n # 0
    <2>1. Shorter(0) = {}
        BY ShorterGrows
    <2>2. Parses(0, [b \in {} |-> 0])
        <3>1. [b \in Shorter(0) |-> ParseTurn([c \in {} |-> 0], b)] = [b \in {} |-> 0]
            BY <2>1
        <3> QED
            BY <3>1 DEF Parses
    <2> QED
        BY <2>2
<1>5. PICK f : Parses(n - 1, f)
    BY <1>3, <1>4
<1> DEFINE g == [b \in Shorter(n) |-> ParseTurn(f, b)]
<1>6. ASSUME NEW b \in Shorter(n) PROVE ParseTurn(f, b) = ParseTurn(g, b)
    <2>1. ASSUME NEW c \in Shorter(Len(b)) PROVE f[c] = g[c]
        <3>1. c \in Shorter(n - 1) /\ c \in Shorter(n)
            BY <1>4, ShorterGrows DEF Shorter
        <3>2. f[c] = ParseTurn(f, c)
            BY <1>5, <3>1 DEF Parses
        <3> QED
            BY <3>1, <3>2
    <2> HIDE DEF g
    <2> QED
        BY <2>1, ShorterGrows, TurnUses
<1>7. g = [b \in Shorter(n) |-> ParseTurn(g, b)]
    BY <1>6
<1> HIDE DEF g
<1>8. Parses(n, g)
    BY <1>7 DEF Parses
<1> QED
    BY <1>8

\* Tlv::parse_all goes on with what is left.
LEMMA ParseAllTurns == ParseAll = [b \in Seq(Byte) |-> ParseTurn(ParseAll, b)]
<1> DEFINE Upto(b) == CHOOSE f : Parses(Len(b) + 1, f)
           F == [b \in Seq(Byte) |-> Upto(b)[b]]
<1>1. ASSUME NEW b \in Seq(Byte)
      PROVE  Parses(Len(b) + 1, Upto(b)) /\ Len(b) + 1 \in Nat /\ b \in Shorter(Len(b) + 1)
    <2>1. Len(b) \in Nat
        BY LenProperties
    <2>2. \E f : Parses(Len(b) + 1, f)
        BY <2>1, ParsesExists
    <2> QED
        BY <2>1, <2>2 DEF Shorter
<1> HIDE DEF Upto
<1>2. ASSUME NEW b \in Seq(Byte) PROVE F[b] = ParseTurn(F, b)
    <2> DEFINE f == Upto(b)
    <2>1. f[b] = ParseTurn(f, b)
        BY <1>1 DEF Parses
    <2>2. ASSUME NEW c \in Shorter(Len(b)) PROVE f[c] = F[c]
        <3>1. c \in Seq(Byte) /\ c \in Shorter(Len(b) + 1)
            BY LenProperties DEF Shorter
        <3>2. Upto(c)[c] = f[c]
            <4> HIDE DEF f
            <4>1. Parses(Len(b) + 1, f)
                BY <1>1 DEF f
            <4> QED
                BY <1>1, <3>1, <4>1, ParsesUnique
        <3> QED
            BY <3>1, <3>2
    <2>3. F[b] = f[b]
        OBVIOUS
    <2> HIDE DEF F, f
    <2> QED
        BY <2>1, <2>2, <2>3, TurnUses
<1>3. F = [b \in Seq(Byte) |-> ParseTurn(F, b)]
    BY <1>2
<1> HIDE DEF F
<1>4. \E f : f = [b \in Seq(Byte) |-> ParseTurn(f, b)]
    BY <1>3
<1> QED
    BY <1>4 DEF ParseAll, ParseTurn

-----------------------------------------------------------------------------
(* What is written is read back *)

\* A length that fits a u16.
Fits(n) == n \in Nat /\ n < 65536

\* A number is read as it was written, in as many bytes.
LEMMA NumberIs ==
    ASSUME NEW k \in Nat, k >= 2, NEW n, Fits(n)
    PROVE  /\ Number(k, n) \in Seq(Byte) /\ Len(Number(k, n)) = k
           /\ Value(Number(k, n)) = n
<1> DEFINE q == n \div 256
           r == n - 256 * q
<1>1. n % 256 = r /\ q % 256 = q /\ r \in Byte /\ q \in Byte /\ 256 * q + r = n
    <2>1. n \in Nat /\ q \in Nat /\ n >= 256 * q /\ n < 256 * q + 256 /\ q < 256
        BY SMT DEF Fits
    <2> HIDE DEF q
    <2>2. r \in Nat /\ r < 256 /\ n = 256 * q + r
        BY <2>1, SMT
    <2> HIDE DEF r
    <2>3. n % 256 = r /\ q % 256 = q
        BY <2>1, <2>2, SMT
    <2>4. q \in Byte /\ r \in Byte
        BY <2>1, <2>2, SMT DEF Byte
    <2> QED
        BY <2>2, <2>3, <2>4, SMT
<1>0. 0 \in Byte
    BY SMT DEF Byte
<1>2. Number(k, n) \in [1..k -> Byte]
    BY <1>0, <1>1 DEF Number
<1>3. Number(k, n)[k] = n % 256 /\ Number(k, n)[k - 1] = (n \div 256) % 256
    BY DEF Number
<1>4. Number(k, n) \in Seq(Byte) /\ Len(Number(k, n)) = k
    BY <1>2, SeqDef, LenProperties
<1> QED
    BY <1>1, <1>3, <1>4 DEF Value

\* Where the parts of two concatenated byte strings are.
LEMMA Split ==
    ASSUME NEW s \in Seq(Byte), NEW t \in Seq(Byte)
    PROVE  /\ Len(s) \in Nat /\ Len(t) \in Nat
           /\ s \o t \in Seq(Byte) /\ Len(s \o t) = Len(s) + Len(t)
           /\ \A i \in 1..Len(s) : (s \o t)[i] = s[i]
           /\ \A i \in 1..Len(t) : (s \o t)[Len(s) + i] = t[i]
           /\ SubSeq(s \o t, 1, Len(s)) = s
           /\ SubSeq(s \o t, Len(s) + 1, Len(s \o t)) = t
<1>0. /\ Len(s) \in Nat /\ Len(t) \in Nat
      /\ s \o t \in Seq(Byte) /\ Len(s \o t) = Len(s) + Len(t)
      /\ \A i \in 1..(Len(s) + Len(t)) :
            (s \o t)[i] = IF i <= Len(s) THEN s[i] ELSE t[i - Len(s)]
    BY ConcatProperties, LenProperties
<1>1. \A i \in 1..Len(s \o t) : (s \o t)[i] \in Byte
    BY <1>0, ElementOfSeq
<1>2. SubSeq(s \o t, 1, Len(s)) = s
    <2> DEFINE u == SubSeq(s \o t, 1, Len(s))
    <2>1. u \in Seq(Byte) /\ Len(u) = Len(s) /\ \A i \in 1..Len(s) : u[i] = (s \o t)[i]
        BY <1>0, <1>1, SubSeqProperties
    <2>2. \A i \in 1..Len(u) : u[i] = s[i]
        BY <1>0, <2>1
    <2> HIDE DEF u
    <2>3. u = s
        BY <2>1, <2>2, SeqEqual
    <2> QED
        BY <2>3 DEF u
<1>3. SubSeq(s \o t, Len(s) + 1, Len(s \o t)) = t
    <2> DEFINE u == SubSeq(s \o t, Len(s) + 1, Len(s \o t))
    <2>1. u \in Seq(Byte) /\ Len(u) = Len(t) /\ \A i \in 1..Len(t) : u[i] = (s \o t)[Len(s) + i]
        BY <1>0, <1>1, SubSeqProperties
    <2>2. \A i \in 1..Len(u) : u[i] = t[i]
        BY <1>0, <2>1
    <2> HIDE DEF u
    <2>3. u = t
        BY <2>1, <2>2, SeqEqual
    <2> QED
        BY <2>3 DEF u
<1>4. \A i \in 1..Len(s) : (s \o t)[i] = s[i]
    BY <1>0
<1>5. \A i \in 1..Len(t) : (s \o t)[Len(s) + i] = t[i]
    BY <1>0
<1> QED
    BY <1>0, <1>2, <1>3, <1>4, <1>5

LEMMA Assoc ==
    ASSUME NEW s \in Seq(Byte), NEW t \in Seq(Byte), NEW u \in Seq(Byte)
    PROVE  (s \o t) \o u = s \o (t \o u)
BY ConcatAssociative

\* The middle one of three parts.
LEMMA Middle ==
    ASSUME NEW s \in Seq(Byte), NEW t \in Seq(Byte), NEW u \in Seq(Byte)
    PROVE  SubSeq((s \o t) \o u, Len(s) + 1, Len(s) + Len(t)) = t
<1> DEFINE b == (s \o t) \o u
           c == SubSeq(b, Len(s) + 1, Len(s) + Len(t))
<1>1. /\ Len(s) \in Nat /\ Len(t) \in Nat /\ Len(u) \in Nat
      /\ s \o t \in Seq(Byte) /\ Len(s \o t) = Len(s) + Len(t)
      /\ \A i \in 1..Len(t) : (s \o t)[Len(s) + i] = t[i]
    BY Split
<1>2. /\ b \in Seq(Byte) /\ Len(b) = Len(s) + Len(t) + Len(u)
      /\ \A i \in 1..(Len(s) + Len(t)) : b[i] = (s \o t)[i]
    BY <1>1, Split
<1>3. \A i \in (Len(s) + 1)..(Len(s) + Len(t)) : b[i] \in Byte
    BY <1>1, <1>2, ElementOfSeq
<1> HIDE DEF b
<1>4. c \in Seq(Byte) /\ Len(c) = Len(t) /\ \A i \in 1..Len(t) : c[i] = b[Len(s) + i]
    BY <1>1, <1>3, SubSeqProperties
<1> HIDE DEF c
<1>5. ASSUME NEW i \in 1..Len(t) PROVE c[i] = t[i]
    <2>1. Len(s) + i \in 1..(Len(s) + Len(t))
        BY <1>1
    <2> QED
        BY <1>1, <1>2, <1>4, <2>1
<1>6. c = t
    BY <1>4, <1>5, SeqEqual
<1> QED
    BY <1>6 DEF b, c

\* The two bytes of a length.
LEMMA TwoBytes ==
    ASSUME NEW n, Fits(n)
    PROVE  Number(2, n) \in Seq(Byte) /\ Len(Number(2, n)) = 2 /\ Value(Number(2, n)) = n
<1>1. 2 \in Nat /\ 2 >= 2
    OBVIOUS
<1> QED
    BY <1>1, NumberIs

\* The type and the length of a TLV.
LEMMA TlvHead ==
    ASSUME NEW ty \in Byte, NEW num \in Seq(Byte), Len(num) = 2
    PROVE  /\ <<ty>> \o num \in Seq(Byte) /\ Len(<<ty>> \o num) = 3 /\ (<<ty>> \o num)[1] = ty
           /\ \A rest \in Seq(Byte) : SubSeq((<<ty>> \o num) \o rest, 2, 3) = num
<1> DEFINE t == <<ty>>
<1>1. t \in Seq(Byte) /\ Len(t) = 1 /\ t[1] = ty
    OBVIOUS
<1> HIDE DEF t
<1>2. /\ t \o num \in Seq(Byte) /\ Len(t \o num) = Len(t) + Len(num)
      /\ \A i \in 1..Len(t) : (t \o num)[i] = t[i]
    BY <1>1, Split
<1>3. Len(t \o num) = 3 /\ (t \o num)[1] = ty
    BY <1>1, <1>2
<1>4. ASSUME NEW rest \in Seq(Byte)
      PROVE  SubSeq((t \o num) \o rest, Len(t) + 1, Len(t) + Len(num)) = num
    BY <1>1, Middle
<1>5. Len(t) + 1 = 2 /\ Len(t) + Len(num) = 3
    BY <1>1
<1>6. \A rest \in Seq(Byte) : SubSeq((t \o num) \o rest, 2, 3) = num
    BY <1>4, <1>5
<1> QED
    BY <1>2, <1>3, <1>6 DEF t

\* A TLV has three bytes more than its value.
LEMMA TlvIs ==
    ASSUME NEW ty \in Byte, NEW v \in Seq(Byte), Fits(Len(v))
    PROVE  Tlv(ty, v) \in Seq(Byte) /\ Len(Tlv(ty, v)) = Len(v) + 3
<1> DEFINE pre == <<ty>> \o Number(2, Len(v))
<1>1. pre \in Seq(Byte) /\ Len(pre) = 3
    BY TwoBytes, TlvHead
<1>2. Tlv(ty, v) = pre \o v
    BY DEF Tlv
<1> HIDE DEF pre
<1>3. pre \o v \in Seq(Byte) /\ Len(pre \o v) = Len(pre) + Len(v) /\ Len(v) \in Nat
    BY <1>1, Split
<1> QED
    BY <1>1, <1>2, <1>3

\* Tlv::parse_all reads what Tlv::encode wrote.
LEMMA TlvReadBack ==
    ASSUME NEW ty \in Byte, NEW v \in Seq(Byte), Fits(Len(v)), NEW rest \in Seq(Byte)
    PROVE  ParseAll[Tlv(ty, v) \o rest] = <<[ty |-> ty, value |-> v]>> \o ParseAll[rest]
<1> DEFINE b == Tlv(ty, v) \o rest
           num == Number(2, Len(v))
           pre == <<ty>> \o num
           value == Read(b, 4, Value(SubSeq(b, 2, 3)))
<1>1. num \in Seq(Byte) /\ Len(num) = 2 /\ Value(num) = Len(v)
    BY TwoBytes
<1>2. /\ Len(v) \in Nat /\ Len(rest) \in Nat /\ v \o rest \in Seq(Byte)
      /\ Len(v \o rest) = Len(v) + Len(rest)
    BY Split
<1>3. Tlv(ty, v) = pre \o v
    BY DEF Tlv
<1> HIDE DEF num
<1>4. /\ pre \in Seq(Byte) /\ Len(pre) = 3 /\ pre[1] = ty
      /\ SubSeq(pre \o (v \o rest), 2, 3) = num
    BY <1>1, <1>2, TlvHead
<1> HIDE DEF pre
<1>5. b = (pre \o v) \o rest /\ b = pre \o (v \o rest)
    <2>1. (pre \o v) \o rest = pre \o (v \o rest)
        <3>1. pre \in Seq(Byte)
            BY <1>4
        <3> HIDE DEF b, num, value
        <3> QED
            BY <3>1, Assoc
    <2> QED
        BY <1>3, <2>1
<1>6. pre \o v \in Seq(Byte) /\ Len(pre \o v) = Len(v) + 3
    <2>1. pre \o v \in Seq(Byte) /\ Len(pre \o v) = Len(pre) + Len(v)
        BY <1>4, Split
    <2> QED
        BY <1>2, <1>4, <2>1
<1>7. /\ b \in Seq(Byte) /\ Len(b) = Len(v) + 3 + Len(rest) /\ b[1] = ty
      /\ SubSeq(b, 4, Len(v) + 3) = v /\ SubSeq(b, Len(v) + 4, Len(b)) = rest
    <2>0. (pre \o v) \o rest \in Seq(Byte) /\ Len((pre \o v) \o rest) = Len(pre \o v) + Len(rest)
        BY <1>6, Split
    <2>1. b \in Seq(Byte) /\ Len(b) = Len(v) + 3 + Len(rest)
        BY <1>2, <1>5, <1>6, <2>0
    <2>2. \A i \in 1..Len(pre) : (pre \o (v \o rest))[i] = pre[i]
        BY <1>2, <1>4, Split
    <2>3. SubSeq((pre \o v) \o rest, Len(pre) + 1, Len(pre) + Len(v)) = v
        BY <1>4, Middle
    <2>4. SubSeq((pre \o v) \o rest, Len(pre \o v) + 1, Len((pre \o v) \o rest)) = rest
        BY <1>6, Split
    <2>5. 1 \in 1..Len(pre)
        BY <1>4
    <2>6. b[1] = ty
        BY <1>4, <1>5, <2>2, <2>5
    <2>7. Len(v) + 3 + 1 = Len(v) + 4 /\ 3 + Len(v) = Len(v) + 3 /\ 3 + 1 = 4
        BY <1>2
    <2>8. SubSeq(b, 4, Len(v) + 3) = v /\ SubSeq(b, Len(v) + 4, Len(b)) = rest
        BY <1>4, <1>5, <1>6, <2>3, <2>4, <2>7
    <2> QED
        BY <2>1, <2>6, <2>8
<1> HIDE DEF b
<1>8. value = v
    <2>1. value = Read(b, 4, Len(v))
        BY <1>1, <1>4, <1>5
    <2>2. 4 + Len(v) - 1 = Len(v) + 3 /\ ~ (Len(v) + 3 > Len(b))
        BY <1>2, <1>7
    <2> QED
        BY <1>7, <2>1, <2>2 DEF Read
<1>9. ParseAll[b] = ParseTurn(ParseAll, b)
    BY <1>7, ParseAllTurns
<1>10. v # None
    BY NoBytesAssumption DEF Byte
<1> HIDE DEF value
<1>11. ParseTurn(ParseAll, b) = <<[ty |-> b[1], value |-> value]>> \o ParseAll[Rest(b, Len(value) + 4)]
    <2>1. ~ (Len(b) < 3)
        BY <1>2, <1>7
    <2> QED
        BY <1>8, <1>10, <2>1 DEF ParseTurn, value
<1> QED
    BY <1>7, <1>8, <1>9, <1>11 DEF b, Rest

-----------------------------------------------------------------------------
(* Where the parts of a PSF are *)

\* b begins with p.
StartsWith(b, p) == \E x \in Seq(Byte) : b = p \o x

\* What b begins with it begins with however it goes on.
LEMMA Starts ==
    ASSUME NEW b \in Seq(Byte), NEW p \in Seq(Byte), NEW y \in Seq(Byte)
    PROVE  /\ StartsWith(p \o y, p)
           /\ StartsWith(b, p) => StartsWith(b \o y, p)
<1>1. ASSUME NEW x \in Seq(Byte), b = p \o x PROVE StartsWith(b \o y, p)
    <2>1. b \o y = p \o (x \o y) /\ x \o y \in Seq(Byte)
        BY <1>1, Assoc, Split
    <2> QED
        BY <2>1 DEF StartsWith
<1> QED
    BY <1>1 DEF StartsWith

LEMMA StartsMiddle ==
    ASSUME NEW b, NEW s \in Seq(Byte), NEW t \in Seq(Byte), StartsWith(b, s \o t)
    PROVE  SubSeq(b, Len(s) + 1, Len(s) + Len(t)) = t
BY Middle DEF StartsWith

\* s \o t where the prover need not look into it.
Cat(s, t) == s \o t

\* b is n bytes long.
Bytes(b, n) == b \in Seq(Byte) /\ Len(b) = n

\* Putting more bytes behind b.
LEMMA Grow ==
    ASSUME NEW b, NEW m \in Nat, Bytes(b, m), NEW y, NEW k \in Nat, Bytes(y, k)
    PROVE  /\ Bytes(Cat(b, y), m + k)
           /\ StartsWith(Cat(b, y), b)
           /\ \A p : Bytes(p, 5) \/ Bytes(p, 17) => (StartsWith(b, p) => StartsWith(Cat(b, y), p))
<1>1. b \o y \in Seq(Byte) /\ Len(b \o y) = Len(b) + Len(y)
    BY Split DEF Bytes
<1>2. StartsWith(b \o y, b)
    BY DEF StartsWith, Bytes
<1>3. \A p \in Seq(Byte) : StartsWith(b, p) => StartsWith(b \o y, p)
    BY Starts DEF Bytes
<1> QED
    BY <1>1, <1>2, <1>3 DEF Bytes, Cat

\* The pieces in front of the TLVs of a PSF.
Header(hdr, x1, x2, x3, x4, x5, x6, x7, x8) ==
    /\ Bytes(x1, 2) /\ Bytes(x2, 3) /\ Bytes(x3, 1) /\ Bytes(x4, 2)
    /\ Bytes(x5, 1) /\ Bytes(x6, 8) /\ Bytes(x7, 8) /\ Bytes(x8, 6)
    /\ hdr = Cat(Cat(Cat(Cat(Cat(Cat(Cat(x1, x2), x3), x4), x5), x6), x7), x8)

\* The OUI, the sequence and the TLVs are where the parser looks for them.
LEMMA PsfParts ==
    ASSUME NEW hdr, NEW x1, NEW x2, NEW x3, NEW x4, NEW x5, NEW x6, NEW x7, NEW x8,
           Header(hdr, x1, x2, x3, x4, x5, x6, x7, x8), NEW t \in Seq(Byte)
    PROVE  /\ hdr \in Seq(Byte) /\ Cat(hdr, t) \in Seq(Byte) /\ ~ (Len(Cat(hdr, t)) < 31)
           /\ SubSeq(Cat(hdr, t), 3, 5) = x2 /\ SubSeq(Cat(hdr, t), 10, 17) = x6
           /\ Rest(Cat(hdr, t), 32) = t
<1> DEFINE h2 == Cat(x1, x2)
           h3 == Cat(h2, x3)
           h4 == Cat(h3, x4)
           h5 == Cat(h4, x5)
           h6 == Cat(h5, x6)
           h7 == Cat(h6, x7)
           h8 == Cat(h7, x8)
           b == Cat(h8, t)
<1>1. /\ Bytes(x1, 2) /\ Bytes(x2, 3) /\ Bytes(x3, 1) /\ Bytes(x4, 2)
      /\ Bytes(x5, 1) /\ Bytes(x6, 8) /\ Bytes(x7, 8) /\ Bytes(x8, 6)
    BY DEF Header
<1>1e. hdr = h8
    BY DEF Header
<1>2. Bytes(h2, 5)
    BY <1>1, Grow
<1> HIDE DEF h2
<1>3. Bytes(h3, 6) /\ StartsWith(h3, h2)
    BY <1>1, <1>2, Grow
<1> HIDE DEF h3
<1>4. Bytes(h4, 8) /\ StartsWith(h4, h2)
    BY <1>1, <1>2, <1>3, Grow
<1> HIDE DEF h4
<1>5. Bytes(h5, 9) /\ StartsWith(h5, h2)
    BY <1>1, <1>2, <1>4, Grow
<1> HIDE DEF h5
<1>6. Bytes(h6, 17) /\ StartsWith(h6, h2)
    BY <1>1, <1>2, <1>5, Grow
<1> HIDE DEF h6
<1>7. Bytes(h7, 25) /\ StartsWith(h7, h2) /\ StartsWith(h7, h6)
    BY <1>1, <1>2, <1>6, Grow
<1> HIDE DEF h7
<1>8. Bytes(h8, 31) /\ StartsWith(h8, h2) /\ StartsWith(h8, h6)
    BY <1>1, <1>2, <1>6, <1>7, Grow
<1> HIDE DEF h8
<1>9. /\ StartsWith(b, h2) /\ StartsWith(b, h6)
      /\ b \in Seq(Byte) /\ Len(b) = 31 + Len(t) /\ Len(t) \in Nat
      /\ SubSeq(b, 32, Len(b)) = t
    <2>1. ASSUME NEW h, Bytes(h, 31)
          PROVE  /\ h \o t \in Seq(Byte) /\ Len(h \o t) = 31 + Len(t) /\ Len(t) \in Nat
                 /\ SubSeq(h \o t, 32, Len(h \o t)) = t
        <3>1. /\ h \in Seq(Byte) /\ Len(h) = 31 /\ Len(h) + 1 = 32
            BY <2>1 DEF Bytes
        <3> QED
            <4>1. /\ h \o t \in Seq(Byte) /\ Len(h \o t) = Len(h) + Len(t) /\ Len(t) \in Nat
                  /\ SubSeq(h \o t, Len(h) + 1, Len(h \o t)) = t
                BY <3>1, Split
            <4> QED
                BY <3>1, <4>1
    <2>2. ASSUME NEW h, h \in Seq(Byte), StartsWith(h8, h) PROVE StartsWith(b, h)
        BY <1>8, <2>2, Starts DEF Bytes, Cat
    <2>3. h2 \in Seq(Byte) /\ h6 \in Seq(Byte)
        BY <1>2, <1>6 DEF Bytes
    <2> QED
        BY <1>8, <2>1, <2>2, <2>3 DEF Cat
<1> HIDE DEF b
<1>10. Rest(b, 32) = t /\ ~ (Len(b) < 31)
    BY <1>9 DEF Rest
<1>11. SubSeq(b, 3, 5) = x2
    <2>1. Len(x1) + 1 = 3 /\ Len(x1) + Len(x2) = 5 /\ x1 \in Seq(Byte) /\ x2 \in Seq(Byte)
        BY <1>1 DEF Bytes
    <2>2. StartsWith(b, x1 \o x2)
        BY <1>9 DEF h2, Cat
    <2>3. SubSeq(b, Len(x1) + 1, Len(x1) + Len(x2)) = x2
        BY <2>1, <2>2, StartsMiddle
    <2> QED
        BY <2>1, <2>3
<1>12. SubSeq(b, 10, 17) = x6
    <2>1. Len(h5) + 1 = 10 /\ Len(h5) + Len(x6) = 17 /\ h5 \in Seq(Byte) /\ x6 \in Seq(Byte)
        BY <1>1, <1>5 DEF Bytes
    <2>2. StartsWith(b, h5 \o x6)
        BY <1>9 DEF h6, Cat
    <2> QED
        BY <2>1, <2>2, StartsMiddle
<1>13. h8 \in Seq(Byte)
    BY <1>8 DEF Bytes
<1> QED
    BY <1>1e, <1>9, <1>10, <1>11, <1>12, <1>13 DEF b

\* Five TLVs put behind a header one after the other are behind it together.
LEMMA CatAll ==
    /\ \A s, t, u \in Seq(Byte) : Cat(Cat(s, t), u) = Cat(s, Cat(t, u))
    /\ \A s, t \in Seq(Byte) : Cat(s, t) \in Seq(Byte)
<1>1. ASSUME NEW s \in Seq(Byte), NEW t \in Seq(Byte), NEW u \in Seq(Byte)
      PROVE  Cat(Cat(s, t), u) = Cat(s, Cat(t, u))
    BY Assoc DEF Cat
<1>2. ASSUME NEW s \in Seq(Byte), NEW t \in Seq(Byte)
      PROVE  Cat(s, t) \in Seq(Byte)
    BY Split DEF Cat
<1> QED
    BY <1>1, <1>2

AllBytes(h, t1, t2, t3, t4, t5) ==
    /\ h \in Seq(Byte) /\ t1 \in Seq(Byte) /\ t2 \in Seq(Byte)
    /\ t3 \in Seq(Byte) /\ t4 \in Seq(Byte) /\ t5 \in Seq(Byte)

LEMMA Regroup ==
    ASSUME NEW h, NEW t1, NEW t2, NEW t3, NEW t4, NEW t5, AllBytes(h, t1, t2, t3, t4, t5)
    PROVE  Cat(Cat(Cat(Cat(Cat(h, t1), t2), t3), t4), t5)
               = Cat(h, Cat(t1, Cat(t2, Cat(t3, Cat(t4, t5)))))
<1>0. /\ h \in Seq(Byte) /\ t1 \in Seq(Byte) /\ t2 \in Seq(Byte)
      /\ t3 \in Seq(Byte) /\ t4 \in Seq(Byte) /\ t5 \in Seq(Byte)
    BY DEF AllBytes
<1>1. Cat(h, t1) \in Seq(Byte) /\ Cat(Cat(h, t1), t2) \in Seq(Byte)
      /\ Cat(Cat(Cat(h, t1), t2), t3) \in Seq(Byte)
    BY <1>0, CatAll
<1>2. Cat(t4, t5) \in Seq(Byte) /\ Cat(t3, Cat(t4, t5)) \in Seq(Byte)
      /\ Cat(t2, Cat(t3, Cat(t4, t5))) \in Seq(Byte)
    BY <1>0, CatAll
<1> QED
    BY <1>0, <1>1, <1>2, CatAll

LEMMA NotNone == \A b \in Seq(Byte) : b # None
BY NoBytesAssumption DEF Byte

-----------------------------------------------------------------------------
(* What the parser makes of a PSF *)

\* A part in the middle is read, and what is behind a part is the rest.
LEMMA ReadParts ==
    ASSUME NEW s \in Seq(Byte), NEW t \in Seq(Byte)
    PROVE  /\ Read(s \o t, 1, Len(s)) = s
           /\ Read(s \o t, Len(s) + 1, Len(t)) = t
           /\ Rest(s \o t, Len(s) + 1) = t
<1>1. /\ Len(s) \in Nat /\ Len(t) \in Nat /\ Len(s \o t) = Len(s) + Len(t)
      /\ SubSeq(s \o t, 1, Len(s)) = s
      /\ SubSeq(s \o t, Len(s) + 1, Len(s \o t)) = t
    BY Split
<1>2. /\ 1 + Len(s) - 1 = Len(s) /\ ~ (Len(s) > Len(s \o t))
      /\ Len(s) + 1 + Len(t) - 1 = Len(s \o t) /\ ~ (Len(s \o t) > Len(s \o t))
    BY <1>1
<1> QED
    BY <1>1, <1>2 DEF Read, Rest

\* The value of the Enet TLV is read back.
LEMMA EnetReadBack ==
    ASSUME NEW mac, Bytes(mac, 6), NEW ipv4, Bytes(ipv4, 4), NEW n \in Seq(Byte), Fits(Len(n))
    PROVE  LET v == mac \o ipv4 \o Number(2, Len(n)) \o n
           IN  /\ v \in Seq(Byte) /\ Len(v) = Len(n) + 12
               /\ EnetMac[v] = mac /\ EnetIpv4[v] = ipv4 /\ EnetName[v] = n
<1> DEFINE num == Number(2, Len(n))
           r2 == num \o n
           r1 == ipv4 \o r2
           v == mac \o r1
<1>1. num \in Seq(Byte) /\ Len(num) = 2 /\ Value(num) = Len(n)
    BY TwoBytes
<1>0. Len(n) \in Nat
    BY DEF Fits
<1> HIDE DEF num
<1>2. /\ mac \in Seq(Byte) /\ Len(mac) = 6 /\ ipv4 \in Seq(Byte) /\ Len(ipv4) = 4
    BY DEF Bytes
<1>3. r2 \in Seq(Byte) /\ Len(r2) = Len(n) + 2
    <2>1. r2 \in Seq(Byte) /\ Len(r2) = Len(num) + Len(n)
        BY <1>1, Split
    <2> QED
        BY <1>0, <1>1, <2>1
<1>4. /\ SubSeq(r2, 1, 2) = num /\ Read(r2, 3, Len(n)) = n
    <2>1. SubSeq(num \o n, 1, Len(num)) = num
        BY <1>1, Split
    <2>2. Read(num \o n, Len(num) + 1, Len(n)) = n
        BY <1>1, ReadParts
    <2>3. Len(num) + 1 = 3
        BY <1>1
    <2> QED
        BY <1>1, <2>1, <2>2, <2>3
<1> HIDE DEF r2
<1>5. /\ r1 \in Seq(Byte) /\ Len(r1) = Len(n) + 6
      /\ Read(r1, 1, 4) = ipv4 /\ Rest(r1, 5) = r2
    <2>1. r1 \in Seq(Byte) /\ Len(r1) = Len(ipv4) + Len(r2)
        BY <1>2, <1>3, Split
    <2>2. Read(ipv4 \o r2, 1, Len(ipv4)) = ipv4 /\ Rest(ipv4 \o r2, Len(ipv4) + 1) = r2
        BY <1>2, <1>3, ReadParts
    <2>3. Len(ipv4) + 1 = 5 /\ Len(ipv4) + Len(r2) = Len(n) + 6
        BY <1>0, <1>2, <1>3
    <2> QED
        BY <1>2, <2>1, <2>2, <2>3
<1>5e. mac \o ipv4 \o num \o n = v
    <2>1. \A s, t, u \in Seq(Byte) : (s \o t) \o u = s \o (t \o u)
        BY Assoc
    <2>2. mac \o ipv4 \in Seq(Byte)
        BY <1>2, Split
    <2>3. ((mac \o ipv4) \o num) \o n = (mac \o ipv4) \o (num \o n)
        BY <1>1, <2>1, <2>2
    <2>4. (mac \o ipv4) \o r2 = mac \o (ipv4 \o r2)
        BY <1>2, <1>3, <2>1
    <2> QED
        BY <2>3, <2>4 DEF r2
<1> HIDE DEF r1
<1>6. /\ v \in Seq(Byte) /\ Len(v) = Len(n) + 12
      /\ Read(v, 1, 6) = mac /\ Rest(v, 7) = r1
    <2>1. v \in Seq(Byte) /\ Len(v) = Len(mac) + Len(r1)
        BY <1>2, <1>5, Split
    <2>2. Read(mac \o r1, 1, Len(mac)) = mac /\ Rest(mac \o r1, Len(mac) + 1) = r1
        BY <1>2, <1>5, ReadParts
    <2>3. Len(mac) + 1 = 7 /\ Len(mac) + Len(r1) = Len(n) + 12
        BY <1>0, <1>2, <1>5
    <2> QED
        BY <1>2, <2>1, <2>2, <2>3
<1> HIDE DEF v
<1>7. EnetMac[v] = mac
    BY <1>6 DEF EnetMac
<1>8. EnetRest(v) = r1
    <2>1. Len(v) >= 6
        BY <1>0, <1>6
    <2> QED
        BY <1>6, <2>1 DEF EnetRest
<1>9. EnetIpv4[v] = ipv4
    BY <1>5, <1>6, <1>8 DEF EnetIpv4
<1>10. EnetName[v] = n
    <2>1. EnetIpv4[v] # None
        BY <1>2, <1>9, NotNone
    <2>2. ~ (Len(r2) < 2)
        BY <1>0, <1>3
    <2>3. EnetName[v] = Read(r2, 3, Value(SubSeq(r2, 1, 2)))
        BY <1>5, <1>6, <1>8, <2>1, <2>2 DEF EnetName
    <2> QED
        BY <1>1, <1>4, <2>3
<1> QED
    BY <1>5e, <1>6, <1>7, <1>9, <1>10 DEF num

\* The last TLV of five decides on a field that it has.
LEMMA LastTaken ==
    ASSUME NEW tlvs, DOMAIN tlvs = 1..5, NEW types, NEW field, NEW default,
           tlvs[5].ty \in types, field[tlvs[5].value] # None
    PROVE  LastOf(tlvs, types, field, default) = field[tlvs[5].value]
<1> DEFINE found == {i \in DOMAIN tlvs : tlvs[i].ty \in types /\ field[tlvs[i].value] # None}
           last == CHOOSE i \in found : \A j \in found : j <= i
<1>1. 5 \in found /\ \A j \in found : j \in 1..5
    OBVIOUS
<1> HIDE DEF found
<1>2. \A j \in found : j <= 5
    <2>1. \A j \in 1..5 : j <= 5
        OBVIOUS
    <2> QED
        BY <1>1, <2>1
<1>3. last \in found /\ \A j \in found : j <= last
    BY <1>1, <1>2
<1> HIDE DEF last
<1>4. last = 5
    <2>1. last \in 1..5 /\ 5 <= last
        BY <1>1, <1>3
    <2> QED
        BY <2>1
<1> QED
    BY <1>1, <1>4 DEF LastOf, found, last

\* A value that a TLV can hold.
Fine(v) == v \in Seq(Byte) /\ Fits(Len(v))
Tlvs == [ty : Byte, value : Seq(Byte)]

\* The bytes are parsed to n TLVs, the last of type ty and with value v.
Parsed(b, n, ty, v) ==
    /\ b \in Seq(Byte) /\ ParseAll[b] \in Seq(Tlvs) /\ Len(ParseAll[b]) = n
    /\ ParseAll[b][n] = [ty |-> ty, value |-> v]

\* The last TLV.
LEMMA ParsedOne ==
    ASSUME NEW ty, ty \in Byte, NEW v, Fine(v)
    PROVE  Tlv(ty, v) \in Seq(Byte) /\ Parsed(Tlv(ty, v), 1, ty, v)
<1>1. v \in Seq(Byte) /\ Fits(Len(v)) /\ <<>> \in Seq(Byte) /\ Len(<<>>) < 3
    BY DEF Fine
<1>2. ParseAll[<<>>] = <<>>
    BY <1>1, ParseAllTurns DEF ParseTurn
<1>3. Tlv(ty, v) \in Seq(Byte)
    BY <1>1, TlvIs
<1> DEFINE t == Tlv(ty, v)
           r == [ty |-> ty, value |-> v]
<1> HIDE DEF t
<1>4. t \o <<>> = t
    BY <1>3, ConcatEmptySeq DEF t
<1>5. ParseAll[t \o <<>>] = <<r>> \o <<>>
    <2> DEFINE e == <<>>
    <2>1. e \in Seq(Byte) /\ ParseAll[e] = e
        BY <1>1, <1>2
    <2> HIDE DEF e
    <2>2. ParseAll[t \o e] = <<r>> \o ParseAll[e]
        BY <1>1, <2>1, TlvReadBack DEF t
    <2> QED
        BY <2>1, <2>2 DEF e
<1>6. r \in Tlvs
    BY <1>1 DEF Tlvs
<1> HIDE DEF r
<1>7. <<r>> \in Seq(Tlvs) /\ Len(<<r>>) = 1 /\ <<r>>[1] = r
    BY <1>6
<1>8. <<r>> \o <<>> = <<r>>
    BY <1>7, ConcatEmptySeq
<1> QED
    BY <1>3, <1>4, <1>5, <1>7, <1>8 DEF Parsed, t, r

\* One more TLV in front.
LEMMA ParsedMore ==
    ASSUME NEW ty, ty \in Byte, NEW v, Fine(v),
           NEW rest, NEW n \in Nat, NEW lty, NEW lv, Parsed(rest, n, lty, lv), n > 0
    PROVE  /\ Tlv(ty, v) \in Seq(Byte)
           /\ Parsed(Cat(Tlv(ty, v), rest), n + 1, lty, lv)
<1> DEFINE list == ParseAll[rest]
           r == [ty |-> ty, value |-> v]
<1>1. /\ v \in Seq(Byte) /\ Fits(Len(v)) /\ rest \in Seq(Byte)
      /\ list \in Seq(Tlvs) /\ Len(list) = n /\ list[n] = [ty |-> lty, value |-> lv]
    BY DEF Fine, Parsed
<1>2. ParseAll[Tlv(ty, v) \o rest] = <<r>> \o list
    BY <1>1, TlvReadBack
<1>3. Tlv(ty, v) \in Seq(Byte)
    BY <1>1, TlvIs
<1>4. Tlv(ty, v) \o rest \in Seq(Byte)
    BY <1>1, <1>3, Split
<1>5. r \in Tlvs
    BY <1>1 DEF Tlvs
<1> HIDE DEF r, list
<1> DEFINE one == <<r>>
<1>6. one \in Seq(Tlvs) /\ Len(one) = 1
    BY <1>5
<1> HIDE DEF one
<1>7. one \o list \in Seq(Tlvs) /\ Len(one \o list) = n + 1 /\ (one \o list)[n + 1] = list[n]
    <2>1. /\ one \o list \in Seq(Tlvs) /\ Len(one \o list) = Len(one) + Len(list)
          /\ \A i \in 1..(Len(one) + Len(list)) :
                (one \o list)[i] = IF i <= Len(one) THEN one[i] ELSE list[i - Len(one)]
        BY <1>1, <1>6, ConcatProperties
    <2>2. Len(one) + Len(list) = n + 1 /\ n + 1 \in 1..(n + 1) /\ ~ (n + 1 <= 1) /\ n + 1 - 1 = n
        BY <1>1, <1>6
    <2> QED
        BY <1>6, <2>1, <2>2
<1> QED
    BY <1>1, <1>2, <1>3, <1>4, <1>7 DEF Parsed, one, Cat

AllFine(c1, v1, c2, v2, c3, v3, c4, v4, c5, v5) ==
    /\ c1 \in Byte /\ c2 \in Byte /\ c3 \in Byte /\ c4 \in Byte /\ c5 \in Byte
    /\ Fine(v1) /\ Fine(v2) /\ Fine(v3) /\ Fine(v4) /\ Fine(v5)

\* The five TLVs of a PSF are parsed, the last one last.
LEMMA FiveTlvs ==
    ASSUME NEW c1, NEW c2, NEW c3, NEW c4, NEW c5, NEW v1, NEW v2, NEW v3, NEW v4, NEW v5,
           AllFine(c1, v1, c2, v2, c3, v3, c4, v4, c5, v5)
    PROVE  /\ Tlv(c1, v1) \in Seq(Byte) /\ Tlv(c2, v2) \in Seq(Byte) /\ Tlv(c3, v3) \in Seq(Byte)
           /\ Tlv(c4, v4) \in Seq(Byte) /\ Tlv(c5, v5) \in Seq(Byte)
           /\ Parsed(Cat(Tlv(c1, v1), Cat(Tlv(c2, v2), Cat(Tlv(c3, v3), Cat(Tlv(c4, v4), Tlv(c5, v5))))),
                     5, c5, v5)
<1>0. /\ c1 \in Byte /\ c2 \in Byte /\ c3 \in Byte /\ c4 \in Byte /\ c5 \in Byte
      /\ Fine(v1) /\ Fine(v2) /\ Fine(v3) /\ Fine(v4) /\ Fine(v5)
    BY DEF AllFine
<1>1. Tlv(c5, v5) \in Seq(Byte) /\ Parsed(Tlv(c5, v5), 1, c5, v5)
    BY <1>0, ParsedOne
<1>2. /\ Tlv(c4, v4) \in Seq(Byte)
      /\ Parsed(Cat(Tlv(c4, v4), Tlv(c5, v5)), 2, c5, v5)
    BY <1>0, <1>1, ParsedMore
<1>3. /\ Tlv(c3, v3) \in Seq(Byte)
      /\ Parsed(Cat(Tlv(c3, v3), Cat(Tlv(c4, v4), Tlv(c5, v5))), 3, c5, v5)
    BY <1>0, <1>2, ParsedMore
<1>4. /\ Tlv(c2, v2) \in Seq(Byte)
      /\ Parsed(Cat(Tlv(c2, v2), Cat(Tlv(c3, v3), Cat(Tlv(c4, v4), Tlv(c5, v5)))), 4, c5, v5)
    BY <1>0, <1>3, ParsedMore
<1>5. /\ Tlv(c1, v1) \in Seq(Byte)
      /\ Parsed(Cat(Tlv(c1, v1), Cat(Tlv(c2, v2), Cat(Tlv(c3, v3), Cat(Tlv(c4, v4), Tlv(c5, v5))))), 5, c5, v5)
    BY <1>0, <1>4, ParsedMore
<1> QED
    BY <1>1, <1>2, <1>3, <1>4, <1>5

\* b is a frame with sequence s and the TLVs of body; v is the value of an Enet.
IsFrame(b, s, body) ==
    /\ b \in Seq(Byte) /\ ~ (Len(b) < 31) /\ SubSeq(b, 3, 5) = AppleOui
    /\ Value(SubSeq(b, 10, 17)) = s /\ Rest(b, 32) = body
IsEnet(v, mac, ipv4, n) == EnetMac[v] = mac /\ EnetIpv4[v] = ipv4 /\ EnetName[v] = n

\* PsfFrame::parse takes the fields from the last TLV.
LEMMA PsfFields ==
    ASSUME NEW b, NEW s, NEW body, IsFrame(b, s, body),
           NEW v5, Parsed(body, 5, Enet, v5),
           NEW mac, NEW ipv4, NEW n, IsEnet(v5, mac, ipv4, n),
           mac \in Seq(Byte), ipv4 \in Seq(Byte), n \in Seq(Byte)
    PROVE  ParsePsf[b] = [seq |-> s, mac |-> mac, ipv4 |-> ipv4, name |-> n]
<1> DEFINE tlvs == ParseAll[body]
<1>1. ParsePsf[b] = PsfOf(s, tlvs)
    BY DEF ParsePsf, IsFrame
<1>2. DOMAIN tlvs = 1..5 /\ tlvs[5].ty = Enet /\ tlvs[5].value = v5
    BY DEF Parsed
<1> HIDE DEF tlvs
<1>3. mac # None /\ ipv4 # None /\ n # None
    BY NotNone
<1>4. EnetMac[v5] = mac /\ EnetIpv4[v5] = ipv4 /\ EnetName[v5] = n
    BY DEF IsEnet
<1>5. ASSUME NEW types, NEW field, NEW default, Enet \in types, field[v5] # None
      PROVE  LastOf(tlvs, types, field, default) = field[v5]
    BY <1>2, <1>5, LastTaken
<1> DEFINE both == {ElectionParameters, Enet}
           one == {Enet}
<1>6. Enet \in both /\ Enet \in one
    OBVIOUS
<1> HIDE DEF both, one
<1>7. LastOf(tlvs, both, EnetMac, AwdlBssid) = mac
    BY <1>3, <1>4, <1>5, <1>6
<1>8. LastOf(tlvs, one, EnetIpv4, <<>>) = ipv4
    BY <1>3, <1>4, <1>5, <1>6
<1>9. LastOf(tlvs, one, EnetName, <<>>) = n
    BY <1>3, <1>4, <1>5, <1>6
<1> QED
    BY <1>1, <1>7, <1>8, <1>9 DEF PsfOf, both, one, tlvs

\* PsfFrame::parse reads from the bytes of PsfFrame::build the MAC, the address,
\* the name and the sequence they were built from, for any name whose length fits
\* the 16 bits it is written in.
THEOREM PsfReadBack ==
    ASSUME NEW mac, Bytes(mac, 6), NEW ipv4, Bytes(ipv4, 4),
           NEW n \in Seq(Byte), Fits(Len(n) + 12),
           NEW s \in Nat, Fits(s + 1)
    PROVE  ParsePsf[PsfFrame(mac, n, ipv4, s)] = [seq |-> s, mac |-> mac, ipv4 |-> ipv4, name |-> n]
<1> DEFINE v1 == <<0, 1, 1>>
           v2 == Number(8, s) \o Number(4, AvailabilityWindow) \o Number(4, 16)
           v3 == mac \o <<128, 0, 0, 0>>
           v4 == <<3, 6, 81, 44, 128, 149, 128>>
           v5 == mac \o ipv4 \o Number(2, Len(n)) \o n
           t1 == Tlv(ServiceParameters, v1)
           t2 == Tlv(SynchronizationParameters, v2)
           t3 == Tlv(ElectionParameters, v3)
           t4 == Tlv(ChannelSequence, v4)
           t5 == Tlv(Enet, v5)
           x1 == <<0, 127>>
           x5 == <<0>>
           x3 == <<8>>
           x6 == Number(8, s)
           x7 == Number(8, s + 1)
           hdr == Cat(Cat(Cat(Cat(Cat(Cat(Cat(x1, AppleOui), x3), Number(2, 1)), x5), x6), x7), AwdlBssid)
           body == Cat(t1, Cat(t2, Cat(t3, Cat(t4, t5))))
           b == Cat(hdr, body)
<1>1. Fits(s) /\ Fits(1) /\ Fits(16) /\ Fits(AvailabilityWindow) /\ Fits(3) /\ Fits(10) /\ Fits(7) /\ Fits(Len(n))
    <2>1. Len(n) \in Nat
        BY LenProperties
    <2> QED
        BY <2>1, SMT DEF Fits, AvailabilityWindow
<1>2. Bytes(x6, 8) /\ Value(x6) = s /\ Bytes(x7, 8) /\ Bytes(Number(2, 1), 2)
      /\ Bytes(Number(4, AvailabilityWindow), 4) /\ Bytes(Number(4, 16), 4)
    <2>1. ASSUME NEW k \in Nat, k >= 2, NEW m, Fits(m) PROVE Bytes(Number(k, m), k) /\ Value(Number(k, m)) = m
        BY <2>1, NumberIs DEF Bytes
    <2> QED
        BY <1>1, <2>1
<1>3. /\ Bytes(v1, 3) /\ Bytes(v4, 7) /\ Bytes(x1, 2) /\ Bytes(x5, 1) /\ Bytes(x3, 1)
      /\ Bytes(AppleOui, 3) /\ Bytes(AwdlBssid, 6) /\ Bytes(<<128, 0, 0, 0>>, 4)
    BY DEF Bytes, Byte, AppleOui, AwdlBssid
<1>4. /\ v5 \in Seq(Byte) /\ Len(v5) = Len(n) + 12
      /\ EnetMac[v5] = mac /\ EnetIpv4[v5] = ipv4 /\ EnetName[v5] = n
    BY <1>1, EnetReadBack
<1>5. Bytes(v2, 16) /\ Bytes(v3, 10)
    <2>1. ASSUME NEW a, NEW c, NEW d, Bytes(a, 8), Bytes(c, 4), Bytes(d, 4)
          PROVE  Bytes(Cat(Cat(a, c), d), 16)
        <3>1. Bytes(Cat(a, c), 12)
            BY <2>1, Grow
        <3> QED
            BY <2>1, <3>1, Grow
    <2>2. ASSUME NEW a, NEW c, Bytes(a, 6), Bytes(c, 4)
          PROVE  Bytes(Cat(a, c), 10)
        BY <2>2, Grow
    <2> QED
        BY <1>2, <1>3, <2>1, <2>2 DEF Cat
<1> HIDE DEF v1, v2, v3, v4, v5
<1>6. Fine(v1) /\ Fine(v2) /\ Fine(v3) /\ Fine(v4) /\ Fine(v5)
    BY <1>1, <1>3, <1>4, <1>5 DEF Bytes, Fine
<1>7. /\ ServiceParameters \in Byte /\ SynchronizationParameters \in Byte /\ ElectionParameters \in Byte
      /\ ChannelSequence \in Byte /\ Enet \in Byte
    BY DEF Byte, ServiceParameters, SynchronizationParameters, ElectionParameters, ChannelSequence, Enet
<1>8. /\ t1 \in Seq(Byte) /\ t2 \in Seq(Byte) /\ t3 \in Seq(Byte) /\ t4 \in Seq(Byte) /\ t5 \in Seq(Byte)
      /\ Parsed(body, 5, Enet, v5)
    <2>1. AllFine(ServiceParameters, v1, SynchronizationParameters, v2, ElectionParameters, v3,
                  ChannelSequence, v4, Enet, v5)
        BY <1>6, <1>7 DEF AllFine
    <2> QED
        BY <2>1, FiveTlvs
<1>9. /\ hdr = Cat(Cat(Cat(Cat(Cat(Cat(Cat(x1, AppleOui), x3), Number(2, 1)), x5), x6), x7), AwdlBssid)
      /\ body = Cat(t1, Cat(t2, Cat(t3, Cat(t4, t5))))
    OBVIOUS
<1>10. PsfFrame(mac, n, ipv4, s) = Cat(Cat(Cat(Cat(Cat(hdr, t1), t2), t3), t4), t5)
    BY DEF PsfFrame, v1, v2, v3, v4, v5, Cat
<1> HIDE DEF t1, t2, t3, t4, t5, x1, x3, x5, x6, x7, hdr, body
<1>11. /\ hdr \in Seq(Byte) /\ b \in Seq(Byte) /\ ~ (Len(b) < 31) /\ SubSeq(b, 3, 5) = AppleOui
       /\ SubSeq(b, 10, 17) = x6 /\ Rest(b, 32) = body
    <2>1. body \in Seq(Byte)
        BY <1>8 DEF Parsed
    <2>2. Header(hdr, x1, AppleOui, x3, Number(2, 1), x5, x6, x7, AwdlBssid)
        BY <1>2, <1>3, <1>9 DEF Header
    <2> QED
        BY <2>1, <2>2, PsfParts
<1>12. PsfFrame(mac, n, ipv4, s) = b
    <2>1. AllBytes(hdr, t1, t2, t3, t4, t5)
        BY <1>8, <1>11 DEF AllBytes
    <2>2. Cat(Cat(Cat(Cat(Cat(hdr, t1), t2), t3), t4), t5) = Cat(hdr, Cat(t1, Cat(t2, Cat(t3, Cat(t4, t5)))))
        BY <2>1, Regroup
    <2> QED
        BY <1>9, <1>10, <2>2
<1> HIDE DEF b
<1>13. ParsePsf[b] = [seq |-> s, mac |-> mac, ipv4 |-> ipv4, name |-> n]
    <2>1. mac \in Seq(Byte) /\ ipv4 \in Seq(Byte)
        BY DEF Bytes
    <2>2. Value(SubSeq(b, 10, 17)) = s
        BY <1>2, <1>11
    <2>3. IsFrame(b, s, body)
        BY <1>11, <2>2 DEF IsFrame
    <2>4. IsEnet(v5, mac, ipv4, n)
        BY <1>4 DEF IsEnet
    <2> QED
        BY <1>8, <2>1, <2>3, <2>4, PsfFields
<1> QED
    BY <1>12, <1>13

-----------------------------------------------------------------------------
(* The daemons and their managers.                                         *)

TypeInv ==
    /\ name \in [Daemons -> Names \cup {None}]
    /\ running \in [Daemons -> BOOLEAN]
    /\ shutdown \in [Daemons -> [value : BOOLEAN, version : Nat]]
    /\ tasks \in [Daemons -> SUBSET Nat]
    /\ seq \in [Daemons -> 0..MaxSeq]
    /\ air \subseteq Packet
    /\ mgr \in [Hosts -> Manager]
    /\ handle \in [Hosts -> Daemons \cup {NoDaemon}]

\* No two managers have the same daemon, each has one that was built, and a
\* daemon that was not has done nothing.
OwnersInv ==
    /\ held = {handle[h] : h \in Hosts} \ {NoDaemon}
    /\ held \subseteq Built
    /\ \A h, g \in Hosts : handle[h] = handle[g] /\ handle[h] # NoDaemon => h = g
    /\ \A d \in Daemons \ Built : tasks[d] = {}

\* d has tasks that no stop will end.
Serves(d) == d # NoDaemon /\ running[d] /\ \E v \in tasks[d] : ~Told(d, v)

LifeInv == TypeInv /\ OwnersInv /\ RunningIsServed

\* What d knows of a MAC is what another daemon announces, or announced before.
IsAnnounced(d, mac, n, ipv4, s) ==
    /\ mac # Mac(d)
    /\ s \in Nat
    /\ \E e \in Built : Mac(e) = mac /\ n = name[e] /\ ipv4 = Ipv4Of[e] /\ s <= seq[e]

IsSeq(s) == s \in Seq({s[i] : i \in DOMAIN s})
Entry == [name : Names, ipv4 : {Ipv4Of[e] : e \in Daemons}, seq : Nat, age : Nat]

GoodEvent(d, e) == e.kind = "peer" => IsAnnounced(d, e.mac, e.name, e.ipv4, e.seq)
GoodRing(d, ring) == IsSeq(ring) /\ \A i \in 1..Len(ring) : GoodEvent(d, ring[i])
GoodTable(d, entries) ==
    \A m \in DOMAIN entries :
        /\ entries[m] \in Entry
        /\ IsAnnounced(d, m, entries[m].name, entries[m].ipv4, entries[m].seq)

\* What is on the air was sent, and what waits in a ring or is in a table comes
\* from there.
PeersInv ==
    /\ DOMAIN inbound = Daemons /\ DOMAIN table = Daemons
    /\ \A p \in air : p.from \in Built /\ p.seq <= seq[p.from]
    /\ \A d \in Daemons \ Built : inbound[d] = <<>> /\ table[d] = <<>>
    /\ \A d \in Daemons : GoodRing(d, inbound[d]) /\ GoodTable(d, table[d])

-----------------------------------------------------------------------------
(* Managers and daemons                                                    *)

LEMMA ServedIs ==
    RunningIsServed <=> \A h \in Hosts : mgr[h].state = "Running" => Serves(handle[h])
BY DEF RunningIsServed, Serves

LEMMA LifeInit == Init => LifeInv
<1> SUFFICES ASSUME Init PROVE LifeInv
    OBVIOUS
<1> USE OwdlAssumption, AwdlAssumption DEF Init, OwdlInit
<1>1. TypeInv
    <2>1. /\ name \in [Daemons -> Names \cup {None}] /\ running \in [Daemons -> BOOLEAN]
          /\ tasks \in [Daemons -> SUBSET Nat] /\ seq \in [Daemons -> 0..MaxSeq] /\ air \subseteq Packet
          /\ handle \in [Hosts -> Daemons \cup {NoDaemon}]
        OBVIOUS
    <2>2. shutdown \in [Daemons -> [value : BOOLEAN, version : Nat]]
        OBVIOUS
    <2>3. mgr \in [Hosts -> Manager]
        BY DEF Manager, States
    <2> QED
        BY <2>1, <2>2, <2>3 DEF TypeInv
<1>2. OwnersInv
    BY DEF OwnersInv
<1>3. RunningIsServed
    BY DEF RunningIsServed
<1> QED
    BY <1>1, <1>2, <1>3 DEF LifeInv

LEMMA HeldIs ==
    ASSUME LifeInv, NEW h \in Hosts, handle[h] # NoDaemon
    PROVE  handle[h] \in Daemons /\ handle[h] \in held /\ handle[h] \in Built
BY DEF LifeInv, TypeInv, OwnersInv

\* A step that changes nothing of a manager, nor a daemon's owner or signal.
LEMMA LifeKept ==
    ASSUME LifeInv, UNCHANGED <<name, held, running, shutdown, mgr, handle>>,
           tasks' \in [Daemons -> SUBSET Nat],
           \A d \in Daemons : tasks'[d] \subseteq tasks[d]
                              /\ \A v \in tasks[d] : ~Told(d, v) => v \in tasks'[d],
           seq' \in [Daemons -> 0..MaxSeq], air' \subseteq Packet
    PROVE  LifeInv'
<1>1. TypeInv'
    BY DEF LifeInv, TypeInv
<1>2. OwnersInv'
    BY DEF LifeInv, OwnersInv, Built
<1>3. ASSUME NEW h \in Hosts, mgr'[h].state = "Running"
      PROVE  Serves(handle[h])'
    <2>1. Serves(handle[h]) /\ handle[h] # NoDaemon
        BY <1>3, ServedIs DEF LifeInv, Serves
    <2>2. handle[h] \in Daemons /\ handle[h] \in held'
        BY <2>1, HeldIs
    <2> QED
        BY <2>1, <2>2 DEF Serves, Told
<1> QED
    BY <1>1, <1>2, <1>3, ServedIs DEF LifeInv, RunningIsServed, Serves

\* A step of one manager: it may start or stop its own daemon, and drop it for a
\* new one.
LEMMA OneManager ==
    ASSUME LifeInv, NEW h \in Hosts, TypeInv', OwnersInv',
           \A g \in Hosts \ {h} : mgr'[g] = mgr[g] /\ handle'[g] = handle[g],
           \A g \in Hosts \ {h} : handle[g] # NoDaemon =>
               /\ running'[handle[g]] = running[handle[g]]
               /\ shutdown'[handle[g]] = shutdown[handle[g]]
               /\ tasks'[handle[g]] = tasks[handle[g]],
           mgr'[h].state = "Running" => Serves(handle[h])'
    PROVE  LifeInv'
<1>1. ASSUME NEW g \in Hosts \ {h}, mgr'[g].state = "Running"
      PROVE  Serves(handle[g])'
    <2>1. Serves(handle[g]) /\ handle[g] # NoDaemon /\ handle'[g] = handle[g]
        BY <1>1, ServedIs DEF LifeInv, Serves
    <2>2. handle[g] \in held'
        BY <2>1 DEF OwnersInv
    <2> QED
        BY <2>1, <2>2 DEF Serves, Told
<1>2. RunningIsServed'
    BY <1>1 DEF RunningIsServed, Serves
<1> QED
    BY <1>2 DEF LifeInv

\* What a manager calls on its daemon, and what it makes of the managers' types.
LEMMA DaemonCalls ==
    ASSUME LifeInv, NEW d \in Daemons
    PROVE  /\ StartTasks(d) =>
                 /\ tasks' \in [Daemons -> SUBSET Nat] /\ running' \in [Daemons -> BOOLEAN]
                 /\ running'[d] = TRUE /\ shutdown[d].version \in tasks'[d]
                 /\ \A e \in Daemons \ {d} : tasks'[e] = tasks[e] /\ running'[e] = running[e]
           /\ SignalStop(d) =>
                 /\ shutdown' \in [Daemons -> [value : BOOLEAN, version : Nat]]
                 /\ running' \in [Daemons -> BOOLEAN]
                 /\ \A e \in Daemons \ {d} : shutdown'[e] = shutdown[e] /\ running'[e] = running[e]
<1>1. ASSUME StartTasks(d)
      PROVE  /\ tasks' \in [Daemons -> SUBSET Nat] /\ running' \in [Daemons -> BOOLEAN]
             /\ running'[d] = TRUE /\ shutdown[d].version \in tasks'[d]
             /\ \A e \in Daemons \ {d} : tasks'[e] = tasks[e] /\ running'[e] = running[e]
    <2>1. shutdown[d].version \in Nat
        BY DEF LifeInv, TypeInv
    <2>2. tasks' \in [Daemons -> SUBSET Nat] /\ shutdown[d].version \in tasks'[d]
          /\ \A e \in Daemons \ {d} : tasks'[e] = tasks[e]
        BY <1>1, <2>1 DEF StartTasks, LifeInv, TypeInv
    <2>3. running' \in [Daemons -> BOOLEAN] /\ running'[d] = TRUE
          /\ \A e \in Daemons \ {d} : running'[e] = running[e]
        BY <1>1 DEF StartTasks, LifeInv, TypeInv
    <2> QED
        BY <2>2, <2>3
<1>2. ASSUME SignalStop(d)
      PROVE  /\ shutdown' \in [Daemons -> [value : BOOLEAN, version : Nat]]
             /\ running' \in [Daemons -> BOOLEAN]
             /\ \A e \in Daemons \ {d} : shutdown'[e] = shutdown[e] /\ running'[e] = running[e]
    <2>1. shutdown' \in [Daemons -> [value : BOOLEAN, version : Nat]]
          /\ \A e \in Daemons \ {d} : shutdown'[e] = shutdown[e]
        BY <1>2 DEF SignalStop, LifeInv, TypeInv
    <2>2. running' \in [Daemons -> BOOLEAN] /\ \A e \in Daemons \ {d} : running'[e] = running[e]
        BY <1>2 DEF SignalStop, LifeInv, TypeInv
    <2> QED
        BY <2>1, <2>2
<1> QED
    BY <1>1, <1>2

LEMMA DaemonStops ==
    ASSUME LifeInv, NEW h \in Hosts, StopDaemon(h)
    PROVE  /\ shutdown' \in [Daemons -> [value : BOOLEAN, version : Nat]]
           /\ running' \in [Daemons -> BOOLEAN]
           /\ \A e \in Daemons \ {handle[h]} : shutdown'[e] = shutdown[e] /\ running'[e] = running[e]
<1>1. CASE handle[h] = NoDaemon
    BY <1>1 DEF StopDaemon, LifeInv, TypeInv
<1>2. CASE handle[h] # NoDaemon
    BY <1>2, HeldIs, DaemonCalls DEF StopDaemon
<1> QED
    BY <1>1, <1>2

\* A manager's step that builds no daemon.
LEMMA ManagerStep ==
    ASSUME LifeInv, NEW h \in Hosts,
           UNCHANGED <<name, held, handle, seq, air>>,
           mgr' \in [Hosts -> Manager], \A g \in Hosts \ {h} : mgr'[g] = mgr[g],
           running' \in [Daemons -> BOOLEAN], tasks' \in [Daemons -> SUBSET Nat],
           shutdown' \in [Daemons -> [value : BOOLEAN, version : Nat]],
           \A e \in Daemons \ {handle[h]} :
               shutdown'[e] = shutdown[e] /\ running'[e] = running[e] /\ tasks'[e] = tasks[e],
           mgr'[h].state = "Running" => Serves(handle[h])'
    PROVE  LifeInv'
<1>1. TypeInv'
    BY DEF LifeInv, TypeInv
<1>2. OwnersInv'
    <2>1. \A d \in Daemons \ Built : tasks'[d] = {}
        <3>1. handle[h] \notin Daemons \ Built
            <4>1. handle[h] = NoDaemon \/ handle[h] \in Built
                BY HeldIs
            <4> QED
                BY <4>1, OwdlAssumption
        <3> QED
            BY <3>1 DEF LifeInv, OwnersInv
    <2> QED
        BY <2>1 DEF LifeInv, OwnersInv, Built
<1>3. \A g \in Hosts \ {h} : handle[g] # NoDaemon => handle[g] \in Daemons \ {handle[h]}
    BY HeldIs DEF LifeInv, OwnersInv
<1> QED
    BY <1>1, <1>2, <1>3, OneManager

\* The new daemon is nobody else's.
LEMMA BuildStep ==
    ASSUME LifeInv, NEW h \in Hosts, NEW d \in Daemons, BuildOk(h, d), UNCHANGED netVars
    PROVE  LifeInv'
<1> USE OwdlAssumption
<1>1. /\ d \notin Built /\ name' = [name EXCEPT ![d] = mgr[h].device]
      /\ held' = (held \ {handle[h]}) \cup {d}
      /\ handle' = [handle EXCEPT ![h] = d] /\ StartTasks(d)
      /\ mgr' = [mgr EXCEPT ![h].state = "Running"] /\ UNCHANGED <<shutdown, seq, air>>
    BY DEF BuildOk, Build, netVars
<1>2. mgr[h].device \in Names /\ mgr' \in [Hosts -> Manager] /\ mgr'[h].state = "Running"
      /\ \A g \in Hosts \ {h} : mgr'[g] = mgr[g]
    BY <1>1 DEF LifeInv, TypeInv, Manager, States
<1>3. /\ tasks' \in [Daemons -> SUBSET Nat] /\ running' \in [Daemons -> BOOLEAN]
      /\ running'[d] = TRUE /\ shutdown[d].version \in tasks'[d]
      /\ \A e \in Daemons \ {d} : tasks'[e] = tasks[e] /\ running'[e] = running[e]
    BY <1>1, DaemonCalls
<1>4. name' \in [Daemons -> Names \cup {None}] /\ handle' \in [Hosts -> Daemons \cup {NoDaemon}]
    BY <1>1, <1>2 DEF LifeInv, TypeInv
<1>5. TypeInv'
    BY <1>1, <1>2, <1>3, <1>4 DEF LifeInv, TypeInv
<1>6. handle'[h] = d /\ \A g \in Hosts \ {h} : handle'[g] = handle[g]
    BY <1>1 DEF LifeInv, TypeInv
<1>7. \A g \in Hosts : handle[g] # d
    BY <1>1, HeldIs
<1>8. Built' = Built \cup {d}
    BY <1>1, <1>2 DEF LifeInv, TypeInv, Built
<1>9. OwnersInv'
    <2>1. held' = {handle'[g] : g \in Hosts} \ {NoDaemon}
        <3>1. \A x : x \in held' <=> x = d \/ (x \in held /\ x # handle[h])
            BY <1>1
        <3>2. \A x : x \in held <=> x # NoDaemon /\ \E g \in Hosts : x = handle[g]
            BY DEF LifeInv, OwnersInv
        <3>3. \A g \in Hosts \ {h} : handle[g] # NoDaemon => handle[g] # handle[h]
            BY DEF LifeInv, OwnersInv
        <3> QED
            <4>1. ASSUME NEW x, x \in held'
                  PROVE  x # NoDaemon /\ \E g \in Hosts : x = handle'[g]
                <5>1. CASE x = d
                    BY <1>6, <5>1
                <5>2. CASE x \in held /\ x # handle[h]
                    <6>1. PICK g \in Hosts : x = handle[g]
                        BY <3>2, <5>2
                    <6> QED
                        BY <1>6, <3>2, <5>2, <6>1
                <5> QED
                    BY <3>1, <4>1, <5>1, <5>2
            <4>2. ASSUME NEW g \in Hosts, handle'[g] # NoDaemon
                  PROVE  handle'[g] \in held'
                BY <1>6, <3>1, <3>2, <3>3, <4>2
            <4> QED
                BY <4>1, <4>2
    <2>2. held' \subseteq Built'
        BY <1>1, <1>8 DEF LifeInv, OwnersInv
    <2>3. \A g, k \in Hosts : handle'[g] = handle'[k] /\ handle'[g] # NoDaemon => g = k
        BY <1>6, <1>7 DEF LifeInv, OwnersInv
    <2>4. \A e \in Daemons \ Built' : tasks'[e] = {}
        BY <1>3, <1>8 DEF LifeInv, OwnersInv
    <2> QED
        BY <2>1, <2>2, <2>3, <2>4 DEF OwnersInv
<1>10. Serves(handle[h])'
    <2>1. ~Told(d, shutdown[d].version)'
        BY <1>1, <1>3 DEF Told, LifeInv, TypeInv
    <2> QED
        BY <1>1, <1>3, <1>6, <2>1 DEF Serves, Told
<1>11. \A g \in Hosts \ {h} : handle[g] # NoDaemon => handle[g] \in Daemons \ {d}
    BY <1>7, HeldIs
<1> QED
    BY <1>1, <1>2, <1>3, <1>5, <1>6, <1>9, <1>10, <1>11, OneManager

LEMMA LifeStep == LifeInv /\ [Next]_vars => LifeInv'
<1> SUFFICES ASSUME LifeInv, [Next]_vars PROVE LifeInv'
    OBVIOUS
<1>0. /\ mgr \in [Hosts -> Manager] /\ running \in [Daemons -> BOOLEAN]
      /\ tasks \in [Daemons -> SUBSET Nat] /\ shutdown \in [Daemons -> [value : BOOLEAN, version : Nat]]
      /\ seq \in [Daemons -> 0..MaxSeq] /\ air \subseteq Packet
    BY DEF LifeInv, TypeInv
\* What the daemons' tasks do to each other's messages is of no concern here.
<1>1. ASSUME UNCHANGED <<daemonVars, mgr, handle>>, seq' \in [Daemons -> 0..MaxSeq], air' \subseteq Packet
      PROVE  LifeInv'
    BY <1>0, <1>1, LifeKept DEF daemonVars
<1>2. CASE UNCHANGED vars
    BY <1>0, <1>1, <1>2 DEF vars, owdlVars, netVars, managerVars
<1>3. CASE Loss /\ UNCHANGED managerVars
    BY <1>0, <1>1, <1>3 DEF Loss, Lose, managerVars
<1>4. ASSUME NEW d \in Daemons, UNCHANGED managerVars
      PROVE  /\ \A v \in tasks[d] : EndTasks(d, v) => LifeInv'
             /\ SendPsf(d) => LifeInv'
             /\ \A m \in Macs : ReceiveForeign(d, m) => LifeInv'
             /\ \A p \in air : Receive(d, p) => LifeInv'
             /\ HandleEvent(d) => LifeInv'
             /\ Period(d) => LifeInv'
    <2>1. ASSUME NEW v \in tasks[d], EndTasks(d, v)
          PROVE  LifeInv'
        <3>1. /\ tasks' \in [Daemons -> SUBSET Nat] /\ Told(d, v)
              /\ \A e \in Daemons : tasks'[e] = IF e = d THEN tasks[d] \ {v} ELSE tasks[e]
            BY <1>0, <2>1 DEF EndTasks
        <3>2. UNCHANGED <<name, held, running, shutdown, mgr, handle, seq, air>>
            BY <1>4, <2>1 DEF EndTasks, managerVars
        <3> QED
            BY <1>0, <3>1, <3>2, LifeKept
    <2>2. ASSUME SendPsf(d)
          PROVE  LifeInv'
        <3> DEFINE next == IF seq[d] < MaxSeq THEN seq[d] + 1 ELSE MaxSeq
        <3>1. next \in 1..MaxSeq
            BY <1>0, OwdlAssumption
        <3>2. /\ seq' = [seq EXCEPT ![d] = next] /\ air' = air \cup {[from |-> d, seq |-> next]}
              /\ UNCHANGED daemonVars
            BY <2>2 DEF SendPsf
        <3> HIDE DEF next
        <3>3. seq' \in [Daemons -> 0..MaxSeq] /\ air' \subseteq Packet
            BY <1>0, <3>1, <3>2 DEF Packet
        <3> QED
            BY <1>1, <1>4, <3>2, <3>3 DEF managerVars
    <2>3. ASSUME \/ \E m \in Macs : ReceiveForeign(d, m)
                 \/ \E p \in air : Receive(d, p)
                 \/ HandleEvent(d) \/ Period(d)
          PROVE  LifeInv'
        <3>1. UNCHANGED <<daemonVars, seq, air>>
            BY <2>3 DEF ReceiveForeign, Receive, HandleEvent, Period
        <3> QED
            BY <1>0, <1>1, <1>4, <3>1 DEF managerVars
    <2> QED
        BY <2>1, <2>2, <2>3
<1>5. ASSUME NEW h \in Hosts
      PROVE  /\ Initialize(h) => LifeInv'
             /\ EndInitialize(h) => LifeInv'
             /\ Start(h) => LifeInv'
             /\ Stop(h) => LifeInv'
             /\ \A n \in Names, enabled \in BOOLEAN : UpdateConfig(h, n, enabled) => LifeInv'
             /\ RefreshPeers(h) \/ MaintainPeers(h) \/ BroadcastData(h) => LifeInv'
    <2>1. ASSUME NEW state \in States, mgr' = [mgr EXCEPT ![h].state = state]
          PROVE  /\ mgr' \in [Hosts -> Manager] /\ mgr'[h].state = state
                 /\ \A g \in Hosts \ {h} : mgr'[g] = mgr[g]
        BY <1>0, <2>1 DEF Manager
    <2>2. ASSUME UNCHANGED <<daemonVars, handle, seq, air>>, mgr'[h].state # "Running",
                 mgr' \in [Hosts -> Manager], \A g \in Hosts \ {h} : mgr'[g] = mgr[g]
          PROVE  LifeInv'
        BY <1>0, <2>2, ManagerStep DEF daemonVars
    <2>3. ASSUME Initialize(h)
          PROVE  LifeInv'
        <3>1. /\ mgr' = [mgr EXCEPT ![h].state = "Initializing"]
              /\ UNCHANGED <<daemonVars, handle, seq, air>>
            BY <2>3 DEF Initialize, owdlVars, netVars
        <3> QED
            BY <2>1, <2>2, <3>1 DEF States
    <2>4. ASSUME EndInitialize(h)
          PROVE  LifeInv'
        <3>1. UNCHANGED netVars
            BY <2>4 DEF EndInitialize
        <3>2. CASE Daemons # Built /\ BuildOk(h, CHOOSE d \in Daemons : d \notin Built)
            <4>1. \E d \in Daemons : d \notin Built
                BY <3>2 DEF Built
            <4>2. (CHOOSE d \in Daemons : d \notin Built) \in Daemons
                BY <4>1
            <4> QED
                BY <3>1, <3>2, <4>2, BuildStep
        <3>3. CASE PortTaken(h)
            <4>1. mgr' \in [Hosts -> Manager] /\ mgr'[h].state = "Stopped"
                  /\ \A g \in Hosts \ {h} : mgr'[g] = mgr[g]
                BY <1>0, <3>3 DEF PortTaken, Manager, States
            <4> QED
                BY <2>2, <3>1, <3>3, <4>1 DEF PortTaken, netVars
        <3>4. CASE BuildFails(h)
            <4>1. mgr' = [mgr EXCEPT ![h].state = "Error"] /\ UNCHANGED <<daemonVars, handle, seq, air>>
                BY <3>1, <3>4 DEF BuildFails, netVars
            <4> QED
                BY <2>1, <2>2, <4>1 DEF States
        <3> QED
            BY <2>4, <3>2, <3>3, <3>4 DEF EndInitialize
    <2>5. ASSUME Start(h)
          PROVE  LifeInv'
        <3>1. UNCHANGED <<name, held, shutdown, seq, air, handle>>
            BY <2>5 DEF Start, netVars
        <3>2. CASE handle[h] = NoDaemon \/ running[handle[h]]
            <4>1. mgr' = [mgr EXCEPT ![h].state = "Error"] /\ UNCHANGED <<daemonVars, handle, seq, air>>
                BY <2>5, <3>1, <3>2 DEF Start, daemonVars
            <4> QED
                BY <2>1, <2>2, <4>1 DEF States
        <3>3. CASE ~(handle[h] = NoDaemon \/ running[handle[h]])
            <4> DEFINE d == handle[h]
            <4>1. StartTasks(d) /\ mgr' = [mgr EXCEPT ![h].state = "Running"]
                BY <2>5, <3>3 DEF Start
            <4>2. d \in Daemons /\ d # NoDaemon
                BY <3>3, HeldIs
            <4>3. /\ tasks' \in [Daemons -> SUBSET Nat] /\ running' \in [Daemons -> BOOLEAN]
                  /\ running'[d] = TRUE /\ shutdown[d].version \in tasks'[d]
                  /\ \A e \in Daemons \ {d} : tasks'[e] = tasks[e] /\ running'[e] = running[e]
                BY <4>1, <4>2, DaemonCalls
            <4>4. d \in held /\ shutdown[d].version \in Nat
                BY <1>0, <4>2, HeldIs
            <4>5. Serves(handle[h])'
                BY <3>1, <4>2, <4>3, <4>4 DEF Serves, Told
            <4>6. mgr' \in [Hosts -> Manager] /\ \A g \in Hosts \ {h} : mgr'[g] = mgr[g]
                BY <2>1, <4>1 DEF States
            <4> QED
                BY <1>0, <3>1, <4>3, <4>5, <4>6, ManagerStep
        <3> QED
            BY <3>2, <3>3
    <2>6. ASSUME StopDaemon(h), UNCHANGED <<name, held, tasks, netVars, handle>>,
                 mgr' \in [Hosts -> Manager], mgr'[h].state # "Running",
                 \A g \in Hosts \ {h} : mgr'[g] = mgr[g]
          PROVE  LifeInv'
        <3>1. UNCHANGED <<name, held, handle, seq, air>>
            BY <2>6 DEF netVars
        <3> QED
            BY <1>0, <2>6, <3>1, DaemonStops, ManagerStep
    <2>7. ASSUME Stop(h)
          PROVE  LifeInv'
        BY <2>1, <2>6, <2>7 DEF Stop, States
    <2>8. ASSUME NEW n \in Names, NEW enabled \in BOOLEAN, UpdateConfig(h, n, enabled)
          PROVE  LifeInv'
        <3> DEFINE state == IF mgr[h].state # "Running" THEN mgr[h].state
                            ELSE IF enabled THEN "Initializing" ELSE "Stopped"
        <3>1. /\ mgr' = [mgr EXCEPT ![h] = [state |-> state, enabled |-> enabled, device |-> n]]
              /\ UNCHANGED <<name, held, tasks, netVars, handle>>
              /\ mgr[h].state = "Running" => StopDaemon(h)
              /\ mgr[h].state # "Running" => UNCHANGED <<shutdown, running>>
            BY <2>8 DEF UpdateConfig
        <3>2. state \in States /\ state # "Running"
            BY <1>0 DEF Manager, States
        <3> HIDE DEF state
        <3>3. mgr' \in [Hosts -> Manager] /\ mgr'[h].state # "Running"
              /\ \A g \in Hosts \ {h} : mgr'[g] = mgr[g]
            BY <1>0, <3>1, <3>2 DEF Manager
        <3>4. CASE mgr[h].state = "Running"
            BY <2>6, <3>1, <3>3, <3>4
        <3>5. CASE mgr[h].state # "Running"
            BY <2>2, <3>1, <3>3, <3>5 DEF daemonVars, netVars
        <3> QED
            BY <3>4, <3>5
    <2>9. ASSUME RefreshPeers(h) \/ MaintainPeers(h) \/ BroadcastData(h)
          PROVE  LifeInv'
        <3>1. UNCHANGED <<daemonVars, mgr, handle, seq, air>>
            BY <2>9 DEF RefreshPeers, MaintainPeers, BroadcastData, SendData, owdlVars, netVars, managerVars
        <3> QED
            BY <1>0, <1>1, <3>1
    <2> QED
        BY <2>3, <2>4, <2>5, <2>7, <2>8, <2>9
<1> QED
    BY <1>2, <1>3, <1>4, <1>5 DEF Next, Tasks, OwdlStep, Call

\* A manager that says Running has a daemon that runs, with tasks that no stop
\* will end.
THEOREM RunningManagersServe == Spec => []RunningIsServed
<1>1. Spec => []LifeInv
    BY LifeInit, LifeStep, PTL DEF Spec
<1> QED
    BY <1>1, PTL DEF LifeInv

-----------------------------------------------------------------------------
(* Peers                                                                   *)

\* Daemons are built once, and their sequences grow.
LEMMA AnnouncedKept ==
    ASSUME TypeInv, TypeInv', NEW d \in Built, NEW mac, NEW n, NEW ipv4, NEW s,
           IsAnnounced(d, mac, n, ipv4, s),
           \A e \in Built : name'[e] = name[e] /\ seq[e] <= seq'[e]
    PROVE  IsAnnounced(d, mac, n, ipv4, s)'
<1>1. PICK e \in Built : Mac(e) = mac /\ n = name[e] /\ ipv4 = Ipv4Of[e] /\ s <= seq[e]
    BY DEF IsAnnounced
<1>2. e \in Daemons /\ name'[e] # None /\ e \in Built' /\ Mac(e)' = mac /\ n = name'[e]
    BY <1>1 DEF Built, Mac
<1>3. s \in Nat /\ seq[e] \in Nat /\ seq'[e] \in Nat /\ s <= seq'[e]
    BY <1>1, <1>2 DEF TypeInv, IsAnnounced
<1>4. mac # Mac(d)'
    BY DEF IsAnnounced, Mac
<1> QED
    BY <1>1, <1>2, <1>3, <1>4 DEF IsAnnounced

LEMMA GoodKept ==
    ASSUME TypeInv, TypeInv', NEW d \in Built, NEW ring, GoodRing(d, ring), NEW entries, GoodTable(d, entries),
           \A e \in Built : name'[e] = name[e] /\ seq[e] <= seq'[e]
    PROVE  (\A i \in 1..Len(ring) : GoodEvent(d, ring[i])') /\ IsSeq(ring)
           /\ \A m \in DOMAIN entries :
                 /\ entries[m] \in Entry
                 /\ IsAnnounced(d, m, entries[m].name, entries[m].ipv4, entries[m].seq)'
BY AnnouncedKept DEF GoodRing, GoodEvent, GoodTable

LEMMA SeqIsSeq ==
    ASSUME NEW S, NEW s \in Seq(S)
    PROVE  IsSeq(s)
BY DEF IsSeq

LEMMA GoodTail ==
    ASSUME NEW d, NEW ring, GoodRing(d, ring), ring # <<>>
    PROVE  GoodRing(d, Tail(ring))
<1>1. PICK S : ring \in Seq(S)
    BY DEF GoodRing, IsSeq
<1>2. /\ Tail(ring) \in Seq(S) /\ Len(Tail(ring)) = Len(ring) - 1 /\ Len(ring) \in Nat
      /\ \A i \in 1..Len(Tail(ring)) : Tail(ring)[i] = ring[i + 1]
    BY <1>1
<1>3. IsSeq(Tail(ring))
    BY <1>2, SeqIsSeq
<1>4. \A i \in 1..Len(Tail(ring)) : i + 1 \in 1..Len(ring)
    BY <1>2
<1> QED
    BY <1>2, <1>3, <1>4 DEF GoodRing

\* The ring keeps what is good, and takes one more that is.
LEMMA AnnounceGood ==
    ASSUME NEW d, NEW ring, GoodRing(d, ring), NEW events,
           events = <<>> \/ \E e : events = <<e>> /\ GoodEvent(d, e)
    PROVE  GoodRing(d, Announce(ring, events))
<1>1. PICK S : ring \in Seq(S)
    BY DEF GoodRing, IsSeq
<1>2. CASE events = <<>>
    <2>1. ring \o events = ring
        BY <1>1, <1>2
    <2>2. Len(ring) > Ring => ring # <<>>
        BY <1>1, OwdlAssumption
    <2> QED
        BY <2>1, <2>2, GoodTail DEF Announce
<1>3. ASSUME NEW e, events = <<e>>, GoodEvent(d, e)
      PROVE  GoodRing(d, Announce(ring, events))
    <2> DEFINE all == ring \o events
    <2>1. /\ all \in Seq(S \cup {e}) /\ Len(all) = Len(ring) + 1
          /\ \A i \in 1..Len(all) : all[i] = IF i <= Len(ring) THEN ring[i] ELSE e
        BY <1>1, <1>3
    <2>2. Len(ring) \in Nat /\ \A i \in 1..Len(all) : GoodEvent(d, all[i])
        BY <1>1, <1>3, <2>1 DEF GoodRing
    <2> HIDE DEF all
    <2>4. GoodRing(d, all)
        BY <2>1, <2>2, SeqIsSeq DEF GoodRing
    <2>5. GoodRing(d, Tail(all))
        BY <2>1, <2>2, <2>4, GoodTail
    <2> QED
        BY <2>4, <2>5 DEF Announce, all
<1> QED
    BY <1>2, <1>3

\* What is said of PsfFrame::parse holds for the PSFs of every daemon.
LEMMA PsfsAreReadBack == PsfsReadBack
<1> SUFFICES ASSUME NEW n \in Names, NEW p \in Packet
             PROVE  ParsePsf[PsfFrame(MacOf[n], n, Ipv4Of[p.from], p.seq)]
                        = [seq |-> p.seq, mac |-> MacOf[n], ipv4 |-> Ipv4Of[p.from], name |-> n]
    BY DEF PsfsReadBack
<1> DEFINE mac == MacOf[n]
           ipv4 == Ipv4Of[p.from]
<1>1. n \in Seq(Byte) /\ Bytes(mac, 6) /\ Bytes(ipv4, 4)
    BY OwdlAssumption DEF Packet, Bytes
<1>2. p.seq \in Nat /\ p.seq <= MaxSeq
    BY OwdlAssumption DEF Packet
<1>3. Fits(p.seq + 1) /\ Fits(Len(n) + 12)
    <2>1. Len(n) \in Nat /\ MaxSeq \in Nat
        BY <1>1, LenProperties, OwdlAssumption
    <2>2. Len(n) + 95 <= ReceiveBuffer /\ MaxSeq < 65535
        BY FramesFit, SMT
    <2> QED
        BY <1>2, <2>1, <2>2, SMT DEF Fits, ReceiveBuffer
<1> QED
    BY <1>1, <1>2, <1>3, PsfReadBack

\* What a PSF on the air makes its receiver announce.
LEMMA PsfIsGood ==
    ASSUME TypeInv, PeersInv, NEW d \in Daemons, NEW p \in air
    PROVE  \/ PsfEvent(d, Psf(p)) = <<>>
           \/ \E e : PsfEvent(d, Psf(p)) = <<e>> /\ GoodEvent(d, e)
<1> DEFINE n == name[p.from]
           psf == [seq |-> p.seq, mac |-> MacOf[n], ipv4 |-> Ipv4Of[p.from], name |-> n]
<1>1. p \in Packet /\ p.from \in Built /\ n \in Names /\ p.seq <= seq[p.from] /\ p.seq \in Nat
    BY OwdlAssumption DEF TypeInv, PeersInv, Built, Packet
<1>2. ParsePsf[PsfFrame(MacOf[n], n, Ipv4Of[p.from], p.seq)] = psf
    BY <1>1, PsfsAreReadBack DEF PsfsReadBack
<1>3. \A r \in HeardPsfs : r.packet = p /\ r.name = n => r.psf = psf
    BY <1>1, <1>2 DEF HeardPsfs
<1>4. \E r \in HeardPsfs : r.packet = p /\ r.name = n
    <2> DEFINE r == [name |-> n, packet |-> p,
                     psf |-> ParsePsf[PsfFrame(MacOf[n], n, Ipv4Of[p.from], p.seq)]]
    <2>1. r \in HeardPsfs
        BY <1>1 DEF HeardPsfs
    <2> QED
        BY <2>1
<1>5. Psf(p) = psf
    BY <1>3, <1>4 DEF Psf
<1> DEFINE e == [kind |-> "peer", mac |-> psf.mac, name |-> psf.name, ipv4 |-> psf.ipv4, seq |-> psf.seq]
<1>6. PsfEvent(d, Psf(p)) \in {<<>>, <<e>>} /\ (psf.mac = Mac(d) => PsfEvent(d, Psf(p)) = <<>>)
    BY <1>5 DEF PsfEvent
<1>7. ASSUME psf.mac # Mac(d) PROVE GoodEvent(d, e)
    BY <1>1, <1>7 DEF GoodEvent, IsAnnounced, Mac
<1> QED
    BY <1>6, <1>7

LEMMA DataIsGood ==
    ASSUME NEW d, NEW df
    PROVE  \/ DataEvent(d, df) = <<>>
           \/ \E e : DataEvent(d, df) = <<e>> /\ GoodEvent(d, e)
<1>1. GoodEvent(d, [kind |-> "data", mac |-> df.src])
    BY DEF GoodEvent
<1> QED
    BY <1>1 DEF DataEvent

\* The event task and the prune task keep a table good.
LEMMA TableGood ==
    ASSUME TypeInv, NEW d, NEW entries, GoodTable(d, entries)
    PROVE  /\ \A e : e.kind = "peer" /\ GoodEvent(d, e) => GoodTable(d, Upsert(entries, e))
           /\ \A m : GoodTable(d, Touch(entries, m))
           /\ GoodTable(d, Aged(entries))
           /\ \A gone : GoodTable(d, [m \in DOMAIN Aged(entries) \ gone |-> Aged(entries)[m]])
<1>1. ASSUME NEW e, e.kind = "peer", GoodEvent(d, e)
      PROVE  GoodTable(d, Upsert(entries, e))
    <2> DEFINE new == [name |-> e.name, ipv4 |-> e.ipv4, seq |-> e.seq, age |-> 0]
    <2>1. IsAnnounced(d, e.mac, e.name, e.ipv4, e.seq)
        BY <1>1 DEF GoodEvent
    <2>2. new \in Entry
        BY <2>1 DEF IsAnnounced, Entry, Built, TypeInv
    <2>3. /\ DOMAIN Upsert(entries, e) = DOMAIN entries \cup {e.mac}
          /\ \A m \in DOMAIN entries \cup {e.mac} :
                Upsert(entries, e)[m] = IF m = e.mac THEN new ELSE entries[m]
        BY DEF Upsert
    <2> QED
        BY <2>1, <2>2, <2>3 DEF GoodTable
<1>2. ASSUME NEW m \in DOMAIN entries, NEW age \in Nat
      PROVE  /\ [entries[m] EXCEPT !.age = age] \in Entry
             /\ [entries[m] EXCEPT !.age = age].name = entries[m].name
             /\ [entries[m] EXCEPT !.age = age].ipv4 = entries[m].ipv4
             /\ [entries[m] EXCEPT !.age = age].seq = entries[m].seq
    BY DEF GoodTable, Entry
<1>3. ASSUME NEW m PROVE GoodTable(d, Touch(entries, m))
    BY <1>2 DEF GoodTable, Touch
<1>4. ASSUME NEW m \in DOMAIN entries
      PROVE  /\ Aged(entries)[m] \in Entry
             /\ Aged(entries)[m].name = entries[m].name
             /\ Aged(entries)[m].ipv4 = entries[m].ipv4
             /\ Aged(entries)[m].seq = entries[m].seq
    <2> DEFINE age == IF entries[m].age > PeerTimeout THEN entries[m].age ELSE entries[m].age + 1
    <2>1. age \in Nat
        BY DEF GoodTable, Entry
    <2>2. Aged(entries)[m] = [entries[m] EXCEPT !.age = age]
        BY DEF Aged
    <2> HIDE DEF age
    <2> QED
        BY <1>2, <2>1, <2>2
<1>5. DOMAIN Aged(entries) = DOMAIN entries
    BY DEF Aged
<1> QED
    BY <1>1, <1>3, <1>4, <1>5 DEF GoodTable

LEMMA PeersInit == Init => PeersInv
<1> SUFFICES ASSUME Init PROVE PeersInv
    OBVIOUS
<1>1. IsSeq(<<>>)
    BY DEF IsSeq
<1> QED
    BY <1>1 DEF Init, OwdlInit, PeersInv, GoodRing, GoodTable

\* A daemon's name stays, and its sequence grows.
LEMMA DaemonsKept ==
    ASSUME LifeInv, [Next]_vars
    PROVE  /\ \A e \in Built : name'[e] = name[e] /\ seq[e] <= seq'[e]
           /\ Built \subseteq Built'
<1> SUFFICES \A e \in Built : name'[e] = name[e] /\ seq[e] <= seq'[e]
    BY DEF Built
<1>1. /\ name \in [Daemons -> Names \cup {None}] /\ seq \in [Daemons -> 0..MaxSeq]
    BY DEF LifeInv, TypeInv
<1>2. \A e \in Daemons : seq[e] \in Nat
    BY <1>1, OwdlAssumption
<1>3. name' = name \/ \E d \in Daemons \ Built, n \in Names : name' = [name EXCEPT ![d] = n]
    <2>1. ASSUME NEW h \in Hosts, NEW d, BuildOk(h, d)
          PROVE  d \notin Built /\ name' = [name EXCEPT ![d] = mgr[h].device] /\ mgr[h].device \in Names
        BY <2>1 DEF BuildOk, Build, LifeInv, TypeInv, Manager
    <2>2. (CHOOSE d \in Daemons : d \notin Built) \in Daemons \/ Daemons = Built
        <3>1. CASE \E d \in Daemons : d \notin Built
            BY <3>1
        <3>2. CASE ~\E d \in Daemons : d \notin Built
            BY <3>2 DEF Built
        <3> QED
            BY <3>1, <3>2
    <2>3. ASSUME NEW h \in Hosts, EndInitialize(h)
          PROVE  name' = name \/ \E d \in Daemons \ Built, n \in Names : name' = [name EXCEPT ![d] = n]
        BY <2>1, <2>2, <2>3 DEF EndInitialize, PortTaken, BuildFails, daemonVars
    <2> QED
        BY <2>3 DEF Next, Tasks, OwdlStep, EndTasks, SendPsf, ReceiveForeign, Receive, HandleEvent,
                    Period, Loss, Lose, Call, Initialize, Start, Stop, UpdateConfig, RefreshPeers,
                    MaintainPeers, BroadcastData, SendData, vars, owdlVars, daemonVars
<1>4. seq' = seq \/ \E d \in Daemons : seq' = [seq EXCEPT ![d] = IF seq[d] < MaxSeq THEN seq[d] + 1 ELSE MaxSeq]
    BY DEF Next, Tasks, OwdlStep, EndTasks, SendPsf, ReceiveForeign, Receive, HandleEvent,
           Period, Loss, Lose, Call, Initialize, EndInitialize, Start, Stop, UpdateConfig, RefreshPeers,
           MaintainPeers, BroadcastData, SendData, vars, owdlVars, netVars
<1>5. \A e \in Built : name'[e] = name[e]
    BY <1>1, <1>3 DEF Built
<1>6. \A e \in Built : seq[e] <= seq'[e]
    <2>1. CASE seq' = seq
        BY <1>2, <2>1 DEF Built
    <2>2. ASSUME NEW d \in Daemons,
                 seq' = [seq EXCEPT ![d] = IF seq[d] < MaxSeq THEN seq[d] + 1 ELSE MaxSeq]
          PROVE  \A e \in Daemons : seq[e] <= seq'[e]
        <3>1. \A e \in Daemons : seq[e] \in Nat /\ seq[e] <= MaxSeq
            BY <1>1, OwdlAssumption
        <3>2. \A e \in Daemons : seq'[e] = IF e = d THEN (IF seq[d] < MaxSeq THEN seq[d] + 1 ELSE MaxSeq)
                                                   ELSE seq[e]
            BY <1>1, <2>2
        <3>3. MaxSeq \in Nat
            BY OwdlAssumption
        <3> QED
            BY <3>1, <3>2, <3>3
    <2> QED
        BY <1>4, <2>1, <2>2 DEF Built
<1> QED
    BY <1>5, <1>6

\* What a step may do to the rings and tables: change those of daemons that were
\* built, to what is good.
LEMMA PeersKept ==
    ASSUME LifeInv, LifeInv', PeersInv, [Next]_vars,
           \A p \in air' : p \in air \/ (p.from \in Built /\ p.seq <= seq'[p.from]),
           DOMAIN inbound' = Daemons, DOMAIN table' = Daemons,
           \A d \in Daemons : \/ inbound'[d] = inbound[d]
                              \/ d \in Built /\ GoodRing(d, inbound'[d]),
           \A d \in Daemons : \/ table'[d] = table[d]
                              \/ d \in Built /\ GoodTable(d, table'[d])
    PROVE  PeersInv'
<1>1. /\ \A e \in Built : name'[e] = name[e] /\ seq[e] <= seq'[e]
      /\ Built \subseteq Built'
    BY DaemonsKept
<1>2. TypeInv /\ TypeInv' /\ Built \subseteq Daemons
    BY DEF LifeInv, Built
<1>3. \A p \in air' : p.from \in Built' /\ p.seq <= seq'[p.from]
    <2>1. ASSUME NEW p \in air, p \in air'
          PROVE  p.from \in Built' /\ p.seq <= seq'[p.from]
        <3>1. p.from \in Built /\ p.seq <= seq[p.from] /\ p.seq \in Nat
            BY <1>2, OwdlAssumption DEF PeersInv, TypeInv, Packet
        <3>2. seq[p.from] \in Nat /\ seq'[p.from] \in Nat
            BY <1>2, <3>1, OwdlAssumption DEF TypeInv
        <3> QED
            BY <1>1, <3>1, <3>2
    <2> QED
        BY <1>1, <2>1
<1>4. \A d \in Daemons \ Built' : inbound'[d] = <<>> /\ table'[d] = <<>>
    BY <1>1 DEF PeersInv
<1>5. ASSUME NEW d \in Daemons
      PROVE  GoodRing(d, inbound[d])' /\ GoodTable(d, table[d])'
    <2>1. CASE d \in Built
        <3>1. GoodRing(d, inbound'[d]) /\ GoodTable(d, table'[d])
            BY DEF PeersInv
        <3>2. IsSeq(inbound'[d]) /\ \A i \in 1..Len(inbound'[d]) : GoodEvent(d, inbound[d][i])'
            BY <1>1, <1>2, <2>1, <3>1, GoodKept
               DEF GoodEvent, IsAnnounced
        <3>3. \A m \in DOMAIN table'[d] :
                  /\ table'[d][m] \in Entry
                  /\ IsAnnounced(d, m, table[d][m].name, table[d][m].ipv4, table[d][m].seq)'
            BY <1>1, <1>2, <2>1, <3>1, GoodKept DEF IsAnnounced
        <3> QED
            BY <3>2, <3>3 DEF GoodRing, GoodTable, IsSeq, Entry
    <2>2. CASE d \notin Built
        <3>1. inbound'[d] = <<>> /\ table'[d] = <<>>
            BY <2>2 DEF PeersInv
        <3>2. IsSeq(<<>>)
            BY DEF IsSeq
        <3> QED
            BY <3>1, <3>2 DEF GoodRing, GoodTable, IsSeq
    <2> QED
        BY <2>1, <2>2
<1> QED
    BY <1>3, <1>4, <1>5 DEF PeersInv

LEMMA PeersStep ==
    ASSUME LifeInv, LifeInv', PeersInv, [Next]_vars
    PROVE  PeersInv'
<1>1. /\ TypeInv /\ Built \subseteq Daemons /\ DOMAIN inbound = Daemons /\ DOMAIN table = Daemons
      /\ \A d \in Daemons : GoodRing(d, inbound[d]) /\ GoodTable(d, table[d])
      /\ \A d \in Daemons : Served(d) => d \in Built
      /\ seq \in [Daemons -> 0..MaxSeq]
    BY DEF LifeInv, TypeInv, OwnersInv, PeersInv, Built, Served
<1>2. ASSUME UNCHANGED <<inbound, table>>,
             \A p \in air' : p \in air \/ (p.from \in Built /\ p.seq <= seq'[p.from])
      PROVE  PeersInv'
    BY <1>1, <1>2, PeersKept
<1>3. ASSUME NEW d \in Built, NEW ring, inbound' = [inbound EXCEPT ![d] = ring], GoodRing(d, ring),
             UNCHANGED <<table, air>>
      PROVE  PeersInv'
    BY <1>1, <1>3, PeersKept
<1>4. ASSUME NEW d \in Built, NEW entries, table' = [table EXCEPT ![d] = entries], GoodTable(d, entries),
             UNCHANGED <<inbound, air>>
      PROVE  PeersInv'
    BY <1>1, <1>4, PeersKept
<1>5. ASSUME NEW d \in Daemons
      PROVE  /\ \A v \in tasks[d] : EndTasks(d, v) => PeersInv'
             /\ SendPsf(d) => PeersInv'
             /\ \A m \in Macs : ReceiveForeign(d, m) => PeersInv'
             /\ \A p \in air : Receive(d, p) => PeersInv'
             /\ HandleEvent(d) => PeersInv'
             /\ Period(d) => PeersInv'
    <2>1. ASSUME NEW v \in tasks[d], EndTasks(d, v)
          PROVE  PeersInv'
        <3> DEFINE ring == IF tasks[d] = {v} THEN <<>> ELSE inbound[d]
        <3>1. inbound' = [inbound EXCEPT ![d] = ring] /\ UNCHANGED <<table, air>>
            BY <2>1 DEF EndTasks
        <3>2. GoodRing(d, <<>>)
            BY DEF GoodRing, IsSeq
        <3>3. GoodRing(d, ring) /\ d \in Built
            BY <1>1, <3>2 DEF Served
        <3> HIDE DEF ring
        <3> QED
            BY <1>3, <3>1, <3>3
    <2>2. ASSUME SendPsf(d)
          PROVE  PeersInv'
        <3> DEFINE next == IF seq[d] < MaxSeq THEN seq[d] + 1 ELSE MaxSeq
        <3>1. next \in Nat
            BY <1>1, OwdlAssumption
        <3>2. /\ seq' = [seq EXCEPT ![d] = next] /\ air' = air \cup {[from |-> d, seq |-> next]}
              /\ UNCHANGED <<inbound, table>> /\ d \in Built
            BY <1>1, <2>2 DEF SendPsf
        <3> HIDE DEF next
        <3>3. seq'[d] = next /\ next <= next
            BY <1>1, <3>1, <3>2
        <3> QED
            BY <1>2, <3>2, <3>3
    <2>3. ASSUME NEW m \in Macs, ReceiveForeign(d, m)
          PROVE  PeersInv'
        <3> DEFINE ring == Announce(inbound[d], DataEvent(d, HeardForeign(m)))
        <3>1. d \in Built /\ inbound' = [inbound EXCEPT ![d] = ring] /\ UNCHANGED <<table, air>>
            BY <1>1, <2>3 DEF ReceiveForeign
        <3>2. GoodRing(d, ring)
            BY <1>1, DataIsGood, AnnounceGood
        <3> HIDE DEF ring
        <3> QED
            BY <1>3, <3>1, <3>2
    <2>4. ASSUME NEW p \in air, Receive(d, p)
          PROVE  PeersInv'
        <3> DEFINE ring == Announce(inbound[d], PsfEvent(d, Psf(p)))
        <3>1. d \in Built /\ inbound' = [inbound EXCEPT ![d] = ring] /\ UNCHANGED <<table, air>>
            BY <1>1, <2>4 DEF Receive
        <3>2. GoodRing(d, ring)
            BY <1>1, PsfIsGood, AnnounceGood
        <3> HIDE DEF ring
        <3> QED
            BY <1>3, <3>1, <3>2
    <2>5. ASSUME HandleEvent(d)
          PROVE  PeersInv'
        <3> DEFINE e == Head(inbound[d])
                   entries == IF e.kind = "peer" THEN Upsert(table[d], e) ELSE Touch(table[d], e.mac)
        <3>1. /\ d \in Built /\ inbound[d] # <<>> /\ UNCHANGED air
              /\ table' = [table EXCEPT ![d] = entries]
              /\ inbound' = [inbound EXCEPT ![d] = Tail(inbound[d])]
            BY <1>1, <2>5 DEF HandleEvent
        <3>2. GoodRing(d, Tail(inbound[d]))
            BY <1>1, <3>1, GoodTail
        <3>3. GoodEvent(d, e)
            <4>1. PICK S : inbound[d] \in Seq(S)
                BY <1>1 DEF GoodRing, IsSeq
            <4>2. e = inbound[d][1] /\ 1 \in 1..Len(inbound[d])
                BY <3>1, <4>1
            <4> QED
                BY <1>1, <4>2 DEF GoodRing
        <3>4. GoodTable(d, entries)
            BY <1>1, <3>3, TableGood
        <3> HIDE DEF entries
        <3> QED
            BY <1>1, <3>1, <3>2, <3>4, PeersKept
    <2>6. ASSUME Period(d)
          PROVE  PeersInv'
        <3>1. PICK entries : /\ table' = [table EXCEPT ![d] = entries]
                             /\ \/ entries = Aged(table[d])
                                \/ \E gone : entries = [m \in DOMAIN Aged(table[d]) \ gone |-> Aged(table[d])[m]]
            BY <2>6 DEF Period
        <3>2. d \in Built /\ UNCHANGED <<inbound, air>>
            BY <2>6 DEF Period, PeersInv
        <3>3. /\ GoodTable(d, Aged(table[d]))
              /\ \A gone : GoodTable(d, [m \in DOMAIN Aged(table[d]) \ gone |-> Aged(table[d])[m]])
            BY <1>1, TableGood
        <3>4. GoodTable(d, entries)
            BY <3>1, <3>3
        <3> QED
            BY <1>4, <3>1, <3>2, <3>4
    <2> QED
        BY <2>1, <2>2, <2>3, <2>4, <2>5, <2>6
<1>6. ASSUME NEW h \in Hosts, BroadcastData(h)
      PROVE  PeersInv'
    <2>1. PICK m \in peers[h], reached \in SUBSET Daemons : SendData(handle[h], m, reached)
        BY <1>6 DEF BroadcastData
    <2> DEFINE ring(e) == Announce(inbound[e], DataEvent(e, HeardData(Mac(handle[h]), m)))
    <2>2. /\ inbound' = [e \in Daemons |-> IF e \in reached /\ Served(e) THEN ring(e) ELSE inbound[e]]
          /\ UNCHANGED <<table, air>>
        BY <2>1 DEF SendData
    <2>3. \A e \in Daemons : GoodRing(e, ring(e))
        BY <1>1, DataIsGood, AnnounceGood
    <2> HIDE DEF ring
    <2>4. \A e \in Daemons : inbound'[e] = inbound[e] \/ (e \in Built /\ GoodRing(e, inbound'[e]))
        BY <1>1, <2>2, <2>3
    <2> QED
        BY <1>1, <2>2, <2>4, PeersKept
<1>7. ASSUME NEW h \in Hosts, Call(h) \/ EndInitialize(h) \/ RefreshPeers(h) \/ MaintainPeers(h)
      PROVE  UNCHANGED <<inbound, table, air>>
    BY <1>7 DEF Call, Initialize, EndInitialize, Start, Stop, UpdateConfig, RefreshPeers, MaintainPeers,
                owdlVars, netVars
<1>8. CASE UNCHANGED vars
    BY <1>2, <1>8 DEF vars, owdlVars, netVars
<1>9. CASE Loss /\ UNCHANGED managerVars
    BY <1>2, <1>9 DEF Loss, Lose
<1> QED
    BY <1>2, <1>5, <1>6, <1>7, <1>8, <1>9 DEF Next, Tasks, OwdlStep

LEMMA PeersGoal == PeersInv => PeersAreAnnounced
BY DEF PeersInv, GoodTable, IsAnnounced, PeersAreAnnounced

\* Every entry of a peer table is what another daemon announces, and never a mix
\* of two, whatever the air loses, doubles or holds back.
THEOREM AnnouncedPeers == Spec => []PeersAreAnnounced
<1>1. LifeInv /\ PeersInv /\ [Next]_vars => LifeInv' /\ PeersInv'
    BY LifeStep, PeersStep
<1>2. Spec => [](LifeInv /\ PeersInv)
    BY LifeInit, PeersInit, <1>1, PTL DEF Spec
<1> QED
    BY <1>2, PeersGoal, PTL

===============================================================================
