------------------------- MODULE AirDropServerProofs -------------------------
(***************************************************************************)
(* What the receiver announces, that a saved file is only lost to a race   *)
(* for its name, and that the feed loses nothing within its capacity, for  *)
(* any connections, requests, archives, names and answers, and any feed.   *)
(***************************************************************************)
EXTENDS AirDropServer, FiniteSetTheorems, SequenceTheorems, WellFoundedInduction, TLAPS

\* Where a task stands, and what it has in hand there.
Stages ==
    \A c \in Conns :
        /\ conn[c] \in {"deciding", "linking", "unpacking", "announcing"} => asked[c] > 0
        /\ conn[c] = "linking" => verdict[Ask(c)] = "granted"
        /\ conn[c] = "unpacking" => todo[c] # <<>>
        /\ chosen[c] # NoPath => conn[c] \in {"linking", "unpacking"}

TaskInv == TypeOK /\ Stages /\ IsFiniteSet(DOMAIN disk)

\* A file at p is there and whole, unless another was written over it.
IsWhole(p) == p \in DOMAIN disk /\ (disk[p].whole \/ p \in replaced)

\* Links in the folder came with a granted ask; what was saved and what was
\* announced is whole.
FilesInv ==
    /\ \A p \in DOMAIN disk : disk[p].link => verdict[disk[p].ask] = "granted"
    /\ \A c \in Conns : \A i \in 1 .. Len(saved[c]) : IsWhole(saved[c][i])
    /\ \A i \in 1 .. Len(sent) : IsWhole(sent[i])

\* The name with a UUID that ask a draws when k entries are left.
Drawn(n, a, k) == <<n, <<0, <<a, k>>>>>>

\* A task whose name is taken meanwhile has been beaten; and a UUID is of an
\* earlier creation than the one it is to be drawn for.
NamesInv ==
    /\ \A c \in Conns : chosen[c] \in DOMAIN disk => c \in beaten
    /\ \A n \in Names, c \in Conns, m \in Nat, k \in Nat :
          Drawn(n, <<c, m>>, k) \in DOMAIN disk =>
              m < asked[c] \/ (m = asked[c] /\ k > Len(todo[c]))
    /\ \A c \in Conns, n \in Names, a \in Asks, k \in Nat :
          chosen[c] = Drawn(n, a, k) =>
              conn[c] = "unpacking" /\ a = Ask(c) /\ k = Len(todo[c])

\* What was sent and not passed yet is a backlog there has been.
FeedInv ==
    /\ FeedTypeOK(Paths)
    /\ Behind <= backlog
    /\ NothingLostWithinCapacity

-----------------------------------------------------------------------------
(* Asks, names and paths *)

\* A task that has read a request handles an ask of its own.
LEMMA AskInAsks ==
    ASSUME TypeOK, NEW c \in Conns, asked[c] > 0
    PROVE  Ask(c) \in Asks
<1>1. asked[c] \in 1 .. MaxRequests[c]
    BY ServerAssumption DEF TypeOK
<1>2. <<c, asked[c]>> \in {c} \X (1 .. MaxRequests[c])
    BY <1>1
<1> QED
    BY <1>2 DEF Ask, Asks

\* The paths that can be chosen, and that they differ from no path.
LEMMA PathForms ==
    /\ NoPath \notin Paths
    /\ \A n \in Names, i \in Nat : Numbered(n, i) \in Paths
    /\ \A n \in Names, a \in Asks, k \in Nat : Drawn(n, a, k) \in Paths
    /\ \A n \in Names, m \in Names, i \in Nat, a \in Asks, k \in Nat :
          Numbered(n, i) # Drawn(m, a, k)
<1>1. \A n \in Names, i \in Nat : Numbered(n, i) \in Paths
    BY DEF Numbered, Paths
<1>2. \A n \in Names, a \in Asks, k \in Nat : Drawn(n, a, k) \in Paths
    BY DEF Drawn, Paths
<1>3. \A n \in Names, m \in Names, i \in Nat, a \in Asks, k \in Nat :
          Numbered(n, i) # Drawn(m, a, k)
    BY DEF Numbered, Drawn
<1>4. NoPath \notin Paths
    BY DEF NoPath, Paths
<1> QED
    BY <1>1, <1>2, <1>3, <1>4

LEMMA PathKinds ==
    ASSUME NEW p \in Paths
    PROVE  \E n \in Names : \/ \E i \in Nat : p = Numbered(n, i)
                            \/ \E a \in Asks, k \in Nat : p = Drawn(n, a, k)
<1>1. PICK n \in Names, x \in (Nat \X {<<>>}) \cup ({0} \X (Asks \X Nat)) : p = <<n, x>>
    BY DEF Paths
<1>2. CASE x \in Nat \X {<<>>}
    BY <1>1, <1>2 DEF Numbered
<1>3. CASE x \in {0} \X (Asks \X Nat)
    BY <1>1, <1>3 DEF Drawn
<1> QED
    BY <1>2, <1>3

\* A set of numbers has a least one.
LEMMA LeastNumber ==
    ASSUME NEW S, S \subseteq Nat, S # {}
    PROVE  \E i \in S : \A j \in S : i <= j
<1>1. PICK R : /\ IsWellFoundedOn(R, Nat)
               /\ \A i, j \in Nat : j < i => <<j, i>> \in R
    <2>1. \A i, j \in Nat : j < i => <<j, i>> \in OpToRel(<, Nat)
        BY DEF OpToRel
    <2> QED
        BY <2>1, NatLessThanWellFounded
<1>2. PICK i \in S : \A j \in S : ~ (<<j, i>> \in R)
    BY <1>1, WFMin
<1>3. \A j \in S : ~ (j < i)
    BY <1>1, <1>2
<1> QED
    BY <1>3

\* Among as many numbers as there are files, and one more, one is free.
LEMMA SomeNumberFree ==
    ASSUME IsFiniteSet(DOMAIN disk), NEW n
    PROVE  \E i \in 0 .. Cardinality(DOMAIN disk) : ~Exists(n, i)
<1> DEFINE N == Cardinality(DOMAIN disk)
<1> SUFFICES ASSUME \A i \in 0 .. N : Exists(n, i)
             PROVE  FALSE
    OBVIOUS
<1>1. N \in Nat
    BY FS_CardinalityType
<1> DEFINE f == [i \in 0 .. N |-> Numbered(n, i)]
<1>2. f \in Injection(0 .. N, DOMAIN disk)
    <2>1. f \in [0 .. N -> DOMAIN disk]
        BY DEF Exists
    <2>2. \A i, j \in 0 .. N : f[i] = f[j] => i = j
        BY DEF Numbered
    <2> QED
        BY <2>1, <2>2 DEF Injection, IsInjective
<1>3. IsFiniteSet(0 .. N) /\ Cardinality(0 .. N) = N + 1
    BY <1>1, FS_Interval
<1>4. Cardinality(0 .. N) <= N
    BY <1>2, <1>3, FS_Injection DEF ExistsInjection
<1> QED
    BY <1>1, <1>3, <1>4

\* save_link_shortcut finds a number whose name is free.
LEMMA LinkPathIsFree ==
    ASSUME IsFiniteSet(DOMAIN disk), NEW n \in Names
    PROVE  \E i \in Nat : LinkPath(n) = Numbered(n, i) /\ ~Exists(n, i)
<1> DEFINE N == Cardinality(DOMAIN disk)
           S == {i \in 0 .. N : ~Exists(n, i)}
           First(i) == ~Exists(n, i) /\ \A j \in 0 .. (i - 1) : Exists(n, j)
<1>1. N \in Nat
    BY FS_CardinalityType
<1>2. PICK i \in S : \A j \in S : i <= j
    <2>1. S # {} /\ S \subseteq Nat
        BY <1>1, SomeNumberFree
    <2> QED
        BY <2>1, LeastNumber
<1>3. First(i)
    BY <1>1, <1>2
<1>4. \E k \in 0 .. N : First(k)
    BY <1>2, <1>3
<1> DEFINE k == CHOOSE k \in 0 .. N : First(k)
<1>5. k \in 0 .. N /\ First(k)
    BY <1>4
<1>6. LinkPath(n) = Numbered(n, k)
    BY DEF LinkPath
<1> HIDE DEF k
<1> QED
    BY <1>1, <1>5, <1>6

\* unique_path finds a free number, or draws a name for what is left to unpack.
LEMMA UniquePathForms ==
    ASSUME NEW n \in Names, NEW c \in Conns
    PROVE  \/ \E i \in Nat : UniquePath(n, c) = Numbered(n, i) /\ ~Exists(n, i)
           \/ UniquePath(n, c) = Drawn(n, Ask(c), Len(todo[c]))
<1>1. CASE Free(n) = {}
    BY <1>1 DEF UniquePath, Drawn
<1>2. CASE Free(n) # {}
    <2>1. Free(n) \subseteq Nat
        BY ServerAssumption DEF Free
    <2>2. \E i \in Free(n) : \A j \in Free(n) : i <= j
        BY <1>2, <2>1, LeastNumber
    <2> DEFINE i == CHOOSE i \in Free(n) : \A j \in Free(n) : i <= j
    <2>3. i \in Free(n)
        BY <2>2
    <2>4. UniquePath(n, c) = Numbered(n, i)
        BY <1>2 DEF UniquePath
    <2> HIDE DEF i
    <2> QED
        BY <2>1, <2>3, <2>4 DEF Free
<1> QED
    BY <1>1, <1>2

-----------------------------------------------------------------------------
(* Types and stages *)

\* What is granted stays granted, whatever the gate does.
GrantsStay == \A a \in Asks : verdict[a] = "granted" => verdict'[a] = "granted"

LEMMA GateKeeps ==
    ASSUME Gate!TypeOK,
           \/ \E v \in BOOLEAN : Gate!SetAuto(v)
           \/ \E a \in Asks : Gate!Refuse(a) \/ Gate!Ask(a)
           \/ \E k \in Clicks : Gate!Consent(k)
           \/ \E a \in Asks, k \in Clicks : Gate!Grant(a, k)
           \/ UNCHANGED gateVars
    PROVE  Gate!TypeOK' /\ GrantsStay
BY DEF Gate!TypeOK, Gate!SetAuto, Gate!Refuse, Gate!Ask, Gate!Consent, Gate!Grant,
       GrantsStay, gateVars

\* A file is added in its place, or goes over the one that was there.
LEMMA WriteFacts ==
    ASSUME TypeOK, NEW c \in Conns, asked[c] > 0, chosen[c] \in Paths,
           NEW whole \in BOOLEAN, NEW link \in BOOLEAN, Write(c, whole, link)
    PROVE  /\ DOMAIN disk' = DOMAIN disk \cup {chosen[c]}
           /\ disk'[chosen[c]] = [by |-> c, whole |-> whole, link |-> link, ask |-> Ask(c)]
           /\ \A p \in DOMAIN disk : p # chosen[c] => disk'[p] = disk[p]
           /\ \A p \in DOMAIN disk' : disk'[p] \in File
           /\ replaced' = IF chosen[c] \in DOMAIN disk THEN replaced \cup {chosen[c]} ELSE replaced
           /\ beaten' = (beaten \ {c}) \cup {d \in Conns \ {c} : chosen[d] = chosen[c]}
<1>1. [by |-> c, whole |-> whole, link |-> link, ask |-> Ask(c)] \in File
    BY AskInAsks DEF File
<1>2. /\ DOMAIN disk' = DOMAIN disk \cup {chosen[c]}
      /\ disk'[chosen[c]] = [by |-> c, whole |-> whole, link |-> link, ask |-> Ask(c)]
      /\ \A p \in DOMAIN disk : p # chosen[c] => disk'[p] = disk[p]
    BY DEF Write
<1> QED
    BY <1>1, <1>2 DEF Write, TypeOK

\* Sending a path keeps the feed's types.
LEMMA SendFacts ==
    ASSUME NEW P, FeedTypeOK(P), NEW p \in P, Send(p)
    PROVE  /\ FeedTypeOK(P)'
           /\ sent' = Append(sent, p)
           /\ Len(sent') = Len(sent) + 1
           /\ \A i \in 1 .. Len(sent) : sent'[i] = sent[i]
           /\ sent'[Len(sent) + 1] = p
           /\ backlog' \in Nat /\ backlog' >= backlog /\ backlog' >= Len(sent') - cursor'
           /\ cursor' = cursor /\ shown' = shown
<1>1. /\ sent' = Append(sent, p) /\ sent \in Seq(P)
      /\ cursor' = cursor /\ shown' = shown
      /\ cursor \in 0 .. Len(sent) /\ backlog \in Nat
      /\ backlog' = IF backlog >= Len(sent) + 1 - cursor THEN backlog ELSE Len(sent) + 1 - cursor
    BY DEF Send, FeedTypeOK, Larger
<1>2. Len(sent) \in Nat
    BY <1>1, LenProperties
<1>3. /\ sent' \in Seq(P)
      /\ Len(sent') = Len(sent) + 1
      /\ \A i \in 1 .. Len(sent) : sent'[i] = sent[i]
      /\ sent'[Len(sent) + 1] = p
    BY <1>1, AppendProperties
<1> QED
    BY <1>1, <1>2, <1>3 DEF FeedTypeOK

\* A poll keeps them as well.
LEMMA PollFacts ==
    ASSUME NEW P, FeedTypeOK(P), PollReceived
    PROVE  /\ FeedTypeOK(P)'
           /\ sent' = sent /\ backlog' = backlog
           /\ cursor' \in cursor .. Len(sent)
<1>1. /\ sent' = sent /\ backlog' = backlog
      /\ sent \in Seq(P) /\ cursor \in 0 .. Len(sent) /\ shown \in SUBSET (1 .. cursor)
      /\ Capacity \in Nat /\ Len(sent) \in Nat /\ backlog \in Nat
    BY CapacityAssumption, LenProperties DEF PollReceived, Drain, Skip, FeedTypeOK
<1>2. /\ cursor' \in cursor .. Len(sent)
      /\ shown' \in SUBSET (1 .. cursor')
    <2>1. CASE Drain
        <3>1. cursor' = Len(sent) /\ shown' = shown \cup (cursor + 1 .. Len(sent))
            BY <2>1 DEF Drain
        <3>2. \A i \in shown' : i \in 1 .. Len(sent)
            BY <1>1, <3>1
        <3>3. cursor' \in cursor .. Len(sent)
            BY <1>1, <3>1
        <3>4. shown' \subseteq 1 .. cursor'
            BY <3>1, <3>2
        <3> QED
            BY <3>3, <3>4
    <2>2. CASE Skip
        BY <1>1, <2>2 DEF Skip, Behind
    <2> QED
        BY <2>1, <2>2 DEF PollReceived
<1> QED
    BY <1>1, <1>2 DEF FeedTypeOK

LEMMA TaskInit == Init => TaskInv
<1> SUFFICES ASSUME Init PROVE TaskInv
    OBVIOUS
<1>1. Gate!TypeOK
    BY DEF Init, Gate!Init, Gate!TypeOK
<1>2. FeedTypeOK(Paths) /\ DOMAIN disk = {} /\ IsFiniteSet(DOMAIN disk)
    BY FS_EmptySet DEF Init, FeedInit, FeedTypeOK
<1>3. /\ discoverable \in BOOLEAN
      /\ conn \in [Conns -> Phases]
      /\ asked \in [Conns -> Nat]
      /\ \A c \in Conns : asked[c] <= MaxRequests[c]
    BY ServerAssumption DEF Init, Phases
<1>4. /\ todo \in [Conns -> Seq(Entries)]
      /\ chosen \in [Conns -> Paths \cup {NoPath}]
      /\ saved \in [Conns -> Seq(Paths)]
      /\ beaten \in SUBSET Conns
      /\ replaced \subseteq DOMAIN disk
    BY DEF Init
<1> QED
    BY <1>1, <1>2, <1>3, <1>4 DEF Init, TaskInv, TypeOK, Stages

\* A step of the gate or of the user leaves the tasks as they are.
LEMMA QuietTask ==
    ASSUME TaskInv, UNCHANGED <<connVars, chosen, disk, beaten, replaced>>,
           Gate!TypeOK', GrantsStay, FeedTypeOK(Paths)', discoverable' \in BOOLEAN
    PROVE  TaskInv'
<1>1. TypeOK'
    BY DEF TaskInv, TypeOK, connVars
<1>2. Stages'
    BY AskInAsks DEF TaskInv, Stages, GrantsStay, connVars, Ask
<1> QED
    BY <1>1, <1>2 DEF TaskInv, connVars

\* So does a step that only moves one task on to a stage it has what it needs
\* for.
LEMMA MoveTask ==
    ASSUME TaskInv, NEW c \in Conns, NEW phase \in Phases, Become(c, phase),
           chosen[c] = NoPath,
           phase \notin {"reading", "closed"} => asked[c] > 0,
           phase = "linking" => verdict[Ask(c)] = "granted",
           phase # "unpacking",
           UNCHANGED <<discoverable, gateVars, asked, todo, fileVars>>,
           saved' \in [Conns -> Seq(Paths)], FeedTypeOK(Paths)'
    PROVE  TaskInv'
<1>1. conn' = [conn EXCEPT ![c] = phase]
    BY DEF Become
<1>2. TypeOK'
    BY <1>1 DEF TaskInv, TypeOK, Gate!TypeOK, gateVars, fileVars
<1>3. Stages'
    BY <1>1 DEF TaskInv, TypeOK, Stages, gateVars, fileVars, Ask
<1> QED
    BY <1>2, <1>3 DEF TaskInv, fileVars

\* A request is read: the task goes on with the next number.
LEMMA ReadTask ==
    ASSUME TaskInv, NEW c \in Conns, NewRequest(c),
           NEW phase \in {"reading", "closed", "deciding", "unpacking"}, Become(c, phase),
           todo' \in [Conns -> Seq(Entries)],
           \A d \in Conns \ {c} : todo'[d] = todo[d],
           phase = "unpacking" => todo'[c] # <<>>,
           Gate!TypeOK', GrantsStay
    PROVE  TaskInv'
<1>1. /\ conn' = [conn EXCEPT ![c] = phase]
      /\ asked' = [asked EXCEPT ![c] = @ + 1]
      /\ asked[c] < MaxRequests[c]
      /\ conn[c] = "reading"
      /\ UNCHANGED <<discoverable, saved, chosen, disk, beaten, replaced, feedVars>>
    BY DEF Become, NewRequest, fileVars
<1>2. asked' \in [Conns -> Nat] /\ \A d \in Conns : asked'[d] <= MaxRequests[d]
    <2>1. asked \in [Conns -> Nat] /\ \A d \in Conns : asked[d] <= MaxRequests[d]
        BY DEF TaskInv, TypeOK
    <2>2. \A d \in Conns : MaxRequests[d] \in Nat
        BY ServerAssumption
    <2> QED
        BY <1>1, <2>1, <2>2
<1>3. TypeOK'
    BY <1>1, <1>2 DEF TaskInv, TypeOK, Phases, FeedTypeOK, feedVars
<1>4. ASSUME NEW d \in Conns
      PROVE  /\ conn'[d] \in {"deciding", "linking", "unpacking", "announcing"} => asked'[d] > 0
             /\ conn'[d] = "linking" => verdict'[Ask(d)'] = "granted"
             /\ conn'[d] = "unpacking" => todo'[d] # <<>>
             /\ chosen'[d] # NoPath => conn'[d] \in {"linking", "unpacking"}
    <2>1. CASE d = c
        BY <1>1, <2>1 DEF TaskInv, TypeOK, Stages
    <2>2. CASE d # c
        BY <1>1, <2>2, AskInAsks DEF TaskInv, TypeOK, Stages, GrantsStay, Ask
    <2> QED
        BY <2>1, <2>2
<1> QED
    BY <1>1, <1>3, <1>4 DEF TaskInv, Stages

\* The paths a task may choose.
LEMMA ChosenPath ==
    ASSUME TaskInv, NEW c \in Conns, ChooseName(c)
    PROVE  /\ chosen[c] = NoPath
           /\ chosen' = [chosen EXCEPT ![c] = chosen'[c]]
           /\ asked[c] > 0
           /\ conn[c] \in {"linking", "unpacking"}
           /\ \/ \E n \in Names, i \in Nat : chosen'[c] = Numbered(n, i) /\ ~Exists(n, i)
              \/ /\ conn[c] = "unpacking"
                 /\ \E n \in Names : chosen'[c] = Drawn(n, Ask(c), Len(todo[c]))
<1>1. /\ chosen \in [Conns -> Paths \cup {NoPath}] /\ todo \in [Conns -> Seq(Entries)]
      /\ IsFiniteSet(DOMAIN disk)
      /\ conn[c] \in {"linking", "unpacking"} => asked[c] > 0
    BY DEF TaskInv, TypeOK, Stages
<1>2. CASE conn[c] = "linking"
    <2>1. PICK n \in Names : Choose(c, LinkPath(n))
        BY <1>2 DEF ChooseName
    <2>2. chosen[c] = NoPath /\ chosen' = [chosen EXCEPT ![c] = LinkPath(n)]
        BY <2>1 DEF Choose
    <2> QED
        BY <1>1, <1>2, <2>2, LinkPathIsFree
<1>3. CASE conn[c] = "unpacking"
    <2> DEFINE n == Head(todo[c]).name
    <2>1. /\ chosen[c] = NoPath
          /\ chosen' = [chosen EXCEPT ![c] = UniquePath(n, c)]
        BY <1>3 DEF ChooseName, Choose
    <2>2. n \in Names
        <3>1. todo[c] \in Seq(Entries) /\ todo[c] # <<>>
            BY <1>1, <1>3 DEF TaskInv, Stages
        <3>2. Head(todo[c]) \in Entries
            BY <3>1, HeadTailProperties
        <3> QED
            BY <3>2 DEF Entries
    <2> HIDE DEF n
    <2>3. chosen'[c] = UniquePath(n, c) /\ chosen' = [chosen EXCEPT ![c] = chosen'[c]]
        BY <1>1, <2>1
    <2> QED
        BY <1>1, <1>3, <2>1, <2>2, <2>3, UniquePathForms
<1> QED
    BY <1>2, <1>3 DEF ChooseName

LEMMA ChooseTask ==
    ASSUME TaskInv, NEW c \in Conns, ChooseName(c)
    PROVE  TaskInv'
<1>1. chosen'[c] \in Paths
    <2>1. asked[c] > 0 /\ Ask(c) \in Asks
        BY ChosenPath, AskInAsks DEF TaskInv
    <2>2. Len(todo[c]) \in Nat
        BY LenProperties DEF TaskInv, TypeOK
    <2> QED
        BY <2>1, <2>2, ChosenPath, PathForms
<1>2. /\ chosen' = [chosen EXCEPT ![c] = chosen'[c]]
      /\ conn[c] \in {"linking", "unpacking"}
      /\ UNCHANGED <<discoverable, gateVars, connVars, disk, beaten, replaced, feedVars>>
    BY ChosenPath DEF ChooseName, Choose
<1>3. TypeOK'
    BY <1>1, <1>2 DEF TaskInv, TypeOK, Gate!TypeOK, FeedTypeOK, gateVars, connVars, feedVars
<1>4. Stages'
    BY <1>2 DEF TaskInv, TypeOK, Stages, gateVars, connVars, Ask
<1> QED
    BY <1>2, <1>3, <1>4 DEF TaskInv

\* Writing a file, or failing to, and going on.
LEMMA WriteTask ==
    ASSUME TaskInv, NEW c \in Conns, chosen[c] # NoPath,
           NEW phase \in {"reading", "closed", "unpacking", "announcing"}, Become(c, phase),
           \/ \E whole, link \in BOOLEAN : Write(c, whole, link)
           \/ WriteFails(c),
           chosen' = [chosen EXCEPT ![c] = NoPath],
           todo' \in [Conns -> Seq(Entries)],
           \A d \in Conns \ {c} : todo'[d] = todo[d],
           phase = "unpacking" => todo'[c] # <<>>,
           saved' \in [Conns -> Seq(Paths)],
           UNCHANGED <<discoverable, gateVars, asked>>,
           FeedTypeOK(Paths)'
    PROVE  TaskInv'
<1>1. /\ conn' = [conn EXCEPT ![c] = phase] /\ conn \in [Conns -> Phases]
      /\ chosen \in [Conns -> Paths \cup {NoPath}]
      /\ chosen[c] \in Paths /\ asked[c] > 0
    BY DEF TaskInv, TypeOK, Stages, Become
<1>2. /\ DOMAIN disk' \subseteq Paths
      /\ \A p \in DOMAIN disk' : disk'[p] \in File
      /\ beaten' \in SUBSET Conns
      /\ replaced' \subseteq DOMAIN disk'
      /\ IsFiniteSet(DOMAIN disk')
    <2>1. CASE WriteFails(c)
        BY <2>1 DEF WriteFails, TaskInv, TypeOK
    <2>2. ASSUME NEW whole \in BOOLEAN, NEW link \in BOOLEAN, Write(c, whole, link)
          PROVE  /\ DOMAIN disk' \subseteq Paths
                 /\ \A p \in DOMAIN disk' : disk'[p] \in File
                 /\ beaten' \in SUBSET Conns
                 /\ replaced' \subseteq DOMAIN disk'
                 /\ IsFiniteSet(DOMAIN disk')
        <3>1. /\ DOMAIN disk' = DOMAIN disk \cup {chosen[c]}
              /\ \A p \in DOMAIN disk' : disk'[p] \in File
              /\ replaced' = IF chosen[c] \in DOMAIN disk THEN replaced \cup {chosen[c]} ELSE replaced
              /\ beaten' = (beaten \ {c}) \cup {d \in Conns \ {c} : chosen[d] = chosen[c]}
            BY <1>1, <2>2, WriteFacts DEF TaskInv
        <3>2. IsFiniteSet(DOMAIN disk')
            <4>1. IsFiniteSet(DOMAIN disk \cup {chosen[c]})
                BY FS_AddElement DEF TaskInv
            <4> QED
                BY <3>1, <4>1
        <3> QED
            BY <1>1, <3>1, <3>2 DEF TaskInv, TypeOK
    <2> QED
        BY <2>1, <2>2
<1>3. TypeOK'
    BY <1>1, <1>2 DEF TaskInv, TypeOK, Gate!TypeOK, gateVars, Phases
<1>4. Stages'
    BY <1>1 DEF TaskInv, TypeOK, Stages, gateVars, Ask
<1> QED
    BY <1>2, <1>3, <1>4 DEF TaskInv

LEMMA TaskStep == TaskInv /\ [Next]_vars => TaskInv'
<1> SUFFICES ASSUME TaskInv, [Next]_vars PROVE TaskInv'
    OBVIOUS
<1>0. /\ Gate!TypeOK /\ FeedTypeOK(Paths) /\ discoverable \in BOOLEAN
      /\ conn \in [Conns -> Phases]
      /\ todo \in [Conns -> Seq(Entries)] /\ saved \in [Conns -> Seq(Paths)]
      /\ chosen \in [Conns -> Paths \cup {NoPath}]
    BY DEF TaskInv, TypeOK
<1>1. CASE UNCHANGED vars
    <2>1. Gate!TypeOK' /\ GrantsStay
        BY <1>0, <1>1, GateKeeps DEF vars
    <2>2. FeedTypeOK(Paths)'
        BY <1>0, <1>1 DEF vars, feedVars, FeedTypeOK
    <2> QED
        BY <1>0, <1>1, <2>1, <2>2, QuietTask DEF vars, fileVars
<1>2. ASSUME NEW v \in BOOLEAN, SetDiscoverable(v)
      PROVE  TaskInv'
    <2>1. Gate!TypeOK' /\ GrantsStay
        BY <1>0, <1>2, GateKeeps DEF SetDiscoverable
    <2>2. FeedTypeOK(Paths)'
        BY <1>0, <1>2 DEF SetDiscoverable, feedVars, FeedTypeOK
    <2> QED
        BY <1>2, <2>1, <2>2, QuietTask DEF SetDiscoverable, fileVars
<1>3. CASE GateStep
    <2>1. Gate!TypeOK' /\ GrantsStay
        BY <1>0, <1>3, GateKeeps DEF GateStep
    <2>2. FeedTypeOK(Paths)'
        BY <1>0, <1>3 DEF GateStep, feedVars, FeedTypeOK
    <2> QED
        BY <1>0, <1>3, <2>1, <2>2, QuietTask DEF GateStep, fileVars
<1>4. CASE UIStep
    <2>1. Gate!TypeOK' /\ GrantsStay
        BY <1>0, <1>4, GateKeeps DEF UIStep
    <2>2. FeedTypeOK(Paths)'
        BY <1>0, <1>4, PollFacts DEF UIStep
    <2> QED
        BY <1>0, <1>4, <2>1, <2>2, QuietTask DEF UIStep, fileVars
<1>5. ASSUME NEW c \in Conns, ReadFails(c)
      PROVE  TaskInv'
    <2>1. chosen[c] = NoPath
        BY <1>5 DEF ReadFails, TaskInv, Stages
    <2>2. FeedTypeOK(Paths)'
        BY <1>0, <1>5 DEF ReadFails, feedVars, FeedTypeOK
    <2> QED
        BY <1>0, <1>5, <2>1, <2>2, MoveTask DEF ReadFails, Phases
<1>6. ASSUME NEW c \in Conns, HandleOther(c)
      PROVE  TaskInv'
    <2>1. Gate!TypeOK' /\ GrantsStay
        BY <1>0, <1>6, GateKeeps DEF HandleOther
    <2> QED
        BY <1>0, <1>6, <2>1, ReadTask DEF HandleOther, Reply
<1>7. ASSUME NEW c \in Conns, HandleAsk(c)
      PROVE  TaskInv'
    <2>1. Gate!TypeOK' /\ GrantsStay
        <3>1. asked[c] \in Nat /\ asked[c] < MaxRequests[c] /\ MaxRequests[c] \in Nat
            BY <1>7, ServerAssumption DEF HandleAsk, NewRequest, TaskInv, TypeOK
        <3>2. <<c, asked[c] + 1>> \in {c} \X (1 .. MaxRequests[c])
            BY <3>1
        <3>3. <<c, asked[c] + 1>> \in Asks
            BY <3>2 DEF Asks
        <3> QED
            BY <1>0, <1>7, <3>3, GateKeeps DEF HandleAsk
    <2> QED
        BY <1>0, <1>7, <2>1, ReadTask DEF HandleAsk, Reply
<1>8. ASSUME NEW c \in Conns, HandleUpload(c)
      PROVE  TaskInv'
    <2>1. Gate!TypeOK' /\ GrantsStay
        BY <1>0, <1>8, GateKeeps DEF HandleUpload
    <2>2. CASE Become(c, "closed") /\ UNCHANGED todo
        BY <1>0, <1>8, <2>1, <2>2, ReadTask DEF HandleUpload
    <2>3. ASSUME NEW archive \in Archives, todo' = [todo EXCEPT ![c] = archive], Become(c, "unpacking")
          PROVE  TaskInv'
        <3>1. archive \in Seq(Entries) /\ archive # <<>>
            BY ServerAssumption
        <3> QED
            BY <1>0, <1>8, <2>1, <2>3, <3>1, ReadTask DEF HandleUpload
    <2> QED
        BY <1>8, <2>2, <2>3 DEF HandleUpload
<1>9. ASSUME NEW c \in Conns, Decided(c)
      PROVE  TaskInv'
    <2>1. chosen[c] = NoPath /\ asked[c] > 0
        BY <1>9 DEF Decided, TaskInv, Stages
    <2>2. FeedTypeOK(Paths)'
        BY <1>0, <1>9 DEF Decided, feedVars, FeedTypeOK
    <2> QED
        BY <1>0, <1>9, <2>1, <2>2, MoveTask DEF Decided, Reply, Phases
<1>10. ASSUME NEW c \in Conns, ChooseName(c)
       PROVE  TaskInv'
    BY <1>10, ChooseTask
<1>11. ASSUME NEW c \in Conns, SaveLink(c)
       PROVE  TaskInv'
    <2>1. chosen[c] \in Paths
        BY <1>0, <1>11 DEF SaveLink
    <2>2. FeedTypeOK(Paths)'
        BY <1>0, <1>11, <2>1, SendFacts DEF SaveLink, feedVars, FeedTypeOK
    <2> QED
        BY <1>0, <1>11, <2>2, WriteTask DEF SaveLink, Reply
<1>12. ASSUME NEW c \in Conns, CreateFile(c)
       PROVE  TaskInv'
    <2>1. /\ chosen[c] \in Paths /\ chosen[c] # NoPath /\ todo[c] \in Seq(Entries) /\ todo[c] # <<>>
        BY <1>0, <1>12 DEF CreateFile, TaskInv, Stages
    <2>2. /\ Tail(todo[c]) \in Seq(Entries)
          /\ Len(todo[c]) # 1 => Tail(todo[c]) # <<>>
        <3>1. Tail(todo[c]) \in Seq(Entries) /\ Len(Tail(todo[c])) = Len(todo[c]) - 1
            BY <2>1, HeadTailProperties
        <3>2. Len(todo[c]) \in Nat \ {0}
            BY <2>1, EmptySeq
        <3>3. Len(<<>>) = 0
            OBVIOUS
        <3>4. Len(todo[c]) # 1 => Len(Tail(todo[c])) # 0
            BY <3>1, <3>2
        <3> QED
            BY <3>1, <3>3, <3>4
    <2>3. /\ todo' = [todo EXCEPT ![c] = Tail(@)]
          /\ todo' \in [Conns -> Seq(Entries)]
        BY <1>0, <1>12, <2>2 DEF CreateFile
    <2>4. FeedTypeOK(Paths)'
        BY <1>0, <1>12 DEF CreateFile, feedVars, FeedTypeOK
    <2>5. saved' \in [Conns -> Seq(Paths)]
        <3>1. Append(saved[c], chosen[c]) \in Seq(Paths)
            BY <1>0, <2>1, AppendProperties
        <3>2. saved' = saved \/ saved' = [saved EXCEPT ![c] = Append(@, chosen[c])]
            BY <1>12 DEF CreateFile
        <3> QED
            BY <1>0, <3>1, <3>2
    <2>6. PICK phase \in {"closed", "unpacking", "announcing"} :
              Become(c, phase) /\ (phase = "unpacking" => Len(todo[c]) # 1)
        BY <1>12 DEF CreateFile
    <2> QED
        BY <1>0, <1>12, <2>1, <2>2, <2>3, <2>4, <2>5, <2>6, WriteTask DEF CreateFile
<1>13. ASSUME NEW c \in Conns, UnpackFails(c)
       PROVE  TaskInv'
    <2>1. FeedTypeOK(Paths)'
        BY <1>0, <1>13 DEF UnpackFails, feedVars, FeedTypeOK
    <2> QED
        BY <1>0, <1>13, <2>1, MoveTask DEF UnpackFails, Phases
<1>14. ASSUME NEW c \in Conns, Announce(c)
       PROVE  TaskInv'
    <2>1. chosen[c] = NoPath /\ asked[c] > 0
        BY <1>14 DEF Announce, TaskInv, Stages
    <2>2. CASE saved[c] = <<>>
        <3>1. FeedTypeOK(Paths)'
            BY <1>0, <1>14, <2>2 DEF Announce, feedVars, FeedTypeOK
        <3> QED
            BY <1>0, <1>14, <2>1, <2>2, <3>1, MoveTask DEF Announce, Phases
    <2>3. CASE saved[c] # <<>>
        <3>1. Head(saved[c]) \in Paths /\ Tail(saved[c]) \in Seq(Paths)
            BY <1>0, <2>3, HeadTailProperties
        <3>2. FeedTypeOK(Paths)' /\ saved' \in [Conns -> Seq(Paths)]
            BY <1>0, <1>14, <2>3, <3>1, SendFacts DEF Announce
        <3>3. Become(c, "announcing")
            BY <1>0, <1>14, <2>3 DEF Announce, Become
        <3> QED
            BY <1>14, <2>1, <3>2, <3>3, MoveTask DEF Announce, Phases
    <2> QED
        BY <2>2, <2>3
<1> QED
    BY <1>1, <1>2, <1>3, <1>4, <1>5, <1>6, <1>7, <1>8, <1>9, <1>10, <1>11, <1>12, <1>13, <1>14
       DEF Next, Request, Work

-----------------------------------------------------------------------------
(* What is announced is whole *)

\* Files that stay as they are stay whole; a link's ask stays granted.
LEMMA FilesQuiet ==
    ASSUME TaskInv, FilesInv, UNCHANGED <<disk, replaced>>, GrantsStay,
           \A c \in Conns : \A i \in 1 .. Len(saved'[c]) : IsWhole(saved'[c][i]),
           \A i \in 1 .. Len(sent') : IsWhole(sent'[i])
    PROVE  FilesInv'
<1>1. \A p \in DOMAIN disk : disk[p].ask \in Asks
    BY DEF TaskInv, TypeOK, File
<1> QED
    BY <1>1 DEF FilesInv, IsWhole, GrantsStay

\* Writing a file, or failing to, leaves what was whole whole, and a link is
\* written for a granted ask only.
LEMMA FilesWritten ==
    ASSUME TaskInv, FilesInv, NEW c \in Conns, chosen[c] # NoPath,
           NEW whole \in BOOLEAN, NEW link \in BOOLEAN,
           Write(c, whole, link) \/ WriteFails(c),
           link => verdict[Ask(c)] = "granted", UNCHANGED verdict
    PROVE  /\ \A p \in DOMAIN disk' : disk'[p].link => verdict'[disk'[p].ask] = "granted"
           /\ \A p : IsWhole(p) => IsWhole(p)'
           /\ \A p : Write(c, whole, link) /\ whole /\ p = chosen[c] => IsWhole(p)'
<1>1. chosen[c] \in Paths /\ asked[c] > 0
    BY DEF TaskInv, TypeOK, Stages
<1>2. ASSUME Write(c, whole, link)
      PROVE  /\ DOMAIN disk' = DOMAIN disk \cup {chosen[c]}
             /\ disk'[chosen[c]] = [by |-> c, whole |-> whole, link |-> link, ask |-> Ask(c)]
             /\ \A p \in DOMAIN disk : p # chosen[c] => disk'[p] = disk[p]
             /\ replaced' = IF chosen[c] \in DOMAIN disk THEN replaced \cup {chosen[c]} ELSE replaced
    BY <1>1, <1>2, WriteFacts DEF TaskInv
<1>3. \A p : Write(c, whole, link) /\ whole /\ p = chosen[c] => IsWhole(p)'
    BY <1>2 DEF IsWhole
<1>4. CASE WriteFails(c)
    BY <1>3, <1>4 DEF WriteFails, FilesInv, IsWhole
<1>5. CASE Write(c, whole, link)
    <2>1. \A p \in DOMAIN disk' : disk'[p].link => verdict'[disk'[p].ask] = "granted"
        BY <1>2, <1>5 DEF FilesInv
    <2>2. ASSUME NEW p, IsWhole(p)
          PROVE  IsWhole(p)'
        BY <1>2, <1>5, <2>2 DEF IsWhole
    <2> QED
        BY <1>3, <2>1, <2>2
<1> QED
    BY <1>4, <1>5

\* Sending a whole file keeps all of what was sent whole.
LEMMA SentWhole ==
    ASSUME NEW p \in Paths, FeedTypeOK(Paths), Send(p), IsWhole(p)',
           \A q : IsWhole(q) => IsWhole(q)', \A i \in 1 .. Len(sent) : IsWhole(sent[i])
    PROVE  \A i \in 1 .. Len(sent') : IsWhole(sent[i])'
<1>1. /\ Len(sent) \in Nat /\ Len(sent') = Len(sent) + 1
      /\ \A i \in 1 .. Len(sent) : sent'[i] = sent[i]
      /\ sent'[Len(sent) + 1] = p
    BY SendFacts, LenProperties DEF FeedTypeOK
<1>2. ASSUME NEW i \in 1 .. Len(sent')
      PROVE  IsWhole(sent[i])'
    <2>1. CASE i = Len(sent) + 1
        BY <1>1, <2>1
    <2>2. CASE i \in 1 .. Len(sent)
        <3>1. IsWhole(sent[i])
            BY <2>2
        <3> DEFINE q == sent[i]
        <3>2. sent'[i] = q
            BY <1>1, <2>2
        <3> QED
            BY <3>1, <3>2 DEF IsWhole
    <2> QED
        BY <1>1, <2>1, <2>2
<1> QED
    BY <1>2

LEMMA FilesInit == Init => FilesInv
BY DEF Init, FeedInit, FilesInv

LEMMA FilesStep == TaskInv /\ FilesInv /\ [Next]_vars => FilesInv'
<1> SUFFICES ASSUME TaskInv, FilesInv, [Next]_vars PROVE FilesInv'
    OBVIOUS
<1>0. /\ Gate!TypeOK /\ FeedTypeOK(Paths)
      /\ conn \in [Conns -> Phases]
      /\ saved \in [Conns -> Seq(Paths)]
      /\ chosen \in [Conns -> Paths \cup {NoPath}]
    BY DEF TaskInv, TypeOK
<1>1. ASSUME UNCHANGED <<saved, disk, replaced, sent>>, GrantsStay
      PROVE  FilesInv'
    BY <1>1, FilesQuiet DEF FilesInv
<1>2. UNCHANGED verdict => GrantsStay
    BY DEF GrantsStay
<1>3. CASE UNCHANGED vars
    BY <1>1, <1>2, <1>3 DEF vars, gateVars, connVars, fileVars, feedVars
<1>4. ASSUME NEW v \in BOOLEAN, SetDiscoverable(v)
      PROVE  FilesInv'
    BY <1>1, <1>2, <1>4 DEF SetDiscoverable, gateVars, connVars, fileVars, feedVars
<1>5. CASE GateStep
    BY <1>0, <1>1, <1>5, GateKeeps DEF GateStep, connVars, fileVars, feedVars
<1>6. CASE UIStep
    BY <1>0, <1>1, <1>2, <1>6, PollFacts DEF UIStep, gateVars, connVars, fileVars
<1>7. ASSUME NEW c \in Conns, Request(c)
      PROVE  FilesInv'
    <2>1. CASE ReadFails(c)
        BY <1>1, <1>2, <2>1 DEF ReadFails, gateVars, fileVars, feedVars
    <2>2. CASE HandleOther(c)
        BY <1>1, <1>2, <2>2 DEF HandleOther, NewRequest, gateVars, fileVars, feedVars
    <2>3. CASE HandleAsk(c)
        <3>1. GrantsStay
            BY <1>0, <2>3 DEF HandleAsk, Gate!Ask, Gate!TypeOK, GrantsStay, gateVars
        <3> QED
            BY <1>1, <2>3, <3>1 DEF HandleAsk, NewRequest, fileVars, feedVars
    <2>4. CASE HandleUpload(c)
        BY <1>1, <1>2, <2>4 DEF HandleUpload, NewRequest, gateVars, fileVars, feedVars
    <2> QED
        BY <1>7, <2>1, <2>2, <2>3, <2>4 DEF Request
<1>8. ASSUME NEW c \in Conns, Decided(c) \/ ChooseName(c) \/ UnpackFails(c)
      PROVE  FilesInv'
    BY <1>1, <1>2, <1>8
       DEF Decided, ChooseName, Choose, UnpackFails, gateVars, connVars, fileVars, feedVars
<1>9. ASSUME NEW c \in Conns, SaveLink(c)
      PROVE  FilesInv'
    <2>1. chosen[c] \in Paths /\ chosen[c] # NoPath /\ verdict[Ask(c)] = "granted"
        BY <1>0, <1>9 DEF SaveLink, TaskInv, Stages
    <2>2. /\ \A p \in DOMAIN disk' : disk'[p].link => verdict'[disk'[p].ask] = "granted"
          /\ \A p : IsWhole(p) => IsWhole(p)'
          /\ \A p : Write(c, TRUE, TRUE) /\ p = chosen[c] => IsWhole(p)'
        BY <1>9, <2>1, FilesWritten DEF SaveLink, gateVars
    <2>3. \A i \in 1 .. Len(sent') : IsWhole(sent[i])'
        <3>1. CASE Write(c, TRUE, TRUE) /\ Send(chosen[c])
            <4>1. PICK p \in Paths : p = chosen[c]
                BY <2>1
            <4>2. IsWhole(p)' /\ Send(p)
                BY <2>2, <3>1, <4>1
            <4> QED
                BY <1>0, <2>2, <4>2, SentWhole DEF FilesInv
        <3>2. CASE UNCHANGED feedVars
            BY <2>2, <3>2 DEF FilesInv, feedVars, IsWhole
        <3> QED
            BY <1>9, <3>1, <3>2 DEF SaveLink
    <2>4. saved' = saved
        BY <1>9 DEF SaveLink
    <2>5. \A d \in Conns : \A i \in 1 .. Len(saved'[d]) : IsWhole(saved[d][i])'
        BY <2>2, <2>4 DEF FilesInv, IsWhole
    <2> QED
        BY <2>2, <2>3, <2>5 DEF FilesInv
<1>10. ASSUME NEW c \in Conns, CreateFile(c)
       PROVE  FilesInv'
    <2> DEFINE whole == Head(todo[c]).kind = "whole"
    <2>1. chosen[c] \in Paths /\ chosen[c] # NoPath
        BY <1>0, <1>10 DEF CreateFile
    <2>2. /\ \A p \in DOMAIN disk' : disk'[p].link => verdict'[disk'[p].ask] = "granted"
          /\ \A p : IsWhole(p) => IsWhole(p)'
          /\ \A p : Write(c, whole, FALSE) /\ whole /\ p = chosen[c] => IsWhole(p)'
        BY <1>10, <2>1, FilesWritten DEF CreateFile, gateVars
    <2>3. sent' = sent
        BY <1>10 DEF CreateFile, feedVars
    <2>4. \A i \in 1 .. Len(sent') : IsWhole(sent[i])'
        BY <2>2, <2>3 DEF FilesInv, IsWhole
    <2>5. \A d \in Conns : \A i \in 1 .. Len(saved'[d]) : IsWhole(saved[d][i])'
        <3>1. CASE saved' = saved
            BY <2>2, <3>1 DEF FilesInv, IsWhole
        <3>2. CASE saved' # saved
            <4>1. /\ Write(c, whole, FALSE) /\ whole
                  /\ saved' = [saved EXCEPT ![c] = Append(@, chosen[c])]
                BY <1>10, <3>2 DEF CreateFile
            <4>2. /\ Len(saved[c]) \in Nat /\ Len(Append(saved[c], chosen[c])) = Len(saved[c]) + 1
                  /\ \A i \in 1 .. Len(saved[c]) : Append(saved[c], chosen[c])[i] = saved[c][i]
                  /\ Append(saved[c], chosen[c])[Len(saved[c]) + 1] = chosen[c]
                BY <1>0, <2>1, AppendProperties, LenProperties
            <4>3. ASSUME NEW d \in Conns, NEW i \in 1 .. Len(saved'[d])
                  PROVE  \E q : q = saved'[d][i] /\ IsWhole(q)'
                <5>1. CASE d # c
                    BY <1>0, <2>2, <4>1, <4>3, <5>1 DEF FilesInv
                <5>2. CASE d = c /\ i = Len(saved[c]) + 1
                    BY <1>0, <2>2, <4>1, <4>2, <5>2
                <5>3. CASE d = c /\ i \in 1 .. Len(saved[c])
                    BY <1>0, <2>2, <4>1, <4>2, <5>3 DEF FilesInv
                <5> QED
                    BY <1>0, <4>1, <4>2, <4>3, <5>1, <5>2, <5>3
            <4> QED
                BY <4>3 DEF IsWhole
        <3> QED
            BY <3>1, <3>2
    <2> QED
        BY <2>2, <2>4, <2>5 DEF FilesInv
<1>11. ASSUME NEW c \in Conns, Announce(c)
       PROVE  FilesInv'
    <2>1. CASE saved[c] = <<>>
        BY <1>1, <1>2, <1>11, <2>1 DEF Announce, gateVars, fileVars, feedVars
    <2>2. CASE saved[c] # <<>>
        <3>1. /\ Send(Head(saved[c])) /\ saved' = [saved EXCEPT ![c] = Tail(@)]
              /\ UNCHANGED <<verdict, disk, replaced>>
            BY <1>11, <2>2 DEF Announce, gateVars, fileVars
        <3>2. /\ Head(saved[c]) = saved[c][1] /\ Head(saved[c]) \in Paths
              /\ Len(saved[c]) \in Nat \ {0}
              /\ Len(Tail(saved[c])) = Len(saved[c]) - 1
              /\ \A i \in 1 .. Len(Tail(saved[c])) : Tail(saved[c])[i] = saved[c][i + 1]
            BY <1>0, <2>2, HeadTailProperties, EmptySeq
        <3>3. \A d \in Conns : \A i \in 1 .. Len(saved'[d]) : IsWhole(saved'[d][i])
            <4>1. \A i \in 1 .. Len(Tail(saved[c])) : IsWhole(Tail(saved[c])[i])
                BY <3>2 DEF FilesInv
            <4> QED
                BY <1>0, <3>1, <4>1 DEF FilesInv
        <3>4. \A i \in 1 .. Len(sent') : IsWhole(sent'[i])
            <4>1. PICK p \in Paths : p = Head(saved[c])
                BY <3>2
            <4>2. IsWhole(p)
                BY <3>2, <4>1 DEF FilesInv
            <4>3. \A q : IsWhole(q) => IsWhole(q)'
                BY <3>1 DEF IsWhole
            <4>4. \A i \in 1 .. Len(sent') : IsWhole(sent[i])'
                BY <1>0, <3>1, <4>1, <4>2, <4>3, SentWhole DEF FilesInv
            <4> QED
                BY <3>1, <4>4 DEF IsWhole
        <3> QED
            BY <1>2, <3>1, <3>3, <3>4, FilesQuiet
    <2> QED
        BY <2>1, <2>2
<1> QED
    BY <1>3, <1>4, <1>5, <1>6, <1>7, <1>8, <1>9, <1>10, <1>11 DEF Next, Work

-----------------------------------------------------------------------------
(* Saved files are lost to a race only *)

LEMMA NamesInit == Init => NamesInv
<1> SUFFICES ASSUME Init PROVE NamesInv
    OBVIOUS
<1>1. DOMAIN disk = {} /\ \A c \in Conns : chosen[c] = NoPath
    BY DEF Init
<1> QED
    BY <1>1, PathForms DEF NamesInv

\* Steps that neither choose nor create, and at most read a request.
LEMMA NamesQuiet ==
    ASSUME TaskInv, NamesInv, UNCHANGED <<chosen, disk, beaten>>,
           \A c \in Conns : chosen[c] # NoPath => conn'[c] = conn[c],
           \A c \in Conns : \/ asked'[c] = asked[c] + 1 /\ chosen[c] = NoPath
                            \/ asked'[c] = asked[c] /\ todo'[c] = todo[c]
    PROVE  NamesInv'
<1>1. \A c \in Conns : asked[c] \in Nat
    BY DEF TaskInv, TypeOK
<1>2. \A c \in Conns : chosen'[c] \in DOMAIN disk' => c \in beaten'
    BY DEF NamesInv
<1>3. ASSUME NEW n \in Names, NEW c \in Conns, NEW m \in Nat, NEW k \in Nat,
             Drawn(n, <<c, m>>, k) \in DOMAIN disk'
      PROVE  m < asked'[c] \/ (m = asked'[c] /\ k > Len(todo'[c]))
    <2>1. m < asked[c] \/ (m = asked[c] /\ k > Len(todo[c]))
        BY <1>3 DEF NamesInv
    <2> QED
        BY <1>1, <2>1
<1>4. ASSUME NEW c \in Conns, NEW n \in Names, NEW a \in Asks, NEW k \in Nat,
             chosen'[c] = Drawn(n, a, k)
      PROVE  conn'[c] = "unpacking" /\ a = <<c, asked'[c]>> /\ k = Len(todo'[c])
    <2>1. chosen[c] # NoPath
        BY <1>4, PathForms
    <2>2. conn[c] = "unpacking" /\ a = Ask(c) /\ k = Len(todo[c])
        BY <1>4 DEF NamesInv
    <2>3. asked'[c] = asked[c] /\ todo'[c] = todo[c] /\ conn'[c] = conn[c]
        BY <1>1, <2>1
    <2> QED
        BY <2>2, <2>3 DEF Ask
<1> QED
    BY <1>2, <1>3, <1>4 DEF NamesInv, Drawn, Ask

\* A name that is chosen is free then.
LEMMA ChosenIsFree ==
    ASSUME TaskInv, NamesInv, NEW c \in Conns, ChooseName(c)
    PROVE  chosen'[c] \notin DOMAIN disk
<1>1. asked[c] \in Nat /\ Len(todo[c]) \in Nat /\ asked[c] > 0
    BY ChosenPath, LenProperties DEF TaskInv, TypeOK
<1>2. CASE \E n \in Names, i \in Nat : chosen'[c] = Numbered(n, i) /\ ~Exists(n, i)
    BY <1>2 DEF Exists
<1>3. ASSUME NEW n \in Names, chosen'[c] = Drawn(n, Ask(c), Len(todo[c]))
      PROVE  chosen'[c] \notin DOMAIN disk
    BY <1>1, <1>3 DEF NamesInv, Ask
<1> QED
    BY <1>2, <1>3, ChosenPath

LEMMA NamesChoose ==
    ASSUME TaskInv, NamesInv, NEW c \in Conns, ChooseName(c)
    PROVE  NamesInv'
<1>1. /\ chosen' = [chosen EXCEPT ![c] = chosen'[c]]
      /\ chosen \in [Conns -> Paths \cup {NoPath}]
      /\ UNCHANGED <<conn, asked, todo, disk, beaten>>
    BY ChosenPath DEF ChooseName, Choose, connVars, TaskInv, TypeOK
<1>2. \A d \in Conns : chosen'[d] \in DOMAIN disk' => d \in beaten'
    BY <1>1, ChosenIsFree DEF NamesInv
<1>3. ASSUME NEW d \in Conns, NEW n \in Names, NEW a \in Asks, NEW k \in Nat,
             chosen'[d] = Drawn(n, a, k)
      PROVE  conn[d] = "unpacking" /\ a = Ask(d) /\ k = Len(todo[d])
    <2>1. CASE d # c
        BY <1>1, <1>3, <2>1 DEF NamesInv
    <2>2. CASE d = c
        <3>1. \A m \in Names, i \in Nat : chosen'[c] # Numbered(m, i)
            BY <1>3, <2>2, PathForms
        <3>2. /\ conn[c] = "unpacking"
              /\ \E m \in Names : chosen'[c] = Drawn(m, Ask(c), Len(todo[c]))
            BY <3>1, ChosenPath
        <3>3. a = Ask(c) /\ k = Len(todo[c])
            BY <1>3, <2>2, <3>2 DEF Drawn
        <3> QED
            BY <2>2, <3>2, <3>3
    <2> QED
        BY <2>1, <2>2
<1> QED
    BY <1>1, <1>2, <1>3 DEF NamesInv, Drawn, Ask

\* Creating the chosen file, or failing to; then fewer entries are left.
LEMMA NamesWrite ==
    ASSUME TaskInv, NamesInv, NEW c \in Conns, chosen[c] # NoPath,
           NEW whole \in BOOLEAN, NEW link \in BOOLEAN,
           Write(c, whole, link) \/ WriteFails(c),
           chosen' = [chosen EXCEPT ![c] = NoPath],
           \A d \in Conns \ {c} : conn'[d] = conn[d] /\ todo'[d] = todo[d],
           UNCHANGED asked,
           Len(todo'[c]) <= Len(todo[c]), Len(todo'[c]) \in Nat,
           conn[c] = "unpacking" => Len(todo'[c]) < Len(todo[c])
    PROVE  NamesInv'
<1>1. /\ chosen \in [Conns -> Paths \cup {NoPath}] /\ chosen[c] \in Paths
      /\ asked[c] > 0 /\ DOMAIN disk \subseteq Paths /\ beaten \subseteq Conns
      /\ asked \in [Conns -> Nat] /\ \A d \in Conns : Len(todo[d]) \in Nat
    BY LenProperties DEF TaskInv, TypeOK, Stages
<1>2. /\ DOMAIN disk' \subseteq DOMAIN disk \cup {chosen[c]}
      /\ \A d \in Conns \ {c} : d \in beaten => d \in beaten'
      /\ chosen[c] \in DOMAIN disk' => \/ chosen[c] \in DOMAIN disk /\ DOMAIN disk' = DOMAIN disk
                                       \/ \A d \in Conns \ {c} : chosen[d] = chosen[c] => d \in beaten'
    <2>1. CASE WriteFails(c)
        BY <2>1 DEF WriteFails
    <2>2. ASSUME Write(c, whole, link)
          PROVE  /\ DOMAIN disk' = DOMAIN disk \cup {chosen[c]}
                 /\ beaten' = (beaten \ {c}) \cup {d \in Conns \ {c} : chosen[d] = chosen[c]}
        BY <1>1, <2>2, WriteFacts DEF TaskInv
    <2> QED
        BY <2>1, <2>2
<1>3. ASSUME NEW d \in Conns, chosen'[d] \in DOMAIN disk'
      PROVE  d \in beaten'
    <2>1. d # c /\ chosen'[d] = chosen[d]
        <3>1. NoPath \notin DOMAIN disk'
            BY <1>1, <1>2, PathForms
        <3> QED
            BY <1>1, <1>3, <3>1
    <2> QED
        BY <1>2, <1>3, <2>1 DEF NamesInv
<1>4. ASSUME NEW n \in Names, NEW d \in Conns, NEW m \in Nat, NEW k \in Nat,
             Drawn(n, <<d, m>>, k) \in DOMAIN disk'
      PROVE  m < asked[d] \/ (m = asked[d] /\ k > Len(todo'[d]))
    <2>1. CASE Drawn(n, <<d, m>>, k) \in DOMAIN disk
        <3>1. m < asked[d] \/ (m = asked[d] /\ k > Len(todo[d]))
            BY <2>1 DEF NamesInv
        <3>2. Len(todo'[d]) <= Len(todo[d]) /\ Len(todo'[d]) \in Nat
            BY <1>1
        <3> QED
            BY <1>1, <3>1, <3>2
    <2>2. CASE chosen[c] = Drawn(n, <<d, m>>, k)
        <3>1. <<d, m>> \in Asks
            <4>1. \A f \in Names, i \in Nat : chosen[c] # Numbered(f, i)
                BY <2>2 DEF Drawn, Numbered
            <4>2. \E f \in Names, b \in Asks, j \in Nat : chosen[c] = Drawn(f, b, j)
                BY <1>1, <4>1, PathKinds
            <4> QED
                BY <2>2, <4>2 DEF Drawn
        <3>2. conn[c] = "unpacking" /\ <<d, m>> = <<c, asked[c]>> /\ k = Len(todo[c])
            BY <2>2, <3>1 DEF NamesInv, Ask
        <3> QED
            BY <3>2
    <2> QED
        BY <1>2, <1>4, <2>1, <2>2
<1>5. ASSUME NEW d \in Conns, NEW n \in Names, NEW a \in Asks, NEW k \in Nat,
             chosen'[d] = Drawn(n, a, k)
      PROVE  conn'[d] = "unpacking" /\ a = Ask(d) /\ k = Len(todo'[d])
    <2>1. d # c
        BY <1>1, <1>5, PathForms
    <2> QED
        BY <1>1, <1>5, <2>1 DEF NamesInv
<1> QED
    BY <1>3, <1>4, <1>5 DEF NamesInv, Drawn, Ask

LEMMA NamesStep == TaskInv /\ NamesInv /\ [Next]_vars => NamesInv'
<1> SUFFICES ASSUME TaskInv, NamesInv, [Next]_vars PROVE NamesInv'
    OBVIOUS
<1>0. /\ conn \in [Conns -> Phases] /\ asked \in [Conns -> Nat]
      /\ todo \in [Conns -> Seq(Entries)]
      /\ \A c \in Conns : chosen[c] # NoPath => conn[c] \in {"linking", "unpacking"}
    BY DEF TaskInv, TypeOK, Stages
<1>1. CASE UNCHANGED <<connVars, fileVars>>
    BY <1>1, NamesQuiet DEF connVars, fileVars
<1>2. ASSUME NEW c \in Conns, Request(c)
      PROVE  NamesInv'
    <2>1. /\ conn[c] = "reading" /\ chosen[c] = NoPath
          /\ UNCHANGED fileVars
          /\ \/ asked' = [asked EXCEPT ![c] = @ + 1]
             \/ UNCHANGED <<asked, todo>>
          /\ \A d \in Conns \ {c} : conn'[d] = conn[d] /\ todo'[d] = todo[d]
        BY <1>0, <1>2 DEF Request, ReadFails, HandleOther, HandleAsk, HandleUpload, NewRequest,
                         Reply, Become
    <2> QED
        BY <1>0, <2>1, NamesQuiet DEF fileVars
<1>3. ASSUME NEW c \in Conns, Decided(c) \/ UnpackFails(c) \/ Announce(c)
      PROVE  NamesInv'
    <2>1. /\ chosen[c] = NoPath
          /\ UNCHANGED <<fileVars, asked, todo>>
          /\ \A d \in Conns \ {c} : conn'[d] = conn[d]
        BY <1>0, <1>3 DEF Decided, UnpackFails, Announce, Reply, Become
    <2> QED
        BY <1>0, <2>1, NamesQuiet DEF fileVars
<1>4. ASSUME NEW c \in Conns, ChooseName(c)
      PROVE  NamesInv'
    BY <1>4, NamesChoose
<1>5. ASSUME NEW c \in Conns, SaveLink(c)
      PROVE  NamesInv'
    <2>1. Len(todo[c]) \in Nat
        BY <1>0, LenProperties
    <2>2. /\ conn[c] = "linking" /\ chosen[c] # NoPath
          /\ UNCHANGED <<asked, todo>> /\ chosen' = [chosen EXCEPT ![c] = NoPath]
          /\ Write(c, TRUE, TRUE) \/ WriteFails(c)
          /\ \A d \in Conns \ {c} : conn'[d] = conn[d]
        BY <1>0, <1>5 DEF SaveLink, Reply, Become
    <2>3. /\ Len(todo'[c]) \in Nat /\ Len(todo'[c]) <= Len(todo[c])
          /\ conn[c] # "unpacking"
          /\ \A d \in Conns \ {c} : todo'[d] = todo[d]
        BY <2>1, <2>2
    <2> QED
        BY <2>2, <2>3, NamesWrite
<1>6. ASSUME NEW c \in Conns, CreateFile(c)
      PROVE  NamesInv'
    <2>1. Len(Tail(todo[c])) = Len(todo[c]) - 1 /\ Len(todo[c]) \in Nat \ {0}
        <3>1. todo[c] \in Seq(Entries) /\ todo[c] # <<>>
            BY <1>0, <1>6 DEF CreateFile, TaskInv, Stages
        <3> QED
            BY <3>1, HeadTailProperties, EmptySeq
    <2>2. /\ chosen[c] # NoPath
          /\ UNCHANGED asked /\ todo' = [todo EXCEPT ![c] = Tail(@)]
          /\ chosen' = [chosen EXCEPT ![c] = NoPath]
          /\ Write(c, Head(todo[c]).kind = "whole", FALSE) \/ WriteFails(c)
          /\ \A d \in Conns \ {c} : conn'[d] = conn[d]
        BY <1>0, <1>6 DEF CreateFile, Become
    <2>3. /\ Len(todo'[c]) \in Nat
          /\ Len(todo'[c]) <= Len(todo[c]) /\ Len(todo'[c]) < Len(todo[c])
          /\ \A d \in Conns \ {c} : todo'[d] = todo[d]
        BY <1>0, <2>1, <2>2
    <2> QED
        BY <2>2, <2>3, NamesWrite
<1> QED
    BY <1>1, <1>2, <1>3, <1>4, <1>5, <1>6
       DEF Next, Work, SetDiscoverable, GateStep, UIStep, vars

\* The step that writes over a file is that of a task whose name was taken.
LEMMA ReplacedStep ==
    TaskInv /\ NamesInv /\ [Next]_vars =>
        \A p \in DOMAIN disk : disk'[p] # disk[p] => \E c \in beaten : chosen[c] = p
<1> SUFFICES ASSUME TaskInv, NamesInv, [Next]_vars, NEW p \in DOMAIN disk, disk'[p] # disk[p]
             PROVE  \E c \in beaten : chosen[c] = p
    OBVIOUS
<1>1. PICK c \in Conns : CreateFile(c) \/ SaveLink(c)
    BY DEF Next, Work, Request, SetDiscoverable, GateStep, UIStep, ReadFails, HandleOther, HandleAsk,
           HandleUpload, NewRequest, Decided, ChooseName, Choose, UnpackFails, Announce,
           vars, fileVars
<1>2. PICK whole \in BOOLEAN, link \in BOOLEAN : Write(c, whole, link)
    BY <1>1 DEF CreateFile, SaveLink, WriteFails
<1>3. chosen[c] \in Paths /\ asked[c] > 0
    BY <1>1 DEF CreateFile, SaveLink, TaskInv, TypeOK, Stages
<1>4. p = chosen[c]
    BY <1>2, <1>3, WriteFacts DEF TaskInv
<1> QED
    BY <1>4 DEF NamesInv

-----------------------------------------------------------------------------
(* The feed *)

LEMMA FeedInitInv == Init => FeedInv
<1> SUFFICES ASSUME Init PROVE FeedInv
    OBVIOUS
<1>1. FeedTypeOK(Paths) /\ Len(sent) = 0 /\ cursor = 0 /\ backlog = 0 /\ shown = {}
    BY TaskInit DEF TaskInv, TypeOK, Init, FeedInit
<1> QED
    BY <1>1 DEF FeedInv, Behind, NothingLostWithinCapacity

\* A path is added, and the largest backlog counts it.
LEMMA SendKeepsFeed ==
    ASSUME FeedInv, NEW p \in Paths, Send(p)
    PROVE  FeedInv'
<1>1. /\ FeedTypeOK(Paths)' /\ backlog \in Nat
      /\ backlog' \in Nat /\ backlog' >= backlog /\ backlog' >= Len(sent') - cursor'
      /\ cursor' = cursor /\ shown' = shown
    BY SendFacts DEF FeedInv, FeedTypeOK
<1>2. backlog' <= Capacity => backlog <= Capacity
    BY <1>1, CapacityAssumption
<1> QED
    BY <1>1, <1>2 DEF FeedInv, Behind, NothingLostWithinCapacity

\* The drain shows all that was passed; skipping takes a backlog over capacity.
LEMMA PollKeepsFeed ==
    ASSUME FeedInv, PollReceived
    PROVE  FeedInv'
<1>1. /\ FeedTypeOK(Paths)' /\ sent' = sent /\ backlog' = backlog
      /\ cursor' \in cursor .. Len(sent)
    BY PollFacts DEF FeedInv
<1>2. /\ cursor \in 0 .. Len(sent) /\ backlog \in Nat /\ Len(sent) \in Nat
      /\ Len(sent) - cursor <= backlog /\ Capacity \in Nat
    BY LenProperties, CapacityAssumption DEF FeedInv, FeedTypeOK, Behind
<1>3. Len(sent) - cursor' <= backlog
    BY <1>1, <1>2
<1>4. backlog <= Capacity => shown' = 1 .. cursor'
    <2>1. CASE Drain
        <3>1. cursor' = Len(sent) /\ shown' = shown \cup (cursor + 1 .. Len(sent))
            BY <2>1 DEF Drain
        <3>2. backlog <= Capacity => shown = 1 .. cursor
            BY DEF FeedInv, NothingLostWithinCapacity
        <3>3. (1 .. cursor) \cup (cursor + 1 .. Len(sent)) = 1 .. Len(sent)
            BY <1>2
        <3> QED
            BY <3>1, <3>2, <3>3
    <2>2. CASE Skip
        BY <1>2, <2>2 DEF Skip, Behind
    <2> QED
        BY <2>1, <2>2 DEF PollReceived
<1> QED
    BY <1>1, <1>3, <1>4 DEF FeedInv, Behind, NothingLostWithinCapacity

LEMMA FeedStep == TaskInv /\ FeedInv /\ [Next]_vars => FeedInv'
<1> SUFFICES ASSUME TaskInv, FeedInv, [Next]_vars PROVE FeedInv'
    OBVIOUS
<1>1. CASE UNCHANGED feedVars
    BY <1>1 DEF feedVars, FeedInv, FeedTypeOK, Behind, NothingLostWithinCapacity
<1>2. CASE UIStep
    BY <1>2, PollKeepsFeed DEF UIStep
<1>3. ASSUME NEW c \in Conns, SaveLink(c), Send(chosen[c])
      PROVE  FeedInv'
    <2>1. chosen[c] \in Paths
        BY <1>3 DEF SaveLink, TaskInv, TypeOK
    <2> QED
        BY <1>3, <2>1, SendKeepsFeed
<1>4. ASSUME NEW c \in Conns, saved[c] # <<>>, Send(Head(saved[c]))
      PROVE  FeedInv'
    <2>1. saved[c] \in Seq(Paths)
        BY DEF TaskInv, TypeOK
    <2>2. Head(saved[c]) \in Paths
        BY <1>4, <2>1, HeadTailProperties
    <2> QED
        BY <1>4, <2>2, SendKeepsFeed
<1> QED
    BY <1>1, <1>2, <1>3, <1>4
       DEF Next, Work, Request, SetDiscoverable, GateStep, ReadFails, HandleOther, HandleAsk,
           HandleUpload, NewRequest, Decided, ChooseName, Choose, SaveLink, CreateFile, UnpackFails,
           Announce, vars

-----------------------------------------------------------------------------
(* The theorems *)

\* The types of the receiver hold, tasks are where they have what they need,
\* and the files in the folder are finitely many.
THEOREM TaskInvariant == Spec => []TaskInv
BY TaskInit, TaskStep, PTL DEF Spec

(* What extract_cpio and save_link_shortcut announce was received in full, *)
(* a race for the name aside, and a link that is announced came with an    *)
(* ask that was granted: in any order of any number of connections.        *)
THEOREM AnnouncedFiles == Spec => []AnnouncedIsWhole
<1>1. FilesInv => AnnouncedIsWhole
    BY DEF FilesInv, IsWhole, AnnouncedIsWhole
<1> QED
    BY <1>1, FilesInit, FilesStep, TaskInvariant, PTL DEF Spec

(* unique_path never names a file that is there: what is written over was  *)
(* created by another between the look and the creation.                   *)
THEOREM SavedFilesStay == Spec => ReplacedOnlyByRace
BY NamesInit, NamesStep, ReplacedStep, TaskInvariant, PTL DEF Spec, ReplacedOnlyByRace

(* Whatever the capacity of the channel, a UI that was never further       *)
(* behind has announced every file it has passed.                          *)
THEOREM FeedIsLossless == Spec => []NothingLostWithinCapacity
<1>1. FeedInv => NothingLostWithinCapacity
    BY DEF FeedInv
<1> QED
    BY <1>1, FeedInitInv, FeedStep, TaskInvariant, PTL DEF Spec
=============================================================================
