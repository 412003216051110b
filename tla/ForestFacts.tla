----------------------------- MODULE ForestFacts ----------------------------
(***************************************************************************)
(* Facts about child lists that form a forest, and about the recursive     *)
(* methods that go through them: what the tree of processes is, how it     *)
(* changes when a list does, where a method is in it, and what the method  *)
(* has finished.                                                           *)
(*                                                                         *)
(* They are about any child lists kds, any stack of frames stk and any     *)
(* records ps of the processes; the proofs about the tree's methods use    *)
(* them for the states before and after a step.                            *)
(***************************************************************************)
EXTENDS ProcessTree, SequenceFacts

(* The child lists of a forest. *)
ChildLists == [0..N -> Seq(P)]

(* The sets of processes that are at most n lists further down, as a        *)
(* function defined by its equation.                                        *)
Deeper(kds, L) == L \cup UNION {ToSet(kds[p]) : p \in L}
GoesDown(kds, o, m, down) ==
  down = [n \in 0..m |-> IF n = 0 THEN ToSet(kds[o]) ELSE Deeper(kds, down[n - 1])]
Down(kds, o) == CHOOSE down : GoesDown(kds, o, N, down)

(* What is below a list is what that function reaches after N levels. *)
LEMMA BelowIsDown ==
  ASSUME NEW kds, NEW o
  PROVE  Below(kds, o) = Down(kds, o)[N]
BY DEF Below, Down, GoesDown, Deeper

(* Places of processes, and the place that stands for the roots. *)
LEMMA Numbers == N \in Nat /\ N # 0 /\ Top \in 0..N /\ P \subseteq 0..N /\ Top \notin P
BY TreeAssumption DEF P, Top

(* There is such a function, for any number of levels: the equation that    *)
(* defines Below has a solution.                                            *)
LEMMA DownFrom ==
  ASSUME NEW kds, NEW o, NEW m \in Nat
  PROVE  \E down : GoesDown(kds, o, m, down)
<1> DEFINE Bad == {n \in Nat : \A down : ~ GoesDown(kds, o, n, down)}
<1> SUFFICES ASSUME Bad # {} PROVE FALSE
  OBVIOUS
<1>1. PICK b \in Bad : \A k \in Bad : b <= k
  <2>1. Bad \subseteq Nat
    OBVIOUS
  <2> HIDE DEF Bad
  <2> QED BY <2>1, LeastNatural
<1>2. b # 0
  <2>1. GoesDown(kds, o, 0, [n \in 0..0 |-> ToSet(kds[o])])
    BY DEF GoesDown
  <2> QED BY <1>1, <2>1
<1>3. PICK down : GoesDown(kds, o, b - 1, down)
  <2>1. b - 1 \in Nat /\ ~ (b <= b - 1)
    BY <1>2
  <2>2. b - 1 \notin Bad
    BY <1>1, <2>1
  <2> QED BY <2>1, <2>2
<1> DEFINE more == [n \in 0..b |-> IF n = b THEN Deeper(kds, down[b - 1]) ELSE down[n]]
<1>4. more = [n \in 0..b |-> IF n = 0 THEN ToSet(kds[o]) ELSE Deeper(kds, more[n - 1])]
  <2> SUFFICES ASSUME NEW n \in 0..b
               PROVE  more[n] = IF n = 0 THEN ToSet(kds[o]) ELSE Deeper(kds, more[n - 1])
    OBVIOUS
  <2>1. CASE n = 0
    <3>1. more[n] = down[0] /\ 0 \in 0..b - 1
      BY <2>1, <1>2
    <3> QED BY <2>1, <3>1, <1>3 DEF GoesDown
  <2>2. CASE n # 0
    <3>1. n - 1 \in 0..b /\ n - 1 # b /\ n - 1 \in 0..b - 1
      BY <2>2
    <3>2. more[n - 1] = down[n - 1]
      BY <3>1
    <3>3. CASE n = b
      BY <3>2, <3>3, <2>2
    <3>4. CASE n # b
      <4>1. more[n] = down[n] /\ n \in 0..b - 1
        BY <3>4
      <4>2. down[n] = Deeper(kds, down[n - 1])
        BY <4>1, <2>2, <1>3 DEF GoesDown
      <4> QED BY <4>1, <4>2, <3>2, <2>2
    <3> QED BY <3>3, <3>4
  <2> QED BY <2>1, <2>2
<1>5. GoesDown(kds, o, b, more)
  BY <1>4 DEF GoesDown
<1> QED BY <1>5, <1>1

(* Its values. *)
LEMMA DownValues ==
  ASSUME NEW kds, NEW o
  PROVE  /\ Down(kds, o)[0] = ToSet(kds[o])
         /\ \A n \in 1..N : Down(kds, o)[n] = Deeper(kds, Down(kds, o)[n - 1])
<1>1. GoesDown(kds, o, N, Down(kds, o))
  <2>1. \E down : GoesDown(kds, o, N, down)
    BY Numbers, DownFrom
  <2> QED BY <2>1 DEF Down
<1> DEFINE down == Down(kds, o)
<1> HIDE DEF down
<1>2. down = [n \in 0..N |-> IF n = 0 THEN ToSet(kds[o]) ELSE Deeper(kds, down[n - 1])]
  BY <1>1 DEF GoesDown, down
<1>3. down[0] = ToSet(kds[o])
  BY <1>2, Numbers
<1>4. \A n \in 1..N : n \in 0..N /\ n # 0
  BY Numbers
<1>5. \A n \in 1..N : down[n] = Deeper(kds, down[n - 1])
  BY <1>2, <1>4
<1> QED BY <1>3, <1>5 DEF down

(* Nothing but processes comes below, and nothing that a set closed under   *)
(* child lists would not have.                                              *)
LEMMA DownBounds ==
  ASSUME NEW kds, NEW o, NEW L, ToSet(kds[o]) \subseteq L,
         \A p \in L : ToSet(kds[p]) \subseteq L, NEW n \in 0..N
  PROVE  Down(kds, o)[n] \subseteq L
<1> DEFINE Bad == {k \in 0..N : ~ (Down(kds, o)[k] \subseteq L)}
<1> SUFFICES ASSUME Bad # {} PROVE FALSE
  OBVIOUS
<1>1. PICK b \in Bad : \A k \in Bad : b <= k
  <2>1. Bad \subseteq Nat
    BY Numbers
  <2> HIDE DEF Bad
  <2> QED BY <2>1, LeastNatural
<1>2. b # 0
  BY <1>1, DownValues
<1>3. b \in 1..N /\ b - 1 \in 0..N /\ ~ (b <= b - 1)
  BY <1>1, <1>2, Numbers
<1>4. Down(kds, o)[b - 1] \subseteq L
  BY <1>1, <1>3
<1>5. Down(kds, o)[b] = Deeper(kds, Down(kds, o)[b - 1])
  BY <1>3, DownValues
<1>6. Deeper(kds, Down(kds, o)[b - 1]) \subseteq L
  BY <1>4 DEF Deeper
<1> QED BY <1>1, <1>5, <1>6

(* Each level down adds a process, or else there is nothing further below;  *)
(* there are no more than N.                                                *)
LEMMA DownEnds ==
  ASSUME NEW kds \in ChildLists, NEW o \in 0..N
  PROVE  \A p \in Down(kds, o)[N] : ToSet(kds[p]) \subseteq Down(kds, o)[N]
<1> DEFINE d == Down(kds, o)
           Ended(n) == Deeper(kds, d[n]) = d[n]
           Bad == {n \in 0..N : ~ Ended(n) /\ ~ (n <= Cardinality(d[n]))}
<1>1. \A n \in 0..N : d[n] \subseteq P
  <2>1. ToSet(kds[o]) \subseteq P /\ \A p \in P : ToSet(kds[p]) \subseteq P
    BY Numbers, Elements DEF ChildLists
  <2> QED BY <2>1, DownBounds
<1>2. IsFiniteSet(P) /\ Cardinality(P) = N
  <2>1. \A m \in Nat : IsFiniteSet(1..m) /\ Cardinality(1..m) = m
    BY FS_Interval
  <2> QED BY <2>1, Numbers DEF P
<1>3. \A n \in 0..N : IsFiniteSet(d[n]) /\ Cardinality(d[n]) \in Nat
  BY <1>1, <1>2, FS_Subset, FS_CardinalityType
<1>4. \A n \in 1..N : d[n] = Deeper(kds, d[n - 1])
  BY DownValues
<1> HIDE DEF d
<1>5. Bad = {}
  <2> SUFFICES ASSUME Bad # {} PROVE FALSE
    OBVIOUS
  <2>1. PICK b \in Bad : \A k \in Bad : b <= k
    <3>1. Bad \subseteq Nat
      BY Numbers
    <3> HIDE DEF Bad
    <3> QED BY <3>1, LeastNatural
  <2>2. b \in 0..N /\ ~ Ended(b) /\ ~ (b <= Cardinality(d[b]))
    BY <2>1
  <2>3. b # 0
    BY <2>2, <1>3
  <2>4. b \in 1..N /\ b - 1 \in 0..N /\ ~ (b <= b - 1)
    BY <2>2, <2>3, Numbers
  <2>5. Ended(b - 1) \/ b - 1 <= Cardinality(d[b - 1])
    BY <2>1, <2>4
  <2>6. d[b] = Deeper(kds, d[b - 1])
    BY <1>4, <2>4
  <2>7. ~ Ended(b - 1)
    <3>1. Ended(b - 1) => d[b] = d[b - 1]
      BY <2>6
    <3> QED BY <2>2, <3>1
  <2>8. d[b - 1] \subseteq d[b] /\ d[b - 1] # d[b]
    BY <2>6, <2>7 DEF Deeper
  <2>9. Cardinality(d[b - 1]) < Cardinality(d[b])
    <3>1. /\ Cardinality(d[b - 1]) <= Cardinality(d[b])
          /\ Cardinality(d[b - 1]) = Cardinality(d[b]) => d[b - 1] = d[b]
      BY <2>4, <2>8, <2>2, <1>3, FS_Subset
    <3> QED BY <3>1, <2>8, <2>2, <2>4, <1>3
  <2> DEFINE x == Cardinality(d[b - 1])
             y == Cardinality(d[b])
  <2>10. x \in Nat /\ y \in Nat /\ x < y /\ b - 1 <= x /\ ~ (b <= y)
    BY <2>2, <2>4, <2>5, <2>7, <2>9, <1>3
  <2> HIDE DEF x, y
  <2> QED BY <2>10, <2>2
<1>6. Ended(N) \/ N <= Cardinality(d[N])
  BY <1>5, Numbers
<1>7. CASE Ended(N)
  BY <1>7 DEF Deeper, d
<1>8. CASE N <= Cardinality(d[N])
  <2>1. N \in 0..N
    BY Numbers
  <2>2. /\ Cardinality(d[N]) <= Cardinality(P)
        /\ Cardinality(d[N]) = Cardinality(P) => d[N] = P
    BY <1>1, <1>2, <2>1, FS_Subset
  <2>3. Cardinality(d[N]) = N
    BY <2>1, <2>2, <1>2, <1>3, <1>8, Numbers
  <2>4. d[N] = P
    BY <2>2, <2>3, <1>2
  <2>5. \A p \in P : ToSet(kds[p]) \subseteq P
    BY Numbers, Elements DEF ChildLists
  <2> QED BY <2>4, <2>5 DEF d
<1> QED BY <1>6, <1>7, <1>8

Tree(kds) == Below(kds, Top) \cup {Top}

(* The tree is the least set that has the roots and with each process its   *)
(* children.                                                                *)
LEMMA TreeIsLeast ==
  ASSUME NEW kds \in ChildLists
  PROVE  /\ Below(kds, Top) \subseteq P /\ Tree(kds) \subseteq 0..N /\ Top \in Tree(kds)
         /\ Below(kds, Top) = Tree(kds) \ {Top}
         /\ \A o \in Tree(kds) : ToSet(kds[o]) \subseteq Tree(kds) \ {Top}
         /\ \A L : Top \in L /\ (\A o \in L : ToSet(kds[o]) \subseteq L) => Tree(kds) \subseteq L
<1> DEFINE B == Below(kds, Top)
<1>1. B = Down(kds, Top)[N] /\ Top \in 0..N /\ N \in 0..N
  BY BelowIsDown, Numbers
<1>2. \A o \in 0..N : ToSet(kds[o]) \subseteq P
  BY Elements DEF ChildLists
<1>3. B \subseteq P
  <2>1. \A p \in P : ToSet(kds[p]) \subseteq P
    BY <1>2, Numbers
  <2>2. ToSet(kds[Top]) \subseteq P
    BY <1>1, <1>2
  <2> HIDE DEF B
  <2> QED BY <1>1, <2>1, <2>2, DownBounds
<1>4. ToSet(kds[Top]) \subseteq B
  <2> DEFINE d == Down(kds, Top)
             Bad == {n \in 0..N : ~ (ToSet(kds[Top]) \subseteq d[n])}
  <2>1. d[0] = ToSet(kds[Top]) /\ \A n \in 1..N : d[n] = Deeper(kds, d[n - 1])
    BY DownValues
  <2> HIDE DEF d
  <2>2. Bad = {}
    <3> SUFFICES ASSUME Bad # {} PROVE FALSE
      OBVIOUS
    <3>1. PICK b \in Bad : \A k \in Bad : b <= k
      <4>1. Bad \subseteq Nat
        BY Numbers
      <4> HIDE DEF Bad
      <4> QED BY <4>1, LeastNatural
    <3>2. b # 0
      BY <2>1, <3>1
    <3>3. b \in 1..N /\ b - 1 \in 0..N /\ ~ (b <= b - 1)
      BY <3>1, <3>2, Numbers
    <3>4. ToSet(kds[Top]) \subseteq d[b - 1]
      BY <3>1, <3>3
    <3> QED BY <3>1, <3>3, <3>4, <2>1 DEF Deeper
  <2> QED BY <1>1, <2>2 DEF d
<1>5. \A p \in B : ToSet(kds[p]) \subseteq B
  BY <1>1, DownEnds
<1>6. ASSUME NEW L, Top \in L, \A o \in L : ToSet(kds[o]) \subseteq L
      PROVE  Tree(kds) \subseteq L
  <2>1. B \subseteq L
    <3>1. ToSet(kds[Top]) \subseteq L
      BY <1>6
    <3> HIDE DEF B
    <3> QED BY <1>1, <1>6, <3>1, DownBounds
  <2> QED BY <1>6, <2>1 DEF Tree
<1> QED BY <1>3, <1>4, <1>5, <1>6, Numbers DEF Tree

(* ------------------------------------------------------------------------ *)
(* Forests                                                                  *)

(* Nobody has two parents in the tree. *)
Apart(kds) ==
  \A o, q \in Tree(kds) : \A p \in ToSet(kds[o]) : p \in ToSet(kds[q]) => o = q

Forest(kds) == /\ kds \in ChildLists
               /\ \A o \in 0..N : IsInjective(kds[o])
               /\ Apart(kds)

(* A process is not its own child. *)
LEMMA NotOwnKid ==
  ASSUME NEW kds \in ChildLists, Apart(kds), NEW o \in Tree(kds)
  PROVE  o \notin ToSet(kds[o])
<1> SUFFICES ASSUME o \in ToSet(kds[o]) PROVE FALSE
  OBVIOUS
<1> DEFINE T == Tree(kds)
           L == T \ {o}
<1>1. /\ Top \in T /\ \A q \in T : ToSet(kds[q]) \subseteq T \ {Top}
      /\ Top \in L /\ (\A q \in L : ToSet(kds[q]) \subseteq L) => T \subseteq L
  BY TreeIsLeast
<1>2. o # Top
  BY <1>1
<1>3. ASSUME NEW q \in L PROVE ToSet(kds[q]) \subseteq L
  BY <1>1, <1>3 DEF Apart
<1> HIDE DEF T
<1>4. T \subseteq L
  BY <1>1, <1>2, <1>3
<1> QED BY <1>4 DEF T

(* A process leaves the tree and its children go to the heir, which is its  *)
(* parent or a sibling.                                                     *)
Leaves(kds, new, o, gone, heir) ==
  /\ o \in Tree(kds) /\ gone \in ToSet(kds[o])
  /\ heir \in Tree(kds) \ {gone} /\ (heir = o \/ heir \in ToSet(kds[o]))
  /\ \A x \in Tree(kds) \ {gone} :
       ToSet(new[x]) = (ToSet(kds[x]) \cup (IF x = heir THEN ToSet(kds[gone]) ELSE {}))
                         \ {gone}

(* The tree has lost that process and nothing else, and still nobody has    *)
(* two parents.                                                             *)
LEMMA TreeWithout ==
  ASSUME NEW kds \in ChildLists, NEW new \in ChildLists, Apart(kds),
         NEW o, NEW gone, NEW heir, Leaves(kds, new, o, gone, heir)
  PROVE  Tree(new) = Tree(kds) \ {gone} /\ Apart(new)
<1> DEFINE T == Tree(kds)
           W == Tree(new)
<1>1. /\ Top \in T /\ (\A x \in T : ToSet(kds[x]) \subseteq T \ {Top})
      /\ \A L : Top \in L /\ (\A x \in L : ToSet(kds[x]) \subseteq L) => T \subseteq L
  BY TreeIsLeast
<1>2. /\ Top \in W /\ (\A x \in W : ToSet(new[x]) \subseteq W)
      /\ \A L : Top \in L /\ (\A x \in L : ToSet(new[x]) \subseteq L) => W \subseteq L
  BY TreeIsLeast
<1>3. /\ o \in T /\ gone \in ToSet(kds[o]) /\ heir \in T \ {gone}
      /\ heir = o \/ heir \in ToSet(kds[o])
  BY DEF Leaves
<1>4. \A x \in T \ {gone} :
        ToSet(new[x]) = (ToSet(kds[x]) \cup (IF x = heir THEN ToSet(kds[gone]) ELSE {}))
                          \ {gone}
  BY DEF Leaves
<1>5. gone \in T /\ gone # Top /\ gone # o
  BY <1>1, <1>3, NotOwnKid
<1>6. \A x, y \in T : \A p \in ToSet(kds[x]) : p \in ToSet(kds[y]) => x = y
  BY DEF Apart
<1> HIDE DEF T, W
<1>7. W \subseteq T \ {gone}
  <2> DEFINE L == T \ {gone}
  <2>1. Top \in L
    BY <1>1, <1>5
  <2>2. ASSUME NEW x \in L PROVE ToSet(new[x]) \subseteq L
    BY <1>1, <1>4, <1>5
  <2> HIDE DEF L
  <2>3. W \subseteq L
    BY <1>2, <2>1, <2>2
  <2> QED BY <2>3 DEF L
<1>8. o \in W
  <2> SUFFICES ASSUME o \notin W PROVE FALSE
    OBVIOUS
  <2>1. ASSUME NEW x \in W PROVE ToSet(kds[x]) \subseteq W
    <3>1. x \in T \ {gone} /\ x # o
      BY <1>7
    <3>2. gone \notin ToSet(kds[x])
      BY <3>1, <1>3, <1>6
    <3>3. ToSet(kds[x]) \subseteq ToSet(new[x])
      BY <3>1, <3>2, <1>4
    <3> QED BY <3>3, <1>2
  <2>2. T \subseteq W
    BY <1>1, <1>2, <2>1
  <2> QED BY <2>2, <1>3
<1>9. T \subseteq W \cup {gone}
  <2> DEFINE L == W \cup {gone}
  <2>1. heir \in W
    <3>1. heir \in ToSet(kds[o]) => heir \in ToSet(new[o])
      BY <1>3, <1>4, <1>5
    <3> QED BY <3>1, <1>2, <1>3, <1>8
  <2>2. ASSUME NEW x \in L PROVE ToSet(kds[x]) \subseteq L
    <3>1. CASE x = gone
      <4>1. ToSet(kds[gone]) \ {gone} \subseteq ToSet(new[heir])
        BY <1>3, <1>4
      <4> QED BY <2>1, <3>1, <4>1, <1>2
    <3>2. CASE x # gone
      <4>1. x \in W /\ x \in T \ {gone}
        BY <2>2, <3>2, <1>7
      <4>2. ToSet(kds[x]) \ {gone} \subseteq ToSet(new[x])
        BY <4>1, <1>4
      <4> QED BY <4>1, <4>2, <1>2
    <3> QED BY <3>1, <3>2
  <2>3. Top \in L
    BY <1>2
  <2> HIDE DEF L
  <2>4. T \subseteq L
    BY <1>1, <2>2, <2>3
  <2> QED BY <2>4 DEF L
<1>10. W = T \ {gone}
  BY <1>7, <1>9
<1>11. ASSUME NEW x \in W, NEW y \in W, NEW p \in ToSet(new[x]), p \in ToSet(new[y])
       PROVE  x = y
  <2>1. x \in T \ {gone} /\ y \in T \ {gone}
    BY <1>10
  <2>2. p \in ToSet(kds[x]) \/ (x = heir /\ p \in ToSet(kds[gone]))
    BY <2>1, <1>4
  <2>3. p \in ToSet(kds[y]) \/ (y = heir /\ p \in ToSet(kds[gone]))
    BY <2>1, <1>4, <1>11
  <2> QED BY <2>1, <2>2, <2>3, <1>5, <1>6
<1>12. Apart(new)
  BY <1>11 DEF Apart, W
<1> QED BY <1>10, <1>12 DEF T, W

(* Lists of the tree lose members, or are put in another order. *)
LEMMA TreeOfSublists ==
  ASSUME NEW kds \in ChildLists, NEW new \in ChildLists, Apart(kds),
         \A x \in Tree(kds) : ToSet(new[x]) \subseteq ToSet(kds[x])
  PROVE  Tree(new) \subseteq Tree(kds) /\ Apart(new)
<1>1. Tree(new) \subseteq Tree(kds)
  <2> DEFINE T == Tree(kds)
  <2>1. Top \in T /\ \A x \in T : ToSet(new[x]) \subseteq T
    BY TreeIsLeast
  <2> HIDE DEF T
  <2>2. Tree(new) \subseteq T
    BY <2>1, TreeIsLeast
  <2> QED BY <2>2 DEF T
<1> QED BY <1>1 DEF Apart

(* ------------------------------------------------------------------------ *)
(* The lists that build and sort make                                       *)

(* A set of processes, put in some order. *)
LEMMA InSomeOrder ==
  ASSUME NEW S \in SUBSET P
  PROVE  SetToSeq(S) \in Seq(P) /\ IsInjective(SetToSeq(S)) /\ ToSet(SetToSeq(S)) \subseteq S
<1>1. IsFiniteSet(P)
  <2>1. \A m \in Nat : IsFiniteSet(1..m)
    BY FS_Interval
  <2> QED BY <2>1, Numbers DEF P
<1>2. IsFiniteSet(S)
  BY <1>1, FS_Subset
<1> DEFINE n == Cardinality(S)
<1>3. n \in Nat /\ \E f \in [1..n -> S] : IsInjective(f)
  BY <1>2, FS_CardinalityType DEF ExistsBijection, Bijection, Injection
<1>4. SetToSeq(S) \in [1..n -> S] /\ IsInjective(SetToSeq(S))
  BY <1>3 DEF SetToSeq
<1> HIDE DEF n
<1>5. SetToSeq(S) \in Seq(S)
  BY <1>3, <1>4, SeqDef
<1>6. SetToSeq(S) \in Seq(P)
  BY <1>5, SeqMonotonic
<1> QED BY <1>4, <1>5, <1>6, Elements

(* How many of a list are at most p. *)
UpTo(l, p) == {k \in 1..Len(l) : l[k] <= p}

(* The places that SortedByPid counts are finitely many. *)
LEMMA UpToFinite ==
  ASSUME NEW l \in Seq(P), NEW p
  PROVE  /\ IsFiniteSet(UpTo(l, p)) /\ Cardinality(UpTo(l, p)) \in Nat
         /\ IsFiniteSet({k \in 1..Len(l) : l[k] < p})
         /\ Cardinality({k \in 1..Len(l) : l[k] < p}) \in Nat
<1>1. Len(l) \in Nat
  BY Elements
<1>2. IsFiniteSet(1..Len(l))
  BY <1>1, FS_Interval
<1>3. UpTo(l, p) \in SUBSET (1..Len(l)) /\ {k \in 1..Len(l) : l[k] < p} \in SUBSET (1..Len(l))
  BY DEF UpTo
<1> QED BY <1>2, <1>3, FS_Subset, FS_CardinalityType

(* One of a list of different processes is counted once. *)
LEMMA OneMore ==
  ASSUME NEW l \in Seq(P), IsInjective(l), NEW p \in P
  PROVE  LET fewer == Cardinality({k \in 1..Len(l) : l[k] < p})
         IN  Cardinality(UpTo(l, p)) = IF p \in ToSet(l) THEN fewer + 1 ELSE fewer
<1> DEFINE F == {k \in 1..Len(l) : l[k] < p}
<1>1. \A k \in 1..Len(l) : l[k] \in Nat
  <2>1. \A k \in 1..Len(l) : l[k] \in P
    BY Elements
  <2>2. P \subseteq Nat
    BY DEF P
  <2> QED BY <2>1, <2>2
<1>2. p \in Nat
  BY DEF P
<1>3. CASE p \in ToSet(l)
  <2>1. PICK i \in 1..Len(l) : l[i] = p
    BY <1>3, Elements
  <2>2. \A k \in 1..Len(l) : l[k] = p => k = i
    BY <2>1, Distinct
  <2>3. UpTo(l, p) = F \cup {i} /\ i \notin F
    BY <2>1, <2>2, <1>1, <1>2 DEF UpTo
  <2>4. IsFiniteSet(F)
    BY UpToFinite
  <2> HIDE DEF F
  <2>5. Cardinality(F \cup {i}) = Cardinality(F) + 1
    BY <2>3, <2>4, FS_AddElement
  <2> QED BY <1>3, <2>3, <2>5 DEF F
<1>4. CASE p \notin ToSet(l)
  <2>1. \A k \in 1..Len(l) : l[k] # p
    BY <1>4, Elements
  <2>2. UpTo(l, p) = F
    BY <2>1, <1>1, <1>2 DEF UpTo
  <2> QED BY <1>4, <2>2
<1> QED BY <1>3, <1>4

(* A sorted list of different processes has some of them, and no other. *)
LEMMA SortedDistinct ==
  ASSUME NEW l \in Seq(P), IsInjective(l)
  PROVE  /\ SortedByPid(l) \in Seq(P) /\ Len(SortedByPid(l)) = Len(l)
         /\ IsInjective(SortedByPid(l)) /\ ToSet(SortedByPid(l)) \subseteq ToSet(l)
<1> DEFINE fewer(p) == Cardinality({k \in 1..Len(l) : l[k] < p})
           upTo(p) == Cardinality(UpTo(l, p))
           Ith(i, p) == p \in ToSet(l) /\ fewer(p) < i /\ i <= upTo(p)
           r == SortedByPid(l)
<1>1. Len(l) \in Nat /\ ToSet(l) \subseteq P /\ \A k \in 1..Len(l) : l[k] \in P
  BY Elements
<1>2. P \subseteq Nat /\ \A p : fewer(p) \in Nat /\ upTo(p) \in Nat
  BY UpToFinite DEF P
<1>3. \A p \in P : upTo(p) = IF p \in ToSet(l) THEN fewer(p) + 1 ELSE fewer(p)
  BY OneMore
<1>4. ASSUME NEW i \in 1..Len(l) PROVE \E p : Ith(i, p)
  <2> DEFINE M == {p \in P : i <= upTo(p)}
  <2>1. N \in M
    <3>1. UpTo(l, N) = 1..Len(l) /\ N \in P
      BY <1>1, Numbers DEF UpTo, P
    <3>2. Cardinality(1..Len(l)) = Len(l)
      <4>1. \A m \in Nat : Cardinality(1..m) = m
        BY FS_Interval
      <4> QED BY <4>1, <1>1
    <3> QED BY <3>1, <3>2, <1>1
  <2>2. PICK p \in M : \A q \in M : p <= q
    <3>1. M \subseteq Nat
      BY <1>2
    <3> HIDE DEF M
    <3> QED BY <2>1, <3>1, LeastNatural
  <2>3. p \in P /\ i <= upTo(p)
    BY <2>2
  <2>4. fewer(p) < i
    <3>1. CASE p = 1
      <4>1. {k \in 1..Len(l) : l[k] < p} = {}
        BY <3>1, <1>1 DEF P
      <4>2. fewer(p) = 0
        BY <4>1, FS_EmptySet
      <4> HIDE DEF fewer
      <4> QED BY <4>2, <1>1
    <3>2. CASE p # 1
      <4>1. p - 1 \in P /\ ~ (p <= p - 1)
        BY <3>2, <2>3, Numbers DEF P
      <4>2. ~ (i <= upTo(p - 1))
        BY <4>1, <2>2
      <4>3. UpTo(l, p - 1) = {k \in 1..Len(l) : l[k] < p}
        BY <2>3, <1>1, Numbers DEF UpTo, P
      <4>4. upTo(p - 1) = fewer(p)
        BY <4>3
      <4> HIDE DEF fewer, upTo
      <4> QED BY <4>2, <4>4, <1>1, <1>2
    <3> QED BY <3>1, <3>2
  <2> HIDE DEF fewer, upTo
  <2>5. p \in ToSet(l)
    <3>1. p \notin ToSet(l) => upTo(p) = fewer(p)
      BY <2>3, <1>3
    <3> QED BY <3>1, <2>3, <2>4, <1>1, <1>2
  <2> QED BY <2>3, <2>4, <2>5 DEF fewer, upTo
<1>5. \A i \in 1..Len(l) : r[i] = CHOOSE p : Ith(i, p)
  BY DEF SortedByPid, UpTo
<1>6. ASSUME NEW i \in 1..Len(l) PROVE Ith(i, r[i])
  <2>1. \E p : Ith(i, p)
    BY <1>4
  <2>2. r[i] = CHOOSE p : Ith(i, p)
    BY <1>5
  <2> HIDE DEF r, Ith
  <2> QED BY <2>1, <2>2
<1>7. r \in Seq(P) /\ Len(r) = Len(l)
  <2>1. \A i \in 1..Len(l) : r[i] \in P
    <3> HIDE DEF r
    <3> QED BY <1>1, <1>6
  <2> DEFINE g(i) == CHOOSE p \in ToSet(l) : /\ Cardinality({k \in 1..Len(l) : l[k] < p}) < i
                                            /\ i <= Cardinality({k \in 1..Len(l) : l[k] <= p})
  <2>2. r = [i \in 1..Len(l) |-> g(i)]
    BY DEF SortedByPid
  <2> HIDE DEF r, g
  <2>3. r \in [1..Len(l) -> P]
    BY <2>1, <2>2
  <2> QED BY <1>1, <2>3, SeqDef, LenProperties
<1>8. \A i, k \in 1..Len(r) : r[i] = r[k] => i = k
  <2> HIDE DEF fewer, upTo, r
  <2> SUFFICES ASSUME NEW i \in 1..Len(r), NEW k \in 1..Len(r), r[i] = r[k]
               PROVE  i = k
    OBVIOUS
  <2> DEFINE p == r[i]
  <2>1. /\ p \in ToSet(l)
        /\ fewer(p) < i /\ i <= upTo(p) /\ fewer(p) < k /\ k <= upTo(p)
    BY <1>6, <1>7
  <2>2. upTo(p) = fewer(p) + 1 /\ fewer(p) \in Nat
    BY <2>1, <1>1, <1>2, <1>3
  <2> HIDE DEF p
  <2> QED BY <2>1, <2>2, <1>1, <1>7
<1>9. IsInjective(r)
  <2> HIDE DEF r
  <2> QED BY <1>7, <1>8, Distinct
<1>10. ToSet(r) \subseteq ToSet(l)
  <2> HIDE DEF r, fewer, upTo
  <2> SUFFICES ASSUME NEW e \in ToSet(r) PROVE e \in ToSet(l)
    OBVIOUS
  <2>1. PICK i \in 1..Len(r) : r[i] = e
    BY <1>7, Elements
  <2> QED BY <2>1, <1>6, <1>7
<1> QED BY <1>7, <1>9, <1>10 DEF r

(* build puts each process into one list, that of its parent. *)
LEMMA BuiltForest ==
  ASSUME NEW ps
  PROVE  Forest(Built(ps))
<1> DEFINE of(o) == {p \in P : ps[p].parent = o}
           new == Built(ps)
<1>1. ASSUME NEW o \in 0..N
      PROVE  /\ new[o] \in Seq(P) /\ IsInjective(new[o])
             /\ ToSet(new[o]) \subseteq of(o)
  <2>1. new[o] = SortedByPid(SetToSeq(of(o)))
    BY DEF Built
  <2>2. of(o) \in SUBSET P
    OBVIOUS
  <2> HIDE DEF new, of
  <2>3. /\ SetToSeq(of(o)) \in Seq(P) /\ IsInjective(SetToSeq(of(o)))
        /\ ToSet(SetToSeq(of(o))) \subseteq of(o)
    BY <2>2, InSomeOrder
  <2> DEFINE l == SetToSeq(of(o))
  <2> HIDE DEF l
  <2>4. l \in Seq(P) /\ IsInjective(l) /\ ToSet(l) \subseteq of(o) /\ new[o] = SortedByPid(l)
    BY <2>1, <2>3 DEF l
  <2> QED BY <2>4, SortedDistinct
<1>2. new \in ChildLists
  <2>1. new = [o \in 0..N |-> new[o]]
    BY DEF Built
  <2> HIDE DEF new
  <2> QED BY <1>1, <2>1 DEF ChildLists
<1> HIDE DEF new
<1>3. Tree(new) \subseteq 0..N
  BY <1>2, TreeIsLeast
<1>4. Apart(new)
  <2> SUFFICES ASSUME NEW o \in Tree(new), NEW q \in Tree(new),
                      NEW p \in ToSet(new[o]), p \in ToSet(new[q])
               PROVE  o = q
    BY DEF Apart
  <2>1. p \in of(o) /\ p \in of(q)
    BY <1>1, <1>3
  <2> QED BY <2>1
<1> QED BY <1>1, <1>2, <1>4 DEF Forest, new

(* ------------------------------------------------------------------------ *)
(* Where a method is                                                        *)

Frames == [of : 0..N, at : Nat]

(* The stack goes from the roots down the tree, and each index is in its    *)
(* list or just past it.                                                    *)
OnPath(stk, kds) ==
  /\ stk \in Seq(Frames) /\ stk # <<>> /\ stk[1].of = Top
  /\ \A k \in 1..Len(stk) : /\ stk[k].of \in Tree(kds)
                            /\ stk[k].at \in 1..Len(kds[stk[k].of]) + 1
  /\ \A k \in 2..Len(stk) : stk[k].of \in ToSet(kds[stk[k - 1].of])
  /\ \A j, k \in 1..Len(stk) : stk[j].of = stk[k].of => j = k

Entered(stk, p, next) == Append([stk EXCEPT ![Len(stk)].at = next], Frame(p))

(* What is so of frames. *)
LEMMA PathFrames ==
  ASSUME NEW stk \in Seq(Frames), stk # <<>>
  PROVE  /\ Len(stk) \in Nat \ {0} /\ Len(stk) \in 1..Len(stk)
         /\ \A k \in 1..Len(stk) : stk[k].of \in 0..N /\ stk[k].at \in Nat
<1>1. Len(stk) \in Nat \ {0}
  BY EmptySeq
<1>2. \A k \in 1..Len(stk) : stk[k] \in Frames
  BY Elements
<1> QED BY <1>1, <1>2 DEF Frames

(* The frames after a call of a method for a child. *)
LEMMA EnteredFrames ==
  ASSUME NEW stk \in Seq(Frames), stk # <<>>, NEW p \in P, NEW next \in Nat
  PROVE  LET new == Entered(stk, p, next)
             n == Len(stk)
         IN  /\ new \in Seq(Frames) /\ new # <<>> /\ Len(new) = n + 1
             /\ \A k \in 1..n : new[k].of = stk[k].of
             /\ \A k \in 1..n - 1 : new[k] = stk[k]
             /\ new[n].at = next /\ new[n + 1].of = p /\ new[n + 1].at = 1
<1> DEFINE n == Len(stk)
           f == [of |-> stk[n].of, at |-> next]
           low == [stk EXCEPT ![n] = f]
           new == Append(low, Frame(p))
<1>1. n \in 1..n /\ n \in Nat /\ stk[n] \in Frames
  BY PathFrames, Elements
<1>2. [stk[n] EXCEPT !.at = next] = f
  BY <1>1 DEF Frames
<1>3. Entered(stk, p, next) = new
  <2>1. [stk EXCEPT ![n].at = next] = [stk EXCEPT ![n] = [stk[n] EXCEPT !.at = next]]
    OBVIOUS
  <2> QED BY <1>2, <2>1 DEF Entered
<1>4. f \in Frames /\ Frame(p) \in Frames /\ Frame(p).of = p /\ Frame(p).at = 1
  <2>1. p \in 0..N
    BY Numbers
  <2> QED BY <1>1, <2>1 DEF Frames, Frame
<1>5. /\ low \in Seq(Frames) /\ Len(low) = n
      /\ \A k \in 1..n : low[k] = IF k = n THEN f ELSE stk[k]
  <2> HIDE DEF f
  <2> QED BY <1>1, <1>4, ExceptSeq
<1>6. /\ new \in Seq(Frames) /\ new # <<>> /\ Len(new) = n + 1
      /\ \A k \in 1..n : new[k] = low[k]
      /\ new[n + 1] = Frame(p)
  <2> HIDE DEF low
  <2> QED BY <1>4, <1>5, AppendProperties
<1>7. f.of = stk[n].of /\ f.at = next
  OBVIOUS
<1> HIDE DEF f, low, new
<1>8. /\ \A k \in 1..n : new[k].of = stk[k].of
      /\ \A k \in 1..n - 1 : new[k] = stk[k]
      /\ new[n].at = next
  BY <1>1, <1>5, <1>6, <1>7
<1> QED BY <1>3, <1>4, <1>6, <1>8

(* A method starts at the list of roots. *)
LEMMA PathStarts ==
  ASSUME NEW kds \in ChildLists
  PROVE  OnPath(Start, kds)
<1>1. Start \in Seq(Frames) /\ Start # <<>> /\ Len(Start) = 1
  BY Numbers DEF Start, Frame, Frames
<1>2. Start[1].of = Top /\ Start[1].at = 1
  BY DEF Start, Frame
<1>3. Len(kds[Top]) \in Nat
  BY Numbers, Elements DEF ChildLists
<1> QED BY <1>1, <1>2, <1>3, TreeIsLeast DEF OnPath

(* A process whose parent is not on the way down, or at its end, is not on  *)
(* it.                                                                      *)
LEMMA KidNotOnPath ==
  ASSUME NEW kds, Forest(kds), NEW stk, OnPath(stk, kds),
         NEW o \in Tree(kds), NEW p \in ToSet(kds[o]),
         \A k \in 1..Len(stk) - 1 : stk[k].of # o,
         NEW j \in 1..Len(stk)
  PROVE  stk[j].of # p
<1> SUFFICES ASSUME stk[j].of = p PROVE FALSE
  OBVIOUS
<1>1. Len(stk) \in Nat
  BY Elements DEF OnPath
<1>2. p # Top
  BY TreeIsLeast DEF Forest
<1>3. j # 1
  BY <1>2 DEF OnPath
<1>4. j \in 2..Len(stk) /\ j - 1 \in 1..Len(stk) - 1 /\ j - 1 \in 1..Len(stk)
  BY <1>1, <1>3
<1>5. p \in ToSet(kds[stk[j - 1].of]) /\ stk[j - 1].of \in Tree(kds)
  BY <1>4 DEF OnPath
<1>6. stk[j - 1].of = o
  BY <1>5 DEF Forest, Apart
<1> QED BY <1>4, <1>6

(* A method that returns is back on the way it came. *)
LEMMA PathBack ==
  ASSUME NEW kds \in ChildLists, NEW stk, OnPath(stk, kds), Len(stk) > 1
  PROVE  /\ OnPath(Front(stk), kds) /\ Len(Front(stk)) = Len(stk) - 1
         /\ \A k \in 1..Len(stk) - 1 : Front(stk)[k] = stk[k]
<1> DEFINE n == Len(stk)
           new == Front(stk)
<1>1. n \in Nat /\ n > 1 /\ stk \in Seq(Frames) /\ \A k \in 1..n : stk[k] \in Frames
  BY Elements DEF OnPath
<1>2. new \in Seq(Frames) /\ Len(new) = n - 1 /\ \A k \in 1..n - 1 : new[k] = stk[k]
  <2>1. n - 1 \in Int /\ 1 \in Int /\ \A k \in 1..n - 1 : stk[k] \in Frames
    BY <1>1
  <2>2. /\ SubSeq(stk, 1, n - 1) \in Seq(Frames)
        /\ Len(SubSeq(stk, 1, n - 1)) = IF 1 <= n - 1 THEN (n - 1) - 1 + 1 ELSE 0
        /\ \A k \in 1..(n - 1) - 1 + 1 : SubSeq(stk, 1, n - 1)[k] = stk[1 + k - 1]
    <3> HIDE DEF n
    <3> QED BY <2>1, SubSeqProperties
  <2>3. new = SubSeq(stk, 1, n - 1)
    BY DEF Front
  <2> HIDE DEF n, new
  <2> QED BY <2>2, <2>3, <1>1
<1>3. OnPath(new, kds)
  <2>1. new # <<>>
    BY <1>1, <1>2
  <2> HIDE DEF new, n
  <2>2. new[1] = stk[1] /\ \A k \in 1..Len(new) : k \in 1..n /\ new[k] = stk[k]
    BY <1>1, <1>2
  <2>3. \A k \in 2..Len(new) : k \in 2..n /\ new[k] = stk[k] /\ new[k - 1] = stk[k - 1]
    BY <1>1, <1>2
  <2> QED BY <2>1, <2>2, <2>3, <1>2 DEF OnPath, n
<1> QED BY <1>2, <1>3

(* A method that goes on with a child of the list it is in is further down. *)
LEMMA PathEnters ==
  ASSUME NEW kds, Forest(kds), NEW stk, OnPath(stk, kds),
         NEW p \in ToSet(kds[stk[Len(stk)].of]),
         NEW next \in 1..Len(kds[stk[Len(stk)].of]) + 1
  PROVE  OnPath(Entered(stk, p, next), kds) /\ p \in P
<1> DEFINE n == Len(stk)
           last == stk[n].of
           new == Entered(stk, p, next)
<1>1. /\ stk \in Seq(Frames) /\ stk # <<>> /\ stk[1].of = Top /\ n \in Nat \ {0}
      /\ n \in 1..n /\ last \in Tree(kds) /\ last \in 0..N
  BY PathFrames DEF OnPath
<1>2. kds[last] \in Seq(P) /\ Len(kds[last]) \in Nat /\ ToSet(kds[last]) \subseteq P
  BY <1>1, Elements DEF Forest, ChildLists
<1>3. p \in P /\ next \in Nat /\ p \in Tree(kds) /\ p \in 0..N
  BY <1>1, <1>2, TreeIsLeast DEF Forest
<1>4. /\ new \in Seq(Frames) /\ new # <<>> /\ Len(new) = n + 1
      /\ \A k \in 1..n : new[k].of = stk[k].of
      /\ \A k \in 1..n - 1 : new[k] = stk[k]
      /\ new[n].at = next /\ new[n + 1].of = p /\ new[n + 1].at = 1
  <2>1. stk \in Seq(Frames) /\ stk # <<>> /\ p \in P /\ next \in Nat
    BY <1>1, <1>3
  <2> HIDE DEF last
  <2> QED BY ONLY <2>1, EnteredFrames
<1>5. \A k \in 1..n : stk[k].of # p
  <2>1. \A k \in 1..n - 1 : stk[k].of # last
    BY <1>1 DEF OnPath
  <2> QED BY <1>1, <2>1, KidNotOnPath
<1>6. Len(kds[p]) \in Nat
  BY <1>3, Elements DEF Forest, ChildLists
<1> HIDE DEF new
<1>7. \A k \in 1..Len(new) : /\ new[k].of \in Tree(kds)
                             /\ new[k].at \in 1..Len(kds[new[k].of]) + 1
  <2> SUFFICES ASSUME NEW k \in 1..Len(new)
               PROVE  new[k].of \in Tree(kds) /\ new[k].at \in 1..Len(kds[new[k].of]) + 1
    OBVIOUS
  <2>1. k \in 1..n - 1 \/ k = n \/ k = n + 1
    BY <1>1, <1>4
  <2>2. CASE k \in 1..n - 1
    <3>1. new[k] = stk[k] /\ k \in 1..n
      BY <1>1, <1>4, <2>2
    <3> QED BY <3>1 DEF OnPath
  <2>3. CASE k = n
    <3>1. new[k].of = last /\ new[k].at = next
      BY <1>1, <1>4, <2>3
    <3> QED BY <3>1, <1>1
  <2>4. CASE k = n + 1
    <3>1. new[k].of = p /\ new[k].at = 1
      BY <1>4, <2>4
    <3>2. 1 \in 1..Len(kds[p]) + 1
      BY <1>6
    <3> QED BY <3>1, <3>2, <1>3
  <2> QED BY <2>1, <2>2, <2>3, <2>4
<1>8. \A k \in 2..Len(new) : new[k].of \in ToSet(kds[new[k - 1].of])
  <2> SUFFICES ASSUME NEW k \in 2..Len(new)
               PROVE  new[k].of \in ToSet(kds[new[k - 1].of])
    OBVIOUS
  <2>1. k \in 2..n \/ k = n + 1
    BY <1>1, <1>4
  <2>2. CASE k \in 2..n
    <3>1. k \in 1..n /\ k - 1 \in 1..n
      BY <1>1, <2>2
    <3>2. new[k].of = stk[k].of /\ new[k - 1].of = stk[k - 1].of
      BY <1>4, <3>1
    <3>3. stk[k].of \in ToSet(kds[stk[k - 1].of])
      BY <2>2 DEF OnPath
    <3> QED BY <3>2, <3>3
  <2>3. CASE k = n + 1
    <3>1. k - 1 = n
      BY <1>1, <2>3
    <3> QED BY <3>1, <2>3, <1>1, <1>4
  <2> QED BY <2>1, <2>2, <2>3
<1>9. \A j, k \in 1..Len(new) : new[j].of = new[k].of => j = k
  <2>1. \A k \in 1..Len(new) : k \in 1..n \/ k = n + 1
    BY <1>1, <1>4
  <2>2. \A j, k \in 1..n : new[j].of = new[k].of => j = k
    BY <1>4 DEF OnPath
  <2>3. \A k \in 1..n : new[k].of # new[n + 1].of
    BY <1>4, <1>5
  <2> QED BY <2>1, <2>2, <2>3
<1>10. new[1].of = Top
  BY <1>1, <1>4
<1>11. OnPath(new, kds)
  BY <1>4, <1>7, <1>8, <1>9, <1>10 DEF OnPath
<1> QED BY <1>3, <1>11 DEF new

(* The way down stays one when only lists off it change, or the last on it, *)
(* and nothing on it is lost.                                               *)
LEMMA PathKept ==
  ASSUME NEW kds, NEW new, NEW stk, OnPath(stk, kds),
         \A k \in 1..Len(stk) : stk[k].of \in Tree(new),
         \A k \in 1..Len(stk) - 1 : new[stk[k].of] = kds[stk[k].of],
         stk[Len(stk)].at \in 1..Len(new[stk[Len(stk)].of]) + 1
  PROVE  OnPath(stk, new)
<1>1. Len(stk) \in Nat
  BY Elements DEF OnPath
<1>2. \A k \in 1..Len(stk) : k = Len(stk) \/ k \in 1..Len(stk) - 1
  BY <1>1
<1>3. \A k \in 1..Len(stk) : stk[k].at \in 1..Len(new[stk[k].of]) + 1
  <2>1. \A k \in 1..Len(stk) : stk[k].at \in 1..Len(kds[stk[k].of]) + 1
    BY DEF OnPath
  <2> QED BY <1>2, <2>1
<1>4. \A k \in 2..Len(stk) : stk[k].of \in ToSet(new[stk[k - 1].of])
  <2>1. \A k \in 2..Len(stk) : k - 1 \in 1..Len(stk) - 1
    BY <1>1
  <2>2. \A k \in 2..Len(stk) : stk[k].of \in ToSet(kds[stk[k - 1].of])
    BY DEF OnPath
  <2> QED BY <2>1, <2>2
<1> QED BY <1>3, <1>4 DEF OnPath

(* ------------------------------------------------------------------------ *)
(* What a method has finished                                               *)

(* What a method has achieved for the list of q when it has gone through it *)
(* and everything below.                                                    *)
Good(phase, kds, ps, q) ==
  /\ phase = "prune" => \A p \in ToSet(kds[q]) : ps[p].dur > 2 * Period
  /\ phase = "siblings" =>
       \A i \in 1..Len(kds[q]) - 1 : ps[kds[q][i]].cmd # ps[kds[q][i + 1]].cmd
  /\ phase = "runs" => ~ (Len(kds[q]) = 1 /\ ps[kds[q][1]].cmd = ps[q].cmd)

(* And for the list of a frame, up to its index. *)
SoFar(phase, kds, ps, o, at) ==
  /\ phase = "prune" /\ o # Top => \A i \in 1..at - 1 : ps[kds[o][i]].dur > 2 * Period
  /\ phase = "siblings" =>
       \A i \in 1..at - 1 : i < Len(kds[o]) => ps[kds[o][i]].cmd # ps[kds[o][i + 1]].cmd
  /\ phase = "runs" /\ o # Top => Good(phase, kds, ps, o)

(* The processes of F are finished, with all that is below them; those      *)
(* before a frame's index are, but for the one the next frame is about.     *)
Finished(phase, kds, ps, stk, F) ==
  /\ F \subseteq Tree(kds)
  /\ \A q \in F : ToSet(kds[q]) \subseteq F /\ Good(phase, kds, ps, q)
  /\ \A k \in 1..Len(stk) :
       /\ stk[k].of \notin F /\ SoFar(phase, kds, ps, stk[k].of, stk[k].at)
       /\ \A i \in 1..stk[k].at - 1 :
            kds[stk[k].of][i] \in F \/ (k < Len(stk) /\ kds[stk[k].of][i] = stk[k + 1].of)

(* At the start of a method nothing has been finished. *)
LEMMA FinishedStarts ==
  ASSUME NEW phase, NEW kds, NEW ps
  PROVE  Finished(phase, kds, ps, Start, {})
<1>1. Len(Start) = 1 /\ Start[1].of = Top /\ Start[1].at = 1
  BY DEF Start, Frame
<1>2. SoFar(phase, kds, ps, Top, 1)
  BY DEF SoFar
<1> QED BY <1>1, <1>2 DEF Finished

(* A call for a child: the child is no longer finished if it was, the list  *)
(* is done up to the index the loop goes on with.                           *)
LEMMA FinishedEnters ==
  ASSUME NEW phase, NEW kds, NEW ps, NEW stk, NEW F,
         Forest(kds), OnPath(stk, kds), Finished(phase, kds, ps, stk, F),
         NEW o, o = stk[Len(stk)].of, NEW i, i = stk[Len(stk)].at, i <= Len(kds[o]),
         NEW p, p = kds[o][i],
         NEW next \in {i, i + 1},
         SoFar(phase, kds, ps, o, next), SoFar(phase, kds, ps, p, 1)
  PROVE  Finished(phase, kds, ps, Entered(stk, p, next), F \ {p})
<1> DEFINE n == Len(stk)
           new == Entered(stk, p, next)
           G == F \ {p}
<1>1. /\ stk \in Seq(Frames) /\ stk # <<>> /\ n \in Nat \ {0} /\ n \in 1..n
      /\ o \in Tree(kds) /\ o \in 0..N /\ i \in Nat /\ i \in 1..Len(kds[o])
  <2>1. i \in 1..Len(kds[o]) + 1 /\ o \in Tree(kds) /\ stk \in Seq(Frames) /\ stk # <<>>
    BY PathFrames DEF OnPath
  <2>2. n \in Nat \ {0} /\ n \in 1..n /\ o \in 0..N
    BY <2>1, PathFrames
  <2>3. Len(kds[o]) \in Nat
    BY <2>2, Elements DEF Forest, ChildLists
  <2> QED BY <2>1, <2>2, <2>3
<1>2. kds[o] \in Seq(P) /\ Len(kds[o]) \in Nat /\ p \in ToSet(kds[o]) /\ p \in P
  <2>1. kds[o] \in Seq(P)
    BY <1>1 DEF Forest, ChildLists
  <2> QED BY <2>1, <1>1, Elements
<1>3. \A x \in Tree(kds) : p \in ToSet(kds[x]) => x = o
  BY <1>1, <1>2 DEF Forest, Apart
<1>4. \A k \in 1..i - 1 : kds[o][k] # p
  <2>1. \A a, b \in 1..Len(kds[o]) : kds[o][a] = kds[o][b] => a = b
    BY <1>1, <1>2, Distinct DEF Forest
  <2>2. i \in 1..Len(kds[o]) /\ \A k \in 1..i - 1 : k \in 1..Len(kds[o]) /\ k # i
    BY <1>1, <1>2
  <2> QED BY ONLY <2>1, <2>2, p = kds[o][i]
<1>5. /\ Len(new) = n + 1
      /\ \A k \in 1..n : new[k].of = stk[k].of
      /\ \A k \in 1..n - 1 : new[k] = stk[k]
      /\ new[n].at = next /\ new[n + 1].of = p /\ new[n + 1].at = 1
  <2>1. next \in Nat
    BY <1>1
  <2>2. stk \in Seq(Frames) /\ stk # <<>> /\ p \in P
    BY <1>1, <1>2
  <2>3. /\ new \in Seq(Frames) /\ new # <<>> /\ Len(new) = n + 1
        /\ \A k \in 1..n : new[k].of = stk[k].of
        /\ \A k \in 1..n - 1 : new[k] = stk[k]
        /\ new[n].at = next /\ new[n + 1].of = p /\ new[n + 1].at = 1
    BY ONLY <2>1, <2>2, EnteredFrames
  <2> QED BY <2>3
<1> HIDE DEF new
<1>6. o \notin F /\ \A k \in 1..i - 1 : kds[o][k] \in F
  <2>1. /\ stk[n].of \notin F
        /\ \A k \in 1..stk[n].at - 1 : kds[stk[n].of][k] \in F \/ n < n
    BY <1>1 DEF Finished
  <2> QED BY <2>1, <1>1
<1>7. G \subseteq Tree(kds) /\ \A q \in G : ToSet(kds[q]) \subseteq G /\ Good(phase, kds, ps, q)
  BY <1>3, <1>6 DEF Finished
<1>8. ASSUME NEW k \in 1..Len(new)
      PROVE  /\ new[k].of \notin G /\ SoFar(phase, kds, ps, new[k].of, new[k].at)
             /\ \A j \in 1..new[k].at - 1 :
                  \/ kds[new[k].of][j] \in G
                  \/ k < Len(new) /\ kds[new[k].of][j] = new[k + 1].of
  <2>1. k \in 1..n - 1 \/ k = n \/ k = n + 1
    BY <1>1, <1>5
  <2>2. CASE k \in 1..n - 1
    <3>1. k \in 1..n /\ k + 1 \in 1..n /\ new[k] = stk[k] /\ new[k + 1].of = stk[k + 1].of
          /\ k < n /\ k < Len(new)
      BY <1>1, <1>5, <2>2
    <3>2. stk[k].of # o /\ stk[k].of \in Tree(kds)
      BY <1>1, <2>2, <3>1 DEF OnPath
    <3>3. \A j \in 1..stk[k].at - 1 : kds[stk[k].of][j] # p
      <4> SUFFICES ASSUME NEW j \in 1..stk[k].at - 1, kds[stk[k].of][j] = p PROVE FALSE
        OBVIOUS
      <4>1. stk[k].at \in 1..Len(kds[stk[k].of]) + 1 /\ stk[k].of \in 0..N
        BY <3>1, <1>1, PathFrames DEF OnPath
      <4>2. kds[stk[k].of] \in Seq(P)
        BY <4>1 DEF Forest, ChildLists
      <4>3. Len(kds[stk[k].of]) \in Nat
        BY <4>2, Elements
      <4>4. j \in 1..Len(kds[stk[k].of])
        BY <4>1, <4>3
      <4>5. p \in ToSet(kds[stk[k].of])
        BY <4>2, <4>4, Elements
      <4> QED BY <4>5, <3>2, <1>3
    <3>4. /\ stk[k].of \notin F /\ SoFar(phase, kds, ps, stk[k].of, stk[k].at)
          /\ \A j \in 1..stk[k].at - 1 :
               kds[stk[k].of][j] \in F \/ kds[stk[k].of][j] = stk[k + 1].of
      BY <3>1 DEF Finished
    <3> QED BY <3>1, <3>3, <3>4
  <2>3. CASE k = n
    <3>1. new[k].of = o /\ new[k].at = next /\ new[k + 1].of = p /\ k < Len(new)
      BY <1>1, <1>5, <2>3
    <3>2. \A j \in 1..next - 1 : j \in 1..i - 1 \/ j = i
      BY <1>1
    <3>3. \A j \in 1..next - 1 : kds[o][j] \in G \/ kds[o][j] = p
      BY <3>2, <1>4, <1>6
    <3> QED BY <3>1, <3>3, <1>6
  <2>4. CASE k = n + 1
    <3>1. new[k].of = p /\ new[k].at = 1
      BY <1>5, <2>4
    <3> QED BY <3>1
  <2> QED BY <2>1, <2>2, <2>3, <2>4
<1> HIDE DEF G
<1>9. Finished(phase, kds, ps, new, G)
  BY <1>7, <1>8 DEF Finished
<1> QED BY <1>9 DEF new, G

(* When its list has been gone through, the last frame's process is         *)
(* finished.                                                                *)
LEMMA FinishedReturns ==
  ASSUME NEW phase, NEW kds, NEW ps, NEW stk, NEW F,
         Forest(kds), OnPath(stk, kds), Finished(phase, kds, ps, stk, F),
         Len(stk) > 1, stk[Len(stk)].at > Len(kds[stk[Len(stk)].of])
  PROVE  Finished(phase, kds, ps, Front(stk), F \cup {stk[Len(stk)].of})
<1> DEFINE n == Len(stk)
           o == stk[n].of
           i == stk[n].at
           new == Front(stk)
           G == F \cup {o}
<1>1. /\ stk \in Seq(Frames) /\ n \in Nat /\ n > 1 /\ n \in 1..n
      /\ o \in Tree(kds) /\ o \in 0..N /\ i \in 1..Len(kds[o]) + 1 /\ o # Top
  <2>1. i \in 1..Len(kds[o]) + 1 /\ o \in Tree(kds) /\ stk \in Seq(Frames) /\ stk # <<>>
    BY PathFrames DEF OnPath
  <2>2. n \in Nat /\ n > 1 /\ n \in 1..n /\ o \in 0..N /\ 1 \in 1..n /\ n # 1
    BY <2>1, PathFrames
  <2>3. o # Top
    BY <2>2 DEF OnPath
  <2> QED BY <2>1, <2>2, <2>3
<1>2. kds[o] \in Seq(P) /\ Len(kds[o]) \in Nat
  BY <1>1, Elements DEF Forest, ChildLists
<1>3. i = Len(kds[o]) + 1
  BY <1>1, <1>2
<1>4. SoFar(phase, kds, ps, o, i) /\ \A k \in 1..i - 1 : kds[o][k] \in F
  <2>1. /\ SoFar(phase, kds, ps, stk[n].of, stk[n].at)
        /\ \A k \in 1..stk[n].at - 1 : kds[stk[n].of][k] \in F \/ n < n
    BY <1>1 DEF Finished
  <2> QED BY <2>1, <1>1
<1>5. ToSet(kds[o]) \subseteq F
  <2>1. \A k \in 1..Len(kds[o]) : kds[o][k] \in F
    BY <1>2, <1>3, <1>4
  <2> QED BY <2>1, <1>2, Elements
<1> HIDE DEF o, i
<1>6. Good(phase, kds, ps, o)
  <2>1. \A k \in 1..Len(kds[o]) : k \in 1..i - 1
    BY <1>2, <1>3
  <2>2. phase = "prune" => \A p \in ToSet(kds[o]) : ps[p].dur > 2 * Period
    <3>1. \A p \in ToSet(kds[o]) : \E k \in 1..Len(kds[o]) : kds[o][k] = p
      BY <1>2, Elements
    <3> QED BY <2>1, <3>1, <1>1, <1>4 DEF SoFar
  <2>3. phase = "siblings" =>
          \A k \in 1..Len(kds[o]) - 1 : ps[kds[o][k]].cmd # ps[kds[o][k + 1]].cmd
    <3>1. \A k \in 1..Len(kds[o]) - 1 : k \in 1..i - 1 /\ k < Len(kds[o])
      BY <1>2, <1>3
    <3> QED BY <3>1, <1>4 DEF SoFar
  <2>4. phase = "runs" => Good(phase, kds, ps, o)
    BY <1>1, <1>4 DEF SoFar
  <2> QED BY <2>2, <2>3, <2>4 DEF Good
<1>7. G \subseteq Tree(kds) /\ \A q \in G : ToSet(kds[q]) \subseteq G /\ Good(phase, kds, ps, q)
  BY <1>1, <1>5, <1>6 DEF Finished
<1>8. Len(new) = n - 1 /\ \A k \in 1..n - 1 : new[k] = stk[k]
  BY PathBack DEF Forest
<1> HIDE DEF new
<1>9. ASSUME NEW k \in 1..Len(new)
      PROVE  /\ new[k].of \notin G /\ SoFar(phase, kds, ps, new[k].of, new[k].at)
             /\ \A j \in 1..new[k].at - 1 :
                  \/ kds[new[k].of][j] \in G
                  \/ k < Len(new) /\ kds[new[k].of][j] = new[k + 1].of
  <2>1. k \in 1..n - 1 /\ k \in 1..n /\ k < n /\ new[k] = stk[k] /\ k # n
    BY <1>1, <1>8
  <2>2. stk[k].of # o
    BY <1>1, <2>1 DEF OnPath, o
  <2>3. /\ stk[k].of \notin F /\ SoFar(phase, kds, ps, stk[k].of, stk[k].at)
        /\ \A j \in 1..stk[k].at - 1 :
             kds[stk[k].of][j] \in F \/ kds[stk[k].of][j] = stk[k + 1].of
    BY <2>1 DEF Finished
  <2>4. stk[k + 1].of = o \/ (k < Len(new) /\ new[k + 1].of = stk[k + 1].of)
    <3>1. k + 1 = n \/ (k < Len(new) /\ k + 1 \in 1..n - 1)
      BY <1>1, <1>8, <2>1
    <3> QED BY <3>1, <1>8 DEF o
  <2> QED BY <2>1, <2>2, <2>3, <2>4
<1> HIDE DEF G
<1>10. Finished(phase, kds, ps, new, G)
  BY <1>7, <1>9 DEF Finished
<1> QED BY <1>10 DEF new, G, o

(* When the roots have been gone through, all is finished. *)
LEMMA FinishedEnds ==
  ASSUME NEW phase, NEW kds, NEW ps, NEW stk, NEW F,
         Forest(kds), OnPath(stk, kds), Finished(phase, kds, ps, stk, F),
         Len(stk) = 1, stk[1].at > Len(kds[Top])
  PROVE  /\ \A p \in Below(kds, Top) : Good(phase, kds, ps, p)
         /\ phase = "siblings" => Good(phase, kds, ps, Top)
<1> DEFINE i == stk[1].at
<1>1. /\ kds[Top] \in Seq(P) /\ Len(kds[Top]) \in Nat
      /\ stk[1].of = Top /\ i \in 1..Len(kds[Top]) + 1 /\ kds \in ChildLists
  <2>1. kds[Top] \in Seq(P) /\ kds \in ChildLists
    BY Numbers DEF Forest, ChildLists
  <2>2. stk[1].of = Top /\ i \in 1..Len(kds[Top]) + 1
    BY DEF OnPath
  <2> QED BY <2>1, <2>2, Elements
<1>2. i = Len(kds[Top]) + 1
  BY <1>1
<1>3. SoFar(phase, kds, ps, Top, i) /\ \A k \in 1..i - 1 : kds[Top][k] \in F
  BY <1>1 DEF Finished
<1> HIDE DEF i
<1>4. ToSet(kds[Top]) \subseteq F
  <2>1. \A k \in 1..Len(kds[Top]) : kds[Top][k] \in F
    BY <1>1, <1>2, <1>3
  <2> QED BY <2>1, <1>1, Elements
<1>5. Tree(kds) \subseteq F \cup {Top}
  <2> DEFINE L == F \cup {Top}
  <2>1. Top \in L /\ \A q \in L : ToSet(kds[q]) \subseteq L
    BY <1>4 DEF Finished
  <2> HIDE DEF L
  <2>2. Tree(kds) \subseteq L
    BY <2>1, <1>1, TreeIsLeast
  <2> QED BY <2>2 DEF L
<1>6. Below(kds, Top) \subseteq F
  BY <1>1, <1>5, TreeIsLeast
<1>7. phase = "siblings" => Good(phase, kds, ps, Top)
  <2>1. \A k \in 1..Len(kds[Top]) - 1 : k \in 1..i - 1 /\ k < Len(kds[Top])
    BY <1>1, <1>2
  <2> QED BY <2>1, <1>3 DEF SoFar, Good
<1> QED BY <1>6, <1>7 DEF Finished

(* Lists of processes that are not finished change, at indices still ahead. *)
LEMMA FinishedKept ==
  ASSUME NEW phase, NEW kds, NEW ps, NEW stk, NEW F, NEW new, NEW upd, NEW G,
         Finished(phase, kds, ps, stk, F),
         F \ G \subseteq Tree(new),
         \A q \in F \ G : /\ new[q] = kds[q] /\ ToSet(kds[q]) \cap G = {}
                          /\ Good(phase, new, upd, q),
         \A k \in 1..Len(stk) :
           /\ SoFar(phase, new, upd, stk[k].of, stk[k].at)
           /\ \A i \in 1..stk[k].at - 1 :
                new[stk[k].of][i] = kds[stk[k].of][i] /\ kds[stk[k].of][i] \notin G
  PROVE  Finished(phase, new, upd, stk, F \ G)
<1>1. \A q \in F \ G : ToSet(new[q]) \subseteq F \ G
  BY DEF Finished
<1>2. \A k \in 1..Len(stk) :
        \A i \in 1..stk[k].at - 1 :
          \/ new[stk[k].of][i] \in F \ G
          \/ k < Len(stk) /\ new[stk[k].of][i] = stk[k + 1].of
  BY DEF Finished
<1>3. \A k \in 1..Len(stk) : stk[k].of \notin F \ G
  BY DEF Finished
<1> QED BY <1>1, <1>2, <1>3 DEF Finished

(* ------------------------------------------------------------------------ *)
(* What a step does to the forest                                           *)

(* The child lists of a forest. *)
LEMMA ForestLists ==
  ASSUME NEW kds, Forest(kds), NEW o \in 0..N
  PROVE  /\ kds[o] \in Seq(P) /\ IsInjective(kds[o]) /\ Len(kds[o]) \in Nat
         /\ ToSet(kds[o]) \subseteq P
         /\ \A i \in 1..Len(kds[o]) : kds[o][i] \in P /\ kds[o][i] \in ToSet(kds[o])
<1>1. kds[o] \in Seq(P) /\ IsInjective(kds[o])
  BY DEF Forest, ChildLists
<1> QED BY <1>1, Elements

(* Children are in the tree, and a process is in one list of it. *)
LEMMA TreeKids ==
  ASSUME NEW kds, Forest(kds), NEW o \in Tree(kds)
  PROVE  /\ o \in 0..N /\ ToSet(kds[o]) \subseteq Tree(kds) \ {Top} /\ ToSet(kds[o]) \subseteq P
         /\ o \notin ToSet(kds[o])
         /\ \A x \in Tree(kds), p \in ToSet(kds[o]) : p \in ToSet(kds[x]) => x = o
<1>1. kds \in ChildLists /\ Apart(kds)
  BY DEF Forest
<1>2. o \in 0..N /\ ToSet(kds[o]) \subseteq Tree(kds) \ {Top} /\ o \notin ToSet(kds[o])
  BY <1>1, TreeIsLeast, NotOwnKid
<1> QED BY <1>1, <1>2, ForestLists DEF Apart

(* What the methods do to the lists, at index i of that of o. *)
Pruned(kds, o, i) ==
  [kds EXCEPT ![o] = SubSeq(@, 1, i - 1) \o Reverse(kds[kds[o][i]])
                     \o SubSeq(@, i + 1, Len(@))]
Twinned(kds, o, i) ==
  [kds EXCEPT ![o] = RemoveAt(@, i + 1),
              ![kds[o][i]] = @ \o kds[kds[o][i + 1]]]
RunJoined(kds, p) == [kds EXCEPT ![p] = kds[kds[p][1]]]

(* prune puts the children of a process in its place. *)
LEMMA PrunedForest ==
  ASSUME NEW kds, Forest(kds), NEW o \in Tree(kds), NEW i \in 1..Len(kds[o]),
         NEW p, p = kds[o][i],
         NEW new, new = Pruned(kds, o, i)
  PROVE  /\ Forest(new) /\ Tree(new) = Tree(kds) \ {p}
         /\ \A x \in 0..N : x # o => new[x] = kds[x]
         /\ i \in 1..Len(new[o]) + 1 /\ \A k \in 1..i - 1 : new[o][k] = kds[o][k]
<1> DEFINE low == SubSeq(kds[o], 1, i - 1)
           high == SubSeq(kds[o], i + 1, Len(kds[o]))
           mid == Reverse(kds[p])
           left == low \o mid
           l == left \o high
<1>1. /\ kds \in ChildLists /\ Apart(kds) /\ o \in 0..N
      /\ kds[o] \in Seq(P) /\ IsInjective(kds[o]) /\ Len(kds[o]) \in Nat
  BY TreeKids, ForestLists DEF Forest
<1>2. /\ p \in ToSet(kds[o]) /\ p \in P /\ p \in Tree(kds) /\ p \in 0..N
      /\ kds[p] \in Seq(P) /\ IsInjective(kds[p]) /\ p # o
      /\ p \notin ToSet(kds[p]) /\ ToSet(kds[o]) \cap ToSet(kds[p]) = {}
  <2>1. p \in ToSet(kds[o])
    BY <1>1, Elements
  <2>2. p \in P /\ p \in Tree(kds) /\ p # o
    BY <2>1, TreeKids
  <2>3. p \in 0..N /\ kds[p] \in Seq(P) /\ IsInjective(kds[p])
    BY <2>2, TreeKids, ForestLists
  <2>4. p \notin ToSet(kds[p])
    BY <2>2, TreeKids
  <2>5. ToSet(kds[o]) \cap ToSet(kds[p]) = {}
    BY <2>2, <1>1 DEF Apart
  <2> QED BY <2>1, <2>2, <2>3, <2>4, <2>5
<1>3. /\ low \in Seq(P) /\ high \in Seq(P) /\ Len(low) = i - 1
      /\ \A k \in 1..i - 1 : low[k] = kds[o][k]
      /\ IsInjective(low) /\ IsInjective(high) /\ ToSet(low) \cap ToSet(high) = {}
      /\ ToSet(low) \cup ToSet(high) = ToSet(kds[o]) \ {p}
  <2> DEFINE s == kds[o]
  <2>1. s \in Seq(P) /\ IsInjective(s) /\ i \in 1..Len(s) /\ s[i] = p
    BY <1>1
  <2> HIDE DEF s
  <2>2. LET a == SubSeq(s, 1, i - 1)
            b == SubSeq(s, i + 1, Len(s))
        IN  /\ a \in Seq(P) /\ b \in Seq(P) /\ Len(a) = i - 1
            /\ \A k \in 1..i - 1 : a[k] = s[k]
            /\ IsInjective(a) /\ IsInjective(b) /\ ToSet(a) \cap ToSet(b) = {}
            /\ ToSet(a) \cup ToSet(b) = ToSet(s) \ {s[i]}
    BY ONLY <2>1, Parts
  <2> QED BY <2>1, <2>2 DEF s
<1>4. mid \in Seq(P) /\ ToSet(mid) = ToSet(kds[p]) /\ IsInjective(mid)
  BY <1>2, ReverseDistinct
<1>5. new = [kds EXCEPT ![o] = l]
  BY DEF Pruned
<1> HIDE DEF low, mid, high
<1>6. /\ left \in Seq(P) /\ ToSet(left) = ToSet(low) \cup ToSet(mid)
      /\ IsInjective(left)
  <2>1. ToSet(low) \cap ToSet(mid) = {}
    BY <1>2, <1>3, <1>4
  <2>2. /\ low \in Seq(P) /\ IsInjective(low)
        /\ mid \in Seq(P) /\ IsInjective(mid)
    BY <1>3, <1>4
  <2> QED BY ONLY <2>1, <2>2, ConcatDistinct
<1>7. /\ l \in Seq(P) /\ ToSet(l) = ToSet(left) \cup ToSet(high)
      /\ IsInjective(l)
  <2>1. ToSet(left) \cap ToSet(high) = {}
    BY <1>2, <1>3, <1>4, <1>6
  <2> HIDE DEF left
  <2> QED BY <2>1, <1>3, <1>6, ConcatDistinct
<1>8. i \in 1..Len(l) + 1 /\ \A k \in 1..i - 1 : l[k] = kds[o][k]
  <2>1. /\ Len(left) = Len(low) + Len(mid) /\ Len(mid) \in Nat
        /\ \A k \in 1..Len(low) + Len(mid) :
             left[k] = IF k <= Len(low) THEN low[k] ELSE mid[k - Len(low)]
    <3>1. low \in Seq(P) /\ mid \in Seq(P)
      BY <1>3, <1>4
    <3> QED BY ONLY <3>1, ConcatProperties, Elements
  <2>2. /\ Len(l) = Len(left) + Len(high) /\ Len(high) \in Nat
        /\ \A k \in 1..Len(left) + Len(high) :
             l[k] = IF k <= Len(left) THEN left[k] ELSE high[k - Len(left)]
    <3> HIDE DEF left
    <3> QED BY <1>3, <1>6, ConcatProperties, Elements
  <2> HIDE DEF left, l
  <2>3. i \in Nat /\ i >= 1
    BY <1>1
  <2>4. ASSUME NEW k \in 1..i - 1 PROVE l[k] = kds[o][k]
    <3>1. l[k] = left[k]
      <4>1. k \in 1..Len(left) + Len(high) /\ k <= Len(left)
        BY ONLY <2>1, <2>2, <2>3, <1>3
      <4> QED BY <4>1, <2>2
    <3>2. left[k] = low[k]
      BY <2>1, <2>3, <1>3
    <3> QED BY <3>1, <3>2, <1>3
  <2> QED BY <2>1, <2>2, <2>3, <2>4, <1>3
<1> HIDE DEF l, left
<1>9. \A x \in 0..N : new[x] = IF x = o THEN l ELSE kds[x]
  BY <1>1, <1>5 DEF ChildLists
<1>10. new \in ChildLists /\ \A x \in 0..N : IsInjective(new[x])
  <2>1. \A x \in 0..N : new[x] \in Seq(P) /\ IsInjective(new[x])
    BY <1>7, <1>9, ForestLists
  <2> QED BY <2>1, <1>1, <1>5, <1>7 DEF ChildLists
<1>11. Leaves(kds, new, o, p, o)
  <2>1. ASSUME NEW x \in Tree(kds) \ {p}
        PROVE  ToSet(new[x]) = (ToSet(kds[x]) \cup (IF x = o THEN ToSet(kds[p]) ELSE {})) \ {p}
    <3>1. CASE x = o
      <4>1. ToSet(l) = (ToSet(kds[o]) \cup ToSet(kds[p])) \ {p}
        BY <1>2, <1>3, <1>4, <1>6, <1>7
      <4> QED BY <3>1, <4>1, <1>1, <1>9
    <3>2. CASE x # o
      <4>1. new[x] = kds[x] /\ p \notin ToSet(kds[x])
        BY <3>2, <1>2, <1>9, TreeKids
      <4> QED BY <3>2, <4>1
    <3> QED BY <3>1, <3>2
  <2> QED BY <2>1, <1>2 DEF Leaves
<1>12. Tree(new) = Tree(kds) \ {p} /\ Apart(new)
  BY <1>1, <1>10, <1>11, TreeWithout
<1> QED BY <1>1, <1>8, <1>9, <1>10, <1>12 DEF Forest

(* The lists after a process, the i-th of o, has been merged with the next. *)
AfterTwins(kds, new, o, i, p, q) ==
  /\ Forest(new) /\ Tree(new) = Tree(kds) \ {q} /\ p # o
  /\ \A x \in 0..N : (x # o /\ x # p) => new[x] = kds[x]
  /\ Len(new[o]) = Len(kds[o]) - 1
  /\ \A k \in 1..i : new[o][k] = kds[o][k]
  /\ ToSet(new[o]) = ToSet(kds[o]) \ {q}
  /\ ToSet(new[p]) = ToSet(kds[p]) \cup ToSet(kds[q])

(* merge_siblings takes the next process out of the list and gives its      *)
(* children to this one.                                                    *)
LEMMA TwinForest ==
  ASSUME NEW kds, Forest(kds), NEW o \in Tree(kds), NEW i \in 1..Len(kds[o]) - 1,
         NEW p, p = kds[o][i], NEW q, q = kds[o][i + 1],
         NEW new, new = Twinned(kds, o, i)
  PROVE  AfterTwins(kds, new, o, i, p, q)
<1> DEFINE l == RemoveAt(kds[o], i + 1)
           m == kds[p] \o kds[q]
<1>1. /\ kds \in ChildLists /\ Apart(kds) /\ o \in 0..N
      /\ kds[o] \in Seq(P) /\ IsInjective(kds[o]) /\ Len(kds[o]) \in Nat
      /\ i \in 1..Len(kds[o]) /\ i + 1 \in 1..Len(kds[o])
  BY TreeKids, ForestLists DEF Forest
<1>2. /\ p \in ToSet(kds[o]) /\ q \in ToSet(kds[o]) /\ p # q
  <2>1. p \in ToSet(kds[o]) /\ q \in ToSet(kds[o])
    BY <1>1, Elements
  <2>2. \A a, b \in 1..Len(kds[o]) : kds[o][a] = kds[o][b] => a = b
    BY <1>1, Distinct
  <2> QED BY <2>1, <2>2, <1>1
<1>3. /\ p \in Tree(kds) /\ q \in Tree(kds) /\ p \in 0..N /\ q \in 0..N
      /\ p # o /\ q # o /\ q \notin ToSet(kds[q]) /\ q \notin ToSet(kds[p])
      /\ ToSet(kds[p]) \cap ToSet(kds[q]) = {}
  <2>1. p \in Tree(kds) /\ q \in Tree(kds) /\ p # o /\ q # o
    BY <1>2, TreeKids
  <2>2. p \in 0..N /\ q \in 0..N /\ q \notin ToSet(kds[q])
    BY <2>1, TreeKids
  <2>3. q \notin ToSet(kds[p])
    BY <2>1, <1>2, TreeKids
  <2>4. ToSet(kds[p]) \cap ToSet(kds[q]) = {}
    BY <2>1, <1>1, <1>2 DEF Apart
  <2> QED BY <2>1, <2>2, <2>3, <2>4
<1>4. /\ l \in Seq(P) /\ IsInjective(l) /\ ToSet(l) = ToSet(kds[o]) \ {q}
      /\ Len(l) = Len(kds[o]) - 1 /\ \A k \in 1..i : l[k] = kds[o][k]
  <2>1. l \in Seq(P) /\ IsInjective(l) /\ ToSet(l) = ToSet(kds[o]) \ {kds[o][i + 1]}
    BY <1>1, RemoveDistinct
  <2>2. /\ Len(l) = Len(kds[o]) - 1
        /\ \A k \in 1..Len(kds[o]) - 1 :
             l[k] = IF k < i + 1 THEN kds[o][k] ELSE kds[o][k + 1]
    BY <1>1, RemoveAtShifts
  <2> HIDE DEF l
  <2>3. \A k \in 1..i : k \in 1..Len(kds[o]) - 1 /\ k < i + 1
    BY <1>1
  <2> QED BY <2>1, <2>2, <2>3
<1>5. m \in Seq(P) /\ IsInjective(m) /\ ToSet(m) = ToSet(kds[p]) \cup ToSet(kds[q])
  <2>1. kds[p] \in Seq(P) /\ kds[q] \in Seq(P) /\ IsInjective(kds[p]) /\ IsInjective(kds[q])
    BY <1>3, ForestLists
  <2> QED BY <2>1, <1>3, ConcatDistinct
<1> HIDE DEF l, m
<1>6. /\ new = [x \in 0..N |-> new[x]]
      /\ \A x \in 0..N : new[x] = IF x = p THEN m ELSE IF x = o THEN l ELSE kds[x]
  BY <1>1, <1>3 DEF ChildLists, l, m, Twinned
<1>7. \A x \in 0..N : new[x] = IF x = p THEN m ELSE IF x = o THEN l ELSE kds[x]
  BY <1>6
<1>8. new \in ChildLists /\ \A x \in 0..N : IsInjective(new[x])
  <2>1. ASSUME NEW x \in 0..N PROVE new[x] \in Seq(P) /\ IsInjective(new[x])
    <3>1. kds[x] \in Seq(P) /\ IsInjective(kds[x])
      BY ForestLists
    <3>2. new[x] = m \/ new[x] = l \/ new[x] = kds[x]
      BY <1>7
    <3> QED BY ONLY <3>1, <3>2, <1>4, <1>5
  <2> QED BY <2>1, <1>6 DEF ChildLists
<1>9. Leaves(kds, new, o, q, p)
  <2>1. ASSUME NEW x \in Tree(kds) \ {q}
        PROVE  ToSet(new[x]) = (ToSet(kds[x]) \cup (IF x = p THEN ToSet(kds[q]) ELSE {})) \ {q}
    <3>1. CASE x = o
      BY <3>1, <1>1, <1>3, <1>4, <1>7
    <3>2. CASE x = p
      <4>1. ToSet(new[x]) = ToSet(kds[p]) \cup ToSet(kds[q])
        BY <3>2, <1>3, <1>5, <1>7
      <4> QED BY <3>2, <4>1, <1>3
    <3>3. CASE x # o /\ x # p
      <4>1. x \in 0..N /\ q \notin ToSet(kds[x])
        BY <3>3, <1>2, TreeKids
      <4>2. new[x] = kds[x]
        BY <3>3, <4>1, <1>7
      <4> QED BY <3>3, <4>1, <4>2
    <3> QED BY <3>1, <3>2, <3>3
  <2> QED BY <2>1, <1>2, <1>3 DEF Leaves
<1>10. Tree(new) = Tree(kds) \ {q} /\ Apart(new)
  BY <1>1, <1>8, <1>9, TreeWithout
<1>11. new[o] = l /\ new[p] = m
  BY <1>1, <1>3, <1>7
<1> QED BY <1>3, <1>4, <1>5, <1>7, <1>8, <1>10, <1>11 DEF Forest, AfterTwins

(* The lists after p has been merged with its only child, q. *)
AfterRun(kds, new, p, q) ==
  /\ Forest(new) /\ Tree(new) = Tree(kds) \ {q}
  /\ \A x \in 0..N : x # p => new[x] = kds[x]
  /\ new[p] = kds[q] /\ q # p /\ q \in Tree(kds) /\ ToSet(kds[p]) = {q}

(* merge_runs gives an only child's children to its parent. *)
LEMMA RunForest ==
  ASSUME NEW kds, Forest(kds), NEW p \in Tree(kds), Len(kds[p]) = 1,
         NEW q, q = kds[p][1],
         NEW new, new = RunJoined(kds, p)
  PROVE  AfterRun(kds, new, p, q)
<1>1. /\ kds \in ChildLists /\ Apart(kds) /\ p \in 0..N /\ kds[p] \in Seq(P)
  BY TreeKids, ForestLists DEF Forest
<1>2. ToSet(kds[p]) = {q}
  BY <1>1, Elements
<1>3. q \in Tree(kds) /\ q \in 0..N /\ q # p /\ q \notin ToSet(kds[q])
  <2>1. q \in Tree(kds) /\ q # p
    BY <1>2, TreeKids
  <2> QED BY <2>1, TreeKids
<1>4. \A x \in 0..N : new[x] = IF x = p THEN kds[q] ELSE kds[x]
  BY <1>1 DEF ChildLists, RunJoined
<1>5. new \in ChildLists /\ \A x \in 0..N : IsInjective(new[x])
  <2>1. kds[q] \in Seq(P) /\ \A x \in 0..N : IsInjective(new[x])
    BY <1>3, <1>4, ForestLists
  <2> QED BY <2>1, <1>1 DEF ChildLists, RunJoined
<1>6. Leaves(kds, new, p, q, p)
  <2>1. ASSUME NEW x \in Tree(kds) \ {q}
        PROVE  ToSet(new[x]) = (ToSet(kds[x]) \cup (IF x = p THEN ToSet(kds[q]) ELSE {})) \ {q}
    <3>1. CASE x = p
      <4>1. ToSet(new[x]) = ToSet(kds[q])
        BY <3>1, <1>1, <1>4
      <4> QED BY <3>1, <4>1, <1>2, <1>3
    <3>2. CASE x # p
      <4>1. x \in 0..N /\ q \notin ToSet(kds[x])
        BY <3>2, <1>2, TreeKids
      <4>2. new[x] = kds[x]
        BY <3>2, <4>1, <1>4
      <4> QED BY <3>2, <4>1, <4>2
    <3> QED BY <3>1, <3>2
  <2> QED BY <2>1, <1>2, <1>3 DEF Leaves
<1>7. Tree(new) = Tree(kds) \ {q} /\ Apart(new)
  BY <1>1, <1>5, <1>6, TreeWithout
<1> QED BY <1>1, <1>2, <1>3, <1>4, <1>5, <1>7 DEF Forest, AfterRun

(* A child and all below it leave the lists. *)
LEMMA RemovedForest ==
  ASSUME NEW kds, Forest(kds), NEW o \in P, NEW i \in 1..Len(kds[o]),
         NEW new, new = [kds EXCEPT ![o] = RemoveFirst(@, kds[o][i])]
  PROVE  Forest(new) /\ Len(new[o]) = Len(kds[o]) - 1
<1>1. /\ kds \in ChildLists /\ Apart(kds) /\ o \in 0..N
      /\ kds[o] \in Seq(P) /\ IsInjective(kds[o])
  BY Numbers, ForestLists DEF Forest
<1> DEFINE l == RemoveAt(kds[o], i)
<1>2. /\ RemoveFirst(kds[o], kds[o][i]) = l
      /\ l \in Seq(P) /\ IsInjective(l) /\ ToSet(l) \subseteq ToSet(kds[o])
      /\ Len(l) = Len(kds[o]) - 1
  BY <1>1, FirstRemoved, RemoveDistinct, RemoveAtShifts
<1> HIDE DEF l
<1>3. new = [kds EXCEPT ![o] = l] /\ \A x \in 0..N : new[x] = IF x = o THEN l ELSE kds[x]
  BY <1>1, <1>2 DEF ChildLists
<1>4. new \in ChildLists /\ \A x \in 0..N : IsInjective(new[x])
  <2>1. \A x \in 0..N : IsInjective(new[x])
    BY <1>2, <1>3, ForestLists
  <2> QED BY <2>1, <1>1, <1>2, <1>3 DEF ChildLists
<1>5. \A x \in Tree(kds) : ToSet(new[x]) \subseteq ToSet(kds[x])
  <2>1. \A x \in Tree(kds) : x \in 0..N
    BY TreeKids
  <2> QED BY <2>1, <1>2, <1>3
<1>6. Apart(new)
  BY ONLY <1>1, <1>4, <1>5, TreeOfSublists
<1> QED BY <1>1, <1>2, <1>3, <1>4, <1>6 DEF Forest

(* ------------------------------------------------------------------------ *)
(* Samples                                                                  *)

(* Samples in the order of their times.                                     *)
InOrder(s) == \A i, k \in 1..Len(s) : i <= k => s[i].time <= s[k].time

(* merge_processes sorts its samples: none is lost and none appears twice.  *)
LEMMA SortedSamples ==
  ASSUME NEW s \in Seq(Sample)
  PROVE  /\ ByTime(s) \in Seq(Sample) /\ ToSet(ByTime(s)) = ToSet(s) /\ InOrder(ByTime(s))
         /\ IsInjective(s) => IsInjective(ByTime(s))
<1> DEFINE n == Len(s)
           R(k) == {j \in 1..n : NotAfter(s, j, k)}
           place(i) == CHOOSE k \in 1..n : Rank(s, k) = i
<1>1. n \in Nat /\ \A k \in 1..n : s[k] \in Sample /\ s[k].time \in Nat
  <2>1. n \in Nat /\ \A k \in 1..n : s[k] \in Sample
    BY Elements
  <2>2. \A x \in Sample : x.time \in Nat
    BY DEF Sample
  <2> QED BY <2>1, <2>2
<1>2. ASSUME NEW k \in 1..n
      PROVE  IsFiniteSet(R(k)) /\ k \in R(k) /\ Rank(s, k) \in 1..n
             /\ Rank(s, k) = Cardinality(R(k))
  <2>1. IsFiniteSet(1..n) /\ Cardinality(1..n) = n
    <3>1. \A m \in Nat : IsFiniteSet(1..m) /\ Cardinality(1..m) = m
      BY ONLY FS_Interval
    <3> QED BY <3>1, <1>1
  <2>2. IsFiniteSet(R(k)) /\ Cardinality(R(k)) <= n
    BY <2>1, FS_Subset
  <2>3. k \in R(k)
    BY <1>1 DEF NotAfter
  <2>4. Cardinality(R(k)) \in Nat /\ Cardinality(R(k)) # 0
    BY <2>2, <2>3, FS_CardinalityType, FS_EmptySet
  <2> QED BY <1>1, <2>2, <2>3, <2>4 DEF Rank
<1>3. ASSUME NEW k \in 1..n, NEW l \in 1..n, k # l, NotAfter(s, k, l)
      PROVE  Rank(s, k) <= Rank(s, l) /\ Rank(s, k) # Rank(s, l)
  <2>1. k \in Nat /\ l \in Nat /\ s[k].time \in Nat /\ s[l].time \in Nat
    BY <1>1
  <2>2. ~ NotAfter(s, l, k)
    BY <1>3, <2>1 DEF NotAfter
  <2>3. ASSUME NEW j \in R(k) PROVE j \in R(l)
    <3>1. j \in Nat /\ s[j].time \in Nat /\ NotAfter(s, j, k)
      BY <1>1
    <3>2. NotAfter(s, j, l)
      BY <3>1, <2>1, <1>3 DEF NotAfter
    <3> QED BY <3>2
  <2>4. R(k) \subseteq R(l) /\ l \in R(l) /\ l \notin R(k)
    BY <2>2, <2>3, <1>2
  <2>5. /\ IsFiniteSet(R(l)) /\ Cardinality(R(k)) <= Cardinality(R(l))
        /\ Cardinality(R(l)) = Cardinality(R(k)) => R(l) = R(k)
    BY <1>2, <2>4, FS_Subset
  <2>6. Cardinality(R(k)) # Cardinality(R(l))
    BY <2>4, <2>5
  <2> QED BY <2>5, <2>6, <1>2
<1>4. \A k, l \in 1..n : Rank(s, k) = Rank(s, l) => k = l
  <2> SUFFICES ASSUME NEW k \in 1..n, NEW l \in 1..n, k # l PROVE Rank(s, k) # Rank(s, l)
    OBVIOUS
  <2>1. k \in Nat /\ l \in Nat /\ s[k].time \in Nat /\ s[l].time \in Nat
    BY <1>1
  <2>2. NotAfter(s, k, l) \/ NotAfter(s, l, k)
    BY <2>1 DEF NotAfter
  <2> QED BY <2>2, <1>3
<1>5. \A i \in 1..n : \E k \in 1..n : Rank(s, k) = i
  <2> DEFINE f == [k \in 1..n |-> Rank(s, k)]
  <2>1. f \in Injection(1..n, 1..n)
    BY <1>2, <1>4 DEF Injection, IsInjective
  <2>2. IsFiniteSet(1..n)
    BY <1>1, FS_Interval
  <2>3. f \in Surjection(1..n, 1..n)
    <3> HIDE DEF f
    <3> QED BY <2>1, <2>2, FS_Injection
  <2> QED BY <2>3 DEF Surjection
<1>6. \A i \in 1..n : place(i) \in 1..n /\ Rank(s, place(i)) = i
  BY <1>5
<1>7. \A k \in 1..n : place(Rank(s, k)) = k
  BY <1>2, <1>4, <1>6
<1>8. ByTime(s) = [i \in 1..n |-> s[place(i)]]
  BY DEF ByTime
<1> HIDE DEF place, R, n
<1> DEFINE t == ByTime(s)
<1>9. t \in Seq(Sample) /\ Len(t) = n /\ \A i \in 1..n : t[i] = s[place(i)]
  <2>1. t \in [1..n -> Sample]
    BY <1>1, <1>6, <1>8
  <2> QED BY <2>1, <1>1, <1>8
<1> HIDE DEF t
<1>10. s \in Seq(Sample) /\ ToSet(s) = {s[k] : k \in 1..n}
  BY DEF ToSet, n
<1>11. ToSet(t) = {t[i] : i \in 1..n}
  BY <1>9 DEF ToSet
<1>12. ToSet(t) = ToSet(s)
  <2>1. ASSUME NEW k \in 1..n PROVE \E i \in 1..n : t[i] = s[k]
    <3>1. Rank(s, k) \in 1..n /\ place(Rank(s, k)) = k
      BY <1>2, <1>7
    <3> QED BY <3>1, <1>9
  <2>2. ASSUME NEW i \in 1..n PROVE \E k \in 1..n : t[i] = s[k]
    BY <1>6, <1>9
  <2> QED BY ONLY <2>1, <2>2, <1>10, <1>11
<1>13. ASSUME IsInjective(s) PROVE IsInjective(t)
  <2>1. \A a, b \in 1..n : s[a] = s[b] => a = b
    BY <1>13, Distinct DEF n
  <2>2. ASSUME NEW i \in 1..n, NEW k \in 1..n, t[i] = t[k] PROVE i = k
    <3>1. place(i) = place(k)
      BY <2>1, <2>2, <1>6, <1>9
    <3> QED BY <3>1, <1>6
  <2> QED BY <2>2, <1>9, Distinct
<1>14. InOrder(t)
  <2> SUFFICES ASSUME NEW i \in 1..n, NEW k \in 1..n, i <= k PROVE t[i].time <= t[k].time
    BY <1>9 DEF InOrder
  <2> DEFINE a == place(i)
             b == place(k)
  <2>1. a \in 1..n /\ b \in 1..n /\ Rank(s, a) = i /\ Rank(s, b) = k
    BY <1>6
  <2>2. t[i] = s[a] /\ t[k] = s[b] /\ s[a].time \in Nat /\ s[b].time \in Nat
    BY <2>1, <1>1, <1>9
  <2> HIDE DEF a, b
  <2>3. b # a /\ NotAfter(s, b, a) => Rank(s, b) <= Rank(s, a) /\ Rank(s, b) # Rank(s, a)
    BY <2>1, <1>3
  <2>4. s[b].time < s[a].time => NotAfter(s, b, a) /\ b # a
    BY <2>2 DEF NotAfter
  <2>5. i \in Nat /\ k \in Nat
    BY <1>1
  <2>6. ~ (s[b].time < s[a].time)
    BY <2>1, <2>3, <2>4, <2>5
  <2> QED BY <2>2, <2>6
<1> QED BY <1>9, <1>12, <1>13, <1>14 DEF t


(* ------------------------------------------------------------------------ *)
(* What is below                                                            *)

(* What is below a process, or the roots: the least set that has its        *)
(* children and with each process its children.                             *)
LEMMA BelowIsLeast ==
  ASSUME NEW kds \in ChildLists, NEW o \in 0..N
  PROVE  /\ Below(kds, o) \subseteq P /\ ToSet(kds[o]) \subseteq Below(kds, o)
         /\ \A p \in Below(kds, o) : ToSet(kds[p]) \subseteq Below(kds, o)
         /\ \A L : ToSet(kds[o]) \subseteq L /\ (\A p \in L : ToSet(kds[p]) \subseteq L)
                     => Below(kds, o) \subseteq L
<1>1. Below(kds, o) = Down(kds, o)[N] /\ N \in 0..N
  BY BelowIsDown, Numbers
<1>2. \A x \in 0..N : ToSet(kds[x]) \subseteq P
  BY Elements DEF ChildLists
<1>3. Below(kds, o) \subseteq P
  <2>1. ToSet(kds[o]) \subseteq P /\ \A p \in P : ToSet(kds[p]) \subseteq P
    BY <1>2, Numbers
  <2>2. Down(kds, o)[N] \subseteq P
    BY ONLY <1>1, <2>1, DownBounds
  <2> QED BY <1>1, <2>2
<1>4. ToSet(kds[o]) \subseteq Below(kds, o)
  <2> DEFINE d == Down(kds, o)
             Bad == {n \in 0..N : ~ (ToSet(kds[o]) \subseteq d[n])}
  <2>1. d[0] = ToSet(kds[o]) /\ \A n \in 1..N : d[n] = Deeper(kds, d[n - 1])
    BY DownValues
  <2> HIDE DEF d
  <2>2. Bad = {}
    <3> SUFFICES ASSUME Bad # {} PROVE FALSE
      OBVIOUS
    <3>1. PICK b \in Bad : \A k \in Bad : b <= k
      <4>1. Bad \subseteq Nat
        BY Numbers
      <4> HIDE DEF Bad
      <4> QED BY <4>1, LeastNatural
    <3>2. b # 0
      BY <2>1, <3>1
    <3>3. b \in 1..N /\ b - 1 \in 0..N /\ ~ (b <= b - 1)
      BY <3>1, <3>2, Numbers
    <3>4. ToSet(kds[o]) \subseteq d[b - 1]
      BY <3>1, <3>3
    <3> QED BY <3>1, <3>3, <3>4, <2>1 DEF Deeper
  <2> QED BY <1>1, <2>2 DEF d
<1>5. \A p \in Below(kds, o) : ToSet(kds[p]) \subseteq Below(kds, o)
  BY <1>1, DownEnds
<1>6. ASSUME NEW L, ToSet(kds[o]) \subseteq L, \A p \in L : ToSet(kds[p]) \subseteq L
      PROVE  Below(kds, o) \subseteq L
  <2>1. Down(kds, o)[N] \subseteq L
    BY ONLY <1>1, <1>6, DownBounds
  <2> QED BY <1>1, <2>1
<1> QED BY <1>3, <1>4, <1>5, <1>6

(* Who is in the tree is in one of its lists. *)
LEMMA ParentInTree ==
  ASSUME NEW kds \in ChildLists, NEW p \in Tree(kds), p # Top
  PROVE  \E o \in Tree(kds) : p \in ToSet(kds[o])
<1> SUFFICES ASSUME \A o \in Tree(kds) : p \notin ToSet(kds[o]) PROVE FALSE
  OBVIOUS
<1> DEFINE L == Tree(kds) \ {p}
<1>1. Top \in L /\ \A o \in L : ToSet(kds[o]) \subseteq L
  BY TreeIsLeast
<1> HIDE DEF L
<1>2. Tree(kds) \subseteq L
  BY <1>1, TreeIsLeast
<1> QED BY <1>2 DEF L

(* A list that holds the same number of processes, each once, and no        *)
(* others holds the same.                                                   *)
LEMMA SameMembers ==
  ASSUME NEW a \in Seq(P), NEW b \in Seq(P), IsInjective(a), IsInjective(b),
         Len(a) = Len(b), ToSet(a) \subseteq ToSet(b)
  PROVE  ToSet(a) = ToSet(b)
<1>1. /\ IsFiniteSet(ToSet(a)) /\ Cardinality(ToSet(a)) = Len(a)
      /\ IsFiniteSet(ToSet(b)) /\ Cardinality(ToSet(b)) = Len(b)
  BY DistinctCounted
<1> QED BY <1>1, FS_Subset

(* sort leaves the tree as it is. *)
LEMMA SortedTree ==
  ASSUME NEW kds, Forest(kds), NEW new,
         new = [o \in 0..N |-> IF o \in Below(kds, Top) THEN SortedByPid(kds[o]) ELSE kds[o]]
  PROVE  Tree(new) = Tree(kds) /\ Below(new, Top) = Below(kds, Top)
<1>1. ASSUME NEW o \in 0..N
      PROVE  new[o] \in Seq(P) /\ ToSet(new[o]) = ToSet(kds[o])
  <2>1. kds[o] \in Seq(P) /\ IsInjective(kds[o])
    BY ForestLists
  <2>2. LET r == SortedByPid(kds[o])
        IN  /\ r \in Seq(P) /\ IsInjective(r)
            /\ Len(r) = Len(kds[o]) /\ ToSet(r) \subseteq ToSet(kds[o])
    BY <2>1, SortedDistinct
  <2> DEFINE r == SortedByPid(kds[o])
  <2>3. r \in Seq(P) /\ IsInjective(r) /\ Len(r) = Len(kds[o]) /\ ToSet(r) \subseteq ToSet(kds[o])
    BY <2>2
  <2>4. new[o] = kds[o] \/ new[o] = r
    OBVIOUS
  <2> HIDE DEF r
  <2>5. ToSet(r) = ToSet(kds[o])
    BY <2>1, <2>3, SameMembers
  <2> QED BY <2>1, <2>3, <2>4, <2>5
<1>2. new \in ChildLists /\ kds \in ChildLists
  BY <1>1 DEF ChildLists, Forest
<1>3. \A o \in 0..N : ToSet(new[o]) = ToSet(kds[o])
  BY <1>1
<1> HIDE DEF ChildLists
<1>4. Tree(new) \subseteq Tree(kds)
  <2>1. Tree(kds) \subseteq 0..N /\ Top \in Tree(kds)
        /\ \A o \in Tree(kds) : ToSet(kds[o]) \subseteq Tree(kds)
    BY <1>2, TreeIsLeast
  <2>2. \A o \in Tree(kds) : ToSet(new[o]) \subseteq Tree(kds)
    BY <2>1, <1>3
  <2> QED BY ONLY <2>1, <2>2, <1>2, TreeIsLeast
<1>5. Tree(kds) \subseteq Tree(new)
  <2>1. Tree(new) \subseteq 0..N /\ Top \in Tree(new)
        /\ \A o \in Tree(new) : ToSet(new[o]) \subseteq Tree(new)
    BY <1>2, TreeIsLeast
  <2>2. \A o \in Tree(new) : ToSet(kds[o]) \subseteq Tree(new)
    BY <2>1, <1>3
  <2> QED BY ONLY <2>1, <2>2, <1>2, TreeIsLeast
<1>6. Below(new, Top) = Tree(new) \ {Top} /\ Below(kds, Top) = Tree(kds) \ {Top}
  BY <1>2, TreeIsLeast
<1> QED BY <1>4, <1>5, <1>6


(* A process and those below it. *)
Sub(kds, p) == {p} \cup Below(kds, p)

(* Processes of the tree of which each is the child of one of them: there   *)
(* are none, as nobody leads to them from the roots.                        *)
LEMMA NoCircle ==
  ASSUME NEW kds, Forest(kds), NEW B, B \subseteq Tree(kds) \ {Top},
         \A z \in B : \E y \in B : z \in ToSet(kds[y])
  PROVE  B = {}
<1> DEFINE T == Tree(kds)
           L == T \ B
<1>1. /\ Top \in T /\ \A q \in T : ToSet(kds[q]) \subseteq T \ {Top}
      /\ Top \in L /\ (\A q \in L : ToSet(kds[q]) \subseteq L) => T \subseteq L
  BY TreeIsLeast DEF Forest
<1>2. \A o, q \in T : \A p \in ToSet(kds[o]) : p \in ToSet(kds[q]) => o = q
  BY DEF Forest, Apart
<1> HIDE DEF T
<1>3. ASSUME NEW q \in L, NEW z \in ToSet(kds[q]) PROVE z \in L
  <2>1. z \in T
    BY <1>1, <1>3
  <2>2. z \notin B
    <3> SUFFICES ASSUME z \in B PROVE FALSE
      OBVIOUS
    <3>1. PICK y \in B : z \in ToSet(kds[y])
      OBVIOUS
    <3>2. y \in T
      BY DEF T
    <3> QED BY <3>1, <3>2, <1>2, <1>3
  <2> QED BY <2>1, <2>2
<1>4. T \subseteq L
  BY <1>1, <1>3
<1> QED BY <1>4 DEF T

(* Who is below a process of the tree is in the tree, and a child of it or  *)
(* of another process below it.                                             *)
LEMMA ParentBelow ==
  ASSUME NEW kds, Forest(kds), NEW p \in Tree(kds) \ {Top}
  PROVE  /\ Sub(kds, p) \subseteq Tree(kds) \ {Top} /\ Sub(kds, p) \subseteq P
         /\ \A z \in Below(kds, p) : \E y \in Sub(kds, p) : z \in ToSet(kds[y])
<1>1. kds \in ChildLists /\ p \in 0..N /\ p \in P
  BY TreeIsLeast DEF Forest
<1>2. /\ Below(kds, p) \subseteq P /\ ToSet(kds[p]) \subseteq Below(kds, p)
      /\ \A x \in Below(kds, p) : ToSet(kds[x]) \subseteq Below(kds, p)
      /\ \A L : ToSet(kds[p]) \subseteq L /\ (\A x \in L : ToSet(kds[x]) \subseteq L)
                     => Below(kds, p) \subseteq L
  BY <1>1, BelowIsLeast
<1>3. Below(kds, p) \subseteq Tree(kds) \ {Top}
  <2>1. \A x \in Tree(kds) : ToSet(kds[x]) \subseteq Tree(kds) \ {Top}
    BY TreeKids
  <2> QED BY <1>2, <2>1
<1>4. ASSUME NEW z \in Below(kds, p), \A y \in Sub(kds, p) : z \notin ToSet(kds[y])
      PROVE  FALSE
  <2> DEFINE L == Below(kds, p) \ {z}
  <2>1. ToSet(kds[p]) \subseteq L /\ \A x \in L : ToSet(kds[x]) \subseteq L
    BY <1>2, <1>4 DEF Sub
  <2> HIDE DEF L
  <2>2. Below(kds, p) \subseteq L
    BY <1>2, <2>1
  <2> QED BY <2>2 DEF L
<1> QED BY <1>1, <1>2, <1>3, <1>4 DEF Sub

(* Nobody is below itself, and nobody below two children of one process.    *)
LEMMA SubtreesApart ==
  ASSUME NEW kds, Forest(kds), NEW o \in Tree(kds)
  PROVE  \A p, r \in ToSet(kds[o]) :
           p \notin Below(kds, p) /\ (p # r => Sub(kds, p) \cap Sub(kds, r) = {})
<1>1. ASSUME NEW x \in ToSet(kds[o])
      PROVE  /\ Sub(kds, x) \subseteq Tree(kds) \ {Top} /\ x \in Sub(kds, x)
             /\ \A z \in Below(kds, x) : \E y \in Sub(kds, x) : z \in ToSet(kds[y])
             /\ x \notin Below(kds, x) /\ o \notin Sub(kds, x)
  <2>1. x \in Tree(kds) \ {Top}
    BY TreeKids
  <2>2. /\ Sub(kds, x) \subseteq Tree(kds) \ {Top}
        /\ \A z \in Below(kds, x) : \E y \in Sub(kds, x) : z \in ToSet(kds[y])
    BY <2>1, ParentBelow
  <2>3. x \in Sub(kds, x) /\ Sub(kds, x) = {x} \cup Below(kds, x)
    BY DEF Sub
  <2>4. (\A z \in Sub(kds, x) : \E y \in Sub(kds, x) : z \in ToSet(kds[y])) => FALSE
    BY ONLY Forest(kds), <2>2, <2>3, NoCircle
  <2> QED BY <2>2, <2>3, <2>4
<1>2. \A x, y \in Tree(kds) : \A z \in ToSet(kds[x]) : z \in ToSet(kds[y]) => x = y
  BY DEF Forest, Apart
<1>3. ASSUME NEW p \in ToSet(kds[o]), NEW r \in ToSet(kds[o]), p # r
      PROVE  Sub(kds, p) \cap Sub(kds, r) = {}
  <2> DEFINE B == Sub(kds, p) \cap Sub(kds, r)
  <2>1. ASSUME NEW z \in B PROVE \E y \in B : z \in ToSet(kds[y])
    <3>1. CASE z # p /\ z # r
      <4>1. z \in Below(kds, p) /\ z \in Below(kds, r)
        BY <3>1 DEF Sub
      <4>2. PICK x \in Sub(kds, p) : z \in ToSet(kds[x])
        BY <4>1, <1>1
      <4>3. PICK y \in Sub(kds, r) : z \in ToSet(kds[y])
        BY <4>1, <1>1
      <4>4. x = y
        BY <4>2, <4>3, <1>1, <1>2
      <4> QED BY <4>2, <4>3, <4>4
    <3>2. CASE z = p
      <4>1. z \in Below(kds, r)
        BY <3>2, <1>3 DEF Sub
      <4>2. PICK y \in Sub(kds, r) : z \in ToSet(kds[y])
        BY <4>1, <1>1
      <4>3. y = o
        BY <3>2, <4>2, <1>1, <1>2
      <4> QED BY <4>2, <4>3, <1>1
    <3>3. CASE z = r
      <4>1. z \in Below(kds, p)
        BY <3>3, <1>3 DEF Sub
      <4>2. PICK y \in Sub(kds, p) : z \in ToSet(kds[y])
        BY <4>1, <1>1
      <4>3. y = o
        BY <3>3, <4>2, <1>1, <1>2
      <4> QED BY <4>2, <4>3, <1>1
    <3> QED BY <3>1, <3>2, <3>3
  <2>2. B \subseteq Tree(kds) \ {Top}
    BY <1>1
  <2>3. B = {}
    <3> HIDE DEF B
    <3> QED BY ONLY Forest(kds), <2>1, <2>2, NoCircle
  <2> QED BY <1>1, <2>3
<1> QED BY <1>1, <1>3

(* ------------------------------------------------------------------------ *)
(* What is still to be done                                                 *)

(* Ahead and Pending, for any lists and frames. *)
AheadOf(kds, f) == UNION {Sub(kds, kds[f.of][i]) : i \in f.at..Len(kds[f.of])}
PendingOf(kds, stk) == UNION {{k} \X AheadOf(kds, stk[k]) : k \in 1..Len(stk)}

(* These are Pending, for the lists and frames of a state. *)
LEMMA PendingIs == Pending = PendingOf(kids, stack)
BY DEF Pending, PendingOf, Ahead, AheadOf, Sub

(* What the frames have still to go through is finite. *)
LEMMA PendingFinite ==
  ASSUME NEW kds, Forest(kds), NEW stk, OnPath(stk, kds)
  PROVE  /\ IsFiniteSet(PendingOf(kds, stk)) /\ Cardinality(PendingOf(kds, stk)) \in Nat
         /\ \A k \in 1..Len(stk) : AheadOf(kds, stk[k]) \subseteq P
<1>1. ASSUME NEW k \in 1..Len(stk) PROVE AheadOf(kds, stk[k]) \subseteq P
  <2> DEFINE o == stk[k].of
  <2>1. o \in Tree(kds) /\ o \in 0..N /\ stk[k].at \in Nat /\ stk[k].at # 0
    <3>1. o \in Tree(kds) /\ stk[k].at \in 1..Len(kds[o]) + 1
      BY DEF OnPath
    <3> QED BY <3>1, TreeKids
  <2>2. ASSUME NEW i \in stk[k].at..Len(kds[o]) PROVE Sub(kds, kds[o][i]) \subseteq P
    <3>1. i \in 1..Len(kds[o])
      BY <2>1, <2>2, ForestLists
    <3>2. kds[o][i] \in Tree(kds) \ {Top}
      BY <2>1, <3>1, ForestLists, TreeKids
    <3> QED BY <3>2, ParentBelow
  <2> QED BY <2>2 DEF AheadOf
<1>2. IsFiniteSet((1..Len(stk)) \X P)
  <2>1. Len(stk) \in Int /\ 1 \in Int /\ N \in Int
    BY PathFrames, Numbers DEF OnPath
  <2>2. IsFiniteSet(1..Len(stk)) /\ IsFiniteSet(1..N)
    BY ONLY <2>1, FS_Interval
  <2> QED BY <2>2, FS_Product DEF P
<1>3. PendingOf(kds, stk) \subseteq (1..Len(stk)) \X P
  BY <1>1 DEF PendingOf
<1>4. IsFiniteSet(PendingOf(kds, stk))
  BY ONLY <1>2, <1>3, FS_Subset
<1> QED BY <1>1, <1>4, FS_CardinalityType

(* A call for a child leaves less to do: the child itself. *)
LEMMA PendingEnters ==
  ASSUME NEW kds, Forest(kds), NEW stk, OnPath(stk, kds),
         NEW o, o = stk[Len(stk)].of, NEW i, i = stk[Len(stk)].at, i <= Len(kds[o]),
         NEW p, p = kds[o][i]
  PROVE  LET new == Entered(stk, p, i + 1)
         IN  /\ Len(new) = Len(stk) + 1
             /\ Cardinality(PendingOf(kds, new)) \in Nat
             /\ Cardinality(PendingOf(kds, new)) < Cardinality(PendingOf(kds, stk))
<1> DEFINE n == Len(stk)
           new == Entered(stk, p, i + 1)
           old == PendingOf(kds, stk)
           rest == UNION {Sub(kds, kds[o][k]) : k \in i + 1..Len(kds[o])}
<1>1. /\ n \in Nat \ {0} /\ n \in 1..n /\ o \in Tree(kds) /\ i \in 1..Len(kds[o])
      /\ Len(kds[o]) \in Nat /\ p \in ToSet(kds[o]) /\ p \in P /\ p \in Tree(kds) \ {Top}
      /\ stk \in Seq(Frames) /\ stk # <<>>
  <2>1. stk \in Seq(Frames) /\ stk # <<>>
    BY DEF OnPath
  <2>2. n \in Nat \ {0} /\ n \in 1..n
    BY <2>1, PathFrames
  <2>3. o \in Tree(kds) /\ i \in 1..Len(kds[o]) + 1
    BY <2>2 DEF OnPath
  <2>4. o \in 0..N
    BY <2>3, TreeKids
  <2>5. Len(kds[o]) \in Nat /\ i \in 1..Len(kds[o])
    BY <2>3, <2>4, ForestLists
  <2>6. p \in ToSet(kds[o]) /\ p \in P
    BY <2>4, <2>5, ForestLists
  <2> QED BY <2>1, <2>2, <2>3, <2>5, <2>6, TreeKids
<1>2. /\ Len(new) = n + 1
      /\ \A k \in 1..n - 1 : new[k] = stk[k]
      /\ new[n].of = o /\ new[n].at = i + 1 /\ new[n + 1].of = p /\ new[n + 1].at = 1
  <2>2. stk \in Seq(Frames) /\ stk # <<>> /\ p \in P
    BY <1>1
  <2> DEFINE next == i + 1
             e == Entered(stk, p, next)
  <2>1. next \in Nat
    BY <1>1
  <2> HIDE DEF next
  <2>3. /\ e \in Seq(Frames) /\ e # <<>> /\ Len(e) = n + 1
        /\ \A k \in 1..n : e[k].of = stk[k].of
        /\ \A k \in 1..n - 1 : e[k] = stk[k]
        /\ e[n].at = next /\ e[n + 1].of = p /\ e[n + 1].at = 1
    BY ONLY <2>1, <2>2, EnteredFrames
  <2> HIDE DEF e
  <2>4. e = new
    BY DEF e, next
  <2> QED BY <2>3, <2>4, <1>1 DEF next
<1> HIDE DEF new
<1>3. p \notin rest /\ p \notin Below(kds, p) /\ Below(kds, p) \cap rest = {}
  <2>1. /\ p \notin Below(kds, p)
        /\ \A r \in ToSet(kds[o]) : p # r => Sub(kds, p) \cap Sub(kds, r) = {}
    BY <1>1, SubtreesApart
  <2>2. ASSUME NEW k \in i + 1..Len(kds[o]) PROVE Sub(kds, p) \cap Sub(kds, kds[o][k]) = {}
    <3>1. k \in 1..Len(kds[o]) /\ k # i
      BY <1>1
    <3>2. kds[o] \in Seq(P) /\ IsInjective(kds[o]) /\ kds[o][k] \in ToSet(kds[o])
      BY <3>1, <1>1, TreeKids, ForestLists
    <3>3. kds[o][k] # p
      BY <3>1, <3>2, <1>1, Distinct
    <3> QED BY <2>1, <3>2, <3>3
  <2> QED BY <2>1, <2>2 DEF Sub
<1>4. /\ AheadOf(kds, new[n]) = rest /\ AheadOf(kds, new[n + 1]) \subseteq Below(kds, p)
      /\ Sub(kds, p) \cup rest \subseteq AheadOf(kds, stk[n])
  <2>1. AheadOf(kds, new[n]) = rest
    BY <1>2 DEF AheadOf
  <2>2. AheadOf(kds, new[n + 1]) \subseteq Below(kds, p)
    <3>1. p \in 0..N /\ kds \in ChildLists
      BY <1>1, Numbers DEF Forest
    <3>2. ASSUME NEW c \in ToSet(kds[p]) PROVE Sub(kds, c) \subseteq Below(kds, p)
      <4>1. /\ ToSet(kds[p]) \subseteq Below(kds, p)
            /\ \A x \in Below(kds, p) : ToSet(kds[x]) \subseteq Below(kds, p)
        BY <3>1, BelowIsLeast
      <4>2. c \in Below(kds, p) /\ c \in 0..N
        BY <3>1, <4>1, ForestLists, Numbers
      <4>3. Below(kds, c) \subseteq Below(kds, p)
        BY <3>1, <4>1, <4>2, BelowIsLeast
      <4> QED BY <4>2, <4>3 DEF Sub
    <3>3. \A k \in 1..Len(kds[p]) : kds[p][k] \in ToSet(kds[p])
      BY <3>1, ForestLists
    <3> QED BY <1>2, <3>2, <3>3 DEF AheadOf
  <2>3. Sub(kds, p) \cup rest \subseteq AheadOf(kds, stk[n])
    <3>1. i \in i..Len(kds[o]) /\ \A k \in i + 1..Len(kds[o]) : k \in i..Len(kds[o])
      BY <1>1
    <3>2. AheadOf(kds, stk[n]) = UNION {Sub(kds, kds[o][k]) : k \in i..Len(kds[o])}
      BY DEF AheadOf
    <3> QED BY <3>1, <3>2
  <2> QED BY <2>1, <2>2, <2>3
<1>5. <<n, p>> \in old
  BY <1>1, <1>4 DEF PendingOf, Sub
<1> DEFINE f == [e \in PendingOf(kds, new) |-> IF e[1] = n + 1 THEN <<n, e[2]>> ELSE e]
<1>6. ASSUME NEW e \in PendingOf(kds, new)
      PROVE  \/ e[1] = n + 1 /\ e[2] \in Below(kds, p) /\ e = <<e[1], e[2]>>
             \/ e[1] = n /\ e[2] \in rest /\ e = <<e[1], e[2]>>
             \/ e[1] \in 1..n - 1 /\ e[2] \in AheadOf(kds, stk[e[1]]) /\ e = <<e[1], e[2]>>
  <2>1. PICK k \in 1..n + 1 : e \in {k} \X AheadOf(kds, new[k])
    BY <1>2 DEF PendingOf
  <2>2. e[1] = k /\ e[2] \in AheadOf(kds, new[k]) /\ e = <<e[1], e[2]>>
    BY <2>1
  <2>3. k = n + 1 \/ k = n \/ k \in 1..n - 1
    BY <1>1
  <2> QED BY <2>2, <2>3, <1>2, <1>4
<1>7. ASSUME NEW e \in PendingOf(kds, new) PROVE f[e] \in old \ {<<n, p>>}
  <2>1. f[e] = IF e[1] = n + 1 THEN <<n, e[2]>> ELSE e
    OBVIOUS
  <2> HIDE DEF f
  <2>2. CASE e[1] = n + 1
    <3>1. e[2] \in Below(kds, p)
      BY <2>2, <1>6, <1>1
    <3>2. e[2] # p /\ e[2] \in AheadOf(kds, stk[n])
      BY <3>1, <1>3, <1>4 DEF Sub
    <3>3. <<n, e[2]>> \in old
      BY <3>2, <1>1 DEF PendingOf
    <3> QED BY <2>1, <2>2, <3>2, <3>3
  <2>3. CASE e[1] = n
    <3>1. e[2] \in rest /\ e = <<n, e[2]>> /\ n # n + 1
      BY <2>3, <1>6, <1>1
    <3>2. e[2] # p /\ e[2] \in AheadOf(kds, stk[n])
      BY <3>1, <1>3, <1>4
    <3>3. <<n, e[2]>> \in old
      BY <3>2, <1>1 DEF PendingOf
    <3> QED BY <2>1, <2>3, <3>1, <3>2, <3>3
  <2>4. CASE e[1] # n /\ e[1] # n + 1
    <3>1. e[1] \in 1..n - 1 /\ e[2] \in AheadOf(kds, stk[e[1]]) /\ e = <<e[1], e[2]>>
      BY <2>4, <1>6
    <3>2. e[1] \in 1..n
      BY <3>1, <1>1
    <3>3. e \in old
      BY <3>1, <3>2 DEF PendingOf
    <3> QED BY <2>1, <2>4, <3>1, <3>3
  <2> QED BY <2>2, <2>3, <2>4
<1>8. ASSUME NEW d \in PendingOf(kds, new), NEW e \in PendingOf(kds, new), f[d] = f[e]
      PROVE  d = e
  <2>1. /\ f[d] = IF d[1] = n + 1 THEN <<n, d[2]>> ELSE d
        /\ f[e] = IF e[1] = n + 1 THEN <<n, e[2]>> ELSE e
    OBVIOUS
  <2> HIDE DEF f
  <2>2. d = <<d[1], d[2]>> /\ e = <<e[1], e[2]>>
    BY <1>6
  <2>3. CASE d[1] = n + 1 /\ e[1] = n + 1
    BY <2>1, <2>2, <2>3, <1>8
  <2>4. CASE d[1] # n + 1 /\ e[1] # n + 1
    BY <2>1, <2>4, <1>8
  <2>5. CASE d[1] = n + 1 /\ e[1] # n + 1
    <3>1. e[1] = n /\ e[2] = d[2]
      BY <2>1, <2>2, <2>5, <1>8
    <3>2. d[2] \in Below(kds, p) /\ e[2] \in rest
      BY <2>5, <3>1, <1>6, <1>1
    <3> QED BY <3>1, <3>2, <1>3
  <2>6. CASE d[1] # n + 1 /\ e[1] = n + 1
    <3>1. d[1] = n /\ e[2] = d[2]
      BY <2>1, <2>2, <2>6, <1>8
    <3>2. e[2] \in Below(kds, p) /\ d[2] \in rest
      BY <2>6, <3>1, <1>6, <1>1
    <3> QED BY <3>1, <3>2, <1>3
  <2> QED BY <2>3, <2>4, <2>5, <2>6
<1>9. f \in Injection(PendingOf(kds, new), old \ {<<n, p>>})
  <2>1. f \in [PendingOf(kds, new) -> old \ {<<n, p>>}]
    BY <1>7
  <2> HIDE DEF f
  <2> QED BY <2>1, <1>8 DEF Injection, IsInjective
<1> HIDE DEF f, old
<1>10. IsFiniteSet(old) /\ Cardinality(old) \in Nat
  BY PendingFinite DEF old
<1>11. IsFiniteSet(old \ {<<n, p>>}) /\ Cardinality(old \ {<<n, p>>}) = Cardinality(old) - 1
  BY ONLY <1>5, <1>10, FS_RemoveElement
<1>12. /\ IsFiniteSet(PendingOf(kds, new))
       /\ Cardinality(PendingOf(kds, new)) <= Cardinality(old \ {<<n, p>>})
  BY ONLY <1>9, <1>11, FS_Injection
<1>13. Cardinality(PendingOf(kds, new)) \in Nat
  BY ONLY <1>12, FS_CardinalityType
<1>14. Cardinality(PendingOf(kds, new)) < Cardinality(old)
  BY <1>10, <1>11, <1>12, <1>13
<1> QED BY <1>2, <1>13, <1>14 DEF new, old

(* A return leaves a frame less, and nothing more to do. *)
LEMMA PendingReturns ==
  ASSUME NEW kds, Forest(kds), NEW stk, OnPath(stk, kds), Len(stk) > 1
  PROVE  /\ Len(Front(stk)) = Len(stk) - 1
         /\ Cardinality(PendingOf(kds, Front(stk))) \in Nat
         /\ Cardinality(PendingOf(kds, Front(stk))) <= Cardinality(PendingOf(kds, stk))
<1>1. /\ OnPath(Front(stk), kds) /\ Len(Front(stk)) = Len(stk) - 1
      /\ \A k \in 1..Len(stk) - 1 : Front(stk)[k] = stk[k]
  BY PathBack DEF Forest
<1>2. Len(stk) \in Nat
  BY PathFrames DEF OnPath
<1>3. PendingOf(kds, Front(stk)) \subseteq PendingOf(kds, stk)
  <2>1. \A k \in 1..Len(stk) - 1 : k \in 1..Len(stk)
    BY <1>2
  <2> QED BY <1>1, <2>1 DEF PendingOf
<1>4. IsFiniteSet(PendingOf(kds, stk)) /\ Cardinality(PendingOf(kds, Front(stk))) \in Nat
  BY <1>1, PendingFinite
<1>5. Cardinality(PendingOf(kds, Front(stk))) <= Cardinality(PendingOf(kds, stk))
  BY ONLY <1>3, <1>4, FS_Subset
<1> QED BY <1>1, <1>4, <1>5

(* ------------------------------------------------------------------------ *)
(* The recursive walk through the tree                                      *)

(* What Preorder's walk returns for a process, one call less deep at each   *)
(* level, as a function defined by its equation.                            *)
Joined(kds, calls, o) == FlattenSeq([i \in 1..Len(kds[o]) |-> calls[kds[o][i]]])
GoesThrough(kds, m, walk) ==
  walk = [d \in 0..m |->
            [q \in P |-> <<q>> \o (IF d = 0 THEN <<>> ELSE Joined(kds, walk[d - 1], q))]]
WalkOf(kds) == CHOOSE walk : GoesThrough(kds, N, walk)

(* The preorder of a list is what the walks of its processes return.        *)
LEMMA PreorderIs ==
  ASSUME NEW kds, NEW o
  PROVE  Preorder(kds, o) = Joined(kds, WalkOf(kds)[N], o)
BY DEF Preorder, WalkOf, GoesThrough, Joined

(* There is such a function, for any depth. *)
LEMMA WalkFrom ==
  ASSUME NEW kds, NEW m \in Nat
  PROVE  \E walk : GoesThrough(kds, m, walk)
<1> DEFINE Bad == {n \in Nat : \A walk : ~ GoesThrough(kds, n, walk)}
           Call(d, calls) == [q \in P |-> <<q>> \o (IF d = 0 THEN <<>> ELSE Joined(kds, calls, q))]
<1> SUFFICES ASSUME Bad # {} PROVE FALSE
  OBVIOUS
<1>1. PICK b \in Bad : \A k \in Bad : b <= k
  <2>1. Bad \subseteq Nat
    OBVIOUS
  <2> HIDE DEF Bad
  <2> QED BY <2>1, LeastNatural
<1>2. b # 0
  <2>1. GoesThrough(kds, 0, [d \in 0..0 |-> [q \in P |-> <<q>> \o <<>>]])
    BY DEF GoesThrough
  <2> QED BY <1>1, <2>1
<1>3. PICK walk : GoesThrough(kds, b - 1, walk)
  <2>1. b - 1 \in Nat /\ ~ (b <= b - 1)
    BY <1>2
  <2>2. b - 1 \notin Bad
    BY <1>1, <2>1
  <2> QED BY <2>1, <2>2
<1>4. walk = [d \in 0..b - 1 |-> Call(d, walk[d - 1])]
  BY <1>3 DEF GoesThrough
<1>5. \A x, y : Call(0, x) = Call(0, y)
  OBVIOUS
<1> HIDE DEF Call
<1> DEFINE more == [d \in 0..b |-> IF d = b THEN Call(b, walk[b - 1]) ELSE walk[d]]
<1>6. ASSUME NEW d \in 0..b
      PROVE  more[d] = Call(d, more[d - 1])
  <2>1. CASE d = 0
    <3>1. more[d] = walk[0] /\ 0 \in 0..b - 1
      BY <2>1, <1>2
    <3>2. walk[0] = Call(0, walk[0 - 1])
      BY <3>1, <1>4
    <3> HIDE DEF more
    <3> QED BY <2>1, <3>1, <3>2, <1>5
  <2>2. CASE d # 0
    <3>1. d - 1 \in 0..b /\ d - 1 # b /\ d - 1 \in 0..b - 1
      BY <2>2
    <3>2. more[d - 1] = walk[d - 1]
      BY <3>1
    <3>3. CASE d = b
      BY <3>2, <3>3, <2>2
    <3>4. CASE d # b
      <4>1. more[d] = walk[d] /\ d \in 0..b - 1
        BY <3>4
      <4>2. walk[d] = Call(d, walk[d - 1])
        BY <4>1, <1>4
      <4> QED BY <4>1, <4>2, <3>2
    <3> QED BY <3>3, <3>4
  <2> QED BY <2>1, <2>2
<1>7. more = [d \in 0..b |-> Call(d, more[d - 1])]
  <2>1. more = [d \in 0..b |-> more[d]]
    OBVIOUS
  <2> HIDE DEF more
  <2> QED BY <2>1, <1>6
<1>8. GoesThrough(kds, b, more)
  <2> HIDE DEF more
  <2> QED BY <1>7 DEF GoesThrough, Call
<1> QED BY <1>8, <1>1

(* Its values. *)
LEMMA WalkValues ==
  ASSUME NEW kds, NEW q \in P
  PROVE  /\ WalkOf(kds)[0][q] = <<q>> \o <<>>
         /\ \A d \in 1..N : WalkOf(kds)[d][q] = <<q>> \o Joined(kds, WalkOf(kds)[d - 1], q)
<1>1. GoesThrough(kds, N, WalkOf(kds))
  <2>1. \E walk : GoesThrough(kds, N, walk)
    BY Numbers, WalkFrom
  <2> QED BY <2>1 DEF WalkOf
<1> DEFINE w == WalkOf(kds)
<1> HIDE DEF w
<1>2. w = [d \in 0..N |->
             [x \in P |-> <<x>> \o (IF d = 0 THEN <<>> ELSE Joined(kds, w[d - 1], x))]]
  BY <1>1 DEF GoesThrough, w
<1>3. \A d \in 0..N : w[d] = [x \in P |-> <<x>> \o (IF d = 0 THEN <<>> ELSE Joined(kds, w[d - 1], x))]
  BY <1>2
<1>4. \A d \in 0..N : w[d][q] = <<q>> \o (IF d = 0 THEN <<>> ELSE Joined(kds, w[d - 1], q))
  BY <1>3
<1>5. 0 \in 0..N /\ \A d \in 1..N : d \in 0..N /\ d # 0
  BY Numbers
<1> QED BY <1>4, <1>5 DEF w

(* What the calls for the processes of a list return, put together.         *)
LEMMA JoinedCalls ==
  ASSUME NEW kds \in ChildLists, NEW o \in 0..N, NEW calls,
         \A c \in ToSet(kds[o]) : calls[c] \in Seq(P)
  PROVE  /\ Joined(kds, calls, o) \in Seq(P)
         /\ ToSet(Joined(kds, calls, o)) = UNION {ToSet(calls[c]) : c \in ToSet(kds[o])}
         /\ IsInjective(kds[o]) /\ (\A c \in ToSet(kds[o]) : IsInjective(calls[c]))
              /\ (\A c, e \in ToSet(kds[o]) : c # e => ToSet(calls[c]) \cap ToSet(calls[e]) = {})
              => IsInjective(Joined(kds, calls, o))
<1> DEFINE l == kds[o]
           ss == [i \in 1..Len(l) |-> calls[l[i]]]
<1>1. /\ l \in Seq(P) /\ Len(l) \in Nat
      /\ \A i \in 1..Len(l) : l[i] \in ToSet(l)
      /\ \A c \in ToSet(l) : \E i \in 1..Len(l) : l[i] = c
  BY Elements DEF ChildLists
<1>2. IsInjective(l) => \A i, k \in 1..Len(l) : l[i] = l[k] => i = k
  BY <1>1, Distinct
<1> HIDE DEF l
<1>3. ss \in Seq(Seq(P)) /\ Len(ss) = Len(l) /\ \A i \in 1..Len(l) : ss[i] = calls[l[i]]
  <2>1. \A i \in 1..Len(l) : calls[l[i]] \in Seq(P)
    BY <1>1 DEF l
  <2>2. ss \in [1..Len(l) -> Seq(P)]
    BY <2>1
  <2> QED BY <1>1, <2>2
<1>4. Joined(kds, calls, o) = FlattenSeq(ss)
  BY DEF Joined, l
<1> HIDE DEF ss
<1>5. /\ FlattenSeq(ss) \in Seq(P)
      /\ ToSet(FlattenSeq(ss)) = UNION {ToSet(ss[i]) : i \in 1..Len(ss)}
      /\ (\A i \in 1..Len(ss) : IsInjective(ss[i]))
           /\ (\A i, k \in 1..Len(ss) : i # k => ToSet(ss[i]) \cap ToSet(ss[k]) = {})
           => IsInjective(FlattenSeq(ss))
  BY ONLY <1>3, Flattened
<1>6. UNION {ToSet(ss[i]) : i \in 1..Len(ss)} = UNION {ToSet(calls[c]) : c \in ToSet(l)}
  <2>1. \A i \in 1..Len(ss) : ToSet(ss[i]) = ToSet(calls[l[i]]) /\ l[i] \in ToSet(l)
    BY <1>1, <1>3
  <2>2. ASSUME NEW c \in ToSet(l) PROVE \E i \in 1..Len(ss) : ToSet(ss[i]) = ToSet(calls[c])
    <3>1. PICK i \in 1..Len(l) : l[i] = c
      BY <1>1
    <3>2. i \in 1..Len(ss) /\ ss[i] = calls[c]
      BY <1>3, <3>1
    <3> QED BY <3>2
  <2>3. ASSUME NEW x, x \in UNION {ToSet(ss[i]) : i \in 1..Len(ss)}
        PROVE  x \in UNION {ToSet(calls[c]) : c \in ToSet(l)}
    BY ONLY <2>1, <2>3
  <2>4. ASSUME NEW x, x \in UNION {ToSet(calls[c]) : c \in ToSet(l)}
        PROVE  x \in UNION {ToSet(ss[i]) : i \in 1..Len(ss)}
    BY ONLY <2>2, <2>4
  <2> QED BY <2>3, <2>4
<1>7. ASSUME IsInjective(l), \A c \in ToSet(l) : IsInjective(calls[c]),
             \A c, e \in ToSet(l) : c # e => ToSet(calls[c]) \cap ToSet(calls[e]) = {}
      PROVE  IsInjective(FlattenSeq(ss))
  <2>1. \A i \in 1..Len(ss) : IsInjective(ss[i])
    BY <1>1, <1>3, <1>7
  <2>2. ASSUME NEW i \in 1..Len(ss), NEW k \in 1..Len(ss), i # k
        PROVE  ToSet(ss[i]) \cap ToSet(ss[k]) = {}
    <3>1. /\ ss[i] = calls[l[i]] /\ ss[k] = calls[l[k]]
          /\ l[i] \in ToSet(l) /\ l[k] \in ToSet(l) /\ l[i] # l[k]
      BY <1>1, <1>2, <1>3, <1>7, <2>2
    <3> QED BY ONLY <3>1, <1>7
  <2> QED BY <1>5, <2>1, <2>2
<1> QED BY <1>4, <1>5, <1>6, <1>7 DEF l

(* A walk returns processes, and none that is not below the one it was      *)
(* called for.                                                              *)
LEMMA WalkStaysBelow ==
  ASSUME NEW kds \in ChildLists
  PROVE  \A d \in 0..N : \A q \in P :
           WalkOf(kds)[d][q] \in Seq(P) /\ ToSet(WalkOf(kds)[d][q]) \subseteq Sub(kds, q)
<1> DEFINE w == WalkOf(kds)
           Fine(d) == \A q \in P : w[d][q] \in Seq(P) /\ ToSet(w[d][q]) \subseteq Sub(kds, q)
           Bad == {d \in 0..N : ~ Fine(d)}
<1>1. \A q \in P : <<q>> \in Seq(P) /\ ToSet(<<q>>) = {q} /\ <<q>> \o <<>> = <<q>>
  BY DEF ToSet
<1>2. \A q \in P : /\ w[0][q] = <<q>> \o <<>>
                   /\ \A d \in 1..N : w[d][q] = <<q>> \o Joined(kds, w[d - 1], q)
  BY WalkValues
<1>3. \A q \in P : /\ q \in 0..N /\ ToSet(kds[q]) \subseteq P
                   /\ \A c \in ToSet(kds[q]) : Sub(kds, c) \subseteq Sub(kds, q)
  <2> TAKE q \in P
  <2>1. q \in 0..N
    BY Numbers
  <2>2. ToSet(kds[q]) \subseteq P
    BY <2>1, Elements DEF ChildLists
  <2>3. /\ ToSet(kds[q]) \subseteq Below(kds, q)
        /\ \A p \in Below(kds, q) : ToSet(kds[p]) \subseteq Below(kds, q)
    BY <2>1, BelowIsLeast
  <2>4. ASSUME NEW c \in ToSet(kds[q]) PROVE Sub(kds, c) \subseteq Sub(kds, q)
    <3>1. c \in 0..N /\ c \in Below(kds, q)
      BY <2>2, <2>3, Numbers
    <3>2. \A L : ToSet(kds[c]) \subseteq L /\ (\A p \in L : ToSet(kds[p]) \subseteq L)
                     => Below(kds, c) \subseteq L
      BY <3>1, BelowIsLeast
    <3>3. Below(kds, c) \subseteq Below(kds, q)
      BY <2>3, <3>1, <3>2
    <3> QED BY <3>1, <3>3 DEF Sub
  <2> QED BY <2>1, <2>2, <2>4
<1> HIDE DEF w
<1>4. Fine(0)
  BY <1>1, <1>2 DEF Sub
<1>5. Bad = {}
  <2> SUFFICES ASSUME Bad # {} PROVE FALSE
    OBVIOUS
  <2>1. PICK b \in Bad : \A k \in Bad : b <= k
    <3>1. Bad \subseteq Nat
      BY Numbers
    <3> HIDE DEF Bad
    <3> QED BY <3>1, LeastNatural
  <2>2. b # 0
    BY <2>1, <1>4
  <2>3. b \in 1..N /\ b - 1 \in 0..N /\ ~ (b <= b - 1)
    BY <2>1, <2>2, Numbers
  <2>4. Fine(b - 1)
    BY <2>1, <2>3
  <2>5. ASSUME NEW q \in P
        PROVE  w[b][q] \in Seq(P) /\ ToSet(w[b][q]) \subseteq Sub(kds, q)
    <3> DEFINE v == w[b - 1]
               j == Joined(kds, v, q)
    <3>1. \A c \in ToSet(kds[q]) : v[c] \in Seq(P) /\ ToSet(v[c]) \subseteq Sub(kds, q)
      BY <1>3, <2>4
    <3> HIDE DEF v
    <3>2. j \in Seq(P) /\ ToSet(j) = UNION {ToSet(v[c]) : c \in ToSet(kds[q])}
      BY <1>3, <3>1, JoinedCalls
    <3> HIDE DEF j
    <3>3. ToSet(j) \subseteq Sub(kds, q)
      BY <3>1, <3>2
    <3>4. w[b][q] = <<q>> \o j
      BY <1>2, <2>3 DEF j, v
    <3>5. <<q>> \o j \in Seq(P) /\ ToSet(<<q>> \o j) = ToSet(<<q>>) \cup ToSet(j)
      <4> DEFINE first == <<q>>
      <4>1. first \in Seq(P)
        BY <1>1
      <4> HIDE DEF first
      <4>2. first \o j \in Seq(P) /\ ToSet(first \o j) = ToSet(first) \cup ToSet(j)
        BY ONLY <4>1, <3>2, ConcatDistinct
      <4> QED BY <4>2 DEF first
    <3>6. q \in Sub(kds, q)
      BY DEF Sub
    <3> QED BY <3>3, <3>4, <3>5, <3>6, <1>1
  <2> QED BY <2>1, <2>5
<1> QED BY <1>5 DEF w

(* What it returns, in terms of the calls it makes.                         *)
LEMMA WalkCalls ==
  ASSUME NEW kds \in ChildLists, NEW d \in 1..N, NEW q \in P
  PROVE  ToSet(WalkOf(kds)[d][q]) =
           {q} \cup UNION {ToSet(WalkOf(kds)[d - 1][c]) : c \in ToSet(kds[q])}
<1> DEFINE v == WalkOf(kds)[d - 1]
           j == Joined(kds, v, q)
<1>1. d - 1 \in 0..N /\ q \in 0..N
  BY Numbers
<1>2. ToSet(kds[q]) \subseteq P
  BY <1>1, Elements DEF ChildLists
<1>3. \A c \in ToSet(kds[q]) : v[c] \in Seq(P)
  BY <1>1, <1>2, WalkStaysBelow
<1>4. WalkOf(kds)[d][q] = <<q>> \o j
  BY WalkValues
<1> HIDE DEF v
<1>5. j \in Seq(P) /\ ToSet(j) = UNION {ToSet(v[c]) : c \in ToSet(kds[q])}
  BY <1>1, <1>3, JoinedCalls
<1>6. <<q>> \in Seq(P) /\ ToSet(<<q>>) = {q}
  BY DEF ToSet
<1> HIDE DEF j
<1>7. ToSet(<<q>> \o j) = {q} \cup ToSet(j)
  BY <1>5, <1>6, ConcatDistinct
<1> QED BY <1>4, <1>5, <1>7 DEF v

(* What is n + 1 levels below a process is a child of it, or n levels below *)
(* one.                                                                     *)
LEMMA DownFromKids ==
  ASSUME NEW kds \in ChildLists, NEW o \in 0..N, NEW n \in 1..N
  PROVE  Down(kds, o)[n] \subseteq UNION {{c} \cup Down(kds, c)[n - 1] : c \in ToSet(kds[o])}
<1> DEFINE From(m) == UNION {{c} \cup Down(kds, c)[m - 1] : c \in ToSet(kds[o])}
           Bad == {m \in 1..N : ~ (Down(kds, o)[m] \subseteq From(m))}
<1>1. \A x : /\ Down(kds, x)[0] = ToSet(kds[x])
             /\ \A m \in 1..N : Down(kds, x)[m] = Deeper(kds, Down(kds, x)[m - 1])
  BY DownValues
<1>2. \A L, M : L \subseteq M => Deeper(kds, L) \subseteq Deeper(kds, M)
  BY DEF Deeper
<1>3. \A x : \A m \in 0..N : ToSet(kds[x]) \subseteq Down(kds, x)[m]
  <2> TAKE x
  <2> DEFINE Low == {m \in 0..N : ~ (ToSet(kds[x]) \subseteq Down(kds, x)[m])}
  <2> SUFFICES ASSUME Low # {} PROVE FALSE
    OBVIOUS
  <2>1. PICK b \in Low : \A k \in Low : b <= k
    <3>1. Low \subseteq Nat
      BY Numbers
    <3> HIDE DEF Low
    <3> QED BY <3>1, LeastNatural
  <2>2. b # 0
    BY <2>1, <1>1
  <2>3. b \in 1..N /\ b - 1 \in 0..N /\ ~ (b <= b - 1)
    BY <2>1, <2>2, Numbers
  <2>4. ToSet(kds[x]) \subseteq Down(kds, x)[b - 1]
    BY <2>1, <2>3
  <2>5. Down(kds, x)[b] = Deeper(kds, Down(kds, x)[b - 1])
    BY <1>1, <2>3
  <2> QED BY <2>1, <2>4, <2>5 DEF Deeper
<1>4. Down(kds, o)[1] \subseteq From(1)
  <2>1. 1 \in 1..N /\ 1 - 1 = 0
    BY Numbers
  <2>2. Down(kds, o)[1] = Deeper(kds, ToSet(kds[o]))
    BY <1>1, <2>1
  <2>3. From(1) = UNION {{c} \cup ToSet(kds[c]) : c \in ToSet(kds[o])}
    BY <1>1, <2>1
  <2> HIDE DEF From
  <2> QED BY <2>2, <2>3 DEF Deeper
<1>5. Bad = {}
  <2> SUFFICES ASSUME Bad # {} PROVE FALSE
    OBVIOUS
  <2>1. PICK b \in Bad : \A k \in Bad : b <= k
    <3>1. Bad \subseteq Nat
      OBVIOUS
    <3> HIDE DEF Bad
    <3> QED BY <3>1, LeastNatural
  <2>2. b # 1
    BY <2>1, <1>4
  <2>3. b \in 1..N /\ b - 1 \in 1..N /\ ~ (b <= b - 1) /\ b - 1 \in 0..N
    BY <2>1, <2>2, Numbers
  <2>4. Down(kds, o)[b - 1] \subseteq From(b - 1)
    BY <2>1, <2>3
  <2>5. Down(kds, o)[b] \subseteq Deeper(kds, From(b - 1))
    <3>1. Down(kds, o)[b] = Deeper(kds, Down(kds, o)[b - 1])
      BY <1>1, <2>3
    <3> HIDE DEF From
    <3> QED BY <3>1, <2>4, <1>2
  <2>6. \A c : Down(kds, c)[b - 1] = Deeper(kds, Down(kds, c)[(b - 1) - 1])
    BY <1>1, <2>3
  <2>7. \A c : ToSet(kds[c]) \subseteq Down(kds, c)[b - 1]
    BY <1>3, <2>3
  <2>8. ASSUME NEW x \in Deeper(kds, From(b - 1)) PROVE x \in From(b)
    <3>1. CASE x \in From(b - 1)
      <4>1. PICK c \in ToSet(kds[o]) : x \in {c} \cup Down(kds, c)[(b - 1) - 1]
        BY <3>1
      <4>2. x \in {c} \cup Down(kds, c)[b - 1]
        BY <4>1, <2>6 DEF Deeper
      <4> QED BY <4>2
    <3>2. CASE x \notin From(b - 1)
      <4>1. PICK y \in From(b - 1) : x \in ToSet(kds[y])
        <5> HIDE DEF From
        <5> QED BY <2>8, <3>2 DEF Deeper
      <4>2. PICK c \in ToSet(kds[o]) : y \in {c} \cup Down(kds, c)[(b - 1) - 1]
        BY <4>1
      <4>3. x \in Down(kds, c)[b - 1]
        <5>1. CASE y = c
          BY <5>1, <4>1, <2>7
        <5>2. CASE y \in Down(kds, c)[(b - 1) - 1]
          BY <5>2, <4>1, <2>6 DEF Deeper
        <5> QED BY <4>2, <5>1, <5>2
      <4> QED BY <4>3
    <3> QED BY <3>1, <3>2
  <2> QED BY <2>1, <2>5, <2>8
<1> QED BY <1>5

(* A walk of depth d returns the process it was called for and all that are *)
(* up to d levels below it.                                                 *)
LEMMA WalkReaches ==
  ASSUME NEW kds \in ChildLists
  PROVE  \A d \in 1..N : \A q \in P :
           {q} \cup Down(kds, q)[d - 1] \subseteq ToSet(WalkOf(kds)[d][q])
<1> DEFINE w == WalkOf(kds)
           Fine(d) == \A q \in P : {q} \cup Down(kds, q)[d - 1] \subseteq ToSet(w[d][q])
           Bad == {d \in 1..N : ~ Fine(d)}
<1>1. \A q \in P : q \in 0..N /\ ToSet(kds[q]) \subseteq P
  BY Numbers, Elements DEF ChildLists
<1>2. \A q \in P : \A d \in 1..N :
        ToSet(w[d][q]) = {q} \cup UNION {ToSet(w[d - 1][c]) : c \in ToSet(kds[q])}
  BY WalkCalls
<1>3. Fine(1)
  <2>1. 1 \in 1..N /\ 1 - 1 = 0
    BY Numbers
  <2>2. \A c \in P : ToSet(w[0][c]) = {c}
    <3> TAKE c \in P
    <3>1. w[0][c] = <<c>> \o <<>>
      BY WalkValues
    <3>2. <<c>> \o <<>> = <<c>>
      OBVIOUS
    <3>3. ToSet(<<c>>) = {c}
      BY DEF ToSet
    <3> QED BY <3>1, <3>2, <3>3
  <2>3. \A q \in P : Down(kds, q)[0] = ToSet(kds[q])
    BY DownValues
  <2> HIDE DEF w
  <2> QED BY <2>1, <2>2, <2>3, <1>1, <1>2
<1> HIDE DEF w
<1>4. Bad = {}
  <2> SUFFICES ASSUME Bad # {} PROVE FALSE
    OBVIOUS
  <2>1. PICK b \in Bad : \A k \in Bad : b <= k
    <3>1. Bad \subseteq Nat
      OBVIOUS
    <3> HIDE DEF Bad
    <3> QED BY <3>1, LeastNatural
  <2>2. b # 1
    BY <2>1, <1>3
  <2>3. b \in 1..N /\ b - 1 \in 1..N /\ ~ (b <= b - 1)
    BY <2>1, <2>2, Numbers
  <2>4. Fine(b - 1)
    BY <2>1, <2>3
  <2>5. ASSUME NEW q \in P PROVE {q} \cup Down(kds, q)[b - 1] \subseteq ToSet(w[b][q])
    <3>1. Down(kds, q)[b - 1] \subseteq
            UNION {{c} \cup Down(kds, c)[(b - 1) - 1] : c \in ToSet(kds[q])}
      BY <1>1, <2>3, DownFromKids
    <3>2. \A c \in ToSet(kds[q]) : {c} \cup Down(kds, c)[(b - 1) - 1] \subseteq ToSet(w[b - 1][c])
      BY <1>1, <2>4
    <3>3. ToSet(w[b][q]) = {q} \cup UNION {ToSet(w[b - 1][c]) : c \in ToSet(kds[q])}
      BY <1>2, <2>3
    <3> QED BY <3>1, <3>2, <3>3
  <2> QED BY <2>1, <2>5
<1> QED BY <1>4 DEF w

(* Nobody is below its own child.                                           *)
LEMMA NotUnderKid ==
  ASSUME NEW kds, Forest(kds), NEW q \in Tree(kds) \ {Top}, NEW p \in ToSet(kds[q])
  PROVE  q \notin Sub(kds, p)
<1> SUFFICES ASSUME q \in Sub(kds, p) PROVE FALSE
  OBVIOUS
<1>1. /\ kds \in ChildLists /\ q \in 0..N /\ p \in 0..N
  <2>1. kds \in ChildLists /\ Tree(kds) \subseteq 0..N
    BY TreeIsLeast DEF Forest
  <2>2. p \in Tree(kds)
    BY TreeKids
  <2> QED BY <2>1, <2>2
<1>2. PICK o \in Tree(kds) : q \in ToSet(kds[o])
  BY <1>1, ParentInTree
<1>3. q \notin Below(kds, q)
  BY <1>2, SubtreesApart
<1>4. /\ p \in Below(kds, q)
      /\ \A x \in Below(kds, q) : ToSet(kds[x]) \subseteq Below(kds, q)
  BY <1>1, BelowIsLeast
<1>5. \A L : ToSet(kds[p]) \subseteq L /\ (\A x \in L : ToSet(kds[x]) \subseteq L)
               => Below(kds, p) \subseteq L
  BY <1>1, BelowIsLeast
<1>6. Below(kds, p) \subseteq Below(kds, q)
  BY <1>4, <1>5
<1> QED BY <1>3, <1>4, <1>6 DEF Sub

(* In a forest a walk meets nobody twice.                                   *)
LEMMA WalkDistinct ==
  ASSUME NEW kds, Forest(kds)
  PROVE  \A d \in 0..N : \A q \in Tree(kds) \ {Top} : IsInjective(WalkOf(kds)[d][q])
<1> DEFINE w == WalkOf(kds)
           T == Tree(kds) \ {Top}
           Fine(d) == \A q \in T : IsInjective(w[d][q])
           Bad == {d \in 0..N : ~ Fine(d)}
<1>1. kds \in ChildLists /\ T \subseteq P
  BY TreeIsLeast DEF Forest
<1>2. \A q \in T : q \in P /\ q \in 0..N /\ ToSet(kds[q]) \subseteq T /\ IsInjective(kds[q])
  <2>1. \A q \in Tree(kds) : ToSet(kds[q]) \subseteq T
    BY TreeKids
  <2> QED BY <1>1, <2>1, Numbers DEF Forest
<1>3. \A q \in P : IsInjective(<<q>>) /\ <<q>> \o <<>> = <<q>> /\ <<q>> \in Seq(P) /\ ToSet(<<q>>) = {q}
  BY DEF IsInjective, ToSet
<1>4. \A q \in T : \A p, r \in ToSet(kds[q]) :
         q \notin Sub(kds, p) /\ (p # r => Sub(kds, p) \cap Sub(kds, r) = {})
  BY SubtreesApart, NotUnderKid
<1>5. \A d \in 0..N : \A q \in P : w[d][q] \in Seq(P) /\ ToSet(w[d][q]) \subseteq Sub(kds, q)
  BY <1>1, WalkStaysBelow
<1>6. \A q \in P : /\ w[0][q] = <<q>> \o <<>>
                   /\ \A d \in 1..N : w[d][q] = <<q>> \o Joined(kds, w[d - 1], q)
  BY WalkValues
<1> HIDE DEF w, T
<1>7. Fine(0)
  BY <1>2, <1>3, <1>6
<1>8. Bad = {}
  <2> SUFFICES ASSUME Bad # {} PROVE FALSE
    OBVIOUS
  <2>1. PICK b \in Bad : \A k \in Bad : b <= k
    <3>1. Bad \subseteq Nat
      BY Numbers
    <3> HIDE DEF Bad
    <3> QED BY <3>1, LeastNatural
  <2>2. b # 0
    BY <2>1, <1>7
  <2>3. b \in 1..N /\ b - 1 \in 0..N /\ ~ (b <= b - 1)
    BY <2>1, <2>2, Numbers
  <2>4. Fine(b - 1)
    BY <2>1, <2>3
  <2>5. ASSUME NEW q \in T PROVE IsInjective(w[b][q])
    <3> DEFINE v == w[b - 1]
               j == Joined(kds, v, q)
    <3>1. /\ \A c \in ToSet(kds[q]) : v[c] \in Seq(P) /\ ToSet(v[c]) \subseteq Sub(kds, c)
          /\ \A c \in ToSet(kds[q]) : IsInjective(v[c])
      BY <1>2, <1>5, <2>3, <2>4
    <3>2. w[b][q] = <<q>> \o j
      BY <1>2, <1>6, <2>3
    <3> HIDE DEF v
    <3>3. \A c, e \in ToSet(kds[q]) : c # e => ToSet(v[c]) \cap ToSet(v[e]) = {}
      BY <3>1, <1>4
    <3>4. j \in Seq(P) /\ ToSet(j) = UNION {ToSet(v[c]) : c \in ToSet(kds[q])} /\ IsInjective(j)
      <4>1. q \in 0..N /\ IsInjective(kds[q])
        BY <1>2
      <4>2. \A c \in ToSet(kds[q]) : v[c] \in Seq(P)
        BY <3>1
      <4> QED BY <1>1, <3>1, <3>3, <4>1, <4>2, JoinedCalls
    <3> HIDE DEF j
    <3>5. q \notin ToSet(j)
      <4> SUFFICES ASSUME q \in ToSet(j) PROVE FALSE
        OBVIOUS
      <4>1. PICK c \in ToSet(kds[q]) : q \in ToSet(v[c])
        BY <3>4
      <4>2. q \notin Sub(kds, c)
        BY <1>4
      <4> QED BY <4>1, <4>2, <3>1
    <3>6. IsInjective(<<q>>) /\ <<q>> \in Seq(P) /\ ToSet(<<q>>) \cap ToSet(j) = {}
      BY <1>2, <1>3, <3>5
    <3>7. IsInjective(<<q>> \o j)
      BY <3>4, <3>6, ConcatDistinct
    <3> QED BY <3>2, <3>7
  <2> QED BY <2>1, <2>5
<1> QED BY <1>8 DEF w, T

(* The preorder of a list of a forest has each process below it once.       *)
LEMMA PreorderOfTree ==
  ASSUME NEW kds, Forest(kds), NEW o \in Tree(kds)
  PROVE  /\ Preorder(kds, o) \in Seq(P) /\ IsInjective(Preorder(kds, o))
         /\ ToSet(Preorder(kds, o)) = Below(kds, o)
<1> DEFINE v == WalkOf(kds)[N]
           K == ToSet(kds[o])
<1>1. kds \in ChildLists /\ o \in 0..N /\ IsInjective(kds[o])
  BY TreeIsLeast DEF Forest
<1>2. K \subseteq Tree(kds) \ {Top} /\ K \subseteq P
  <2>1. K \subseteq Tree(kds) \ {Top}
    BY <1>1, TreeKids
  <2> QED BY <2>1, <1>1, TreeIsLeast
<1>3. N \in 0..N /\ N \in 1..N
  BY Numbers
<1>4. \A c \in K : v[c] \in Seq(P) /\ ToSet(v[c]) \subseteq Sub(kds, c) /\ IsInjective(v[c])
  BY <1>1, <1>2, <1>3, WalkStaysBelow, WalkDistinct
<1>5. \A c \in K : {c} \cup Down(kds, c)[N - 1] \subseteq ToSet(v[c])
  BY <1>1, <1>2, <1>3, WalkReaches
<1>6. \A c, e \in K : c # e => Sub(kds, c) \cap Sub(kds, e) = {}
  BY <1>1, SubtreesApart
<1>7. Preorder(kds, o) = Joined(kds, v, o)
  BY PreorderIs
<1> HIDE DEF v
<1>8. \A c, e \in K : c # e => ToSet(v[c]) \cap ToSet(v[e]) = {}
  BY <1>4, <1>6
<1>9. /\ Joined(kds, v, o) \in Seq(P) /\ IsInjective(Joined(kds, v, o))
      /\ ToSet(Joined(kds, v, o)) = UNION {ToSet(v[c]) : c \in K}
  <2>1. \A c \in ToSet(kds[o]) : v[c] \in Seq(P)
    BY <1>4
  <2> QED BY <1>1, <1>4, <1>8, <2>1, JoinedCalls
<1>10. UNION {ToSet(v[c]) : c \in K} \subseteq Below(kds, o)
  <2>1. /\ ToSet(kds[o]) \subseteq Below(kds, o)
        /\ \A x \in Below(kds, o) : ToSet(kds[x]) \subseteq Below(kds, o)
    BY <1>1, BelowIsLeast
  <2>2. ASSUME NEW c \in K PROVE Sub(kds, c) \subseteq Below(kds, o)
    <3>1. c \in 0..N /\ c \in Below(kds, o)
      BY <1>2, <2>1, Numbers
    <3>2. \A L : ToSet(kds[c]) \subseteq L /\ (\A x \in L : ToSet(kds[x]) \subseteq L)
                     => Below(kds, c) \subseteq L
      BY <1>1, <3>1, BelowIsLeast
    <3> QED BY <2>1, <3>1, <3>2 DEF Sub
  <2> HIDE DEF K
  <2> QED BY <1>4, <2>2
<1>11. Below(kds, o) \subseteq UNION {ToSet(v[c]) : c \in K}
  <2>1. Below(kds, o) = Down(kds, o)[N]
    BY BelowIsDown
  <2>2. Down(kds, o)[N] \subseteq UNION {{c} \cup Down(kds, c)[N - 1] : c \in ToSet(kds[o])}
    BY <1>1, <1>3, DownFromKids
  <2> QED BY <2>1, <2>2, <1>5
<1> QED BY <1>7, <1>9, <1>10, <1>11

(* The last call of a walk adds nobody: a call that does has at least one   *)
(* process more than one that its caller makes and that adds somebody too,  *)
(* and there are only N.                                                    *)
LEMMA WalkSettles ==
  ASSUME NEW kds, Forest(kds), NEW q \in Tree(kds) \ {Top}
  PROVE  WalkOf(kds)[N][q] = WalkOf(kds)[N - 1][q]
<1> DEFINE w == WalkOf(kds)
           T == Tree(kds) \ {Top}
           Has(d, x) == Cardinality(ToSet(w[d][x]))
           Fine(d) == \A x \in T : w[d][x] = w[d - 1][x] \/ d + 1 <= Has(d, x)
           Bad == {d \in 1..N : ~ Fine(d)}
<1>1. kds \in ChildLists /\ T \subseteq P
  BY TreeIsLeast DEF Forest
<1>2. \A x \in T : x \in P /\ x \in 0..N /\ ToSet(kds[x]) \subseteq T /\ kds[x] \in Seq(P)
  <2>1. \A x \in Tree(kds) : ToSet(kds[x]) \subseteq T
    BY TreeKids
  <2> QED BY <1>1, <2>1, Numbers DEF ChildLists
<1>3. IsFiniteSet(P) /\ Cardinality(P) = N
  <2>1. \A m \in Nat : IsFiniteSet(1..m) /\ Cardinality(1..m) = m
    BY ONLY FS_Interval
  <2> QED BY <2>1, Numbers DEF P
<1>4. \A d \in 0..N : \A x \in P : w[d][x] \in Seq(P) /\ ToSet(w[d][x]) \subseteq Sub(kds, x)
  BY <1>1, WalkStaysBelow
<1>5. \A d \in 0..N : \A x \in P : /\ ToSet(w[d][x]) \subseteq P /\ IsFiniteSet(ToSet(w[d][x]))
                                   /\ Has(d, x) \in Nat /\ Has(d, x) <= N
  <2> TAKE d \in 0..N
  <2> TAKE x \in P
  <2>1. ToSet(w[d][x]) \subseteq P
    BY <1>4, Elements
  <2> QED BY <2>1, <1>3, FS_Subset, FS_CardinalityType
<1>6. \A x \in P : /\ w[0][x] = <<x>> \o <<>>
                   /\ \A d \in 1..N : w[d][x] = <<x>> \o Joined(kds, w[d - 1], x)
  BY WalkValues
<1>7. \A d \in 1..N : \A x \in P :
        ToSet(w[d][x]) = {x} \cup UNION {ToSet(w[d - 1][c]) : c \in ToSet(kds[x])}
  BY <1>1, WalkCalls
<1>8. \A x \in T : \A c \in ToSet(kds[x]) : x \notin Sub(kds, c)
  BY NotUnderKid
<1> HIDE DEF w, T
<1>9. ASSUME NEW x \in T, NEW c \in ToSet(kds[x]), NEW d \in 1..N
      PROVE  Has(d - 1, c) + 1 <= Has(d, x)
  <2> DEFINE A == ToSet(w[d - 1][c])
             B == ToSet(w[d][x])
  <2>1. /\ x \in P /\ c \in P /\ d - 1 \in 0..N /\ d \in 0..N
    BY <1>2, Numbers
  <2>2. A \subseteq B /\ x \in B
    BY <1>7, <2>1
  <2>3. x \notin A
    BY <1>4, <1>8, <2>1
  <2>4. IsFiniteSet(B) /\ Cardinality(A) \in Nat /\ Cardinality(B) \in Nat
    BY <1>5, <2>1
  <2> HIDE DEF A, B
  <2>5. Cardinality(A) <= Cardinality(B) /\ (Cardinality(A) = Cardinality(B) => A = B)
    BY <2>2, <2>4, FS_Subset
  <2>6. Cardinality(A) + 1 <= Cardinality(B)
    BY <2>2, <2>3, <2>4, <2>5
  <2> QED BY <2>6 DEF A, B
<1>10. Fine(1)
  <2> SUFFICES ASSUME NEW x \in T PROVE w[1][x] = w[0][x] \/ 2 <= Has(1, x)
    OBVIOUS
  <2>1. 1 \in 1..N /\ 1 - 1 = 0 /\ 0 \in 0..N
    BY Numbers
  <2>2. CASE kds[x] = <<>>
    <3>1. Joined(kds, w[0], x) = <<>>
      <4>1. [i \in 1..Len(kds[x]) |-> w[0][kds[x][i]]] = <<>>
        BY <2>2
      <4>2. FlattenSeq(<<>>) = <<>>
        BY FlattenIs
      <4> QED BY <4>1, <4>2 DEF Joined
    <3>2. w[1][x] = <<x>> \o Joined(kds, w[1 - 1], x)
      BY <1>2, <1>6, <2>1
    <3> QED BY <3>1, <3>2, <1>2, <1>6, <2>1
  <2>3. CASE kds[x] # <<>>
    <3>1. PICK c \in ToSet(kds[x]) : TRUE
      <4>1. Len(kds[x]) \in Nat /\ Len(kds[x]) # 0
        BY <1>2, <2>3, EmptySeq, LenProperties
      <4>2. 1 \in 1..Len(kds[x])
        BY <4>1
      <4> QED BY <4>2, <1>2, Elements
    <3>2. c \in P /\ c \in ToSet(w[0][c])
      <4>1. c \in P
        BY <1>2
      <4>2. <<c>> \o <<>> = <<c>>
        OBVIOUS
      <4>3. ToSet(<<c>>) = {c}
        BY DEF ToSet
      <4> QED BY <4>1, <4>2, <4>3, <1>6
    <3>3. Has(0, c) \in Nat /\ Has(0, c) # 0 /\ Has(1, x) \in Nat
      <4>1. 1 \in 0..N /\ x \in P /\ c \in P
        BY <3>2, <1>2, Numbers
      <4>2. Has(1, x) \in Nat
        BY <4>1, <1>5
      <4>3. Has(0, c) \in Nat /\ IsFiniteSet(ToSet(w[0][c]))
        BY <4>1, <2>1, <1>5
      <4>4. Cardinality(ToSet(w[0][c])) # 0
        BY ONLY <3>2, <4>3, FS_EmptySet
      <4> QED BY <4>2, <4>3, <4>4
    <3>4. Has(0, c) + 1 <= Has(1, x)
      BY <1>9, <2>1
    <3> HIDE DEF Has
    <3> QED BY <3>3, <3>4
  <2> QED BY <2>2, <2>3
<1>11. Bad = {}
  <2> SUFFICES ASSUME Bad # {} PROVE FALSE
    OBVIOUS
  <2>1. PICK b \in Bad : \A k \in Bad : b <= k
    <3>1. Bad \subseteq Nat
      OBVIOUS
    <3> HIDE DEF Bad
    <3> QED BY <3>1, LeastNatural
  <2>2. b # 1
    BY <2>1, <1>10
  <2>3. b \in 1..N /\ b - 1 \in 1..N /\ ~ (b <= b - 1) /\ b - 1 \in 0..N /\ b \in 0..N
    BY <2>1, <2>2, Numbers
  <2>4. Fine(b - 1)
    BY <2>1, <2>3
  <2>5. ASSUME NEW x \in T PROVE w[b][x] = w[b - 1][x] \/ b + 1 <= Has(b, x)
    <3>1. CASE \A c \in ToSet(kds[x]) : w[b - 1][c] = w[(b - 1) - 1][c]
      <4> DEFINE u == w[b - 1]
                 v == w[(b - 1) - 1]
      <4>1. \A i \in 1..Len(kds[x]) : kds[x][i] \in ToSet(kds[x])
        BY <1>2, Elements
      <4>2. \A i \in 1..Len(kds[x]) : u[kds[x][i]] = v[kds[x][i]]
        BY <3>1, <4>1
      <4>3. w[b][x] = <<x>> \o Joined(kds, u, x) /\ w[b - 1][x] = <<x>> \o Joined(kds, v, x)
        BY <1>2, <1>6, <2>3
      <4> HIDE DEF u, v
      <4>4. Joined(kds, u, x) = Joined(kds, v, x)
        <5>1. [i \in 1..Len(kds[x]) |-> u[kds[x][i]]] = [i \in 1..Len(kds[x]) |-> v[kds[x][i]]]
          BY <4>2
        <5> QED BY <5>1 DEF Joined
      <4> QED BY <4>3, <4>4
    <3>2. CASE \E c \in ToSet(kds[x]) : w[b - 1][c] # w[(b - 1) - 1][c]
      <4>1. PICK c \in ToSet(kds[x]) : w[b - 1][c] # w[(b - 1) - 1][c]
        BY <3>2
      <4>2. c \in T /\ c \in P /\ x \in P
        BY <1>2
      <4>3. (b - 1) + 1 <= Has(b - 1, c)
        BY <2>4, <4>1, <4>2
      <4>4. Has(b - 1, c) + 1 <= Has(b, x) /\ Has(b - 1, c) \in Nat /\ Has(b, x) \in Nat
        BY <1>5, <1>9, <2>3, <4>2
      <4> HIDE DEF Has
      <4> QED BY <2>3, <4>3, <4>4
    <3> QED BY <3>1, <3>2
  <2> QED BY <2>1, <2>5
<1>12. N \in 1..N /\ N \in 0..N
  BY Numbers
<1>13. q \in T /\ q \in P
  BY <1>1 DEF T
<1>14. w[N][q] = w[N - 1][q] \/ N + 1 <= Has(N, q)
  BY <1>11, <1>12, <1>13
<1>15. Has(N, q) \in Nat /\ Has(N, q) <= N
  BY <1>5, <1>12, <1>13
<1>16. ~ (N + 1 <= Has(N, q))
  <2> HIDE DEF Has
  <2> QED BY <1>15, Numbers
<1> QED BY <1>14, <1>16 DEF w

(* The preorder of a list is each of its processes, followed by the         *)
(* preorder of that process's own list.                                     *)
LEMMA PreorderUnfolds ==
  ASSUME NEW kds, Forest(kds), NEW o \in Tree(kds)
  PROVE  Preorder(kds, o) =
           FlattenSeq([i \in 1..Len(kds[o]) |-> <<kds[o][i]>> \o Preorder(kds, kds[o][i])])
<1> DEFINE v == WalkOf(kds)[N]
           u == WalkOf(kds)[N - 1]
           T == Tree(kds) \ {Top}
<1>1. kds \in ChildLists /\ T \subseteq P
  BY TreeIsLeast DEF Forest
<1>2. \A x \in Tree(kds) : /\ kds[x] \in Seq(P)
                           /\ \A i \in 1..Len(kds[x]) : kds[x][i] \in T
  <2> TAKE x \in Tree(kds)
  <2>1. x \in 0..N /\ ToSet(kds[x]) \subseteq T
    BY <1>1, TreeKids
  <2>2. kds[x] \in Seq(P)
    BY <1>1, <2>1 DEF ChildLists
  <2>3. \A i \in 1..Len(kds[x]) : kds[x][i] \in ToSet(kds[x])
    BY <2>2, Elements
  <2> QED BY <2>1, <2>2, <2>3
<1>3. \A c \in T : v[c] = u[c]
  BY WalkSettles
<1>4. N \in 1..N
  BY Numbers
<1>5. \A c \in T : v[c] = <<c>> \o Joined(kds, u, c)
  BY <1>1, <1>4, WalkValues
<1>6. \A x : Preorder(kds, x) = Joined(kds, v, x)
  BY PreorderIs
<1> HIDE DEF u, v, T
<1>7. ASSUME NEW c \in T PROVE v[c] = <<c>> \o Preorder(kds, c)
  <2>1. c \in Tree(kds)
    BY DEF T
  <2>2. [i \in 1..Len(kds[c]) |-> u[kds[c][i]]] = [i \in 1..Len(kds[c]) |-> v[kds[c][i]]]
    BY <2>1, <1>2, <1>3
  <2>3. Joined(kds, u, c) = Joined(kds, v, c)
    BY <2>2 DEF Joined
  <2> QED BY <2>3, <1>5, <1>6
<1>8. [i \in 1..Len(kds[o]) |-> v[kds[o][i]]]
        = [i \in 1..Len(kds[o]) |-> <<kds[o][i]>> \o Preorder(kds, kds[o][i])]
  BY <1>2, <1>7
<1> QED BY <1>6, <1>8 DEF Joined

(* num_proc counts each process of a forest once.                           *)
LEMMA CountedForest ==
  ASSUME NEW kds, Forest(kds)
  PROVE  NumNodes(kds, Top) = Cardinality(Below(kds, Top))
<1>1. Top \in Tree(kds)
  BY TreeIsLeast DEF Forest
<1> QED BY <1>1, PreorderOfTree, DistinctCounted DEF NumNodes

(* ------------------------------------------------------------------------ *)
(* Where in the tree a process is                                           *)

(* The processes of a list, each with its own preorder.                     *)
Branches(kds, o) == [i \in 1..Len(kds[o]) |-> <<kds[o][i]>> \o Preorder(kds, kds[o][i])]

(* One of them: a process of the tree, and what is below it.                *)
Branch(kds, o, i, b) ==
  /\ kds[o][i] \in ToSet(kds[o]) /\ kds[o][i] \in Tree(kds) \ {Top} /\ kds[o][i] \in P
  /\ NumNodes(kds, kds[o][i]) \in Nat
  /\ Len(b) = 1 + NumNodes(kds, kds[o][i]) /\ b[1] = kds[o][i]
  /\ \A k \in 1..NumNodes(kds, kds[o][i]) : b[1 + k] = Preorder(kds, kds[o][i])[k]

(* They are what the list's preorder is made of.                            *)
LEMMA BranchFacts ==
  ASSUME NEW kds, Forest(kds), NEW o \in Tree(kds)
  PROVE  /\ Branches(kds, o) \in Seq(Seq(P)) /\ Len(Branches(kds, o)) = Len(kds[o])
         /\ Preorder(kds, o) = FlattenSeq(Branches(kds, o))
         /\ Len(kds[o]) \in Nat
         /\ \A i \in 1..Len(kds[o]) : Branch(kds, o, i, Branches(kds, o)[i])
<1>1. Tree(kds) \ {Top} \subseteq P /\ kds \in ChildLists /\ o \in 0..N
  BY TreeIsLeast DEF Forest
<1>2. /\ kds[o] \in Seq(P) /\ Len(kds[o]) \in Nat
      /\ \A i \in 1..Len(kds[o]) : kds[o][i] \in ToSet(kds[o])
  BY <1>1, Elements DEF ChildLists
<1>3. ToSet(kds[o]) \subseteq Tree(kds) \ {Top}
  BY TreeKids
<1>4. ASSUME NEW i \in 1..Len(kds[o])
      PROVE  /\ kds[o][i] \in Tree(kds) \ {Top} /\ kds[o][i] \in P
             /\ Preorder(kds, kds[o][i]) \in Seq(P)
             /\ <<kds[o][i]>> \o Preorder(kds, kds[o][i]) \in Seq(P)
             /\ NumNodes(kds, kds[o][i]) \in Nat
             /\ Len(<<kds[o][i]>> \o Preorder(kds, kds[o][i])) = 1 + NumNodes(kds, kds[o][i])
             /\ (<<kds[o][i]>> \o Preorder(kds, kds[o][i]))[1] = kds[o][i]
             /\ \A k \in 1..NumNodes(kds, kds[o][i]) :
                  (<<kds[o][i]>> \o Preorder(kds, kds[o][i]))[1 + k] = Preorder(kds, kds[o][i])[k]
  <2> DEFINE c == kds[o][i]
             first == <<c>>
             rest == Preorder(kds, c)
  <2>1. c \in Tree(kds) \ {Top} /\ c \in P /\ c \in Tree(kds)
    BY <1>1, <1>2, <1>3
  <2> HIDE DEF c
  <2>2. rest \in Seq(P)
    BY <2>1, PreorderOfTree
  <2>3. first \in Seq(P) /\ Len(first) = 1 /\ first[1] = c
    BY <2>1
  <2>4. NumNodes(kds, c) = Len(rest)
    BY DEF NumNodes
  <2> HIDE DEF first, rest
  <2>5. /\ first \o rest \in Seq(P) /\ Len(rest) \in Nat
        /\ Len(first \o rest) = Len(first) + Len(rest)
        /\ \A k \in 1..Len(first) + Len(rest) :
             (first \o rest)[k] = IF k <= Len(first) THEN first[k] ELSE rest[k - Len(first)]
    BY <2>2, <2>3, ConcatProperties, LenProperties
  <2>6. (first \o rest)[1] = c
    BY <2>3, <2>5
  <2>7. ASSUME NEW k \in 1..Len(rest) PROVE (first \o rest)[1 + k] = rest[k]
    <3>1. 1 + k \in 1..1 + Len(rest) /\ ~ (1 + k <= 1) /\ (1 + k) - 1 = k
      BY <2>5
    <3> QED BY <3>1, <2>3, <2>5
  <2> QED BY <2>1, <2>2, <2>3, <2>4, <2>5, <2>6, <2>7 DEF first, rest, c
<1>5. Branches(kds, o) \in [1..Len(kds[o]) -> Seq(P)]
  BY <1>4 DEF Branches
<1>6. Branches(kds, o) \in Seq(Seq(P)) /\ Len(Branches(kds, o)) = Len(kds[o])
  BY <1>2, <1>5
<1>7. Preorder(kds, o) = FlattenSeq(Branches(kds, o))
  BY PreorderUnfolds DEF Branches
<1>8. \A i \in 1..Len(kds[o]) : Branches(kds, o)[i] = <<kds[o][i]>> \o Preorder(kds, kds[o][i])
  BY DEF Branches
<1>9. ASSUME NEW i \in 1..Len(kds[o])
      PROVE  Branch(kds, o, i, Branches(kds, o)[i])
  <2> DEFINE b == Branches(kds, o)[i]
  <2>1. b = <<kds[o][i]>> \o Preorder(kds, kds[o][i])
    BY <1>8
  <2> HIDE DEF b
  <2>2. /\ Len(b) = 1 + NumNodes(kds, kds[o][i]) /\ b[1] = kds[o][i]
        /\ \A k \in 1..NumNodes(kds, kds[o][i]) : b[1 + k] = Preorder(kds, kds[o][i])[k]
    BY <2>1, <1>4
  <2> QED BY <2>2, <1>2, <1>4 DEF Branch, b
<1> QED BY <1>2, <1>6, <1>7, <1>9

(* The n-th of the tree is q, and those below it come next.                 *)
StartsAt(kds, q, n) ==
  LET tree == Preorder(kds, Top)
  IN  /\ n \in 1..Len(tree) /\ tree[n] = q
      /\ \A k \in 1..NumNodes(kds, q) : /\ n + k \in 1..Len(tree)
                                        /\ tree[n + k] = Preorder(kds, q)[k]

(* So do those below each child, after those of the children before it.     *)
LEMMA KidStartsAt ==
  ASSUME NEW kds, Forest(kds), NEW o \in Tree(kds), NEW n \in Nat,
         o = Top => n = 0, o # Top => StartsAt(kds, o, n),
         NEW i \in 1..Len(kds[o])
  PROVE  /\ StartsAt(kds, kds[o][i], n + 1 + Offset(Branches(kds, o), i))
         /\ Offset(Branches(kds, o), i) \in Nat
<1> DEFINE tree == Preorder(kds, Top)
           own == Preorder(kds, o)
           b == Branches(kds, o)
           c == kds[o][i]
           off == Offset(b, i)
<1>1. /\ b \in Seq(Seq(P)) /\ Len(b) = Len(kds[o]) /\ own = FlattenSeq(b)
      /\ NumNodes(kds, c) \in Nat /\ Len(b[i]) = 1 + NumNodes(kds, c) /\ b[i][1] = c
      /\ \A k \in 1..NumNodes(kds, c) : b[i][1 + k] = Preorder(kds, c)[k]
  <2>1. Branch(kds, o, i, b[i])
    BY BranchFacts
  <2>2. b \in Seq(Seq(P)) /\ Len(b) = Len(kds[o]) /\ own = FlattenSeq(b)
    BY BranchFacts
  <2> HIDE DEF b, own
  <2> QED BY <2>1, <2>2 DEF Branch
<1>2. own \in Seq(P) /\ Len(own) \in Nat
  BY PreorderOfTree, LenProperties
<1>3. \A k \in 1..Len(own) : n + k \in 1..Len(tree) /\ tree[n + k] = own[k]
  <2>1. CASE o = Top
    BY <2>1, <1>2
  <2>2. CASE o # Top
    BY <2>2 DEF StartsAt, NumNodes
  <2> QED BY <2>1, <2>2
<1> HIDE DEF tree, own, b, c
<1>4. i \in 1..Len(b)
  BY <1>1
<1>5. off \in Nat
  BY <1>1, <1>4, OffsetNext
<1>6. \A k \in 1..Len(b[i]) : off + k \in 1..Len(own) /\ own[off + k] = b[i][k]
  BY <1>1, <1>4, FlatPlaces
<1> HIDE DEF off
<1> DEFINE m == n + 1 + off
<1>7. ASSUME NEW k \in 1..Len(b[i]) PROVE m + k - 1 \in 1..Len(tree) /\ tree[m + k - 1] = b[i][k]
  <2>1. k \in Nat
    BY <1>1
  <2>2. off + k \in 1..Len(own) /\ own[off + k] = b[i][k]
    BY <1>6
  <2>3. n + (off + k) \in 1..Len(tree) /\ tree[n + (off + k)] = own[off + k]
    BY <1>3, <2>2
  <2>4. m + k - 1 = n + (off + k)
    BY <2>1, <1>5
  <2> HIDE DEF m
  <2> QED BY <2>2, <2>3, <2>4
<1>8. m \in 1..Len(tree) /\ tree[m] = c
  <2>1. 1 \in 1..Len(b[i]) /\ m + 1 - 1 = m
    BY <1>1, <1>5
  <2> HIDE DEF m
  <2> QED BY <2>1, <1>1, <1>7
<1>9. ASSUME NEW k \in 1..NumNodes(kds, c)
      PROVE  m + k \in 1..Len(tree) /\ tree[m + k] = Preorder(kds, c)[k]
  <2>1. 1 + k \in 1..Len(b[i]) /\ m + (1 + k) - 1 = m + k
    BY <1>1, <1>5
  <2> HIDE DEF m
  <2>2. m + (1 + k) - 1 \in 1..Len(tree) /\ tree[m + (1 + k) - 1] = b[i][1 + k]
    BY <2>1, <1>7
  <2> QED BY <2>1, <2>2, <1>1
<1>10. StartsAt(kds, c, m)
  <2> HIDE DEF m
  <2> QED BY <1>8, <1>9 DEF StartsAt, tree
<1> QED BY <1>5, <1>10 DEF c, off, b

(* Who is below q comes after it.                                           *)
LEMMA StartsBefore ==
  ASSUME NEW kds, Forest(kds), NEW q \in Tree(kds) \ {Top}, NEW n, StartsAt(kds, q, n),
         NEW x \in Sub(kds, q)
  PROVE  \E m \in 1..NumNodes(kds, Top) :
           n <= m /\ n \in 1..NumNodes(kds, Top) /\ Preorder(kds, Top)[m] = x
<1>1. /\ Preorder(kds, q) \in Seq(P) /\ ToSet(Preorder(kds, q)) = Below(kds, q)
      /\ Preorder(kds, Top) \in Seq(P)
  <2>1. q \in Tree(kds) /\ Top \in Tree(kds)
    BY TreeIsLeast DEF Forest
  <2> QED BY <2>1, PreorderOfTree
<1>2. n \in 1..NumNodes(kds, Top) /\ n \in Nat /\ NumNodes(kds, Top) \in Nat
  BY <1>1, Elements DEF StartsAt, NumNodes
<1>3. CASE x = q
  BY <1>2, <1>3 DEF StartsAt
<1>4. CASE x \in Below(kds, q)
  <2>1. PICK k \in 1..NumNodes(kds, q) : Preorder(kds, q)[k] = x
    BY <1>1, <1>4, Elements DEF NumNodes
  <2>2. n + k \in 1..NumNodes(kds, Top) /\ Preorder(kds, Top)[n + k] = x /\ k \in Nat
    BY <2>1, <1>1, Elements DEF StartsAt, NumNodes
  <2>3. n <= n + k
    BY <2>2, <1>2
  <2> QED BY <2>2, <2>3, <1>2
<1> QED BY <1>3, <1>4 DEF Sub
==============================================================================
