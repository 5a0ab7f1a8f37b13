----------------------- MODULE SessionStream_proofs -----------------------
(***************************************************************************)
(* That what one server stores in a session another one reads: theorems    *)
(* about SessionStream for all values, names and numbers of calls.         *)
(*                                                                         *)
(* A value and a stream are read and written by functions that are defined *)
(* by recursion over their lengths.  What is true of every value is        *)
(* therefore proved by induction, in the form of NatSet: a set of numbers  *)
(* without its least missing number is the set of all numbers.  From the   *)
(* bottom up: an element has one place in memory (PlaceBijective), an      *)
(* array, an object, a node is read from where it was written (ArrayRead,  *)
(* ObjectRead, NodeRead), a value (ValueRead), an item (NextItemRead), a   *)
(* session (ContentsRead, LoadKept).  Only then come the steps of pages.   *)
(***************************************************************************)
EXTENDS SessionStream, WellFoundedInduction, SequenceTheorems, FunctionTheorems,
        FiniteSetTheorems, TLAPS

----------------------------------------------------------------------------
(* Induction, and sequences *)

\* A set that has 0, and with every number the next, has all numbers: one that is missing
\* would have a least.
LEMMA NatSet ==
  ASSUME NEW S, 0 \in S, \A n \in Nat : n \in S => n + 1 \in S
  PROVE  Nat \subseteq S
<1> DEFINE R == OpToRel(<, Nat)
           T == Nat \ S
<1>1. IsWellFoundedOn(R, Nat)
  BY NatLessThanWellFounded DEF OpToRel
<1>2. \A y, x \in Nat : y < x => <<y, x>> \in R
  BY DEF OpToRel
<1> HIDE DEF R
<1>3. SUFFICES ASSUME T # {} PROVE FALSE
  OBVIOUS
<1>4. PICK x \in T : \A y \in T : ~ (<<y, x>> \in R)
  <2>1. T \subseteq Nat
    OBVIOUS
  <2> HIDE DEF T
  <2> QED  BY <1>1, <1>3, <2>1, WFMin
<1>5. x \in Nat /\ x # 0 /\ x - 1 \in Nat /\ x - 1 < x
  OBVIOUS
<1>6. x - 1 \in T
  <2>1. SUFFICES ASSUME x - 1 \in S PROVE FALSE
    BY <1>5
  <2>2. (x - 1) + 1 \in S
    BY <1>5, <2>1
  <2> QED  BY <2>2, <1>5
<1>7. <<x - 1, x>> \in R
  BY <1>5, <1>2
<1> QED  BY <1>4, <1>6, <1>7

\* The same up to N.
LEMMA UpTo ==
  ASSUME NEW N \in Nat, NEW S, 0 \in S, \A n \in 0..(N - 1) : n \in S => n + 1 \in S
  PROVE  0..N \subseteq S
<1> DEFINE U == {n \in Nat : n <= N => n \in S}
<1>1. 0 \in U
  OBVIOUS
<1>2. \A n \in Nat : n \in U => n + 1 \in U
  OBVIOUS
<1>3. Nat \subseteq U
  <2> HIDE DEF U
  <2> QED  BY <1>1, <1>2, NatSet
<1> QED  BY <1>3

\* What is a sequence over some set is the function of its places.
LEMMA SeqHas ==
  ASSUME NEW S, NEW a \in Seq(S)
  PROVE  IsSeq(a) /\ DOMAIN a = 1..Len(a)
  BY DEF IsSeq

\* The other way about.
LEMMA SeqOf ==
  ASSUME NEW a, IsSeq(a), NEW S, \A n \in 1..Len(a) : a[n] \in S
  PROVE  a \in Seq(S)
  BY DEF IsSeq

LEMMA IsSeqDomain ==
  ASSUME NEW a, IsSeq(a)
  PROVE  DOMAIN a = 1..Len(a) /\ Len(a) \in Nat
  BY DEF IsSeq

\* Sequences with the same elements are the same.
LEMMA SameSeq ==
  ASSUME NEW a, IsSeq(a), NEW b, IsSeq(b), Len(a) = Len(b), \A n \in 1..Len(a) : a[n] = b[n]
  PROVE  a = b
  BY DEF IsSeq

\* What is written after a stream.
LEMMA CatSeq ==
  ASSUME NEW a, IsSeq(a), NEW b, IsSeq(b)
  PROVE  /\ IsSeq(a \o b)
         /\ Len(a \o b) = Len(a) + Len(b)
         /\ \A n \in 1..Len(a) : (a \o b)[n] = a[n]
         /\ \A n \in 1..Len(b) : (a \o b)[Len(a) + n] = b[n]
<1> DEFINE S == {a[n] : n \in 1..Len(a)} \cup {b[n] : n \in 1..Len(b)}
<1>1. a \in Seq(S) /\ b \in Seq(S)
  BY SeqOf
<1> HIDE DEF S
<1>2. /\ a \o b \in Seq(S)
      /\ Len(a \o b) = Len(a) + Len(b)
      /\ \A i \in 1 .. Len(a) + Len(b) :
            (a \o b)[i] = IF i <= Len(a) THEN a[i] ELSE b[i - Len(a)]
  BY <1>1, ConcatProperties
<1>3. Len(a) \in Nat /\ Len(b) \in Nat
  BY IsSeqDomain
<1>4. IsSeq(a \o b)
  BY <1>2, SeqHas
<1>5. \A n \in 1..Len(a) : (a \o b)[n] = a[n]
  BY <1>2, <1>3
<1>6. ASSUME NEW n \in 1..Len(b) PROVE (a \o b)[Len(a) + n] = b[n]
  <2>1. Len(a) + n \in 1 .. Len(a) + Len(b) /\ ~(Len(a) + n <= Len(a)) /\ Len(a) + n - Len(a) = n
    BY <1>3
  <2> QED  BY <2>1, <1>2
<1> QED  BY <1>2, <1>4, <1>5, <1>6

\* One element more.
LEMMA AppendSeq ==
  ASSUME NEW a, IsSeq(a), NEW x
  PROVE  /\ IsSeq(Append(a, x))
         /\ Len(Append(a, x)) = Len(a) + 1
         /\ Append(a, x)[Len(a) + 1] = x
         /\ \A n \in 1..Len(a) : Append(a, x)[n] = a[n]
<1> DEFINE S == {a[n] : n \in 1..Len(a)} \cup {x}
<1>1. a \in Seq(S) /\ x \in S
  BY SeqOf
<1> HIDE DEF S
<1>2. /\ Append(a, x) \in Seq(S)
      /\ Len(Append(a, x)) = Len(a) + 1
      /\ \A i \in 1 .. Len(a) : Append(a, x)[i] = a[i]
      /\ Append(a, x)[Len(a) + 1] = x
  BY <1>1, AppendProperties
<1>3. IsSeq(Append(a, x))
  BY <1>2, SeqHas
<1> QED  BY <1>2, <1>3

\* A function of 1..n is a sequence of n elements.
LEMMA FcnSeq ==
  ASSUME NEW n \in Nat, NEW f, f = [i \in 1..n |-> f[i]]
  PROVE  IsSeq(f) /\ Len(f) = n
<1> DEFINE S == {f[i] : i \in 1..n}
<1>1. f \in [1..n -> S]
  OBVIOUS
<1>2. f \in Seq(S)
  BY <1>1
<1>3. Len(f) = n
  BY <1>1
<1> QED  BY <1>2, <1>3, SeqHas

\* Short sequences.
LEMMA Lits ==
  \A x, y, z : /\ IsSeq(<<>>) /\ Len(<<>>) = 0
               /\ IsSeq(<<x>>) /\ Len(<<x>>) = 1 /\ <<x>>[1] = x
               /\ IsSeq(<<x, y>>) /\ Len(<<x, y>>) = 2 /\ <<x, y>>[1] = x /\ <<x, y>>[2] = y
               /\ IsSeq(<<x, y, z>>) /\ Len(<<x, y, z>>) = 3
               /\ <<x, y, z>>[1] = x /\ <<x, y, z>>[2] = y /\ <<x, y, z>>[3] = z
  BY DEF IsSeq

----------------------------------------------------------------------------
(* What the recursive functions of the model are *)

\* What WriteValue has written after each node.
CellsOf(s, v, isSerialized) ==
    LET cells[n \in 0..Len(v)] ==
            IF n = 0 THEN <<>>
            ELSE cells[n - 1] \o NodeCells(s, v[n], isSerialized /\ n = 1)
    IN  cells

\* What LocalContents has written after each item.
StreamOf(s, items, order, isserialized) ==
    LET stream[n \in 0..Len(order)] ==
            IF n = 0 THEN Header(Len(order))
            ELSE WriteProperty(s, stream[n - 1], order[n], items[order[n]],
                               order[n] \in isserialized)
    IN  stream

\* What ReadValue has read after each node.
NodesOf(s, st, p) ==
    LET read[n \in 0..Len(st)] ==
            IF n = 0 THEN [hr |-> "S_OK", v |-> <<>>, p |-> p, todo |-> 1]
            ELSE NextNode(s, st, read[n - 1])
    IN  read

\* What LocalLoad has loaded after each item.
ItemsOf(s, st) ==
    LET loaded[n \in 0..st[4][2]] ==
            IF n = 0
            THEN [hr |-> "S_OK", items |-> <<>>, isserialized |-> {}, aligned |-> TRUE, p |-> 5]
            ELSE NextItem(s, st, loaded[n - 1])
    IN  loaded

\* These functions exist and are what their definitions say: for every m there
\* is such a function up to m.

LEMMA CellsRecursion ==
  ASSUME NEW s, NEW v, IsSeq(v), NEW isSerialized
  PROVE  /\ CellsOf(s, v, isSerialized)[0] = <<>>
         /\ \A n \in 0..(Len(v) - 1) :
               CellsOf(s, v, isSerialized)[n + 1] = CellsOf(s, v, isSerialized)[n] \o
                   NodeCells(s, v[n + 1], isSerialized /\ n + 1 = 1)
<1> DEFINE Base == <<>>
           Step(x, n) == x \o NodeCells(s, v[n], isSerialized /\ n = 1)
           Value(g, n) == IF n = 0 THEN Base ELSE Step(g[n - 1], n)
           Until == {m \in Nat : \E g : g = [n \in 0..m |-> Value(g, n)]}
           F == CellsOf(s, v, isSerialized)
<1>1. 0 \in Until
  <2> DEFINE h == [n \in 0..0 |-> Base]
  <2>1. h = [n \in 0..0 |-> Value(h, n)]
    OBVIOUS
  <2> QED  BY <2>1
<1>2. ASSUME NEW m \in Nat, m \in Until PROVE m + 1 \in Until
  <2>1. PICK g : g = [n \in 0..m |-> Value(g, n)]
    BY <1>2
  <2> DEFINE h == [n \in 0..(m + 1) |-> IF n = m + 1 THEN Step(g[m], m + 1) ELSE g[n]]
  <2>2. \A n \in 0..(m + 1) : h[n] = Value(h, n)
    <3>1. \A n \in 0..m : h[n] = g[n]
      OBVIOUS
    <3>2. h[m + 1] = Step(g[m], m + 1)
      OBVIOUS
    <3> HIDE DEF h
    <3>3. ASSUME NEW n \in 0..(m + 1), n # m + 1 PROVE h[n] = Value(h, n)
      <4>1. n \in 0..m /\ (n # 0 => n - 1 \in 0..m)
        BY <3>3
      <4>2. h[n] = g[n] /\ (n # 0 => h[n - 1] = g[n - 1])
        BY <4>1, <3>1
      <4>3. g[n] = Value(g, n)
        BY <4>1, <2>1
      <4> QED  BY <4>2, <4>3
    <3>4. m + 1 # 0 /\ (m + 1) - 1 = m /\ m \in 0..m
      OBVIOUS
    <3>5. h[m + 1] = Value(h, m + 1)
      BY <3>1, <3>2, <3>4
    <3> QED  BY <3>3, <3>5
  <2>3. h = [n \in 0..(m + 1) |-> Value(h, n)]
    <3>1. h = [n \in 0..(m + 1) |-> h[n]]
      OBVIOUS
    <3> HIDE DEF h
    <3> QED  BY <2>2, <3>1
  <2> HIDE DEF h
  <2> QED  BY <2>3
<1>3. Len(v) \in Nat /\ Len(v) \in Until
  <2> HIDE DEF Until
  <2> QED  BY <1>1, <1>2, NatSet, IsSeqDomain
<1>4. F = [n \in 0..Len(v) |-> Value(F, n)]
  BY <1>3 DEF CellsOf
<1> HIDE DEF Until
<1>5. \A n \in 0..Len(v) : F[n] = Value(F, n)
  BY <1>4
<1>6. ASSUME NEW n \in 0..(Len(v) - 1) PROVE F[n + 1] = Step(F[n], n + 1)
  <2>1. n + 1 \in 0..Len(v) /\ n + 1 # 0 /\ (n + 1) - 1 = n
    BY <1>3
  <2>2. F[n + 1] = Step(F[(n + 1) - 1], n + 1)
    BY <1>5, <2>1
  <2> QED  BY <2>1, <2>2
<1>7. F[0] = Base
  BY <1>3, <1>5
<1> QED  BY <1>6, <1>7

LEMMA StreamRecursion ==
  ASSUME NEW s, NEW items, NEW order, IsSeq(order), NEW isserialized
  PROVE  /\ StreamOf(s, items, order, isserialized)[0] = Header(Len(order))
         /\ \A n \in 0..(Len(order) - 1) :
               StreamOf(s, items, order, isserialized)[n + 1] =
                   WriteProperty(s, StreamOf(s, items, order, isserialized)[n], order[n + 1],
                                 items[order[n + 1]], order[n + 1] \in isserialized)
<1> DEFINE Base == Header(Len(order))
           Step(x, n) == WriteProperty(s, x, order[n], items[order[n]], order[n] \in isserialized)
           Value(g, n) == IF n = 0 THEN Base ELSE Step(g[n - 1], n)
           Until == {m \in Nat : \E g : g = [n \in 0..m |-> Value(g, n)]}
           F == StreamOf(s, items, order, isserialized)
<1>1. 0 \in Until
  <2> DEFINE h == [n \in 0..0 |-> Base]
  <2>1. h = [n \in 0..0 |-> Value(h, n)]
    OBVIOUS
  <2> QED  BY <2>1
<1>2. ASSUME NEW m \in Nat, m \in Until PROVE m + 1 \in Until
  <2>1. PICK g : g = [n \in 0..m |-> Value(g, n)]
    BY <1>2
  <2> DEFINE h == [n \in 0..(m + 1) |-> IF n = m + 1 THEN Step(g[m], m + 1) ELSE g[n]]
  <2>2. \A n \in 0..(m + 1) : h[n] = Value(h, n)
    <3>1. \A n \in 0..m : h[n] = g[n]
      OBVIOUS
    <3>2. h[m + 1] = Step(g[m], m + 1)
      OBVIOUS
    <3> HIDE DEF h
    <3>3. ASSUME NEW n \in 0..(m + 1), n # m + 1 PROVE h[n] = Value(h, n)
      <4>1. n \in 0..m /\ (n # 0 => n - 1 \in 0..m)
        BY <3>3
      <4>2. h[n] = g[n] /\ (n # 0 => h[n - 1] = g[n - 1])
        BY <4>1, <3>1
      <4>3. g[n] = Value(g, n)
        BY <4>1, <2>1
      <4> QED  BY <4>2, <4>3
    <3>4. m + 1 # 0 /\ (m + 1) - 1 = m /\ m \in 0..m
      OBVIOUS
    <3>5. h[m + 1] = Value(h, m + 1)
      BY <3>1, <3>2, <3>4
    <3> QED  BY <3>3, <3>5
  <2>3. h = [n \in 0..(m + 1) |-> Value(h, n)]
    <3>1. h = [n \in 0..(m + 1) |-> h[n]]
      OBVIOUS
    <3> HIDE DEF h
    <3> QED  BY <2>2, <3>1
  <2> HIDE DEF h
  <2> QED  BY <2>3
<1>3. Len(order) \in Nat /\ Len(order) \in Until
  <2> HIDE DEF Until
  <2> QED  BY <1>1, <1>2, NatSet, IsSeqDomain
<1>4. F = [n \in 0..Len(order) |-> Value(F, n)]
  BY <1>3 DEF StreamOf
<1> HIDE DEF Until
<1>5. \A n \in 0..Len(order) : F[n] = Value(F, n)
  BY <1>4
<1>6. ASSUME NEW n \in 0..(Len(order) - 1) PROVE F[n + 1] = Step(F[n], n + 1)
  <2>1. n + 1 \in 0..Len(order) /\ n + 1 # 0 /\ (n + 1) - 1 = n
    BY <1>3
  <2>2. F[n + 1] = Step(F[(n + 1) - 1], n + 1)
    BY <1>5, <2>1
  <2> QED  BY <2>1, <2>2
<1>7. F[0] = Base
  BY <1>3, <1>5
<1> QED  BY <1>6, <1>7

LEMMA NodesRecursion ==
  ASSUME NEW s, NEW st, IsSeq(st), NEW p
  PROVE  /\ NodesOf(s, st, p)[0] = [hr |-> "S_OK", v |-> <<>>, p |-> p, todo |-> 1]
         /\ \A n \in 0..(Len(st) - 1) :
               NodesOf(s, st, p)[n + 1] = NextNode(s, st, NodesOf(s, st, p)[n])
<1> DEFINE Base == [hr |-> "S_OK", v |-> <<>>, p |-> p, todo |-> 1]
           Step(x, n) == NextNode(s, st, x)
           Value(g, n) == IF n = 0 THEN Base ELSE Step(g[n - 1], n)
           Until == {m \in Nat : \E g : g = [n \in 0..m |-> Value(g, n)]}
           F == NodesOf(s, st, p)
<1>1. 0 \in Until
  <2> DEFINE h == [n \in 0..0 |-> Base]
  <2>1. h = [n \in 0..0 |-> Value(h, n)]
    OBVIOUS
  <2> QED  BY <2>1
<1>2. ASSUME NEW m \in Nat, m \in Until PROVE m + 1 \in Until
  <2>1. PICK g : g = [n \in 0..m |-> Value(g, n)]
    BY <1>2
  <2> DEFINE h == [n \in 0..(m + 1) |-> IF n = m + 1 THEN Step(g[m], m + 1) ELSE g[n]]
  <2>2. \A n \in 0..(m + 1) : h[n] = Value(h, n)
    <3>1. \A n \in 0..m : h[n] = g[n]
      OBVIOUS
    <3>2. h[m + 1] = Step(g[m], m + 1)
      OBVIOUS
    <3> HIDE DEF h
    <3>3. ASSUME NEW n \in 0..(m + 1), n # m + 1 PROVE h[n] = Value(h, n)
      <4>1. n \in 0..m /\ (n # 0 => n - 1 \in 0..m)
        BY <3>3
      <4>2. h[n] = g[n] /\ (n # 0 => h[n - 1] = g[n - 1])
        BY <4>1, <3>1
      <4>3. g[n] = Value(g, n)
        BY <4>1, <2>1
      <4> QED  BY <4>2, <4>3
    <3>4. m + 1 # 0 /\ (m + 1) - 1 = m /\ m \in 0..m
      OBVIOUS
    <3>5. h[m + 1] = Value(h, m + 1)
      BY <3>1, <3>2, <3>4
    <3> QED  BY <3>3, <3>5
  <2>3. h = [n \in 0..(m + 1) |-> Value(h, n)]
    <3>1. h = [n \in 0..(m + 1) |-> h[n]]
      OBVIOUS
    <3> HIDE DEF h
    <3> QED  BY <2>2, <3>1
  <2> HIDE DEF h
  <2> QED  BY <2>3
<1>3. Len(st) \in Nat /\ Len(st) \in Until
  <2> HIDE DEF Until
  <2> QED  BY <1>1, <1>2, NatSet, IsSeqDomain
<1>4. F = [n \in 0..Len(st) |-> Value(F, n)]
  BY <1>3 DEF NodesOf
<1> HIDE DEF Until
<1>5. \A n \in 0..Len(st) : F[n] = Value(F, n)
  BY <1>4
<1>6. ASSUME NEW n \in 0..(Len(st) - 1) PROVE F[n + 1] = Step(F[n], n + 1)
  <2>1. n + 1 \in 0..Len(st) /\ n + 1 # 0 /\ (n + 1) - 1 = n
    BY <1>3
  <2>2. F[n + 1] = Step(F[(n + 1) - 1], n + 1)
    BY <1>5, <2>1
  <2> QED  BY <2>1, <2>2
<1>7. F[0] = Base
  BY <1>3, <1>5
<1> QED  BY <1>6, <1>7

LEMMA ItemsRecursion ==
  ASSUME NEW s, NEW st, st[4][2] \in Nat
  PROVE  /\ ItemsOf(s, st)[0] = [hr |-> "S_OK", items |-> <<>>, isserialized |-> {}, aligned |-> TRUE, p |-> 5]
         /\ \A n \in 0..(st[4][2] - 1) :
               ItemsOf(s, st)[n + 1] = NextItem(s, st, ItemsOf(s, st)[n])
<1> DEFINE Base == [hr |-> "S_OK", items |-> <<>>, isserialized |-> {}, aligned |-> TRUE, p |-> 5]
           Step(x, n) == NextItem(s, st, x)
           Value(g, n) == IF n = 0 THEN Base ELSE Step(g[n - 1], n)
           Until == {m \in Nat : \E g : g = [n \in 0..m |-> Value(g, n)]}
           F == ItemsOf(s, st)
<1>1. 0 \in Until
  <2> DEFINE h == [n \in 0..0 |-> Base]
  <2>1. h = [n \in 0..0 |-> Value(h, n)]
    OBVIOUS
  <2> QED  BY <2>1
<1>2. ASSUME NEW m \in Nat, m \in Until PROVE m + 1 \in Until
  <2>1. PICK g : g = [n \in 0..m |-> Value(g, n)]
    BY <1>2
  <2> DEFINE h == [n \in 0..(m + 1) |-> IF n = m + 1 THEN Step(g[m], m + 1) ELSE g[n]]
  <2>2. \A n \in 0..(m + 1) : h[n] = Value(h, n)
    <3>1. \A n \in 0..m : h[n] = g[n]
      OBVIOUS
    <3>2. h[m + 1] = Step(g[m], m + 1)
      OBVIOUS
    <3> HIDE DEF h
    <3>3. ASSUME NEW n \in 0..(m + 1), n # m + 1 PROVE h[n] = Value(h, n)
      <4>1. n \in 0..m /\ (n # 0 => n - 1 \in 0..m)
        BY <3>3
      <4>2. h[n] = g[n] /\ (n # 0 => h[n - 1] = g[n - 1])
        BY <4>1, <3>1
      <4>3. g[n] = Value(g, n)
        BY <4>1, <2>1
      <4> QED  BY <4>2, <4>3
    <3>4. m + 1 # 0 /\ (m + 1) - 1 = m /\ m \in 0..m
      OBVIOUS
    <3>5. h[m + 1] = Value(h, m + 1)
      BY <3>1, <3>2, <3>4
    <3> QED  BY <3>3, <3>5
  <2>3. h = [n \in 0..(m + 1) |-> Value(h, n)]
    <3>1. h = [n \in 0..(m + 1) |-> h[n]]
      OBVIOUS
    <3> HIDE DEF h
    <3> QED  BY <2>2, <3>1
  <2> HIDE DEF h
  <2> QED  BY <2>3
<1>3. st[4][2] \in Nat /\ st[4][2] \in Until
  <2> HIDE DEF Until
  <2> QED  BY <1>1, <1>2, NatSet
<1>4. F = [n \in 0..st[4][2] |-> Value(F, n)]
  BY <1>3 DEF ItemsOf
<1> HIDE DEF Until
<1>5. \A n \in 0..st[4][2] : F[n] = Value(F, n)
  BY <1>4
<1>6. ASSUME NEW n \in 0..(st[4][2] - 1) PROVE F[n + 1] = Step(F[n], n + 1)
  <2>1. n + 1 \in 0..st[4][2] /\ n + 1 # 0 /\ (n + 1) - 1 = n
    BY <1>3
  <2>2. F[n + 1] = Step(F[(n + 1) - 1], n + 1)
    BY <1>5, <2>1
  <2> QED  BY <2>1, <2>2
<1>7. F[0] = Base
  BY <1>3, <1>5
<1> QED  BY <1>6, <1>7

LEMMA TodoRecursion ==
  ASSUME NEW v, IsSeq(v)
  PROVE  /\ Todo(v)[0] = 1
         /\ \A n \in 0..(Len(v) - 1) :
               Todo(v)[n + 1] = Todo(v)[n] - 1 + Children(v[n + 1])
<1> DEFINE Base == 1
           Step(x, n) == x - 1 + Children(v[n])
           Value(g, n) == IF n = 0 THEN Base ELSE Step(g[n - 1], n)
           Until == {m \in Nat : \E g : g = [n \in 0..m |-> Value(g, n)]}
           F == Todo(v)
<1>1. 0 \in Until
  <2> DEFINE h == [n \in 0..0 |-> Base]
  <2>1. h = [n \in 0..0 |-> Value(h, n)]
    OBVIOUS
  <2> QED  BY <2>1
<1>2. ASSUME NEW m \in Nat, m \in Until PROVE m + 1 \in Until
  <2>1. PICK g : g = [n \in 0..m |-> Value(g, n)]
    BY <1>2
  <2> DEFINE h == [n \in 0..(m + 1) |-> IF n = m + 1 THEN Step(g[m], m + 1) ELSE g[n]]
  <2>2. \A n \in 0..(m + 1) : h[n] = Value(h, n)
    <3>1. \A n \in 0..m : h[n] = g[n]
      OBVIOUS
    <3>2. h[m + 1] = Step(g[m], m + 1)
      OBVIOUS
    <3> HIDE DEF h
    <3>3. ASSUME NEW n \in 0..(m + 1), n # m + 1 PROVE h[n] = Value(h, n)
      <4>1. n \in 0..m /\ (n # 0 => n - 1 \in 0..m)
        BY <3>3
      <4>2. h[n] = g[n] /\ (n # 0 => h[n - 1] = g[n - 1])
        BY <4>1, <3>1
      <4>3. g[n] = Value(g, n)
        BY <4>1, <2>1
      <4> QED  BY <4>2, <4>3
    <3>4. m + 1 # 0 /\ (m + 1) - 1 = m /\ m \in 0..m
      OBVIOUS
    <3>5. h[m + 1] = Value(h, m + 1)
      BY <3>1, <3>2, <3>4
    <3> QED  BY <3>3, <3>5
  <2>3. h = [n \in 0..(m + 1) |-> Value(h, n)]
    <3>1. h = [n \in 0..(m + 1) |-> h[n]]
      OBVIOUS
    <3> HIDE DEF h
    <3> QED  BY <2>2, <3>1
  <2> HIDE DEF h
  <2> QED  BY <2>3
<1>3. Len(v) \in Nat /\ Len(v) \in Until
  <2> HIDE DEF Until
  <2> QED  BY <1>1, <1>2, NatSet, IsSeqDomain
<1>4. F = [n \in 0..Len(v) |-> Value(F, n)]
  BY <1>3 DEF Todo
<1> HIDE DEF Until
<1>5. \A n \in 0..Len(v) : F[n] = Value(F, n)
  BY <1>4
<1>6. ASSUME NEW n \in 0..(Len(v) - 1) PROVE F[n + 1] = Step(F[n], n + 1)
  <2>1. n + 1 \in 0..Len(v) /\ n + 1 # 0 /\ (n + 1) - 1 = n
    BY <1>3
  <2>2. F[n + 1] = Step(F[(n + 1) - 1], n + 1)
    BY <1>5, <2>1
  <2> QED  BY <2>1, <2>2
<1>7. F[0] = Base
  BY <1>3, <1>5
<1> QED  BY <1>6, <1>7

----------------------------------------------------------------------------
(* Counting off *)

\* The elements up to i in a chain R.
Below(S, R, i) == {j \in S : j = i \/ <<j, i>> \in R}

\* The elements of a finite set that is ordered by R can be counted off.
LEMMA Rank ==
  ASSUME NEW S, IsFiniteSet(S), NEW R,
         \A i \in S : <<i, i>> \notin R,
         \A i, j, k \in S : <<i, j>> \in R /\ <<j, k>> \in R => <<i, k>> \in R,
         \A i, j \in S : i = j \/ <<i, j>> \in R \/ <<j, i>> \in R
  PROVE  /\ \A i \in S : Cardinality(Below(S, R, i)) \in 1..Cardinality(S)
         /\ \A i, j \in S : <<i, j>> \in R => Cardinality(Below(S, R, i)) < Cardinality(Below(S, R, j))
         /\ \A i, j \in S : Cardinality(Below(S, R, i)) = Cardinality(Below(S, R, j)) => i = j
         /\ \A n \in 1..Cardinality(S) : \E i \in S : Cardinality(Below(S, R, i)) = n
<1>0. Cardinality(S) \in Nat
  BY FS_CardinalityType
<1>1. \A i \in S : /\ Below(S, R, i) \in SUBSET S /\ i \in Below(S, R, i)
                   /\ IsFiniteSet(Below(S, R, i))
                   /\ Cardinality(Below(S, R, i)) \in Nat
                   /\ Cardinality(Below(S, R, i)) <= Cardinality(S)
                   /\ Cardinality(Below(S, R, i)) # 0
  <2> SUFFICES ASSUME NEW i \in S
               PROVE  /\ Below(S, R, i) \in SUBSET S /\ i \in Below(S, R, i)
                   /\ IsFiniteSet(Below(S, R, i))
                   /\ Cardinality(Below(S, R, i)) \in Nat
                   /\ Cardinality(Below(S, R, i)) <= Cardinality(S)
                   /\ Cardinality(Below(S, R, i)) # 0
    OBVIOUS
  <2>1. Below(S, R, i) \in SUBSET S /\ i \in Below(S, R, i)
    BY DEF Below
  <2>2. IsFiniteSet(Below(S, R, i)) /\ Cardinality(Below(S, R, i)) <= Cardinality(S)
    BY <2>1, FS_Subset
  <2> QED  BY <2>1, <2>2, FS_CardinalityType, FS_EmptySet
<1>2. ASSUME NEW i \in S, NEW j \in S, <<i, j>> \in R
      PROVE  Cardinality(Below(S, R, i)) < Cardinality(Below(S, R, j))
  <2>1. Below(S, R, i) \in SUBSET Below(S, R, j)
    BY <1>2 DEF Below
  <2>2. j \in Below(S, R, j) /\ j \notin Below(S, R, i)
    BY <1>2 DEF Below
  <2>3. /\ Cardinality(Below(S, R, i)) <= Cardinality(Below(S, R, j))
        /\ Cardinality(Below(S, R, j)) = Cardinality(Below(S, R, i)) => Below(S, R, j) = Below(S, R, i)
    BY <2>1, <1>1, FS_Subset
  <2> QED  BY <2>2, <2>3, <1>1
<1>3. ASSUME NEW i \in S, NEW j \in S, Cardinality(Below(S, R, i)) = Cardinality(Below(S, R, j))
      PROVE  i = j
  <2>1. Cardinality(Below(S, R, i)) \in Nat /\ Cardinality(Below(S, R, j)) \in Nat
    BY <1>1
  <2>2. SUFFICES ASSUME i # j PROVE FALSE
    OBVIOUS
  <2>3. CASE <<i, j>> \in R
    <3>1. Cardinality(Below(S, R, i)) < Cardinality(Below(S, R, j))
      BY <1>2, <2>3
    <3> QED  BY <1>3, <2>1, <3>1
  <2>4. CASE <<j, i>> \in R
    <3>1. Cardinality(Below(S, R, j)) < Cardinality(Below(S, R, i))
      BY <1>2, <2>4
    <3> QED  BY <1>3, <2>1, <3>1
  <2> QED  BY <2>2, <2>3, <2>4
<1>4. \A i \in S : Cardinality(Below(S, R, i)) \in 1..Cardinality(S)
  BY <1>0, <1>1
<1>5. ASSUME NEW n \in 1..Cardinality(S) PROVE \E i \in S : Cardinality(Below(S, R, i)) = n
  <2> DEFINE f == [i \in S |-> Cardinality(Below(S, R, i))]
  <2>1. f \in [S -> 1..Cardinality(S)] /\ \A i, j \in S : f[i] = f[j] => i = j
    BY <1>3, <1>4
  <2>2. \A i \in S : f[i] = Cardinality(Below(S, R, i))
    OBVIOUS
  <2> HIDE DEF f
  <2>3. f \in Injection(S, 1..Cardinality(S))
    BY <2>1, Fun_IsInj
  <2>4. IsFiniteSet(1..Cardinality(S)) /\ Cardinality(1..Cardinality(S)) = Cardinality(S)
    <3>1. /\ IsFiniteSet(1..Cardinality(S))
          /\ Cardinality(1..Cardinality(S)) = IF 1 > Cardinality(S) THEN 0 ELSE Cardinality(S) - 1 + 1
      BY <1>0, FS_Interval
    <3> QED  BY <1>0, <3>1
  <2>5. f \in Surjection(S, 1..Cardinality(S))
    BY <2>3, <2>4, FS_Injection
  <2>6. \E i \in S : f[i] = n
    BY ONLY <2>5, n \in 1..Cardinality(S) DEF Surjection
  <2> QED  BY <2>2, <2>6
<1> QED  BY <1>2, <1>3, <1>4, <1>5

\* The first element at which two of n differ, and the last.
LEMMA LeastIn ==
  ASSUME NEW D, D \subseteq Nat, D # {}
  PROVE  \E d \in D : \A e \in D : d <= e
<1> DEFINE U == {n \in Nat : \A m \in Nat : m <= n => m \notin D}
<1>1. SUFFICES ASSUME ~ \E d \in D : \A e \in D : d <= e PROVE FALSE
  OBVIOUS
<1>2. 0 \in U
  <2>1. 0 \notin D
    BY <1>1
  <2> QED  BY <2>1
<1>3. ASSUME NEW n \in Nat, n \in U PROVE n + 1 \in U
  <2>1. n + 1 \notin D
    <3>1. SUFFICES ASSUME n + 1 \in D PROVE FALSE
      OBVIOUS
    <3>2. PICK e \in D : ~ (n + 1 <= e)
      BY <1>1, <3>1
    <3>3. e \in Nat /\ e <= n
      BY <3>2
    <3> QED  BY <1>3, <3>3
  <2>2. \A m \in Nat : m <= n + 1 => m <= n \/ m = n + 1
    OBVIOUS
  <2> QED  BY <1>3, <2>1, <2>2
<1>4. Nat \subseteq U
  <2> HIDE DEF U
  <2> QED  BY <1>2, <1>3, NatSet
<1>5. PICK d : d \in D
  OBVIOUS
<1> QED  BY <1>4, <1>5

LEMMA GreatestIn ==
  ASSUME NEW N \in Nat, NEW D, D \subseteq 1..N, D # {}
  PROVE  \E d \in D : \A e \in D : e <= d
<1> DEFINE C == {N - d : d \in D}
<1>1. C \subseteq Nat /\ C # {}
  <2>1. \A d \in D : d \in 1..N
    OBVIOUS
  <2>2. \A d \in D : N - d \in Nat
    BY <2>1
  <2> QED  BY <2>2
<1>2. PICK c \in C : \A e \in C : c <= e
  <2> HIDE DEF C
  <2> QED  BY <1>1, LeastIn
<1>3. PICK d \in D : c = N - d
  BY <1>2
<1>4. \A e \in D : N - d <= N - e
  BY <1>2, <1>3
<1>5. \A e \in D : e <= d
  BY <1>4
<1> QED  BY <1>5

----------------------------------------------------------------------------
(* The order of the elements of arrays *)

IsDims(dims) == IsSeq(dims) /\ \A d \in 1..Len(dims) : dims[d] \in Nat

\* The indices of an array are the functions within its bounds.
LEMMA IndicesAre ==
  ASSUME NEW dims, IsDims(dims)
  PROVE  /\ Indices(dims) \subseteq [1..Len(dims) -> Nat]
         /\ Len(dims) \in Nat
         /\ DOMAIN dims = 1..Len(dims)
         /\ \A i \in Indices(dims) : DOMAIN i = 1..Len(dims)
<1>1. DOMAIN dims = 1..Len(dims) /\ Len(dims) \in Nat
  BY IsSeqDomain DEF IsDims
<1>2. UNION {1..dims[d] : d \in DOMAIN dims} \subseteq Nat
  BY <1>1 DEF IsDims
<1>3. Indices(dims) \subseteq [1..Len(dims) -> UNION {1..dims[d] : d \in DOMAIN dims}]
  BY <1>1 DEF Indices
<1> QED  BY <1>1, <1>2, <1>3

\* There are finitely many elements: an index is a set of pairs.
LEMMA IndicesFinite ==
  ASSUME NEW dims, IsDims(dims)
  PROVE  IsFiniteSet(Indices(dims))
<1> DEFINE D == 1..Len(dims)
           U == UNION {1..dims[d] : d \in D}
           f == [i \in Indices(dims) |-> {<<d, i[d]>> : d \in D}]
<1>1. DOMAIN dims = D /\ Len(dims) \in Nat
  BY IndicesAre
<1>2. IsFiniteSet(D)
  BY <1>1, FS_Interval
<1>3. IsFiniteSet(U)
  <2> DEFINE T == {1..dims[d] : d \in D}
             g == [d \in D |-> 1..dims[d]]
  <2>1. g \in Surjection(D, T)
    <3>1. g \in [D -> T] /\ \A t \in T : \E d \in D : g[d] = t
      OBVIOUS
    <3> HIDE DEF g, T, D
    <3> QED  BY <3>1, Fun_IsSurj
  <2>2. IsFiniteSet(T)
    <3> HIDE DEF g, T, D
    <3> QED  BY <2>1, <1>2, FS_Surjection
  <2>3. \A t \in T : IsFiniteSet(t)
    <3>1. ASSUME NEW d \in D PROVE IsFiniteSet(1..dims[d])
      <4>1. dims[d] \in Nat
        BY DEF IsDims
      <4> QED  BY <4>1, FS_Interval
    <3> QED  BY <3>1
  <2>4. U = UNION T
    OBVIOUS
  <2> HIDE DEF T, g, D, U
  <2> QED  BY <2>2, <2>3, <2>4, FS_UNION
<1>4. IsFiniteSet(SUBSET (D \X U))
  <2> HIDE DEF D, U
  <2> QED  BY <1>2, <1>3, FS_Product, FS_SUBSET
<1>5. Indices(dims) \subseteq [D -> U]
  BY <1>1 DEF Indices
<1>6. f \in Injection(Indices(dims), SUBSET (D \X U))
  <2>1. f \in [Indices(dims) -> SUBSET (D \X U)]
    <3>1. ASSUME NEW i \in Indices(dims) PROVE {<<d, i[d]>> : d \in D} \in SUBSET (D \X U)
      <4> HIDE DEF D, U
      <4>1. \A d \in D : i[d] \in U
        BY <1>5
      <4> QED  BY <4>1
    <3> QED  BY <3>1
  <2>2. ASSUME NEW i \in Indices(dims), NEW j \in Indices(dims), f[i] = f[j] PROVE i = j
    <3> HIDE DEF D, U
    <3>1. \A d \in D : <<d, i[d]>> \in {<<e, j[e]>> : e \in D}
      BY <2>2
    <3>2. \A d \in D : i[d] = j[d]
      BY <3>1
    <3> QED  BY <3>2, <1>5
  <2> HIDE DEF f, D, U
  <2> QED  BY <2>1, <2>2, Fun_IsInj
<1> HIDE DEF f, D, U
<1> QED  BY <1>4, <1>6, FS_Injection

Before(s, j, i) == IF s = "classic" THEN ByColumns(j, i) ELSE ByRows(j, i)

\* The loops of WriteValue and ReadValue visit an array's elements one after the other.
LEMMA ColumnsChain ==
  ASSUME NEW N \in Nat
  PROVE  /\ \A i \in [1..N -> Nat] : ~ ByColumns(i, i)
         /\ \A i, j, k \in [1..N -> Nat] : ByColumns(i, j) /\ ByColumns(j, k) => ByColumns(i, k)
         /\ \A i, j \in [1..N -> Nat] : i = j \/ ByColumns(i, j) \/ ByColumns(j, i)
<1>1. \A i \in [1..N -> Nat] : ~ ByColumns(i, i)
  BY DEF ByColumns
<1>2. ASSUME NEW i \in [1..N -> Nat], NEW j \in [1..N -> Nat], NEW k \in [1..N -> Nat],
             ByColumns(i, j), ByColumns(j, k)
      PROVE  ByColumns(i, k)
  <2>1. PICK d \in 1..N : i[d] < j[d] /\ \A e \in 1..N : d < e => i[e] = j[e]
    BY <1>2 DEF ByColumns
  <2>2. PICK f \in 1..N : j[f] < k[f] /\ \A e \in 1..N : f < e => j[e] = k[e]
    BY <1>2 DEF ByColumns
  <2>3. \E g \in 1..N : i[g] < k[g] /\ \A e \in 1..N : g < e => i[e] = k[e]
    <3>1. CASE d < f
      BY <2>1, <2>2, <3>1
    <3>2. CASE d >= f
      <4>1. ASSUME NEW e \in 1..N, d < e PROVE i[e] = k[e]
        <5>1. f < e
          BY <3>2, <4>1
        <5> QED  BY ONLY <2>1, <2>2, <4>1, <5>1
      <4>2. i[d] < k[d]
        <5>1. d = f \/ f < d
          BY <3>2
        <5>2. i[d] \in Nat /\ j[d] \in Nat /\ k[d] \in Nat
          OBVIOUS
        <5> QED  BY <2>1, <2>2, <5>1, <5>2
      <4> QED  BY <4>1, <4>2
    <3> QED  BY <3>1, <3>2
  <2> QED  BY <2>3 DEF ByColumns
<1>3. ASSUME NEW i \in [1..N -> Nat], NEW j \in [1..N -> Nat], i # j
      PROVE  ByColumns(i, j) \/ ByColumns(j, i)
  <2> DEFINE D == {d \in 1..N : i[d] # j[d]}
  <2>1. D \subseteq 1..N /\ D # {}
    BY <1>3
  <2>2. PICK d \in D : \A e \in D : e <= d
    <3> HIDE DEF D
    <3> QED  BY <2>1, GreatestIn
  <2>3. d \in 1..N /\ (i[d] < j[d] \/ j[d] < i[d]) /\ \A e \in 1..N : d < e => i[e] = j[e]
    BY <2>2
  <2> QED  BY <2>3 DEF ByColumns
<1> QED  BY <1>1, <1>2, <1>3

\* So does .NET in memory.
LEMMA RowsChain ==
  ASSUME NEW N \in Nat
  PROVE  /\ \A i \in [1..N -> Nat] : ~ ByRows(i, i)
         /\ \A i, j, k \in [1..N -> Nat] : ByRows(i, j) /\ ByRows(j, k) => ByRows(i, k)
         /\ \A i, j \in [1..N -> Nat] : i = j \/ ByRows(i, j) \/ ByRows(j, i)
<1>1. \A i \in [1..N -> Nat] : ~ ByRows(i, i)
  BY DEF ByRows
<1>2. ASSUME NEW i \in [1..N -> Nat], NEW j \in [1..N -> Nat], NEW k \in [1..N -> Nat],
             ByRows(i, j), ByRows(j, k)
      PROVE  ByRows(i, k)
  <2>1. PICK d \in 1..N : i[d] < j[d] /\ \A e \in 1..N : e < d => i[e] = j[e]
    BY <1>2 DEF ByRows
  <2>2. PICK f \in 1..N : j[f] < k[f] /\ \A e \in 1..N : e < f => j[e] = k[e]
    BY <1>2 DEF ByRows
  <2>3. \E g \in 1..N : i[g] < k[g] /\ \A e \in 1..N : e < g => i[e] = k[e]
    <3>1. CASE d < f
      BY <2>1, <2>2, <3>1
    <3>2. CASE d = f
      <4>1. i[d] \in Nat /\ j[d] \in Nat /\ k[d] \in Nat
        OBVIOUS
      <4>2. i[d] < k[d]
        BY ONLY <2>1, <2>2, <3>2, <4>1
      <4>3. \A e \in 1..N : e < d => i[e] = k[e]
        BY ONLY <2>1, <2>2, <3>2
      <4> QED  BY ONLY <4>2, <4>3, d \in 1..N
    <3>3. CASE f < d
      <4>1. i[f] = j[f]
        BY ONLY <2>1, <3>3, f \in 1..N
      <4>2. ASSUME NEW e \in 1..N, e < f PROVE i[e] = k[e]
        <5>1. e < d
          BY <3>3, <4>2
        <5> QED  BY ONLY <2>1, <2>2, <4>2, <5>1
      <4> QED  BY ONLY <2>2, <4>1, <4>2, f \in 1..N
    <3> QED  BY <3>1, <3>2, <3>3
  <2> QED  BY <2>3 DEF ByRows
<1>3. ASSUME NEW i \in [1..N -> Nat], NEW j \in [1..N -> Nat], i # j
      PROVE  ByRows(i, j) \/ ByRows(j, i)
  <2> DEFINE D == {d \in 1..N : i[d] # j[d]}
  <2>1. D \subseteq Nat /\ D # {}
    BY <1>3
  <2>2. PICK d \in D : \A e \in D : d <= e
    <3> HIDE DEF D
    <3> QED  BY <2>1, LeastIn
  <2>3. d \in 1..N /\ (i[d] < j[d] \/ j[d] < i[d]) /\ \A e \in 1..N : e < d => i[e] = j[e]
    BY <2>2
  <2> QED  BY <2>3 DEF ByRows
<1> QED  BY <1>1, <1>2, <1>3

\* No two elements have the same place, and no place is without its element.
LEMMA PlaceBijective ==
  ASSUME NEW dims, IsDims(dims), dims # <<>>, NEW s
  PROVE  /\ Size(dims) \in Nat
         /\ \A i \in Indices(dims) : Place(s, dims, i) \in 1..Size(dims)
         /\ \A i, j \in Indices(dims) : Place(s, dims, i) = Place(s, dims, j) => i = j
         /\ \A n \in 1..Size(dims) : \E i \in Indices(dims) : Place(s, dims, i) = n
<1> DEFINE S == Indices(dims)
           R == {r \in S \X S : Before(s, r[1], r[2])}
<1>1. IsFiniteSet(S) /\ Size(dims) = Cardinality(S)
  BY IndicesFinite DEF Size
<1>2. \A i, j \in S : <<i, j>> \in R <=> Before(s, i, j)
  OBVIOUS
<1>3. S \subseteq [1..Len(dims) -> Nat] /\ Len(dims) \in Nat
  BY IndicesAre
<1>4. \A i \in S : Place(s, dims, i) = Cardinality(Below(S, R, i))
  <2>1. ASSUME NEW i \in S
        PROVE  {j \in S : j = i \/ IF s = "classic" THEN ByColumns(j, i) ELSE ByRows(j, i)} = Below(S, R, i)
    <3> HIDE DEF S, R
    <3> QED  BY <1>2 DEF Below, Before
  <2> QED  BY <2>1 DEF Place
<1> HIDE DEF S, R
<1>5. /\ \A i \in S : ~ Before(s, i, i)
      /\ \A i, j, k \in S : Before(s, i, j) /\ Before(s, j, k) => Before(s, i, k)
      /\ \A i, j \in S : i = j \/ Before(s, i, j) \/ Before(s, j, i)
  <2>1. CASE s = "classic"
    BY <2>1, <1>3, ColumnsChain DEF Before
  <2>2. CASE s # "classic"
    BY <2>2, <1>3, RowsChain DEF Before
  <2> QED  BY <2>1, <2>2
<1>6. /\ \A i \in S : <<i, i>> \notin R
      /\ \A i, j, k \in S : <<i, j>> \in R /\ <<j, k>> \in R => <<i, k>> \in R
      /\ \A i, j \in S : i = j \/ <<i, j>> \in R \/ <<j, i>> \in R
  BY <1>2, <1>5
<1>7. /\ \A i \in S : Cardinality(Below(S, R, i)) \in 1..Cardinality(S)
      /\ \A i, j \in S : Cardinality(Below(S, R, i)) = Cardinality(Below(S, R, j)) => i = j
      /\ \A n \in 1..Cardinality(S) : \E i \in S : Cardinality(Below(S, R, i)) = n
  <2>1. /\ \A i \in S : Cardinality(Below(S, R, i)) \in 1..Cardinality(S)
        /\ \A i, j \in S : <<i, j>> \in R => Cardinality(Below(S, R, i)) < Cardinality(Below(S, R, j))
        /\ \A i, j \in S : Cardinality(Below(S, R, i)) = Cardinality(Below(S, R, j)) => i = j
        /\ \A n \in 1..Cardinality(S) : \E i \in S : Cardinality(Below(S, R, i)) = n
    BY ONLY <1>1, <1>6, Rank
  <2> QED  BY <2>1
<1>8. Size(dims) \in Nat
  BY <1>1, FS_CardinalityType
<1> QED  BY <1>1, <1>4, <1>7, <1>8 DEF S

----------------------------------------------------------------------------
(* Arrays in memory *)

\* The number of elements is a number.
LEMMA SizeNat ==
  ASSUME NEW dims, IsDims(dims)
  PROVE  Size(dims) \in Nat
<1>1. CASE dims = <<>>
  BY <1>1 DEF Size
<1>2. CASE dims # <<>>
  BY <1>2, PlaceBijective
<1> QED  BY <1>1, <1>2

\* The array of no elements that .NET makes of one that has no bounds.
LEMMA NoBounds == IsDims(<< 0 >>) /\ Size(<< 0 >>) = 0 /\ IsDims(<<>>) /\ Size(<<>>) = 0
<1>1. IsDims(<< 0 >>) /\ IsDims(<<>>)
  <2>1. IsSeq(<< 0 >>) /\ Len(<< 0 >>) = 1 /\ << 0 >>[1] = 0 /\ IsSeq(<<>>) /\ Len(<<>>) = 0
    BY Lits
  <2> QED  BY <2>1 DEF IsDims
<1>2. \A i \in Indices(<< 0 >>) : FALSE
  <2>1. DOMAIN << 0 >> = {1} /\ << 0 >>[1] = 0
    OBVIOUS
  <2>2. SUFFICES ASSUME NEW i \in Indices(<< 0 >>) PROVE FALSE
    OBVIOUS
  <2>3. i[1] \in UNION {1..<< 0 >>[d] : d \in DOMAIN << 0 >>}
    BY <2>1 DEF Indices
  <2>4. PICK d \in DOMAIN << 0 >> : i[1] \in 1..<< 0 >>[d]
    BY <2>3
  <2> QED  BY <2>1, <2>4
<1>3. Indices(<< 0 >>) = {}
  BY <1>2
<1>4. << 0 >> # <<>>
  OBVIOUS
<1>5. Size(<< 0 >>) = Cardinality(Indices(<< 0 >>))
  BY <1>4 DEF Size
<1>6. Size(<< 0 >>) = 0
  BY <1>3, <1>5, FS_EmptySet
<1> QED  BY <1>1, <1>6 DEF Size

\* Every element lies somewhere in memory, at one place only.
LEMMA InMemoryOnto ==
  ASSUME NEW dims, IsDims(dims), dims # <<>>, NEW s
  PROVE  /\ \A n \in 1..Size(dims) : InMemory(s, dims)[n] \in 1..Size(dims)
         /\ \A n \in 1..Size(dims) : \E m \in 1..Size(dims) : InMemory(s, dims)[m] = n
<1> DEFINE At0(n) == CHOOSE i \in Indices(dims) : Place(s, dims, i) = n
<1>1. \A n \in 1..Size(dims) : InMemory(s, dims)[n] = Place("classic", dims, At0(n))
  BY DEF InMemory
<1>2. \A n \in 1..Size(dims) : At0(n) \in Indices(dims) /\ Place(s, dims, At0(n)) = n
  <2>1. \A n \in 1..Size(dims) : \E i \in Indices(dims) : Place(s, dims, i) = n
    BY PlaceBijective
  <2> QED  BY <2>1
<1>3. \A n \in 1..Size(dims) : InMemory(s, dims)[n] \in 1..Size(dims)
  BY <1>1, <1>2, PlaceBijective
<1>4. ASSUME NEW n \in 1..Size(dims) PROVE \E m \in 1..Size(dims) : InMemory(s, dims)[m] = n
  <2>1. PICK i \in Indices(dims) : Place("classic", dims, i) = n
    BY PlaceBijective
  <2>2. Place(s, dims, i) \in 1..Size(dims)
    BY PlaceBijective
  <2>3. At0(Place(s, dims, i)) = i
    <3> HIDE DEF At0
    <3>1. At0(Place(s, dims, i)) \in Indices(dims) /\ Place(s, dims, At0(Place(s, dims, i))) = Place(s, dims, i)
      BY <1>2, <2>2
    <3> QED  BY <3>1, PlaceBijective
  <2> HIDE DEF At0
  <2> QED  BY <1>1, <2>1, <2>2, <2>3
<1> QED  BY <1>3, <1>4

\* Two servers whose memory has the same order.
Alike(s, t) == s = t \/ (s \in Net /\ t \in Net)

\* Vectors lie in memory alike; other arrays for servers of one kind.
LEMMA InMemorySame ==
  ASSUME NEW dims, IsDims(dims), NEW s \in Servers, NEW t \in Servers,
         Len(dims) = 1 \/ Alike(s, t)
  PROVE  InMemory(s, dims) = InMemory(t, dims)
<1>1. \A i \in Indices(dims) : Place(s, dims, i) = Place(t, dims, i)
  <2>1. CASE Alike(s, t)
    BY <2>1 DEF Alike, Net, Servers, Place
  <2>2. CASE Len(dims) = 1
    <3>1. \A i, j \in Indices(dims) : ByColumns(j, i) <=> ByRows(j, i)
      <4>1. \A i \in Indices(dims) : i \in [{1} -> Nat]
        BY <2>2, IndicesAre
      <4>2. \A i, j \in [{1} -> Nat] : ByColumns(j, i) <=> ByRows(j, i)
        BY DEF ByColumns, ByRows
      <4> QED  BY <4>1, <4>2
    <3> QED  BY <3>1 DEF Place
  <2> QED  BY <2>1, <2>2
<1> DEFINE Which(u, n) == CHOOSE i \in Indices(dims) : Place(u, dims, i) = n
<1>2. \A n : Which(s, n) = Which(t, n)
  BY <1>1
<1>3. \A u : InMemory(u, dims) = [n \in 1..Size(dims) |-> Place("classic", dims, Which(u, n))]
  BY DEF InMemory
<1> HIDE DEF Which
<1> QED  BY <1>2, <1>3

\* A block copied out of memory and back.
LEMMA BlockBack ==
  ASSUME NEW dims, IsDims(dims), dims # <<>>, NEW s \in Servers, NEW t \in Servers,
         Len(dims) = 1 \/ Alike(s, t),
         NEW els, IsSeq(els), Len(els) = Size(dims)
  PROVE  [n \in 1..Size(dims) |->
             [m \in 1..Size(dims) |-> els[InMemory(s, dims)[m]]]
                 [CHOOSE m \in 1..Size(dims) : InMemory(t, dims)[m] = n]] = els
<1> DEFINE at == InMemory(s, dims)
           back == [m \in 1..Size(dims) |-> els[at[m]]]
           of(n) == CHOOSE m \in 1..Size(dims) : InMemory(t, dims)[m] = n
<1>1. InMemory(t, dims) = at
  BY InMemorySame
<1>2. \A n \in 1..Size(dims) : \E m \in 1..Size(dims) : at[m] = n
  BY InMemoryOnto
<1>3. \A n \in 1..Size(dims) : of(n) \in 1..Size(dims) /\ at[of(n)] = n
  BY <1>1, <1>2
<1> HIDE DEF of, at
<1>4. \A n \in 1..Size(dims) : back[of(n)] = els[n]
  BY <1>3
<1>5. [n \in 1..Size(dims) |-> back[of(n)]] = els
  BY <1>4 DEF IsSeq
<1> QED  BY <1>5 DEF of, at, back

----------------------------------------------------------------------------
(* Cells and objects *)

\* The cells c are in the stream st from p on.
Holds(st, p, c) == \A n \in 1..Len(c) : p + n - 1 \in DOMAIN st /\ st[p + n - 1] = c[n]

\* Short sequences, by what they are equal to.
LEMMA LitsOf ==
  /\ \A c : c = <<>> => IsSeq(c) /\ Len(c) = 0
  /\ \A c, x : c = <<x>> => IsSeq(c) /\ Len(c) = 1
  /\ \A c, x, y : c = <<x, y>> => IsSeq(c) /\ Len(c) = 2
  /\ \A c, x, y, z : c = <<x, y, z>> => IsSeq(c) /\ Len(c) = 3
  BY Lits

\* What was written in two steps is found in two places.
LEMMA HoldsCat ==
  ASSUME NEW st, NEW p \in Nat, NEW a, IsSeq(a), NEW b, IsSeq(b), Holds(st, p, a \o b)
  PROVE  Holds(st, p, a) /\ Holds(st, p + Len(a), b)
<1>1. Len(a) \in Nat /\ Len(b) \in Nat
  BY IsSeqDomain
<1>2. /\ Len(a \o b) = Len(a) + Len(b)
      /\ \A n \in 1..Len(a) : (a \o b)[n] = a[n]
      /\ \A n \in 1..Len(b) : (a \o b)[Len(a) + n] = b[n]
  BY CatSeq
<1>3. Holds(st, p, a)
  BY <1>1, <1>2 DEF Holds
<1>4. ASSUME NEW n \in 1..Len(b)
      PROVE  p + Len(a) + n - 1 \in DOMAIN st /\ st[p + Len(a) + n - 1] = b[n]
  <2>1. Len(a) + n \in 1..Len(a \o b) /\ p + (Len(a) + n) - 1 = p + Len(a) + n - 1
    BY <1>1, <1>2
  <2>2. p + (Len(a) + n) - 1 \in DOMAIN st /\ st[p + (Len(a) + n) - 1] = (a \o b)[Len(a) + n]
    BY <2>1 DEF Holds
  <2> QED  BY <2>1, <2>2, <1>2
<1> QED  BY <1>3, <1>4 DEF Holds

\* Single cells.
LEMMA HoldsLits ==
  ASSUME NEW st, NEW p \in Nat
  PROVE  /\ \A x : Holds(st, p, <<x>>) => p \in DOMAIN st /\ st[p] = x
         /\ \A x, y : Holds(st, p, <<x, y>>) => /\ p \in DOMAIN st /\ st[p] = x
                                                /\ p + 1 \in DOMAIN st /\ st[p + 1] = y
         /\ \A x, y, z : Holds(st, p, <<x, y, z>>) => /\ p \in DOMAIN st /\ st[p] = x
                                                      /\ p + 1 \in DOMAIN st /\ st[p + 1] = y
                                                      /\ p + 2 \in DOMAIN st /\ st[p + 2] = z
<1>1. ASSUME NEW x, Holds(st, p, <<x>>) PROVE p \in DOMAIN st /\ st[p] = x
  <2>1. 1 \in 1..Len(<<x>>) /\ <<x>>[1] = x /\ p + 1 - 1 = p
    BY Lits
  <2> QED  BY <1>1, <2>1 DEF Holds
<1>2. ASSUME NEW x, NEW y, Holds(st, p, <<x, y>>)
      PROVE  p \in DOMAIN st /\ st[p] = x /\ p + 1 \in DOMAIN st /\ st[p + 1] = y
  <2> DEFINE c == <<x, y>>
  <2>1. 1 \in 1..Len(c) /\ c[1] = x /\ p + 1 - 1 = p /\ 2 \in 1..Len(c) /\ c[2] = y /\ p + 2 - 1 = p + 1
    BY Lits
  <2>2. Holds(st, p, c)
    BY <1>2
  <2> HIDE DEF c
  <2> QED  BY <2>1, <2>2 DEF Holds
<1>3. ASSUME NEW x, NEW y, NEW z, Holds(st, p, <<x, y, z>>)
      PROVE  /\ p \in DOMAIN st /\ st[p] = x /\ p + 1 \in DOMAIN st /\ st[p + 1] = y
             /\ p + 2 \in DOMAIN st /\ st[p + 2] = z
  <2> DEFINE c == <<x, y, z>>
  <2>1. /\ 1 \in 1..Len(c) /\ c[1] = x /\ p + 1 - 1 = p
        /\ 2 \in 1..Len(c) /\ c[2] = y /\ p + 2 - 1 = p + 1
        /\ 3 \in 1..Len(c) /\ c[3] = z /\ p + 3 - 1 = p + 2
    BY Lits
  <2>2. Holds(st, p, c)
    BY <1>3
  <2> HIDE DEF c
  <2> QED  BY <2>1, <2>2 DEF Holds
<1> QED  BY <1>1, <1>2, <1>3

\* The two readers agree on the meaning of a node.
SameMeaning(y, x, isSerialized) ==
    /\ x[1] = "DISPATCH" <=> y[1] = "DISPATCH"
    /\ x[1] # "DISPATCH" => \A i, j : NodeMeaning(y, i) = NodeMeaning(x, j)
    /\ x[1] = "DISPATCH" => NodeMeaning(y, TRUE) = NodeMeaning(x, isSerialized)

\* The object is not read as a stream it is not.
Matched(x, isSerialized) == x[1] = "DISPATCH" => isSerialized = (x[3] = "stream")

\* What one has read at q of the node x, whose cells end before e.
Faithful(s, x, isSerialized, one, e) ==
    /\ one.hr = "S_OK" =>
          /\ one.p = e
          /\ IsNode(s, one.x)
          /\ Children(one.x) = Children(x)
          /\ one.x[1] = "DISPATCH" => x[1] = "DISPATCH" /\ one.x[3] = "stream"
    /\ one.hr = "S_FALSE" =>
          /\ s = "classic" /\ one.x = Empty
          /\ x[1] = "DISPATCH" /\ ~ Matched(x, isSerialized)

PortableNode(x) ==
    \/ x[1] \in Scalars
    \/ /\ x[1] = "ARRAY" /\ x[3] # <<>>
       /\ \/ x[2] \in Block("classic") \cap Block("managed") /\ Len(x[3]) = 1
          \/ x[2] \in OneByOne

\* What a server of the writer's kind reads back.
OwnNode(w, s, x, isSerialized) ==
    /\ Alike(w, s)
    /\ ~ Unserializable(w, x)
    /\ x[1] = "ARRAY" => x[3] # <<>>
    /\ Matched(x, isSerialized)

\* An object that follows its type: what a reader makes of it, unless the length of another
\* follows one of which nothing was written.
LEMMA ObjectRead ==
  ASSUME NEW w \in Servers, NEW s \in Servers, NEW x, IsObject(w, x), NEW isSerialized \in BOOLEAN,
         NEW st, NEW q \in Nat,
         Holds(st, q, ObjectCells(w, x, isSerialized)),
         ~ At(st, q + Len(ObjectCells(w, x, isSerialized)), "length"),
         w = "classic" \/ s \in Net
  PROVE  /\ IsSeq(ObjectCells(w, x, isSerialized))
         /\ Faithful(s, x, isSerialized, ReadObject(s, st, q), q + Len(ObjectCells(w, x, isSerialized)))
         /\ OwnNode(w, s, x, isSerialized) =>
               /\ ReadObject(s, st, q).hr = "S_OK"
               /\ SameMeaning(ReadObject(s, st, q).x, x, isSerialized)
<1> DEFINE c == ObjectCells(w, x, isSerialized)
           one == ReadObject(s, st, q)
<1>1. CASE w = "classic"
  <2>1. x[1] = "DISPATCH" /\ x[3] \in {"live", "stream"} /\ ~ Unserializable(w, x)
    BY <1>1 DEF IsObject, Unserializable
  <2>2. CASE isSerialized = (x[3] = "stream")
    <3>1. c = <<<<"length", 1>>, <<"blob", <<"COM", x[2]>>>>>>
      BY <1>1, <2>1, <2>2 DEF ObjectCells
    <3>2. /\ q \in DOMAIN st /\ st[q] = <<"length", 1>>
          /\ q + 1 \in DOMAIN st /\ st[q + 1] = <<"blob", <<"COM", x[2]>>>>
      BY <3>1, HoldsLits
    <3>3. IsSeq(c) /\ Len(c) = 2
      BY ONLY <3>1, LitsOf, Lits
    <3>4. CASE s = "classic"
      <4>1. one = Read("S_OK", <<"DISPATCH", x[2], "stream">>, q + 2)
        BY <3>2, <3>4 DEF ReadObject, At
      <4> DEFINE y == <<"DISPATCH", x[2], "stream">>
      <4>2. y[1] = "DISPATCH" /\ y[2] = x[2] /\ y[3] = "stream" /\ y = <<"DISPATCH", y[2], y[3]>>
        OBVIOUS
      <4>3. one.hr = "S_OK" /\ one.x = y /\ one.p = q + 2
        BY <4>1 DEF Read
      <4> HIDE DEF y, one
      <4>4. IsNode(s, y) /\ Children(y) = Children(x)
        BY <4>2, <3>4, <2>1 DEF IsNode, IsObject, Children
      <4>5. SameMeaning(y, x, isSerialized)
        BY <4>2, <2>1, <2>2 DEF SameMeaning, NodeMeaning, Classes
      <4> QED  BY <4>2, <4>3, <4>4, <4>5, <3>3, <2>1 DEF Faithful, one
    <3>5. CASE s # "classic"
      <4>1. one = Read("S_OK", <<"COM", x[2]>>, q + 2)
        BY <3>2, <3>5 DEF ReadObject, At
      <4>2. s \in Net /\ ~ Alike(w, s)
        BY <1>1, <3>5 DEF Net, Servers, Alike
      <4> QED  BY <4>1, <4>2, <3>3, <2>1, <2>2, <3>5 DEF Read, Faithful, IsNode, IsObject, Children, Empty, Matched,
                  OwnNode, Classes
    <3> QED  BY <3>4, <3>5
  <2>3. CASE isSerialized # (x[3] = "stream")
    <3>1. c = <<<<"length", 0>>>>
      BY <1>1, <2>1, <2>3 DEF ObjectCells
    <3>2. q \in DOMAIN st /\ st[q] = <<"length", 0>>
      BY <3>1, HoldsLits
    <3>3. IsSeq(c) /\ Len(c) = 1
      BY ONLY <3>1, LitsOf, Lits
    <3>4. one = Read(IF s = "classic" THEN "S_FALSE" ELSE "S_OK", Empty, q + 1)
      BY <3>2 DEF ReadObject, At
    <3> QED  BY <3>3, <3>4, <2>1, <2>3 DEF Read, Faithful, IsNode, IsScalar, Children, Empty, Matched, OwnNode
  <2> QED  BY <2>2, <2>3
<1>2. CASE w # "classic"
  <2>1. x = <<x[1], x[2]>> /\ x[1] \in Classes /\ w \in Net /\ s \in Net /\ s # "classic"
    BY <1>2 DEF IsObject, Net, Servers
  <2>2. CASE Unserializable(w, x)
    <3>1. c = <<>>
      BY <1>2, <2>2 DEF ObjectCells, Unserializable
    <3>2. Len(c) = 0 /\ IsSeq(c) /\ q + Len(c) = q
      <4> HIDE DEF c
      <4>1. IsSeq(c) /\ Len(c) = 0
        BY <3>1, LitsOf
      <4> QED  BY <4>1
    <3>3. one = Fails(q)
      BY <3>2 DEF ReadObject
    <3> QED  BY <2>2, <3>2, <3>3 DEF Fails, Read, Faithful, OwnNode
  <2>3. CASE ~ Unserializable(w, x) /\ x[1] = "COM"
    <3>1. c = <<<<"length", 1>>, <<"blob", x>>>>
      BY <2>3, <1>2 DEF ObjectCells
    <3>2. /\ q \in DOMAIN st /\ st[q] = <<"length", 1>>
          /\ q + 1 \in DOMAIN st /\ st[q + 1] = <<"blob", x>>
      BY <3>1, HoldsLits
    <3>3. IsSeq(c) /\ Len(c) = 2
      BY ONLY <3>1, LitsOf, Lits
    <3>4. one = Read("S_OK", x, q + 2)
      BY <3>2, <2>1 DEF ReadObject, At
    <3> QED  BY <3>3, <3>4, <2>1, <2>3 DEF Read, Faithful, IsNode, IsObject, Children, Empty, SameMeaning,
                NodeMeaning, Classes
  <2>4. CASE ~ Unserializable(w, x) /\ x[1] # "COM"
    <3>1. c = <<<<"length", 1>>, <<"mark", 0>>, <<"blob", x>>>>
      BY <2>4, <1>2 DEF ObjectCells
    <3>2. /\ q \in DOMAIN st /\ st[q] = <<"length", 1>>
          /\ q + 1 \in DOMAIN st /\ st[q + 1] = <<"mark", 0>>
          /\ q + 2 \in DOMAIN st /\ st[q + 2] = <<"blob", x>>
      BY <3>1, HoldsLits
    <3>3. IsSeq(c) /\ Len(c) = 3
      BY ONLY <3>1, LitsOf, Lits
    <3>4. one = Read("S_OK", x, q + 3)
      BY <3>2, <2>1 DEF ReadObject, At
    <3>5. IsNode(s, x) /\ Children(x) = Children(x) /\ x[1] # "DISPATCH"
      BY <2>1 DEF IsNode, IsObject, Classes
    <3>6. SameMeaning(x, x, isSerialized)
      BY <2>1 DEF SameMeaning, NodeMeaning, Classes
    <3>7. one.hr = "S_OK" /\ one.x = x /\ one.p = q + 3
      BY <3>4 DEF Read
    <3> QED  BY <3>3, <3>5, <3>6, <3>7 DEF Faithful
  <2> QED  BY <2>2, <2>3, <2>4
<1> QED  BY <1>1, <1>2

----------------------------------------------------------------------------
(* Writing arrays *)

\* An array that its server can write.
Writable(w, tag, dims) == w \in Net => VtOf(w, tag) \in Block(w) \cup OneByOne \/ Size(dims) = 0

TypeName(w, tag) ==
    IF VtOf(w, tag) # "VARIANT" THEN "" ELSE IF tag = "VARIANT" THEN "Object" ELSE tag

\* The type read of an array.
TypeRead(s, tag) == IF tag = "CY" /\ s \in Net THEN "CURRENCY" ELSE tag

\* Type names are read back as they were written, but for currencies.
LEMMA Types ==
  ASSUME NEW w \in Servers, NEW s \in Servers, NEW tag \in Tags(w)
  PROVE  /\ TypeOf(s, VtOf(w, tag), TypeName(w, tag)) = TypeRead(s, tag)
         /\ VtOf(w, tag) = "VARIANT" <=> tag \in {"VARIANT"} \cup Classes
         /\ VtOf(w, tag) # "VARIANT" => VtOf(w, tag) = tag
         /\ VtOf(w, tag) # tag => tag \in Classes /\ w \in Net
         /\ VtOf(w, tag) \in Block("classic") \cup OneByOne
         /\ tag \in {"I1", "CY"} => w \notin Net
         /\ s \in Net /\ tag # "I1" => TypeRead(s, tag) \in Tags(s)
  BY DEF Servers, Tags, TypeRead, TypeOf, TypeName, VtOf, Block, OneByOne, Classes, Net

\* The cells of an array's elements.
LEMMA ElementsWritten ==
  ASSUME NEW w \in Servers, NEW x, IsArray(w, x), Writable(w, x[2], x[3]), x[3] # <<>>
  PROVE  LET of == VtOf(w, x[2])
             dims == x[3]
             c == ElementCells(w, of, dims, x[4])
         IN  /\ IsSeq(c)
             /\ of \in {"BSTR", "DECIMAL"} =>
                   Len(c) = Size(dims) /\ \A n \in 1..Size(dims) : c[n] = <<Kind(of), x[4][n][2]>>
             /\ of \in Block(w) /\ Size(dims) > 0 =>
                   Len(c) = 1 /\ c[1] = <<"block", [n \in 1..Size(dims) |-> x[4][InMemory(w, dims)[n]]]>>
             /\ of = "VARIANT" \/ Size(dims) = 0 => Len(c) = 0
             /\ of = "VARIANT" \/ of \in {"BSTR", "DECIMAL"} \/ of \in Block(w) \/ Size(dims) = 0
<1> DEFINE of == VtOf(w, x[2])
           dims == x[3]
           c == ElementCells(w, of, dims, x[4])
<1>1. IsDims(dims) /\ Size(dims) \in Nat /\ x[2] \in Tags(w)
  BY SizeNat DEF IsArray, IsDims
<1>2. of = "VARIANT" \/ of \in {"BSTR", "DECIMAL"} \/ of \in Block(w) \/ Size(dims) = 0
  <2>1. w = "classic" \/ w \in Net
    BY DEF Servers, Net
  <2> QED  BY <2>1, <1>1, Types DEF Writable, OneByOne
<1>3. {"BSTR", "DECIMAL"} \cap Block(w) = {} /\ "VARIANT" \notin Block(w)
  BY DEF Block
<1>4. CASE of \in {"BSTR", "DECIMAL"}
  <2> HIDE DEF of, dims
  <2>1. c = [n \in 1..Size(dims) |-> <<Kind(of), x[4][n][2]>>]
    BY <1>4 DEF ElementCells
  <2>2. c = [n \in 1..Size(dims) |-> c[n]] /\ \A n \in 1..Size(dims) : c[n] = <<Kind(of), x[4][n][2]>>
    BY <2>1
  <2> HIDE DEF c
  <2>3. IsSeq(c) /\ Len(c) = Size(dims)
    BY <1>1, <2>2, FcnSeq
  <2>4. IsSeq(c) /\ Len(c) = Size(dims) /\ (\A n \in 1..Size(dims) : c[n] = <<Kind(of), x[4][n][2]>>)
        /\ of \notin Block(w) /\ of # "VARIANT"
    BY <1>3, <1>4, <2>2, <2>3
  <2> QED  BY <2>4, <1>2 DEF c, of, dims
<1>5. CASE of \in Block(w) /\ Size(dims) > 0
  <2> HIDE DEF of, dims
  <2>1. c = <<<<"block", [n \in 1..Size(dims) |-> x[4][InMemory(w, dims)[n]]]>>>>
    BY <1>5, <1>3 DEF ElementCells
  <2> HIDE DEF c
  <2>2. IsSeq(c) /\ Len(c) = 1 /\ c[1] = <<"block", [n \in 1..Size(dims) |-> x[4][InMemory(w, dims)[n]]]>>
    BY <2>1, LitsOf
  <2>3. of \notin {"BSTR", "DECIMAL"} /\ of # "VARIANT" /\ Size(dims) # 0
    BY <1>1, <1>3, <1>5
  <2> QED  BY <2>2, <2>3, <1>2 DEF c, of, dims
<1>6. CASE of \notin {"BSTR", "DECIMAL"} /\ ~ (of \in Block(w) /\ Size(dims) > 0)
  <2> HIDE DEF of, dims
  <2>1. c = <<>>
    BY <1>6 DEF ElementCells
  <2> HIDE DEF c
  <2>2. IsSeq(c) /\ Len(c) = 0
    BY <2>1, LitsOf
  <2> QED  BY <2>2, <1>6, <1>2 DEF c, of, dims
<1> QED  BY <1>4, <1>5, <1>6

\* The cells of an array.
LEMMA ArrayWritten ==
  ASSUME NEW w \in Servers, NEW x, IsArray(w, x), Writable(w, x[2], x[3]), NEW st, NEW q \in Nat,
         Holds(st, q, ArrayCells(w, x[2], x[3], x[4]))
  PROVE  LET of == VtOf(w, x[2])
             c == ArrayCells(w, x[2], x[3], x[4])
             e == ElementCells(w, of, x[3], x[4])
         IN  /\ IsSeq(c) /\ Len(c) >= 2
             /\ q \in DOMAIN st /\ st[q] = <<"array", of, Len(x[3])>>
             /\ q + 1 \in DOMAIN st /\ st[q + 1] = <<"string", TypeName(w, x[2])>>
             /\ x[3] = <<>> => Len(c) = 2
             /\ x[3] # <<>> => /\ q + 2 \in DOMAIN st /\ st[q + 2] = <<"bounds", x[3]>>
                               /\ Len(c) = 3 + Len(e)
                               /\ Holds(st, q + 3, e)
<1> DEFINE of == VtOf(w, x[2])
           c == ArrayCells(w, x[2], x[3], x[4])
           e == ElementCells(w, of, x[3], x[4])
           tn == TypeName(w, x[2])
<1>1. CASE x[3] = <<>>
  <2>1. Len(x[3]) = 0
    BY <1>1, Lits
  <2>2. c = <<<<"array", of, 0>>, <<"string", tn>>>>
    BY <1>1 DEF ArrayCells, TypeName
  <2> HIDE DEF c, of, tn, e
  <2>3. /\ q \in DOMAIN st /\ st[q] = <<"array", of, 0>>
        /\ q + 1 \in DOMAIN st /\ st[q + 1] = <<"string", tn>>
    <3>1. Holds(st, q, c)
      BY DEF c
    <3> QED  BY <3>1, <2>2, HoldsLits
  <2>4. IsSeq(c) /\ Len(c) = 2
    BY <2>2, LitsOf
  <2>5. st[q] = <<"array", of, Len(x[3])>>
    BY <2>1, <2>3
  <2>6. /\ IsSeq(c) /\ Len(c) >= 2
        /\ q \in DOMAIN st /\ st[q] = <<"array", of, Len(x[3])>>
        /\ q + 1 \in DOMAIN st /\ st[q + 1] = <<"string", tn>>
        /\ Len(c) = 2
    BY <2>3, <2>4, <2>5
  <2> QED  BY ONLY <1>1, <2>6 DEF c, of, tn, e
<1>2. CASE x[3] # <<>>
  <2> DEFINE h == <<<<"array", of, Len(x[3])>>, <<"string", tn>>, <<"bounds", x[3]>>>>
  <2>1. c = h \o e
    BY <1>2 DEF ArrayCells, TypeName
  <2>2. IsSeq(e)
    BY <1>2, ElementsWritten
  <2>0. Holds(st, q, c)
    OBVIOUS
  <2> HIDE DEF c, of, tn, e
  <2>3. IsSeq(h) /\ Len(h) = 3
    <3> DEFINE hh == h
    <3>1. hh = <<<<"array", of, Len(x[3])>>, <<"string", tn>>, <<"bounds", x[3]>>>>
      OBVIOUS
    <3> HIDE DEF hh
    <3>2. IsSeq(hh) /\ Len(hh) = 3
      BY <3>1, LitsOf
    <3> QED  BY <3>2 DEF hh
  <2>4. Holds(st, q, h)
    <3> HIDE DEF h
    <3> QED  BY <2>0, <2>1, <2>2, <2>3, HoldsCat
  <2>5. Holds(st, q + 3, e)
    <3> HIDE DEF h
    <3> QED  BY <2>0, <2>1, <2>2, <2>3, HoldsCat
  <2>6. IsSeq(c) /\ Len(c) = 3 + Len(e) /\ Len(e) \in Nat
    <3> HIDE DEF h
    <3>1. IsSeq(h \o e) /\ Len(h \o e) = Len(h) + Len(e)
      BY <2>2, <2>3, CatSeq
    <3>2. Len(e) \in Nat
      BY <2>2, IsSeqDomain
    <3> QED  BY <2>1, <2>3, <3>1, <3>2
  <2>7. /\ q \in DOMAIN st /\ st[q] = <<"array", of, Len(x[3])>>
        /\ q + 1 \in DOMAIN st /\ st[q + 1] = <<"string", tn>>
        /\ q + 2 \in DOMAIN st /\ st[q + 2] = <<"bounds", x[3]>>
    BY <2>4, HoldsLits
  <2> QED  BY <1>2, <2>5, <2>6, <2>7 DEF c, of, tn, e
<1> QED  BY <1>1, <1>2

----------------------------------------------------------------------------
(* Reading arrays *)

\* The elements are cells of their own, from p on.
OneAfterTheOther(st, p, of, dims, els) ==
    \A n \in 1..Size(dims) : /\ p + n - 1 \in DOMAIN st /\ st[p + n - 1] = <<Kind(of), els[n][2]>>
                             /\ els[n] = <<of, els[n][2]>>

\* Strings and decimals, one by one.
LEMMA ElementsRead ==
  ASSUME NEW st, NEW p \in Nat, NEW of, NEW dims, Size(dims) \in Nat,
         NEW els, IsSeq(els), Len(els) = Size(dims),
         OneAfterTheOther(st, p, of, dims, els)
  PROVE  ReadElements(of, dims, st, p) = Read("S_OK", <<"ARRAY", of, dims, els>>, p + Size(dims))
<1> DEFINE good == {n \in 1..Size(dims) : \A m \in 1..n : At(st, p + m - 1, Kind(of))}
<1>1. \A n \in 1..Size(dims) : p + n - 1 \in DOMAIN st /\ st[p + n - 1] = <<Kind(of), els[n][2]>>
  BY DEF OneAfterTheOther
<1>2. \A n \in 1..Size(dims) : At(st, p + n - 1, Kind(of)) /\ <<of, st[p + n - 1][2]>> = els[n]
  BY <1>1 DEF At, OneAfterTheOther
<1>3. good = 1..Size(dims)
  <2>1. \A n \in 1..Size(dims) : \A m \in 1..n : m \in 1..Size(dims)
    OBVIOUS
  <2> QED  BY <2>1, <1>2
<1>4. Cardinality(1..Size(dims)) = Size(dims)
  <2>0. Size(dims) \in Int /\ 1 \in Int
    OBVIOUS
  <2>1. /\ IsFiniteSet(1..Size(dims))
        /\ Cardinality(1..Size(dims)) = IF 1 > Size(dims) THEN 0 ELSE Size(dims) - 1 + 1
    BY ONLY <2>0, FS_Interval
  <2> QED  BY <2>1
<1>5. [n \in 1..Size(dims) |-> IF n \in good THEN <<of, st[p + n - 1][2]>> ELSE Empty] = els
  <2>1. els = [n \in 1..Size(dims) |-> els[n]]
    BY DEF IsSeq
  <2> HIDE DEF good
  <2> QED  BY <1>2, <1>3, <2>1
<1>6. ReadElements(of, dims, st, p) =
         Read(IF good = 1..Size(dims) THEN "S_OK" ELSE "E_FAIL",
              <<"ARRAY", of, dims, [n \in 1..Size(dims) |-> IF n \in good THEN <<of, st[p + n - 1][2]>> ELSE Empty]>>,
              p + Cardinality(good))
  BY DEF ReadElements
<1> HIDE DEF good
<1> QED  BY <1>3, <1>4, <1>5, <1>6

\* An array that follows its type.
LEMMA ArrayRead ==
  ASSUME NEW w \in Servers, NEW s \in Servers, NEW x, IsArray(w, x), Writable(w, x[2], x[3]),
         NEW isSerialized \in BOOLEAN, NEW st, NEW q \in Nat,
         Holds(st, q, ArrayCells(w, x[2], x[3], x[4]))
  PROVE  LET c == ArrayCells(w, x[2], x[3], x[4])
             one == ReadArray(s, st, q)
         IN  /\ Faithful(s, x, isSerialized, one, q + Len(c))
             /\ PortableNode(x) \/ OwnNode(w, s, x, isSerialized) =>
                   one.hr = "S_OK" /\ one.x = x
<1> DEFINE c == ArrayCells(w, x[2], x[3], x[4])
           one == ReadArray(s, st, q)
           vt == VtOf(w, x[2])
           e == ElementCells(w, vt, x[3], x[4])
           tag == x[2]
           dims == x[3]
           of == TypeRead(s, tag)
           Goal == /\ Faithful(s, x, isSerialized, one, q + Len(c))
                   /\ PortableNode(x) \/ OwnNode(w, s, x, isSerialized) =>
                         one.hr = "S_OK" /\ one.x = x
<1> SUFFICES Goal
  OBVIOUS
<1>1. /\ IsSeq(c) /\ Len(c) >= 2
      /\ q \in DOMAIN st /\ st[q] = <<"array", vt, Len(dims)>>
      /\ q + 1 \in DOMAIN st /\ st[q + 1] = <<"string", TypeName(w, tag)>>
      /\ dims = <<>> => Len(c) = 2
      /\ dims # <<>> => /\ q + 2 \in DOMAIN st /\ st[q + 2] = <<"bounds", dims>>
                        /\ Len(c) = 3 + Len(e)
                        /\ Holds(st, q + 3, e)
  BY ArrayWritten
<1>2. /\ x = <<"ARRAY", tag, dims, x[4]>> /\ x[1] = "ARRAY"
      /\ tag \in Tags(w) /\ IsDims(dims) /\ IsSeq(x[4])
      /\ Len(x[4]) = IF tag \in {"VARIANT"} \cup Classes THEN 0 ELSE Size(dims)
      /\ tag \in {"BSTR", "DECIMAL"} => \A n \in 1..Len(x[4]) : x[4][n] = <<tag, x[4][n][2]>>
  BY DEF IsArray, IsDims
<1>3. Size(dims) \in Nat
  BY <1>2, SizeNat
<1>4. Len(dims) = 0 <=> dims = <<>>
  BY <1>2, Lits, SameSeq DEF IsDims
<1>5. /\ TypeOf(s, vt, TypeName(w, tag)) = of
      /\ vt = "VARIANT" <=> tag \in {"VARIANT"} \cup Classes
      /\ vt # "VARIANT" => vt = tag
      /\ vt # tag => tag \in Classes /\ w \in Net
      /\ vt \in Block("classic") \cup OneByOne
      /\ tag \in {"I1", "CY"} => w \notin Net
      /\ s \in Net /\ tag # "I1" => of \in Tags(s)
  BY <1>2, Types
<1>6. one =
        CASE s = "classic" /\ of # vt -> Fails(q + 2)
          [] s \in Net /\ vt = "I1" -> Fails(q + 2)
          [] s = "classic" /\ of = vt /\ dims = <<>> -> Read("S_OK", Empty, q + 2)
          [] s \in Net /\ vt # "I1" /\ dims = <<>> -> Read("S_OK", <<"ARRAY", of, << 0 >>, <<>>>>, q + 2)
          [] OTHER ->
                IF vt = "VARIANT" \/ Size(dims) = 0
                THEN Read("S_OK", <<"ARRAY", of, dims, <<>>>>, q + 3)
                ELSE IF vt \in OneByOne THEN ReadElements(vt, dims, st, q + 3)
                ELSE IF vt \in Block(s) THEN ReadBlock(s, vt, dims, st, q + 3)
                ELSE IF s = "classic"
                THEN Read("S_OK", <<"ARRAY", vt, dims, [n \in 1..Size(dims) |-> Empty]>>, q + 3)
                ELSE Fails(q + 3)
  <2>1. st[q][2] = vt /\ st[q][3] = Len(dims) /\ st[q + 1][2] = TypeName(w, tag)
    BY <1>1
  <2>2. TypeOf(s, st[q][2], st[q + 1][2]) = of
    <3> HIDE DEF vt, tag, of, dims
    <3> QED  BY <2>1, <1>5
  <2>3. (IF st[q][3] = 0 THEN <<>> ELSE st[q + 2][2]) = dims
    BY <2>1, <1>1, <1>4
  <2> HIDE DEF vt, tag, dims, of
  <2> QED  BY <2>1, <2>2, <2>3 DEF ReadArray, one
<1>7. s = "classic" \/ s \in Net
  BY DEF Servers, Net
<1>8. s = "classic" => s \notin Net
  BY DEF Net
<1>9. PortableNode(x) \/ OwnNode(w, s, x, isSerialized) => dims # <<>>
  BY <1>2 DEF PortableNode, OwnNode, Scalars, Fixed
<1>10. /\ s \notin Net => of = tag
       /\ of # tag => tag = "CY" /\ of = "CURRENCY" /\ s \in Net
       /\ PortableNode(x) \/ OwnNode(w, s, x, isSerialized) => of = tag /\ ~ (s \in Net /\ vt = "I1")
  <2>1. PortableNode(x) => tag \notin {"I1", "CY"}
    BY <1>2 DEF PortableNode, Scalars, Fixed, Block, OneByOne
  <2>2. OwnNode(w, s, x, isSerialized) /\ s \in Net => w \in Net
    BY DEF OwnNode, Alike
  <2>3. vt = "I1" => tag = "I1"
    BY <1>5
  <2> HIDE DEF vt, tag
  <2> QED  BY <2>1, <2>2, <2>3, <1>5 DEF TypeRead
<1>11. /\ dims = <<>> => q + Len(c) = q + 2
       /\ dims # <<>> => q + Len(c) = q + 3 + Len(e)
  <2>1. dims # <<>> => Len(e) \in Nat
    BY ElementsWritten, IsSeqDomain
  <2> HIDE DEF c, e, dims
  <2>2. dims # <<>> => Len(c) = 3 + Len(e)
    BY <1>1
  <2>3. dims = <<>> => Len(c) = 2
    BY <1>1
  <2>4. CASE dims = <<>>
    BY <2>3, <2>4
  <2>5. CASE dims # <<>>
    <3>1. Len(e) \in Nat /\ Len(c) = 3 + Len(e)
      BY <2>1, <2>2, <2>5
    <3>2. q + Len(c) = q + 3 + Len(e)
      BY <3>1
    <3> QED  BY <3>2, <2>5
  <2> QED  BY <2>4, <2>5
<1> HIDE DEF c, one, e, vt, tag, dims, of
<1>12. CASE s \in Net /\ vt = "I1"
  <2>1. one = Fails(q + 2)
    BY <1>6, <1>8, <1>12
  <2> QED  BY <1>12, <1>10, <2>1 DEF Faithful, Fails, Read
<1>13. CASE s = "classic" /\ tag # vt
  <2>1. one = Fails(q + 2)
    BY <1>6, <1>8, <1>13, <1>10
  <2>2. ~ OwnNode(w, s, x, isSerialized)
    BY <1>13, <1>5, <1>8 DEF OwnNode, Alike
  <2>3. ~ PortableNode(x)
    BY <1>2, <1>5, <1>13 DEF PortableNode, Scalars, Fixed, Classes, Block, OneByOne, tag
  <2> QED  BY <2>1, <2>2, <2>3 DEF Faithful, Fails, Read
<1>14. CASE s = "classic" /\ tag = vt /\ dims = <<>>
  <2>1. one = Read("S_OK", Empty, q + 2)
    BY <1>6, <1>8, <1>14, <1>10
  <2>2. IsNode(s, Empty) /\ Children(Empty) = 0 /\ Empty[1] # "DISPATCH"
    BY DEF Empty, IsNode, IsScalar, Children
  <2>3. Children(x) = 0
    BY <1>14, NoBounds DEF Children, dims
  <2> QED  BY <1>9, <1>11, <1>14, <2>1, <2>2, <2>3 DEF Faithful, Read
<1>15. CASE s \in Net /\ vt # "I1" /\ dims = <<>>
  <2> DEFINE y == <<"ARRAY", of, << 0 >>, <<>>>>
  <2>1. one = Read("S_OK", y, q + 2)
    BY <1>6, <1>8, <1>15
  <2>2. y = <<"ARRAY", y[2], y[3], y[4]>> /\ y[1] = "ARRAY" /\ y[2] = of /\ y[3] = << 0 >> /\ y[4] = <<>>
    OBVIOUS
  <2> HIDE DEF y
  <2>3. of \in Tags(s)
    <3>1. tag # "I1"
      BY <1>2, <1>5, <1>15 DEF Classes
    <3> QED  BY <1>5, <1>15, <3>1
  <2>4. IsArray(s, y)
    BY <2>2, <2>3, NoBounds, Lits DEF IsArray, IsDims
  <2>5. Children(y) = 0 /\ Children(x) = 0
    BY <2>2, <1>15, NoBounds DEF Children, dims
  <2> QED  BY <1>9, <1>11, <1>15, <2>1, <2>2, <2>4, <2>5 DEF Faithful, Read, IsNode
<1>16. CASE dims # <<>> /\ ~ (s = "classic" /\ tag # vt) /\ ~ (s \in Net /\ vt = "I1")
  <2>1. one = IF vt = "VARIANT" \/ Size(dims) = 0
              THEN Read("S_OK", <<"ARRAY", of, dims, <<>>>>, q + 3)
              ELSE IF vt \in OneByOne THEN ReadElements(vt, dims, st, q + 3)
              ELSE IF vt \in Block(s) THEN ReadBlock(s, vt, dims, st, q + 3)
              ELSE IF s = "classic"
              THEN Read("S_OK", <<"ARRAY", vt, dims, [n \in 1..Size(dims) |-> Empty]>>, q + 3)
              ELSE Fails(q + 3)
    BY <1>6, <1>8, <1>16, <1>10
  <2>2. /\ IsSeq(e)
        /\ vt \in {"BSTR", "DECIMAL"} =>
              Len(e) = Size(dims) /\ \A n \in 1..Size(dims) : e[n] = <<Kind(vt), x[4][n][2]>>
        /\ vt \in Block(w) /\ Size(dims) > 0 =>
              Len(e) = 1 /\ e[1] = <<"block", [n \in 1..Size(dims) |-> x[4][InMemory(w, dims)[n]]]>>
        /\ vt = "VARIANT" \/ Size(dims) = 0 => Len(e) = 0
        /\ vt = "VARIANT" \/ vt \in {"BSTR", "DECIMAL"} \/ vt \in Block(w) \/ Size(dims) = 0
    BY <1>16, ElementsWritten DEF e, vt, dims
  <2>3. of \in Tags(s)
    <3>1. CASE s = "classic"
      BY <1>5, <1>8, <1>16, <1>10, <3>1 DEF Tags
    <3>2. CASE s \in Net
      <4>1. tag # "I1"
        BY <1>2, <1>5, <1>16, <3>2 DEF Classes
      <4> QED  BY <1>5, <3>2, <4>1
    <3> QED  BY <1>7, <3>1, <3>2
  <2>4. ASSUME NEW els, IsSeq(els), one = Read("S_OK", <<"ARRAY", of, dims, els>>, q + 3 + Len(e)),
               Len(els) = IF of \in {"VARIANT"} \cup Classes THEN 0 ELSE Size(dims),
               of = tag \/ Size(dims) = 0,
               of \in {"BSTR", "DECIMAL"} => \A n \in 1..Len(els) : els[n] = <<of, els[n][2]>>,
               PortableNode(x) \/ OwnNode(w, s, x, isSerialized) => els = x[4]
        PROVE  Goal
    <3> DEFINE y == <<"ARRAY", of, dims, els>>
    <3>1. y = <<"ARRAY", y[2], y[3], y[4]>> /\ y[1] = "ARRAY" /\ y[2] = of /\ y[3] = dims /\ y[4] = els
      OBVIOUS
    <3>2. one.hr = "S_OK" /\ one.x = y /\ one.p = q + 3 + Len(e)
      BY <2>4 DEF Read
    <3>3. PortableNode(x) \/ OwnNode(w, s, x, isSerialized) => y = x
      BY <2>4, <1>2, <1>10
    <3> HIDE DEF y
    <3>4. IsArray(s, y)
      BY <3>1, <2>3, <2>4, <1>2 DEF IsArray, IsDims
    <3>5. Children(y) = Children(x)
      BY <3>1, <2>4, <1>2, <1>3 DEF Children, tag, dims
    <3> QED  BY <3>1, <3>2, <3>3, <3>4, <3>5, <1>11, <1>16 DEF Faithful, IsNode
  <2>5. CASE vt = "VARIANT" \/ Size(dims) = 0
    <3>1. Len(e) = 0 /\ q + 3 + Len(e) = q + 3
      BY <2>2, <2>5
    <3>2. one = Read("S_OK", <<"ARRAY", of, dims, <<>>>>, q + 3 + Len(e))
      BY <2>1, <2>5, <3>1
    <3>3. Len(x[4]) = 0
      BY <1>2, <1>5, <2>5
    <3>4. IsSeq(<<>>) /\ Len(<<>>) = 0
      BY Lits
    <3>5. x[4] = <<>>
      BY <3>3, <3>4, <1>2, SameSeq
    <3>6. of = tag \/ Size(dims) = 0
      BY <1>5, <1>10, <2>5 DEF Classes
    <3>7. Len(<<>>) = IF of \in {"VARIANT"} \cup Classes THEN 0 ELSE Size(dims)
      BY <3>3, <3>4, <3>5, <3>6, <1>2
    <3> QED  BY <3>2, <3>4, <3>5, <3>6, <3>7, <2>4
  <2>6. CASE vt \in {"BSTR", "DECIMAL"} /\ Size(dims) # 0
    <3>1. vt = tag /\ vt \in OneByOne /\ vt # "VARIANT" /\ of = tag
      BY <1>5, <1>10, <2>6 DEF OneByOne
    <3>2. one = ReadElements(tag, dims, st, q + 3)
      BY <2>1, <2>6, <3>1
    <3>3. Len(x[4]) = Size(dims)
      BY <1>2, <1>5, <3>1
    <3>4. Holds(st, q + 3, e)
      BY <1>1, <1>16
    <3>5. /\ Len(e) = Size(dims) /\ \A n \in 1..Size(dims) : e[n] = <<Kind(tag), x[4][n][2]>>
          /\ \A n \in 1..Len(x[4]) : x[4][n] = <<tag, x[4][n][2]>>
      BY <2>2, <2>6, <3>1, <1>2
    <3>6. one = Read("S_OK", <<"ARRAY", tag, dims, x[4]>>, q + 3 + Size(dims))
      <4>1. q + 3 \in Nat /\ tag \in {"BSTR", "DECIMAL"}
        BY <2>6, <3>1
      <4>2. ReadElements(tag, dims, st, q + 3) = Read("S_OK", <<"ARRAY", tag, dims, x[4]>>, q + 3 + Size(dims))
        <5>1. IsSeq(e) /\ IsSeq(x[4])
          BY <2>2, <1>2
        <5>2. OneAfterTheOther(st, q + 3, tag, dims, x[4])
          BY <3>3, <3>4, <3>5 DEF OneAfterTheOther, Holds
        <5> QED  BY <4>1, <5>1, <5>2, <3>3, <1>3, ElementsRead
      <4> QED  BY <4>2, <3>2
    <3>7. one = Read("S_OK", <<"ARRAY", of, dims, x[4]>>, q + 3 + Len(e))
      BY <3>1, <3>5, <3>6
    <3>8. Len(x[4]) = IF of \in {"VARIANT"} \cup Classes THEN 0 ELSE Size(dims)
      BY <2>6, <3>1, <3>3 DEF Classes
    <3> QED  BY <3>1, <3>5, <3>7, <3>8, <2>4, <1>2
  <2>7. CASE vt \in Block(w) /\ Size(dims) # 0
    <3>1. vt \notin OneByOne /\ vt # "VARIANT" /\ vt = tag
      <4>1. vt \notin OneByOne /\ vt # "VARIANT"
        BY <2>7 DEF Block, OneByOne
      <4> QED  BY <4>1, <1>5
    <3>2. CASE vt \in Block(s)
      <4> DEFINE b == [n \in 1..Size(dims) |-> x[4][InMemory(w, dims)[n]]]
                 els == [n \in 1..Size(dims) |-> b[CHOOSE m \in 1..Size(dims) : InMemory(s, dims)[m] = n]]
      <4>1. Len(e) = 1 /\ e[1] = <<"block", b>>
        BY <2>2, <2>7, <1>3
      <4>2. q + 3 \in DOMAIN st /\ st[q + 3] = e[1]
        <5>1. Holds(st, q + 3, e) /\ 1 \in 1..Len(e) /\ q + 3 + 1 - 1 = q + 3
          BY <1>1, <1>16, <4>1
        <5> QED  BY <5>1 DEF Holds
      <4>3. st[q + 3][2] = b
        <5> HIDE DEF b
        <5> QED  BY <4>1, <4>2
      <4>4. one = ReadBlock(s, tag, dims, st, q + 3)
        BY <2>1, <2>7, <3>1, <3>2
      <4>5. one = Read("S_OK", <<"ARRAY", tag, dims, els>>, q + 3 + Len(e))
        <5>1. q + 3 + 1 = q + 3 + Len(e)
          BY <4>1
        <5> HIDE DEF b
        <5> QED  BY <5>1, <4>3, <4>4, <2>7 DEF ReadBlock
      <4>6. els = [n \in 1..Size(dims) |-> els[n]]
        OBVIOUS
      <4>7. IsSeq(els) /\ Len(els) = Size(dims)
        <5> HIDE DEF els
        <5> QED  BY <4>6, <1>3, FcnSeq
      <4>8. Len(x[4]) = Size(dims) /\ tag \notin {"VARIANT"} \cup Classes
        BY <3>1, <1>2, <1>5
      <4>9. PortableNode(x) \/ OwnNode(w, s, x, isSerialized) => els = x[4]
        <5>1. SUFFICES ASSUME PortableNode(x) \/ OwnNode(w, s, x, isSerialized) PROVE els = x[4]
          OBVIOUS
        <5>2. Len(dims) = 1 \/ Alike(w, s)
          <6>1. CASE OwnNode(w, s, x, isSerialized)
            BY <6>1 DEF OwnNode
          <6>2. CASE PortableNode(x)
            BY <6>2, <3>1, <1>2 DEF PortableNode, Scalars, Fixed, tag, dims
          <6> QED  BY <5>1, <6>1, <6>2
        <5> QED  BY <5>2, <1>2, <1>16, <4>8, BlockBack
      <4>10. tag \notin {"BSTR", "DECIMAL"} /\ of = tag
        BY <1>10, <3>1, <3>2 DEF OneByOne, Block, Net
      <4> HIDE DEF els, b
      <4> QED  BY <4>5, <4>7, <4>8, <4>9, <4>10, <2>4
    <3>3. CASE vt \notin Block(s)
      <4>1. s # "classic" /\ vt \in Block("classic")
        BY <3>1, <3>3, <1>5
      <4>2. one = Fails(q + 3)
        BY <2>1, <2>7, <3>1, <3>3, <4>1
      <4>3. ~ OwnNode(w, s, x, isSerialized)
        BY <4>1, <3>3, <2>7 DEF OwnNode, Alike, Net, Block
      <4>4. ~ PortableNode(x)
        BY <1>2, <3>1, <3>3, <4>1 DEF PortableNode, Scalars, Fixed, Block, tag
      <4> QED  BY <4>2, <4>3, <4>4 DEF Faithful, Fails, Read
    <3> QED  BY <3>2, <3>3
  <2> QED  BY <2>2, <2>5, <2>6, <2>7
<1> QED  BY <1>7, <1>12, <1>13, <1>14, <1>15, <1>16 DEF c, one

----------------------------------------------------------------------------
(* Nodes *)

\* What is written of a node after its type.
Rest(w, x, isSerialized) ==
    CASE x[1] = "ARRAY"                        -> ArrayCells(w, x[2], x[3], x[4])
      [] x[1] \in {"EMPTY", "NULL"}            -> <<>>
      [] x[1] = "BSTR"                         -> <<<<"string", x[2]>>>>
      [] x[1] \in {"DISPATCH"} \cup Classes    -> ObjectCells(w, x, isSerialized)
      [] OTHER                                 -> <<<<"fixed", x[2]>>>>

\* A node's cells: its type, and the rest.
LEMMA NodeCellsAre ==
  ASSUME NEW w, NEW x, NEW isSerialized, IsSeq(Rest(w, x, isSerialized)), NEW st, NEW p \in Nat,
         Holds(st, p, NodeCells(w, x, isSerialized))
  PROVE  /\ IsSeq(NodeCells(w, x, isSerialized))
         /\ Len(NodeCells(w, x, isSerialized)) = 1 + Len(Rest(w, x, isSerialized))
         /\ p \in DOMAIN st /\ st[p] = <<"vt", VtOf(w, x[1])>>
         /\ Holds(st, p + 1, Rest(w, x, isSerialized))
<1> DEFINE h == <<<<"vt", VtOf(w, x[1])>>>>
           d == Rest(w, x, isSerialized)
           c == NodeCells(w, x, isSerialized)
<1>1. c = h \o d
  BY DEF NodeCells, Rest
<1>2. h = <<<<"vt", VtOf(w, x[1])>>>>
  OBVIOUS
<1>3. Holds(st, p, c) /\ IsSeq(d)
  OBVIOUS
<1> HIDE DEF h, d, c
<1>4. IsSeq(h) /\ Len(h) = 1
  BY <1>2, LitsOf
<1>5. IsSeq(h \o d) /\ Len(h \o d) = Len(h) + Len(d)
  BY <1>3, <1>4, CatSeq
<1>6. Holds(st, p, h) /\ Holds(st, p + Len(h), d)
  BY <1>1, <1>3, <1>4, HoldsCat
<1>7. p \in DOMAIN st /\ st[p] = <<"vt", VtOf(w, x[1])>>
  BY <1>2, <1>6, HoldsLits
<1> QED  BY <1>1, <1>4, <1>5, <1>6, <1>7 DEF c, d

\* A scalar that follows its type.
LEMMA ScalarRead ==
  ASSUME NEW w \in Servers, NEW s \in Servers, NEW x, IsScalar(w, x), NEW isSerialized \in BOOLEAN,
         NEW st, NEW q \in Nat, Holds(st, q, Rest(w, x, isSerialized))
  PROVE  LET c == Rest(w, x, isSerialized)
             one == ReadNode(s, VtOf(w, x[1]), st, q)
         IN  /\ IsSeq(c)
             /\ Faithful(s, x, isSerialized, one, q + Len(c))
             /\ PortableNode(x) \/ OwnNode(w, s, x, isSerialized) =>
                   one.hr = "S_OK" /\ SameMeaning(one.x, x, isSerialized)
<1> DEFINE c == Rest(w, x, isSerialized)
           one == ReadNode(s, VtOf(w, x[1]), st, q)
           Goal == /\ IsSeq(c)
                   /\ Faithful(s, x, isSerialized, one, q + Len(c))
                   /\ PortableNode(x) \/ OwnNode(w, s, x, isSerialized) =>
                         one.hr = "S_OK" /\ SameMeaning(one.x, x, isSerialized)
<1> SUFFICES Goal
  OBVIOUS
<1>1. /\ x = <<x[1], x[2]>> /\ x[1] \in {"EMPTY", "NULL", "BSTR"} \cup Fixed(w)
      /\ x[1] \in {"EMPTY", "NULL"} => x[2] = 0
  BY DEF IsScalar
<1>2. VtOf(w, x[1]) = x[1] /\ x[1] \notin {"ARRAY", "DISPATCH", "UNKNOWN", "VARIANT"} \cup Classes
  BY <1>1 DEF VtOf, Classes, Fixed
<1>3. Children(x) = 0
  BY <1>2 DEF Children
<1>4. (s = "classic" /\ s \notin Net) \/ (s # "classic" /\ s \in Net)
  BY DEF Servers, Net
<1>5. ASSUME NEW y, IsNode(s, y), y[1] \notin {"ARRAY", "DISPATCH"}, one = Read("S_OK", y, q + Len(c)), IsSeq(c),
             \A i, j : NodeMeaning(y, i) = NodeMeaning(x, j)
      PROVE  Goal
  <2>1. one.hr = "S_OK" /\ one.x = y /\ one.p = q + Len(c)
    BY <1>5 DEF Read
  <2> HIDE DEF one, c
  <2>2. Children(y) = 0
    BY <1>5 DEF Children
  <2>3. SameMeaning(y, x, isSerialized)
    BY <1>2, <1>5 DEF SameMeaning
  <2> QED  BY <1>3, <1>5, <2>1, <2>2, <2>3 DEF Faithful
<1>6. CASE x[1] \in {"EMPTY", "NULL"}
  <2>1. c = <<>>
    BY <1>2, <1>6 DEF Rest
  <2>2. one = Read("S_OK", x, q)
    BY <1>1, <1>2, <1>6 DEF ReadNode, Fixed
  <2>3. IsNode(s, x) /\ \A i, j : NodeMeaning(x, i) = NodeMeaning(x, j)
    BY <1>1, <1>2, <1>6 DEF IsNode, IsScalar, NodeMeaning, Classes
  <2>4. IsSeq(c) /\ q + Len(c) = q
    <3> HIDE DEF c
    <3>1. IsSeq(c) /\ Len(c) = 0
      BY <2>1, LitsOf
    <3> QED  BY <3>1
  <2> HIDE DEF one, c, Goal
  <2> QED  BY <1>2, <1>5, <2>2, <2>3, <2>4
<1>7. CASE x[1] = "BSTR"
  <2>1. c = <<<<"string", x[2]>>>>
    BY <1>2, <1>7 DEF Rest
  <2>2. q \in DOMAIN st /\ st[q] = <<"string", x[2]>>
    BY <2>1, HoldsLits
  <2>3. one = Read("S_OK", x, q + 1)
    BY <1>1, <1>2, <1>7, <2>2 DEF ReadNode, At, Fixed
  <2>4. IsNode(s, x) /\ \A i, j : NodeMeaning(x, i) = NodeMeaning(x, j)
    BY <1>1, <1>2, <1>7 DEF IsNode, IsScalar, NodeMeaning, Classes
  <2>5. IsSeq(c) /\ q + Len(c) = q + 1
    <3> HIDE DEF c
    <3> QED  BY <2>1, LitsOf
  <2> HIDE DEF one, c, Goal
  <2> QED  BY <1>2, <1>5, <2>3, <2>4, <2>5
<1>8. CASE x[1] \in Fixed(w)
  <2>0. x[1] \notin {"EMPTY", "NULL", "BSTR"}
    BY <1>8 DEF Fixed
  <2>1. c = <<<<"fixed", x[2]>>>>
    BY <1>2, <2>0 DEF Rest
  <2>2. q \in DOMAIN st /\ st[q] = <<"fixed", x[2]>>
    BY <2>1, HoldsLits
  <2>5. IsSeq(c) /\ q + Len(c) = q + 1
    <3> HIDE DEF c
    <3> QED  BY <2>1, LitsOf
  <2>6. CASE x[1] \in Fixed(s)
    <3> DEFINE y == ReadFixed(s, x[1], x[2])
    <3>1. one = Read("S_OK", y, q + 1)
      BY <1>2, <2>0, <2>2, <2>6 DEF ReadNode, At
    <3>2. \/ y = <<"I4", x[2]>> /\ s \in Net /\ x[1] = "UI1"
          \/ y = <<"CURRENCY", x[2]>> /\ s \in Net /\ x[1] = "CY"
          \/ y = x
      BY <1>1 DEF ReadFixed
    <3> HIDE DEF y, one, c, Goal
    <3>3. IsNode(s, y) /\ y[1] \notin {"ARRAY", "DISPATCH"}
      <4>1. CASE y = <<"I4", x[2]>>
        BY <4>1 DEF IsNode, IsScalar, Fixed
      <4>2. CASE y = <<"CURRENCY", x[2]>> /\ s \in Net
        BY <4>2, <1>4 DEF IsNode, IsObject, Classes
      <4>3. CASE y = x
        BY <4>3, <1>1, <1>2, <2>0, <2>6 DEF IsNode, IsScalar
      <4> QED  BY <3>2, <4>1, <4>2, <4>3
    <3>4. \A i, j : NodeMeaning(y, i) = NodeMeaning(x, j)
      <4>1. CASE y = <<"I4", x[2]>> /\ x[1] = "UI1"
        <5>1. \A i : NodeMeaning(x, i) = <<"I4", x[2]>>
          BY <4>1 DEF NodeMeaning, Classes
        <5>2. y[1] = "I4"
          BY <4>1
        <5>3. \A i : NodeMeaning(y, i) = y
          BY <5>2 DEF NodeMeaning, Classes
        <5> QED  BY <4>1, <5>1, <5>3
      <4>2. CASE y = <<"CURRENCY", x[2]>> /\ x[1] = "CY"
        <5>1. \A i : NodeMeaning(x, i) = x
          BY <4>2 DEF NodeMeaning, Classes
        <5>2. y[1] = "CURRENCY" /\ y[2] = x[2]
          BY <4>2
        <5>3. \A i : NodeMeaning(y, i) = <<"CY", x[2]>>
          BY <5>2 DEF NodeMeaning, Classes
        <5>4. x = <<"CY", x[2]>>
          BY <4>2, <1>1
        <5> QED  BY <5>1, <5>3, <5>4
      <4>3. CASE y = x
        <5>1. \A i, j : NodeMeaning(x, i) = NodeMeaning(x, j)
          BY <1>2 DEF NodeMeaning
        <5> QED  BY <4>3, <5>1
      <4> QED  BY <3>2, <4>1, <4>2, <4>3
    <3> QED  BY <1>5, <2>5, <3>1, <3>3, <3>4
  <2>7. CASE x[1] \notin Fixed(s)
    <3>1. one = Fails(q)
      BY <1>2, <2>0, <2>7 DEF ReadNode
    <3>2. ~ PortableNode(x)
      BY <1>2, <2>0, <2>7 DEF PortableNode, Scalars, Fixed
    <3>3. ~ Alike(w, s)
      BY <1>8, <2>7 DEF Alike, Fixed, Net
    <3> HIDE DEF one, c
    <3> QED  BY <2>5, <3>1, <3>2, <3>3 DEF Fails, Read, Faithful, OwnNode
  <2> QED  BY <2>6, <2>7
<1> QED  BY <1>1, <1>6, <1>7, <1>8

\* The kinds of nodes.
LEMMA IsNodeFacts ==
  ASSUME NEW w \in Servers, NEW x, IsNode(w, x)
  PROVE  /\ IsScalar(w, x) => x[1] \notin {"ARRAY", "DISPATCH"} \cup Classes
         /\ IsObject(w, x) => x[1] \in {"DISPATCH"} \cup Classes /\ (x[1] = "DISPATCH" <=> w = "classic")
         /\ IsArray(w, x) => x[1] = "ARRAY"
         /\ Children(x) \in Nat
         /\ x[1] # "ARRAY" => Children(x) = 0
         /\ x[1] = "ARRAY" => IsArray(w, x)
<1>1. IsScalar(w, x) => x[1] \notin {"ARRAY", "DISPATCH"} \cup Classes
  BY DEF IsScalar, Fixed, Classes
<1>2. IsObject(w, x) => x[1] \in {"DISPATCH"} \cup Classes /\ (x[1] = "DISPATCH" <=> w = "classic")
  BY DEF IsObject, Classes
<1>3. IsArray(w, x) => x[1] = "ARRAY" /\ IsDims(x[3])
  BY DEF IsArray, IsDims
<1>4. x[1] # "ARRAY" => Children(x) = 0
  BY DEF Children
<1>5. x[1] = "ARRAY" => IsArray(w, x)
  BY <1>1, <1>2 DEF IsNode, Classes
<1>6. x[1] = "ARRAY" => Children(x) \in Nat
  BY <1>3, <1>5, SizeNat DEF Children
<1> QED  BY <1>1, <1>2, <1>3, <1>4, <1>5, <1>6

\* The rest is a sequence.
LEMMA RestIsSeq ==
  ASSUME NEW w \in Servers, NEW x, IsNode(w, x), x[1] = "ARRAY" => Writable(w, x[2], x[3]),
         NEW isSerialized \in BOOLEAN
  PROVE  IsSeq(Rest(w, x, isSerialized))
<1> DEFINE d == Rest(w, x, isSerialized)
<1>1. CASE IsScalar(w, x)
  <2>1. x[1] \notin {"ARRAY", "DISPATCH"} \cup Classes
    BY <1>1, IsNodeFacts
  <2>2. d = <<>> \/ d = <<<<"string", x[2]>>>> \/ d = <<<<"fixed", x[2]>>>>
    BY <2>1 DEF Rest
  <2> HIDE DEF d
  <2>4. IsSeq(d)
    BY <2>2, LitsOf
  <2> QED  BY <2>4 DEF d
<1>2. CASE IsObject(w, x)
  <2>1. x[1] \in {"DISPATCH"} \cup Classes
    BY <1>2, IsNodeFacts
  <2>2. d = ObjectCells(w, x, isSerialized)
    BY <2>1 DEF Rest, Classes
  <2>3. \/ d = <<>> \/ d = <<<<"length", 0>>>>
        \/ d = <<<<"length", 1>>, <<"blob", <<"COM", x[2]>>>>>>
        \/ d = <<<<"length", 1>>, <<"blob", x>>>>
        \/ d = <<<<"length", 1>>, <<"mark", 0>>, <<"blob", x>>>>
    <3>1. x[1] = "DISPATCH" <=> w = "classic"
      BY <1>2, IsNodeFacts
    <3> QED  BY <2>1, <2>2, <3>1 DEF ObjectCells, Unserializable, Classes
  <2> HIDE DEF d
  <2>4. IsSeq(d)
    BY <2>3, LitsOf
  <2> QED  BY <2>4 DEF d
<1>3. CASE IsArray(w, x)
  <2>1. x[1] = "ARRAY"
    BY <1>3, IsNodeFacts
  <2>2. d = ArrayCells(w, x[2], x[3], x[4])
    BY <2>1 DEF Rest, Classes
  <2>3. IsSeq(ArrayCells(w, x[2], x[3], x[4]))
    <3> DEFINE of == VtOf(w, x[2])
               e == ElementCells(w, of, x[3], x[4])
               a == ArrayCells(w, x[2], x[3], x[4])
    <3>1. CASE x[3] = <<>>
      <4>1. a = <<<<"array", of, 0>>, <<"string", TypeName(w, x[2])>>>>
        BY <3>1 DEF ArrayCells, TypeName
      <4> HIDE DEF a, of
      <4>2. IsSeq(a)
        BY <4>1, LitsOf
      <4> QED  BY <4>2 DEF a
    <3>2. CASE x[3] # <<>>
      <4> DEFINE h == <<<<"array", of, Len(x[3])>>, <<"string", TypeName(w, x[2])>>, <<"bounds", x[3]>>>>
      <4>1. a = h \o e
        BY <3>2 DEF ArrayCells, TypeName
      <4>2. IsSeq(e)
        BY <1>3, <2>1, <3>2, ElementsWritten
      <4>3. h = <<<<"array", of, Len(x[3])>>, <<"string", TypeName(w, x[2])>>, <<"bounds", x[3]>>>>
        OBVIOUS
      <4> HIDE DEF h, e, a, of
      <4>4. IsSeq(h)
        BY <4>3, LitsOf
      <4>5. IsSeq(a)
        BY <4>1, <4>2, <4>4, CatSeq
      <4> QED  BY <4>5 DEF a
    <3> QED  BY <3>1, <3>2
  <2> QED  BY <2>2, <2>3
<1> QED  BY <1>1, <1>2, <1>3 DEF IsNode

\* A node has one cell or more.
LEMMA NodeIsSeq ==
  ASSUME NEW w \in Servers, NEW x, IsNode(w, x), x[1] = "ARRAY" => Writable(w, x[2], x[3]),
         NEW isSerialized \in BOOLEAN
  PROVE  IsSeq(NodeCells(w, x, isSerialized)) /\ Len(NodeCells(w, x, isSerialized)) >= 1
<1> DEFINE h == <<<<"vt", VtOf(w, x[1])>>>>
           d == Rest(w, x, isSerialized)
<1>1. NodeCells(w, x, isSerialized) = h \o d
  BY DEF NodeCells, Rest
<1>2. IsSeq(d)
  BY RestIsSeq
<1>3. h = <<<<"vt", VtOf(w, x[1])>>>>
  OBVIOUS
<1> HIDE DEF h, d
<1>4. IsSeq(h) /\ Len(h) = 1
  BY <1>3, LitsOf
<1>5. IsSeq(h \o d) /\ Len(h \o d) = Len(h) + Len(d) /\ Len(d) \in Nat
  BY <1>2, <1>4, CatSeq, IsSeqDomain
<1> QED  BY <1>1, <1>4, <1>5

\* Any node.
LEMMA NodeRead ==
  ASSUME NEW w \in Servers, NEW s \in Servers, NEW x, IsNode(w, x), x[1] = "ARRAY" => Writable(w, x[2], x[3]),
         NEW isSerialized \in BOOLEAN, NEW st, NEW p \in Nat,
         Holds(st, p, NodeCells(w, x, isSerialized)),
         ~ At(st, p + Len(NodeCells(w, x, isSerialized)), "length")
  PROVE  LET c == NodeCells(w, x, isSerialized)
             one == ReadNode(s, st[p][2], st, p + 1)
         IN  /\ IsSeq(c) /\ Len(c) >= 1
             /\ p \in DOMAIN st /\ st[p] = <<"vt", VtOf(w, x[1])>>
             /\ Faithful(s, x, isSerialized, one, p + Len(c))
             /\ PortableNode(x) \/ OwnNode(w, s, x, isSerialized) =>
                   one.hr = "S_OK" /\ SameMeaning(one.x, x, isSerialized)
<1> DEFINE c == NodeCells(w, x, isSerialized)
           d == Rest(w, x, isSerialized)
           one == ReadNode(s, VtOf(w, x[1]), st, p + 1)
           Goal == /\ IsSeq(d)
                   /\ Faithful(s, x, isSerialized, one, p + 1 + Len(d))
                   /\ PortableNode(x) \/ OwnNode(w, s, x, isSerialized) =>
                         one.hr = "S_OK" /\ SameMeaning(one.x, x, isSerialized)
<1>0. p + 1 \in Nat
  OBVIOUS
<1>1. IsSeq(d)
  BY RestIsSeq
<1>2. /\ IsSeq(c) /\ Len(c) = 1 + Len(d)
      /\ p \in DOMAIN st /\ st[p] = <<"vt", VtOf(w, x[1])>>
      /\ Holds(st, p + 1, d)
  BY <1>1, NodeCellsAre
<1>3. Len(d) \in Nat
  BY <1>1, IsSeqDomain
<1>4. Goal
  <2>1. CASE IsScalar(w, x)
    BY <1>0, <1>2, <2>1, ScalarRead
  <2>2. CASE IsObject(w, x)
    <3>1. x[1] \in {"DISPATCH"} \cup Classes /\ (x[1] = "DISPATCH" <=> w = "classic")
      BY <2>2, IsNodeFacts
    <3>2. d = ObjectCells(w, x, isSerialized)
      BY <3>1 DEF Rest, Classes
    <3>3. ~ At(st, p + 1 + Len(d), "length")
      <4>1. p + Len(c) = p + 1 + Len(d)
        <5> HIDE DEF c, d
        <5> QED  BY <1>2, <1>3
      <4> QED  BY <4>1
    <3>4. ~ PortableNode(x)
      BY <3>1 DEF PortableNode, Scalars, Fixed, Classes
    <3>5. CASE w = "classic" \/ s \in Net
      <4>1. one = ReadObject(s, st, p + 1)
        <5>1. VtOf(w, x[1]) = "DISPATCH" \/ (VtOf(w, x[1]) = "VARIANT" /\ s \in Net)
          BY <3>1, <3>5 DEF VtOf, Classes, Net, Servers
        <5> QED  BY <5>1 DEF ReadNode, Fixed
      <4>2. Holds(st, p + 1, ObjectCells(w, x, isSerialized))
            /\ ~ At(st, p + 1 + Len(ObjectCells(w, x, isSerialized)), "length")
        BY <1>2, <3>2, <3>3
      <4>3. /\ Faithful(s, x, isSerialized, ReadObject(s, st, p + 1), p + 1 + Len(ObjectCells(w, x, isSerialized)))
            /\ OwnNode(w, s, x, isSerialized) =>
               /\ ReadObject(s, st, p + 1).hr = "S_OK"
               /\ SameMeaning(ReadObject(s, st, p + 1).x, x, isSerialized)
        BY <1>0, <2>2, <3>5, <4>2, ObjectRead
      <4> HIDE DEF one, d
      <4> QED  BY <1>1, <3>2, <3>4, <4>1, <4>3
    <3>6. CASE w # "classic" /\ s \notin Net
      <4>1. VtOf(w, x[1]) = "VARIANT" /\ w \in Net
        BY <3>1, <3>6 DEF VtOf, Servers, Net
      <4>2. one = Fails(p + 1)
        BY <3>6, <4>1 DEF ReadNode, Fixed
      <4>3. ~ OwnNode(w, s, x, isSerialized)
        BY <3>6, <4>1 DEF OwnNode, Alike
      <4> HIDE DEF one, d
      <4> QED  BY <1>1, <3>4, <4>2, <4>3 DEF Faithful, Fails, Read
    <3> QED  BY <3>5, <3>6
  <2>3. CASE IsArray(w, x)
    <3>1. x[1] = "ARRAY"
      BY <2>3, IsNodeFacts
    <3>2. d = ArrayCells(w, x[2], x[3], x[4])
      BY <3>1 DEF Rest, Classes
    <3>3. At(st, p + 1, "array")
      <4>1. p + 1 \in DOMAIN st /\ st[p + 1] = <<"array", VtOf(w, x[2]), Len(x[3])>>
        BY <1>0, <1>2, <2>3, <3>1, <3>2, ArrayWritten
      <4> QED  BY <4>1 DEF At
    <3>4. VtOf(w, x[1]) = "ARRAY"
      BY <3>1 DEF VtOf, Classes
    <3>5. one = ReadArray(s, st, p + 1)
      BY <3>3, <3>4 DEF ReadNode, Fixed
    <3>6. /\ Faithful(s, x, isSerialized, ReadArray(s, st, p + 1), p + 1 + Len(d))
          /\ PortableNode(x) \/ OwnNode(w, s, x, isSerialized) =>
                   ReadArray(s, st, p + 1).hr = "S_OK" /\ ReadArray(s, st, p + 1).x = x
      <4>1. Holds(st, p + 1, ArrayCells(w, x[2], x[3], x[4])) /\ Writable(w, x[2], x[3])
        BY <1>2, <3>1, <3>2
      <4> DEFINE a == ArrayCells(w, x[2], x[3], x[4])
                 r == ReadArray(s, st, p + 1)
      <4>2. /\ Faithful(s, x, isSerialized, r, p + 1 + Len(a))
            /\ PortableNode(x) \/ OwnNode(w, s, x, isSerialized) => r.hr = "S_OK" /\ r.x = x
        BY <1>0, <2>3, <4>1, ArrayRead
      <4> HIDE DEF d
      <4> QED  BY <3>2, <4>2
    <3>7. SameMeaning(x, x, isSerialized)
      BY <3>1 DEF SameMeaning, NodeMeaning
    <3> HIDE DEF one, d
    <3> QED  BY <1>1, <3>5, <3>6, <3>7
  <2> QED  BY <2>1, <2>2, <2>3 DEF IsNode
<1>5. p + 1 + Len(d) = p + Len(c) /\ Len(c) >= 1
  <2> HIDE DEF c, d
  <2> QED  BY <1>2, <1>3
<1>6. st[p][2] = VtOf(w, x[1])
  BY <1>2
<1> HIDE DEF d
<1> QED  BY <1>2, <1>4, <1>5, <1>6

----------------------------------------------------------------------------
(* Values *)

GoodValue(w, s, v, isSerialized) ==
    \A n \in 1..Len(v) : PortableNode(v[n]) \/ OwnNode(w, s, v[n], isSerialized /\ n = 1)

\* What is known of a value, as one list.
LEMMA ValueFacts ==
  ASSUME NEW w, NEW v, IsValue(w, v)
  PROVE  /\ IsSeq(v) /\ Len(v) \in Nat /\ Len(v) >= 1 /\ DOMAIN v = 1..Len(v)
         /\ Todo(v)[0] = 1 /\ Todo(v)[Len(v)] = 0
         /\ \A n \in 0..(Len(v) - 1) : Todo(v)[n] > 0 /\ Todo(v)[n + 1] = Todo(v)[n] - 1 + Children(v[n + 1])
         /\ \A n \in 1..Len(v) : IsNode(w, v[n])
         /\ \A n \in 2..Len(v) : v[n][1] # "DISPATCH"
<1>1. IsSeq(v) /\ Len(v) \in Nat /\ DOMAIN v = 1..Len(v)
  BY IsSeqDomain DEF IsValue, IsTree
<1>2. Todo(v)[0] = 1 /\ \A n \in 0..(Len(v) - 1) : Todo(v)[n + 1] = Todo(v)[n] - 1 + Children(v[n + 1])
  BY <1>1, TodoRecursion
<1>3. Todo(v)[Len(v)] = 0 /\ \A n \in 0..(Len(v) - 1) : Todo(v)[n] > 0
  BY DEF IsValue, IsTree
<1>4. Len(v) >= 1
  BY <1>1, <1>2, <1>3
<1> QED  BY <1>1, <1>2, <1>3, <1>4 DEF IsValue

\* Values that Buffer.BlockCopy lets pass.
LEMMA NotThrown ==
  ASSUME NEW w \in Servers, NEW v, IsValue(w, v), ~ Throws(w, v)
  PROVE  \A n \in 1..Len(v) : v[n][1] = "ARRAY" => Writable(w, v[n][2], v[n][3])
<1>1. DOMAIN v = 1..Len(v) /\ \A n \in 1..Len(v) : IsNode(w, v[n])
  BY ValueFacts
<1>2. SUFFICES ASSUME NEW n \in 1..Len(v), v[n][1] = "ARRAY", w \in Net
               PROVE  VtOf(w, v[n][2]) \in Block(w) \cup OneByOne \/ Size(v[n][3]) = 0
  BY DEF Writable
<1> DEFINE tag == v[n][2]
           dims == v[n][3]
<1>3. tag # "DATE" /\ (tag = "BOOL" => ~ (Size(dims) > 0))
  BY <1>1, <1>2 DEF Throws
<1>4. IsArray(w, v[n])
  <2>1. ~ IsScalar(w, v[n])
    BY <1>2 DEF IsScalar, Fixed
  <2>2. ~ IsObject(w, v[n])
    BY <1>2 DEF IsObject, Classes
  <2> QED  BY <1>1, <2>1, <2>2 DEF IsNode
<1>5. tag \in Tags(w) /\ IsDims(dims)
  BY <1>4 DEF IsArray, IsDims
<1>6. Size(dims) \in Nat
  BY <1>5, SizeNat
<1> HIDE DEF tag, dims
<1>7. tag = "BOOL" \/ VtOf(w, tag) \in Block(w) \cup OneByOne
  BY <1>2, <1>3, <1>5 DEF Tags, VtOf, Block, OneByOne, Classes, Net
<1>8. tag = "BOOL" => Size(dims) = 0
  BY <1>3, <1>6
<1> QED  BY <1>7, <1>8 DEF tag, dims

\* The cells of the n-th node of a value.
NodeAt(w, v, isSerialized, n) == NodeCells(w, v[n], isSerialized /\ n = 1)

\* The cells of the nodes come one after the other.
LEMMA ValueCells ==
  ASSUME NEW w \in Servers, NEW v, IsValue(w, v), ~ Throws(w, v), NEW isSerialized \in BOOLEAN
  PROVE  LET c == CellsOf(w, v, isSerialized)
         IN  /\ WriteValue(w, v, isSerialized) = c[Len(v)]
             /\ c[0] = <<>>
             /\ \A n \in 0..Len(v) : IsSeq(c[n]) /\ Len(c[n]) \in Nat /\ Len(c[n]) >= n
             /\ \A n \in 0..(Len(v) - 1) :
                   /\ c[n + 1] = c[n] \o NodeAt(w, v, isSerialized, n + 1)
                   /\ IsSeq(NodeAt(w, v, isSerialized, n + 1))
                   /\ Len(c[n + 1]) = Len(c[n]) + Len(NodeAt(w, v, isSerialized, n + 1))
<1> DEFINE c == CellsOf(w, v, isSerialized)
           N(n) == NodeAt(w, v, isSerialized, n + 1)
<1>1. /\ IsSeq(v) /\ Len(v) \in Nat
      /\ \A n \in 0..(Len(v) - 1) : /\ IsNode(w, v[n + 1])
                                    /\ v[n + 1][1] = "ARRAY" => Writable(w, v[n + 1][2], v[n + 1][3])
  <2>1. \A n \in 0..(Len(v) - 1) : n + 1 \in 1..Len(v)
    BY ValueFacts
  <2> QED  BY <2>1, ValueFacts, NotThrown
<1>2. c[0] = <<>> /\ \A n \in 0..(Len(v) - 1) : c[n + 1] = c[n] \o N(n)
  BY <1>1, CellsRecursion DEF NodeAt
<1>3. WriteValue(w, v, isSerialized) = c[Len(v)]
  BY DEF WriteValue, CellsOf
<1>4. \A n \in 0..(Len(v) - 1) : IsSeq(N(n)) /\ Len(N(n)) >= 1 /\ Len(N(n)) \in Nat
  <2> SUFFICES ASSUME NEW n \in 0..(Len(v) - 1) PROVE IsSeq(N(n)) /\ Len(N(n)) >= 1 /\ Len(N(n)) \in Nat
    OBVIOUS
  <2>1. (isSerialized /\ n + 1 = 1) \in BOOLEAN
    OBVIOUS
  <2>2. IsSeq(N(n)) /\ Len(N(n)) >= 1
    BY <1>1, <2>1, NodeIsSeq DEF NodeAt
  <2> QED  BY <2>2, IsSeqDomain
<1> HIDE DEF c, N
<1> DEFINE S == {n \in 0..Len(v) : IsSeq(c[n]) /\ Len(c[n]) \in Nat /\ Len(c[n]) >= n}
<1>5. 0 \in S
  BY <1>1, <1>2, LitsOf
<1>6. ASSUME NEW n \in 0..(Len(v) - 1), n \in S PROVE n + 1 \in S
  <2>1. IsSeq(c[n]) /\ Len(c[n]) \in Nat /\ Len(c[n]) >= n
    BY <1>6
  <2>2. IsSeq(c[n] \o N(n)) /\ Len(c[n] \o N(n)) = Len(c[n]) + Len(N(n))
    BY <1>4, <2>1, CatSeq
  <2>3. c[n + 1] = c[n] \o N(n) /\ Len(N(n)) >= 1 /\ Len(N(n)) \in Nat
    BY <1>2, <1>4
  <2>4. n + 1 \in 0..Len(v)
    BY <1>1
  <2>5. IsSeq(c[n + 1]) /\ Len(c[n + 1]) = Len(c[n]) + Len(N(n))
    BY <2>2, <2>3
  <2>6. Len(c[n + 1]) \in Nat /\ Len(c[n + 1]) >= n + 1
    BY <2>1, <2>3, <2>5
  <2> QED  BY <2>4, <2>5, <2>6
<1>7. 0..Len(v) \subseteq S
  <2> HIDE DEF S
  <2> QED  BY <1>1, <1>5, <1>6, UpTo
<1>8. \A n \in 0..Len(v) : IsSeq(c[n]) /\ Len(c[n]) \in Nat /\ Len(c[n]) >= n
  BY <1>7
<1>9. \A n \in 0..(Len(v) - 1) : Len(c[n + 1]) = Len(c[n]) + Len(N(n))
  <2> SUFFICES ASSUME NEW n \in 0..(Len(v) - 1) PROVE Len(c[n + 1]) = Len(c[n]) + Len(N(n))
    OBVIOUS
  <2>1. n \in 0..Len(v)
    BY <1>1
  <2>2. Len(c[n] \o N(n)) = Len(c[n]) + Len(N(n))
    BY <1>4, <1>8, <2>1, CatSeq
  <2> QED  BY <1>2, <2>2
<1> QED  BY <1>2, <1>3, <1>4, <1>8, <1>9 DEF c, N

\* Lengths, for the offsets.
LEMMA ValueLength ==
  ASSUME NEW w \in Servers, NEW v, IsValue(w, v), ~ Throws(w, v), NEW isSerialized \in BOOLEAN,
         NEW n \in 0..(Len(v) - 1)
  PROVE  LET c == CellsOf(w, v, isSerialized)
         IN  /\ Len(c[n]) \in Nat
             /\ Len(c[n + 1]) = Len(c[n]) + Len(NodeAt(w, v, isSerialized, n + 1))
<1> DEFINE c == CellsOf(w, v, isSerialized)
           N(m) == NodeAt(w, v, isSerialized, m + 1)
<1>1. /\ \A m \in 0..Len(v) : IsSeq(c[m]) /\ Len(c[m]) \in Nat /\ Len(c[m]) >= m
      /\ \A m \in 0..(Len(v) - 1) : /\ c[m + 1] = c[m] \o N(m)
                                    /\ IsSeq(N(m))
                                    /\ Len(c[m + 1]) = Len(c[m]) + Len(N(m))
  <2>1. w \in Servers /\ IsValue(w, v) /\ ~ Throws(w, v) /\ isSerialized \in BOOLEAN
    OBVIOUS
  <2> HIDE DEF c
  <2> QED  BY ONLY <2>1, ValueCells DEF c
<1>2. n \in 0..Len(v)
  BY ValueFacts
<1> HIDE DEF c, N
<1> QED  BY <1>1, <1>2 DEF c, N

\* Each node of a value in a stream, and the cell after it.
LEMMA ValueHolds ==
  ASSUME NEW w \in Servers, NEW v, IsValue(w, v), ~ Throws(w, v), NEW isSerialized \in BOOLEAN,
         NEW st, NEW p \in Nat, Holds(st, p, WriteValue(w, v, isSerialized)),
         ~ At(st, p + Len(WriteValue(w, v, isSerialized)), "length")
  PROVE  LET c == CellsOf(w, v, isSerialized)
         IN  \A n \in 0..(Len(v) - 1) :
                /\ Holds(st, p + Len(c[n]), NodeAt(w, v, isSerialized, n + 1))
                /\ ~ At(st, p + Len(c[n + 1]), "length")
<1> DEFINE c == CellsOf(w, v, isSerialized)
           N(n) == NodeAt(w, v, isSerialized, n + 1)
<1>1. /\ WriteValue(w, v, isSerialized) = c[Len(v)]
      /\ \A n \in 0..Len(v) : IsSeq(c[n]) /\ Len(c[n]) \in Nat
      /\ \A n \in 0..(Len(v) - 1) : /\ c[n + 1] = c[n] \o N(n) /\ IsSeq(N(n))
                                    /\ Len(c[n + 1]) = Len(c[n]) + Len(N(n))
  <2>1. w \in Servers /\ IsValue(w, v) /\ ~ Throws(w, v) /\ isSerialized \in BOOLEAN
    OBVIOUS
  <2> HIDE DEF c
  <2> QED  BY ONLY <2>1, ValueCells DEF c
<1>2. Len(v) \in Nat /\ Len(v) >= 1
  BY ValueFacts
<1>3. Holds(st, p, c[Len(v)]) /\ ~ At(st, p + Len(c[Len(v)]), "length")
  BY <1>1
<1> HIDE DEF c
<1>4. \A n \in 0..Len(v) : Holds(st, p, c[n])
  <2> DEFINE S == {m \in 0..Len(v) : Holds(st, p, c[Len(v) - m])}
  <2>1. 0 \in S
    <3>1. Len(v) - 0 = Len(v)
      BY <1>2
    <3> QED  BY <1>2, <1>3, <3>1
  <2>2. ASSUME NEW m \in 0..(Len(v) - 1), m \in S PROVE m + 1 \in S
    <3>1. PICK n \in 0..(Len(v) - 1) : n = Len(v) - (m + 1) /\ n + 1 = Len(v) - m
      <4>1. Len(v) - (m + 1) \in 0..(Len(v) - 1) /\ (Len(v) - (m + 1)) + 1 = Len(v) - m
        BY <1>2
      <4> QED  BY <4>1
    <3>2. Holds(st, p, c[n + 1])
      BY <2>2, <3>1
    <3>3. c[n + 1] = c[n] \o N(n) /\ IsSeq(N(n)) /\ IsSeq(c[n])
      <4>1. n \in 0..Len(v)
        BY <1>2
      <4> QED  BY <1>1, <4>1
    <3> HIDE DEF N
    <3>4. Holds(st, p, c[n])
      BY <3>2, <3>3, HoldsCat
    <3>5. m + 1 \in 0..Len(v)
      BY <1>2
    <3> QED  BY <3>1, <3>4, <3>5
  <2>3. 0..Len(v) \subseteq S
    <3> HIDE DEF S
    <3> QED  BY <1>2, <2>1, <2>2, UpTo
  <2>4. ASSUME NEW n \in 0..Len(v) PROVE Holds(st, p, c[n])
    <3>1. Len(v) - n \in S /\ Len(v) - (Len(v) - n) = n
      <4>1. Len(v) - n \in 0..Len(v) /\ Len(v) - (Len(v) - n) = n
        BY <1>2
      <4> HIDE DEF S
      <4> QED  BY <4>1, <2>3
    <3> QED  BY <3>1
  <2> QED  BY <2>4
<1>5. ASSUME NEW n \in 0..(Len(v) - 1) PROVE Holds(st, p + Len(c[n]), N(n))
  <2>1. n \in 0..Len(v) /\ n + 1 \in 0..Len(v)
    BY <1>2
  <2>2. Holds(st, p, c[n] \o N(n)) /\ IsSeq(N(n)) /\ IsSeq(c[n])
    BY <1>1, <1>4, <2>1
  <2> HIDE DEF N
  <2> QED  BY <2>2, HoldsCat
<1>6. ASSUME NEW n \in 0..(Len(v) - 1) PROVE ~ At(st, p + Len(c[n + 1]), "length")
  <2>1. CASE n + 1 = Len(v)
    BY <1>3, <2>1
  <2>2. CASE n + 1 # Len(v)
    <3>1. n + 1 \in 0..(Len(v) - 1) /\ n + 1 \in 0..Len(v) /\ n + 2 \in 1..Len(v) /\ n + 1 + 1 = n + 2
      BY <1>2, <2>2
    <3>2. Holds(st, p + Len(c[n + 1]), NodeCells(w, v[n + 1 + 1], isSerialized /\ n + 1 + 1 = 1))
      <4>1. Holds(st, p + Len(c[n + 1]), N(n + 1))
        BY <1>5, <3>1
      <4> QED  BY <4>1 DEF NodeAt
    <3>3. IsSeq(Rest(w, v[n + 1 + 1], isSerialized /\ n + 1 + 1 = 1))
      <4>1. (isSerialized /\ n + 1 + 1 = 1) \in BOOLEAN
        OBVIOUS
      <4>2. IsNode(w, v[n + 1 + 1]) /\ (v[n + 1 + 1][1] = "ARRAY" => Writable(w, v[n + 1 + 1][2], v[n + 1 + 1][3]))
        BY <3>1, ValueFacts, NotThrown
      <4> QED  BY <4>1, <4>2, RestIsSeq
    <3>4. p + Len(c[n + 1]) \in Nat
      BY <1>1, <3>1
    <3>5. st[p + Len(c[n + 1])] = <<"vt", VtOf(w, v[n + 1 + 1][1])>>
      BY <3>2, <3>3, <3>4, NodeCellsAre
    <3> QED  BY <3>5 DEF At
  <2> QED  BY <2>1, <2>2
<1> QED  BY <1>5, <1>6 DEF c

\* What becomes of the i-th node.
NodeOK(w, s, v, isSerialized, y, i) ==
    /\ IsNode(s, y) /\ Children(y) = Children(v[i])
    /\ y[1] = "DISPATCH" => v[i][1] = "DISPATCH" /\ y[3] = "stream"
    /\ GoodValue(w, s, v, isSerialized) => SameMeaning(y, v[i], isSerialized /\ i = 1)

NodesOK(w, s, v, isSerialized, u, n) ==
    IsSeq(u) /\ Len(u) = n /\ \A i \in 1..n : NodeOK(w, s, v, isSerialized, u[i], i)

\* The first n nodes have been read, or the reader has stopped.
Stopped(w, s, v, isSerialized, r) ==
    /\ ~ GoodValue(w, s, v, isSerialized)
    /\ r.hr \in {"S_FALSE", "E_FAIL"}
    /\ r.hr = "S_FALSE" => r.v = <<Empty>> /\ r.todo = 0

ReadSoFar(w, s, v, isSerialized, p, r, n) ==
    \/ /\ r.hr = "S_OK"
       /\ r.p = p + Len(CellsOf(w, v, isSerialized)[n])
       /\ r.todo = Todo(v)[n]
       /\ NodesOK(w, s, v, isSerialized, r.v, n)
    \/ Stopped(w, s, v, isSerialized, r)

\* A node is read, or is an object that was no stream, or cannot be read.
LEMMA ReadResults ==
  ASSUME NEW s, NEW vt, NEW st, NEW p
  PROVE  ReadNode(s, vt, st, p).hr \in {"S_OK", "S_FALSE", "E_FAIL"}
<1> DEFINE Known(r) == r.hr \in {"S_OK", "S_FALSE", "E_FAIL"}
<1>1. \A hr, x, q : Read(hr, x, q).hr = hr
  BY DEF Read
<1>2. \A q : Known(Fails(q))
  BY <1>1 DEF Fails
<1>3. Known(ReadObject(s, st, p))
  BY <1>1, <1>2 DEF ReadObject
<1>4. \A of, dims, q : Known(ReadElements(of, dims, st, q)) /\ Known(ReadBlock(s, of, dims, st, q))
  BY <1>1 DEF ReadElements, ReadBlock
<1>5. Known(ReadArray(s, st, p))
  BY <1>1, <1>2, <1>4 DEF ReadArray
<1> QED  BY <1>1, <1>2, <1>3, <1>5 DEF ReadNode

\* One node more.
LEMMA NextNodeRead ==
  ASSUME NEW w \in Servers, NEW s \in Servers, NEW v, IsValue(w, v), ~ Throws(w, v),
         NEW isSerialized \in BOOLEAN,
         NEW st, NEW p \in Nat, Holds(st, p, WriteValue(w, v, isSerialized)),
         ~ At(st, p + Len(WriteValue(w, v, isSerialized)), "length"),
         NEW n \in 0..(Len(v) - 1), NEW r, ReadSoFar(w, s, v, isSerialized, p, r, n)
  PROVE  ReadSoFar(w, s, v, isSerialized, p, NextNode(s, st, r), n + 1)
<1> DEFINE c == CellsOf(w, v, isSerialized)
           i == isSerialized /\ n + 1 = 1
           x == v[n + 1]
           N == NodeCells(w, x, i)
           q == p + Len(c[n])
           one == ReadNode(s, st[q][2], st, q + 1)
           next == NextNode(s, st, r)
<1>0. i \in BOOLEAN /\ n + 1 \in 1..Len(v) /\ n \in 0..Len(v)
  BY ValueFacts
<1>1. CASE Stopped(w, s, v, isSerialized, r)
  <2>1. next = r
    BY <1>1 DEF Stopped, NextNode, Further
  <2> QED  BY <1>1, <2>1 DEF ReadSoFar
<1>2. CASE /\ r.hr = "S_OK"
           /\ r.p = q
           /\ r.todo = Todo(v)[n]
           /\ NodesOK(w, s, v, isSerialized, r.v, n)
  <2>1. /\ Todo(v)[n] > 0 /\ Todo(v)[n + 1] = Todo(v)[n] - 1 + Children(x)
        /\ IsNode(w, x) /\ (x[1] = "ARRAY" => Writable(w, x[2], x[3]))
    BY <1>0, ValueFacts, NotThrown
  <2>2. Holds(st, q, N) /\ ~ At(st, p + Len(c[n + 1]), "length")
    <3>1. Holds(st, q, NodeAt(w, v, isSerialized, n + 1)) /\ ~ At(st, p + Len(c[n + 1]), "length")
      BY ValueHolds
    <3> QED  BY <3>1 DEF NodeAt
  <2>3. Len(c[n]) \in Nat /\ Len(c[n + 1]) = Len(c[n]) + Len(N) /\ Len(N) \in Nat
    <3>1. Len(c[n]) \in Nat /\ Len(c[n + 1]) = Len(c[n]) + Len(N)
      <4>1. Len(c[n]) \in Nat /\ Len(c[n + 1]) = Len(c[n]) + Len(NodeAt(w, v, isSerialized, n + 1))
        BY ValueLength
      <4> QED  BY <4>1 DEF NodeAt
    <3>2. IsSeq(N)
      <4>1. IsSeq(NodeAt(w, v, isSerialized, n + 1))
        BY <1>0, ValueCells
      <4> QED  BY <4>1 DEF NodeAt
    <3> QED  BY <3>1, <3>2, IsSeqDomain
  <2> HIDE DEF c, i
  <2>4. q \in Nat /\ q + Len(N) = p + Len(c[n + 1])
    <3> HIDE DEF N
    <3> QED  BY <2>3
  <2>5. ~ At(st, q + Len(N), "length")
    BY <2>2, <2>4
  <2> HIDE DEF q
  <2>6. /\ q \in DOMAIN st /\ st[q] = <<"vt", VtOf(w, x[1])>>
        /\ Faithful(s, x, i, one, q + Len(N))
        /\ PortableNode(x) \/ OwnNode(w, s, x, i) => one.hr = "S_OK" /\ SameMeaning(one.x, x, i)
    BY <1>0, <2>1, <2>2, <2>4, <2>5, NodeRead
  <2>7. At(st, q, "vt")
    BY <2>6 DEF At
  <2>8. next = [hr |-> one.hr, v |-> Append(r.v, one.x), p |-> one.p, todo |-> r.todo - 1 + Children(one.x)]
    BY <1>2, <2>1, <2>7 DEF NextNode, Further
  <2>9. GoodValue(w, s, v, isSerialized) => PortableNode(x) \/ OwnNode(w, s, x, i)
    BY <1>0 DEF GoodValue, i
  <2> HIDE DEF N, one, next, x
  <2>10. /\ next.hr = one.hr /\ next.v = Append(r.v, one.x) /\ next.p = one.p
         /\ next.todo = r.todo - 1 + Children(one.x)
    BY <2>8
  <2>11. CASE one.hr = "S_OK"
    <3>1. /\ one.p = q + Len(N) /\ IsNode(s, one.x) /\ Children(one.x) = Children(x)
          /\ one.x[1] = "DISPATCH" => x[1] = "DISPATCH" /\ one.x[3] = "stream"
      BY <2>6, <2>11 DEF Faithful
    <3>2. GoodValue(w, s, v, isSerialized) => SameMeaning(one.x, x, i)
      BY <2>6, <2>9
    <3>3. NodeOK(w, s, v, isSerialized, one.x, n + 1)
      BY <3>1, <3>2 DEF NodeOK, x, i
    <3>4. /\ IsSeq(r.v) /\ Len(r.v) = n
          /\ \A m \in 1..n : NodeOK(w, s, v, isSerialized, r.v[m], m)
      BY <1>2 DEF NodesOK
    <3>5. /\ IsSeq(next.v) /\ Len(next.v) = n + 1 /\ next.v[n + 1] = one.x
          /\ \A m \in 1..n : next.v[m] = r.v[m]
      BY <2>10, <3>4, AppendSeq
    <3>6. ASSUME NEW m \in 1..(n + 1) PROVE NodeOK(w, s, v, isSerialized, next.v[m], m)
      <4>1. CASE m = n + 1
        BY <3>3, <3>5, <4>1
      <4>2. CASE m \in 1..n
        BY <3>4, <3>5, <4>2
      <4> QED  BY <4>1, <4>2
    <3>7. NodesOK(w, s, v, isSerialized, next.v, n + 1)
      BY <3>5, <3>6 DEF NodesOK
    <3>8. next.hr = "S_OK" /\ next.p = p + Len(c[n + 1]) /\ next.todo = Todo(v)[n + 1]
      BY <1>2, <2>1, <2>4, <2>10, <2>11, <3>1
    <3> QED  BY <3>7, <3>8 DEF ReadSoFar, next, c
  <2>12. CASE one.hr # "S_OK"
    <3>1. ~ GoodValue(w, s, v, isSerialized)
      BY <2>6, <2>9, <2>12
    <3>2. SUFFICES Stopped(w, s, v, isSerialized, next)
      BY DEF ReadSoFar, next
    <3>3. CASE next.hr = "S_FALSE"
      <4>1. s = "classic" /\ one.x = Empty /\ x[1] = "DISPATCH" /\ ~ Matched(x, i)
        BY <2>6, <2>10, <3>3 DEF Faithful
      <4>2. n = 0 /\ x = v[1] /\ i = isSerialized
        <5>1. n + 1 = 1
          BY <1>0, <4>1, ValueFacts DEF x
        <5> QED  BY <5>1 DEF x, i
      <4>3. Todo(v)[n] = 1
        BY <4>2, ValueFacts
      <4>4. Children(Empty) = 0
        BY DEF Children, Empty
      <4>5. next.todo = 0
        BY <1>2, <2>10, <4>1, <4>3, <4>4
      <4>6. next.v = <<Empty>>
        <5>1. IsSeq(r.v) /\ Len(r.v) = 0
          BY <1>2, <4>2 DEF NodesOK
        <5>2. r.v = <<>>
          BY <5>1, LitsOf, SameSeq
        <5> QED  BY <2>10, <4>1, <5>2
      <4> QED  BY <3>1, <3>3, <4>5, <4>6 DEF Stopped
    <3>4. CASE next.hr # "S_FALSE"
      <4>1. one.hr \in {"S_OK", "S_FALSE", "E_FAIL"}
        BY ReadResults DEF one
      <4> QED  BY <2>10, <2>12, <3>1, <3>4, <4>1 DEF Stopped
    <3> QED  BY <3>3, <3>4
  <2> QED  BY <2>11, <2>12
<1> QED  BY <1>1, <1>2 DEF ReadSoFar

\* Values whose nodes have as many elements each are the same trees.
LEMMA SameTodo ==
  ASSUME NEW u, IsSeq(u), NEW v, IsSeq(v), Len(u) = Len(v),
         \A n \in 1..Len(v) : Children(u[n]) = Children(v[n])
  PROVE  \A n \in 0..Len(v) : Todo(u)[n] = Todo(v)[n]
<1>1. /\ Todo(u)[0] = 1 /\ \A n \in 0..(Len(u) - 1) : Todo(u)[n + 1] = Todo(u)[n] - 1 + Children(u[n + 1])
      /\ Todo(v)[0] = 1 /\ \A n \in 0..(Len(v) - 1) : Todo(v)[n + 1] = Todo(v)[n] - 1 + Children(v[n + 1])
  BY TodoRecursion
<1>2. Len(v) \in Nat
  BY IsSeqDomain
<1> DEFINE S == {n \in 0..Len(v) : Todo(u)[n] = Todo(v)[n]}
<1>3. 0 \in S
  BY <1>1, <1>2
<1>4. ASSUME NEW n \in 0..(Len(v) - 1), n \in S PROVE n + 1 \in S
  <2>1. n + 1 \in 1..Len(v) /\ n + 1 \in 0..Len(v) /\ n \in 0..(Len(u) - 1)
    BY <1>2
  <2>2. Todo(u)[n] = Todo(v)[n] /\ Children(u[n + 1]) = Children(v[n + 1])
    BY <1>4, <2>1
  <2>3. Todo(u)[n + 1] = Todo(v)[n + 1]
    BY <1>1, <2>1, <2>2
  <2> QED  BY <2>1, <2>3
<1>5. 0..Len(v) \subseteq S
  <2> HIDE DEF S
  <2> QED  BY <1>2, <1>3, <1>4, UpTo
<1> QED  BY <1>5

\* Nothing is appended when nothing is left to do.
LEMMA CatNothing ==
  ASSUME NEW a, IsSeq(a), NEW x
  PROVE  a \o [n \in 1..0 |-> x] = a
<1> DEFINE e == [n \in 1..0 |-> x]
<1>1. e = [n \in 1..0 |-> e[n]]
  OBVIOUS
<1> HIDE DEF e
<1>2. IsSeq(e) /\ Len(e) = 0
  BY <1>1, FcnSeq
<1>3. IsSeq(a \o e) /\ Len(a \o e) = Len(a) + Len(e) /\ \A n \in 1..Len(a) : (a \o e)[n] = a[n]
  BY <1>2, CatSeq
<1>4. Len(a \o e) = Len(a)
  BY <1>2, <1>3, IsSeqDomain
<1>5. a \o e = a
  BY <1>3, <1>4, SameSeq
<1> QED  BY <1>5 DEF e

\* A whole value: the reader stands behind it, what it has is a value, and where the value is
\* good it means the same; a value that is not read to its end is empty.
LEMMA ValueRead ==
  ASSUME NEW w \in Servers, NEW s \in Servers, NEW v, IsValue(w, v), ~ Throws(w, v),
         NEW isSerialized \in BOOLEAN,
         NEW st, IsSeq(st), NEW p \in Nat, p >= 1, Holds(st, p, WriteValue(w, v, isSerialized)),
         ~ At(st, p + Len(WriteValue(w, v, isSerialized)), "length")
  PROVE  LET r == ReadValue(s, st, p)
         IN  /\ r.hr = "S_OK" =>
                   /\ r.p = p + Len(WriteValue(w, v, isSerialized))
                   /\ IsValue(s, r.v)
                   /\ NodesOK(w, s, v, isSerialized, r.v, Len(v))
             /\ r.hr # "S_OK" => r.v = <<Empty>>
             /\ GoodValue(w, s, v, isSerialized) => r.hr = "S_OK"
<1> DEFINE R == NodesOf(s, st, p)
           c == CellsOf(w, v, isSerialized)
           L == R[Len(st)]
           r == ReadValue(s, st, p)
<1>1. /\ R[0] = [hr |-> "S_OK", v |-> <<>>, p |-> p, todo |-> 1]
      /\ \A n \in 0..(Len(st) - 1) : R[n + 1] = NextNode(s, st, R[n])
  BY NodesRecursion
<1>2. r = [hr |-> L.hr,
           v |-> IF L.hr = "E_FAIL" THEN <<Empty>> ELSE L.v \o [n \in 1..L.todo |-> Empty],
           p |-> L.p]
  BY DEF ReadValue, Filled, NodesOf
<1>3. /\ Len(v) \in Nat /\ Len(v) >= 1 /\ IsSeq(v) /\ Todo(v)[0] = 1 /\ Todo(v)[Len(v)] = 0
  BY ValueFacts
<1>4. /\ c[0] = <<>> /\ WriteValue(w, v, isSerialized) = c[Len(v)]
      /\ Len(c[Len(v)]) \in Nat /\ Len(c[Len(v)]) >= Len(v)
  <2>1. Len(v) \in 0..Len(v)
    BY <1>3
  <2> QED  BY <2>1, ValueCells
<1>5. Len(st) \in Nat /\ Len(v) <= Len(st)
  <2>1. Len(st) \in Nat /\ DOMAIN st = 1..Len(st)
    BY IsSeqDomain
  <2> HIDE DEF c
  <2>2. Len(c[Len(v)]) \in 1..Len(c[Len(v)])
    BY <1>3, <1>4
  <2>3. p + Len(c[Len(v)]) - 1 \in DOMAIN st
    BY <1>4, <2>2 DEF Holds
  <2> QED  BY <1>3, <1>4, <2>1, <2>3
<1> HIDE DEF R, r, c
<1>6. \A n \in 0..Len(v) : ReadSoFar(w, s, v, isSerialized, p, R[n], n)
  <2> DEFINE S == {n \in 0..Len(v) : ReadSoFar(w, s, v, isSerialized, p, R[n], n)}
  <2>1. 0 \in S
    <3>1. NodesOK(w, s, v, isSerialized, <<>>, 0)
      BY LitsOf DEF NodesOK
    <3>2. R[0].hr = "S_OK" /\ R[0].v = <<>> /\ R[0].p = p /\ R[0].todo = 1
      BY <1>1
    <3>3. p + Len(c[0]) = p
      <4>1. Len(c[0]) = 0
        BY <1>4, LitsOf
      <4> QED  BY <4>1
    <3>4. ReadSoFar(w, s, v, isSerialized, p, R[0], 0)
      BY <1>3, <3>1, <3>2, <3>3 DEF ReadSoFar, c
    <3> QED  BY <1>3, <3>4
  <2>2. ASSUME NEW n \in 0..(Len(v) - 1), n \in S PROVE n + 1 \in S
    <3>1. ReadSoFar(w, s, v, isSerialized, p, R[n], n)
      BY <2>2
    <3>2. ReadSoFar(w, s, v, isSerialized, p, NextNode(s, st, R[n]), n + 1)
      BY <3>1, NextNodeRead
    <3>3. n \in 0..(Len(st) - 1) /\ n + 1 \in 0..Len(v)
      BY <1>3, <1>5
    <3> QED  BY <1>1, <3>2, <3>3
  <2>3. 0..Len(v) \subseteq S
    <3> HIDE DEF S
    <3> QED  BY <1>3, <2>1, <2>2, UpTo
  <2> QED  BY <2>3
<1>7. ReadSoFar(w, s, v, isSerialized, p, R[Len(v)], Len(v))
  BY <1>3, <1>6
<1>8. NextNode(s, st, R[Len(v)]) = R[Len(v)]
  BY <1>3, <1>7 DEF ReadSoFar, Stopped, NextNode, Further
<1>9. L = R[Len(v)]
  <2> DEFINE S == {m \in 0..(Len(st) - Len(v)) : R[Len(v) + m] = R[Len(v)]}
             M == Len(st) - Len(v)
  <2>1. M \in Nat /\ Len(v) + M = Len(st)
    BY <1>3, <1>5
  <2>2. 0 \in S
    BY <1>3, <2>1
  <2>3. ASSUME NEW m \in 0..(M - 1), m \in S PROVE m + 1 \in S
    <3>1. Len(v) + m \in 0..(Len(st) - 1) /\ Len(v) + (m + 1) = (Len(v) + m) + 1 /\ m + 1 \in 0..M
      BY <1>3, <1>5
    <3>2. R[Len(v) + m] = R[Len(v)]
      BY <2>3
    <3>3. R[(Len(v) + m) + 1] = R[Len(v)]
      BY <1>1, <1>8, <3>1, <3>2
    <3> QED  BY <3>1, <3>3
  <2>4. 0..M \subseteq S
    <3> HIDE DEF S, M
    <3> QED  BY <2>1, <2>2, <2>3, UpTo
  <2>5. M \in S
    <3> HIDE DEF S, M
    <3> QED  BY <2>1, <2>4
  <2> QED  BY <2>1, <2>5
<1> HIDE DEF L
<1>10. /\ r.hr = L.hr /\ r.p = L.p
       /\ r.v = IF L.hr = "E_FAIL" THEN <<Empty>> ELSE L.v \o [n \in 1..L.todo |-> Empty]
  BY <1>2
<1>11. CASE /\ L.hr = "S_OK"
            /\ L.p = p + Len(c[Len(v)])
            /\ L.todo = Todo(v)[Len(v)]
            /\ NodesOK(w, s, v, isSerialized, L.v, Len(v))
  <2>1. IsSeq(L.v) /\ Len(L.v) = Len(v) /\ \A i \in 1..Len(v) : NodeOK(w, s, v, isSerialized, L.v[i], i)
    BY <1>11 DEF NodesOK
  <2>2. r.v = L.v
    <3>1. L.todo = 0
      BY <1>3, <1>11
    <3> QED  BY <1>10, <1>11, <2>1, <3>1, CatNothing
  <2>3. IsValue(s, L.v)
    <3>1. \A n \in 0..Len(v) : Todo(L.v)[n] = Todo(v)[n]
      <4>1. \A n \in 1..Len(v) : Children(L.v[n]) = Children(v[n])
        BY <2>1 DEF NodeOK
      <4>2. IsSeq(v) /\ IsSeq(L.v) /\ Len(L.v) = Len(v)
        BY <1>3, <2>1, ValueFacts
      <4> QED  BY ONLY <4>1, <4>2, SameTodo
    <3>2. \A n \in 0..(Len(v) - 1) : Todo(L.v)[n] > 0
      BY <1>3, <3>1, ValueFacts
    <3>3. Todo(L.v)[Len(L.v)] = 0
      BY <1>3, <2>1, <3>1
    <3>4. \A n \in 1..Len(L.v) : IsNode(s, L.v[n])
      BY <2>1 DEF NodeOK
    <3>5. \A n \in 2..Len(L.v) : L.v[n][1] # "DISPATCH"
      <4>1. \A n \in 2..Len(v) : n \in 1..Len(v) /\ v[n][1] # "DISPATCH"
        BY <1>3, ValueFacts
      <4> QED  BY <2>1, <4>1 DEF NodeOK
    <3> QED  BY <2>1, <3>2, <3>3, <3>4, <3>5 DEF IsValue, IsTree
  <2> QED  BY <1>4, <1>10, <1>11, <2>2, <2>3 DEF r
<1>12. CASE Stopped(w, s, v, isSerialized, L)
  <2>1. ~ GoodValue(w, s, v, isSerialized) /\ r.hr # "S_OK"
    BY <1>10, <1>12 DEF Stopped
  <2>2. r.v = <<Empty>>
    <3>1. L.hr # "E_FAIL" => L.v = <<Empty>> /\ L.todo = 0
      BY <1>12 DEF Stopped
    <3>2. IsSeq(<<Empty>>)
      BY LitsOf
    <3> QED  BY <1>10, <3>1, <3>2, CatNothing
  <2> QED  BY <2>1, <2>2 DEF r
<1> QED  BY <1>7, <1>9, <1>11, <1>12 DEF ReadSoFar, c

----------------------------------------------------------------------------
(* Streams *)

\* Every name is written once.
LEMMA OrderListsAll ==
  ASSUME NEW s, NEW keys, IsFiniteSet(keys), keys \subseteq Nat
  PROVE  LET o == Order(s, keys)
         IN  /\ IsSeq(o) /\ Len(o) = Cardinality(keys) /\ Len(o) \in Nat
             /\ \A n \in 1..Len(o) : o[n] \in keys
             /\ \A n, m \in 1..Len(o) : o[n] = o[m] => n = m
             /\ \A k \in keys : \E n \in 1..Len(o) : o[n] = k
<1> DEFINE o == Order(s, keys)
           R == {r \in keys \X keys : IF s = "core" THEN r[1] < r[2] ELSE r[1] > r[2]}
           C == Cardinality(keys)
           rank(k) == Cardinality(Below(keys, R, k))
<1>1. \A j, k \in keys : <<j, k>> \in R <=> IF s = "core" THEN j < k ELSE j > k
  OBVIOUS
<1> HIDE DEF R
<1>2. /\ \A i \in keys : <<i, i>> \notin R
      /\ \A i, j, k \in keys : <<i, j>> \in R /\ <<j, k>> \in R => <<i, k>> \in R
      /\ \A i, j \in keys : i = j \/ <<i, j>> \in R \/ <<j, i>> \in R
  <2>1. \A i \in keys : <<i, i>> \notin R
    BY <1>1
  <2>2. ASSUME NEW i \in keys, NEW j \in keys, NEW k \in keys, <<i, j>> \in R, <<j, k>> \in R
        PROVE  <<i, k>> \in R
    <3>1. i \in Nat /\ j \in Nat /\ k \in Nat
      OBVIOUS
    <3>2. CASE s = "core"
      BY <1>1, <2>2, <3>1, <3>2
    <3>3. CASE s # "core"
      BY <1>1, <2>2, <3>1, <3>3
    <3> QED  BY <3>2, <3>3
  <2>3. ASSUME NEW i \in keys, NEW j \in keys PROVE i = j \/ <<i, j>> \in R \/ <<j, i>> \in R
    <3>1. i \in Nat /\ j \in Nat
      OBVIOUS
    <3> QED  BY <1>1, <3>1
  <2> QED  BY <2>1, <2>2, <2>3
<1>3. /\ \A i \in keys : Cardinality(Below(keys, R, i)) \in 1..Cardinality(keys)
      /\ \A i, j \in keys : <<i, j>> \in R => Cardinality(Below(keys, R, i)) < Cardinality(Below(keys, R, j))
      /\ \A i, j \in keys : Cardinality(Below(keys, R, i)) = Cardinality(Below(keys, R, j)) => i = j
      /\ \A n \in 1..Cardinality(keys) : \E i \in keys : Cardinality(Below(keys, R, i)) = n
  <2>1. IsFiniteSet(keys)
    OBVIOUS
  <2> QED  BY ONLY <1>2, <2>1, Rank
<1>4. C \in Nat
  BY FS_CardinalityType
<1>5. \A k \in keys : Cardinality({j \in keys : IF s = "core" THEN j <= k ELSE j >= k}) = rank(k)
  <2> SUFFICES ASSUME NEW k \in keys
               PROVE  {j \in keys : IF s = "core" THEN j <= k ELSE j >= k} = Below(keys, R, k)
    OBVIOUS
  <2>1. \A j \in keys : (j = k \/ <<j, k>> \in R) <=> IF s = "core" THEN j <= k ELSE j >= k
    <3> SUFFICES ASSUME NEW j \in keys
                 PROVE  (j = k \/ <<j, k>> \in R) <=> IF s = "core" THEN j <= k ELSE j >= k
      OBVIOUS
    <3>1. j \in Nat /\ k \in Nat
      OBVIOUS
    <3> QED  BY <1>1, <3>1
  <2> QED  BY <2>1 DEF Below
<1>6. \A n \in 1..C : o[n] \in keys /\ rank(o[n]) = n
  <2> SUFFICES ASSUME NEW n \in 1..C PROVE o[n] \in keys /\ rank(o[n]) = n
    OBVIOUS
  <2> DEFINE P(k) == Cardinality({j \in keys : IF s = "core" THEN j <= k ELSE j >= k}) = n
  <2>1. o[n] = CHOOSE k \in keys : P(k)
    BY DEF Order
  <2>2. \A k \in keys : P(k) <=> rank(k) = n
    BY <1>5
  <2>3. \E k \in keys : P(k)
    <3> HIDE DEF P
    <3> QED  BY <1>3, <2>2
  <2> HIDE DEF P, o
  <2>4. o[n] \in keys /\ P(o[n])
    BY <2>1, <2>3
  <2> QED  BY <2>2, <2>4
<1>7. o = [n \in 1..C |-> o[n]]
  <2> DEFINE which(n) == CHOOSE k \in keys :
                Cardinality({j \in keys : IF s = "core" THEN j <= k ELSE j >= k}) = n
  <2>1. o = [n \in 1..C |-> which(n)]
    BY DEF Order
  <2> HIDE DEF which, o
  <2> QED  BY <2>1
<1> HIDE DEF o
<1>8. IsSeq(o) /\ Len(o) = C
  BY <1>4, <1>7, FcnSeq
<1>9. \A k \in keys : \E n \in 1..C : o[n] = k
  <2> SUFFICES ASSUME NEW k \in keys PROVE \E n \in 1..C : o[n] = k
    OBVIOUS
  <2>1. rank(k) \in 1..C
    BY <1>3
  <2>2. o[rank(k)] \in keys /\ rank(o[rank(k)]) = rank(k)
    <3> HIDE DEF rank
    <3> QED  BY <1>6, <2>1
  <2>3. o[rank(k)] = k
    BY <1>3, <2>2
  <2> QED  BY <2>1, <2>3
<1>10. \A n, m \in 1..C : o[n] = o[m] => n = m
  <2> HIDE DEF rank
  <2> QED  BY <1>6
<1> QED  BY <1>4, <1>6, <1>8, <1>9, <1>10 DEF o

\* What a server can have saved.
Saved(w, items) ==
    /\ IsFiniteSet(DOMAIN items) /\ DOMAIN items \subseteq Nat
    /\ \A k \in DOMAIN items : IsValue(w, items[k]) /\ ~ Throws(w, items[k])

\* Where the item after n others begins, and its value.
ContentsAre(w, items, isserialized, o, F, st) ==
    /\ IsSeq(st) /\ Len(st) = Len(F[Len(o)])
    /\ st[4] = <<"fixed", Len(o)>>
    /\ Len(F[0]) = 4
    /\ \A n \in 0..Len(o) : Len(F[n]) \in Nat
    /\ \A n \in 0..(Len(o) - 1) :
          LET V == WriteValue(w, items[o[n + 1]], o[n + 1] \in isserialized)
          IN  /\ Len(F[n + 1]) = Len(F[n]) + 2 + Len(V) /\ Len(V) \in Nat
              /\ Len(F[n]) + 1 \in DOMAIN st /\ st[Len(F[n]) + 1] = <<"string", o[n + 1]>>
              /\ Len(F[n]) + 2 \in DOMAIN st
              /\ st[Len(F[n]) + 2] = <<"next", Len(F[n]) + 3 + Len(V)>>
              /\ Holds(st, Len(F[n]) + 3, V)

\* LocalContents leaves every item at the place its predecessor's offset gives.
LEMMA Contents ==
  ASSUME NEW w \in Servers, NEW items, Saved(w, items), NEW isserialized
  PROVE  ContentsAre(w, items, isserialized, Order(w, DOMAIN items),
                     StreamOf(w, items, Order(w, DOMAIN items), isserialized),
                     LocalContents(w, items, isserialized))
<1> DEFINE o == Order(w, DOMAIN items)
           F == StreamOf(w, items, o, isserialized)
           V(n) == WriteValue(w, items[o[n + 1]], o[n + 1] \in isserialized)
           h(n) == <<<<"string", o[n + 1]>>, <<"next", Len(F[n]) + 3 + Len(V(n))>>>>
           st == LocalContents(w, items, isserialized)
           N == Len(o)
<1>1. /\ IsSeq(o) /\ N \in Nat /\ \A n \in 1..N : o[n] \in DOMAIN items
  BY OrderListsAll DEF Saved
<1>2. st = F[N]
  BY DEF LocalContents, StreamOf
<1>3. F[0] = Header(N)
  BY <1>1, StreamRecursion
<1>4. \A n \in 0..(N - 1) : F[n + 1] = (F[n] \o h(n)) \o V(n)
  <2>1. \A n \in 0..(N - 1) : F[n + 1] = WriteProperty(w, F[n], o[n + 1], items[o[n + 1]], o[n + 1] \in isserialized)
    BY <1>1, StreamRecursion
  <2> HIDE DEF F, o
  <2> QED  BY <2>1 DEF WriteProperty
<1>5. \A n \in 0..(N - 1) : IsSeq(V(n)) /\ Len(V(n)) \in Nat
  <2> SUFFICES ASSUME NEW n \in 0..(N - 1) PROVE IsSeq(V(n)) /\ Len(V(n)) \in Nat
    OBVIOUS
  <2>1. o[n + 1] \in DOMAIN items
    BY <1>1
  <2> DEFINE v == items[o[n + 1]]
             i == o[n + 1] \in isserialized
  <2>2. IsValue(w, v) /\ ~ Throws(w, v) /\ i \in BOOLEAN
    BY <2>1 DEF Saved
  <2> HIDE DEF v, i
  <2>3. Len(v) \in 0..Len(v)
    BY <2>2, ValueFacts
  <2>4. WriteValue(w, v, i) = CellsOf(w, v, i)[Len(v)] /\ IsSeq(CellsOf(w, v, i)[Len(v)])
    BY <2>2, <2>3, ValueCells
  <2>5. IsSeq(WriteValue(w, v, i))
    BY <2>4
  <2> QED  BY <2>5, IsSeqDomain DEF v, i
<1>6. IsSeq(F[0]) /\ Len(F[0]) = 4 /\ F[0][4] = <<"fixed", N>>
  <2>1. F[0] = <<<<"string", "Els">>, <<"next", 5>>, <<"vt", "I4">>, <<"fixed", N>>>>
    BY <1>3 DEF Header
  <2> HIDE DEF F, o
  <2>2. \A a, b, c, d, x : x = <<a, b, c, d>> => IsSeq(x) /\ Len(x) = 4 /\ x[4] = d
    BY DEF IsSeq
  <2> QED  BY <2>1, <2>2
<1> HIDE DEF F, V, o, st
<1>7. \A n \in 0..(N - 1) : IsSeq(h(n)) /\ Len(h(n)) = 2
  <2> SUFFICES ASSUME NEW n \in 0..(N - 1) PROVE IsSeq(h(n)) /\ Len(h(n)) = 2
    OBVIOUS
  <2>1. h(n) = <<<<"string", o[n + 1]>>, <<"next", Len(F[n]) + 3 + Len(V(n))>>>>
    OBVIOUS
  <2> HIDE DEF h
  <2> QED  BY <2>1, LitsOf
<1> HIDE DEF h
<1>8. \A n \in 0..N : IsSeq(F[n]) /\ Len(F[n]) \in Nat
  <2> DEFINE S == {n \in 0..N : IsSeq(F[n])}
  <2>1. 0 \in S
    BY <1>1, <1>6
  <2>2. ASSUME NEW n \in 0..(N - 1), n \in S PROVE n + 1 \in S
    <3>1. IsSeq(F[n] \o h(n))
      BY <1>7, <2>2, CatSeq
    <3>2. IsSeq((F[n] \o h(n)) \o V(n))
      BY <1>5, <3>1, CatSeq
    <3>3. n + 1 \in 0..N
      BY <1>1
    <3>4. IsSeq(F[n + 1])
      BY <1>4, <3>2
    <3> QED  BY <3>3, <3>4
  <2>3. 0..N \subseteq S
    <3> HIDE DEF S
    <3> QED  BY <1>1, <2>1, <2>2, UpTo
  <2> QED  BY <2>3, IsSeqDomain
<1>9. ASSUME NEW n \in 0..(N - 1)
      PROVE  /\ IsSeq(F[n]) /\ IsSeq(F[n] \o h(n)) /\ Len(F[n]) \in Nat
             /\ Len(F[n] \o h(n)) = Len(F[n]) + 2
             /\ Len(F[n + 1]) = Len(F[n]) + 2 + Len(V(n))
  <2>1. n \in 0..N
    BY <1>1
  <2>2. IsSeq(F[n] \o h(n)) /\ Len(F[n] \o h(n)) = Len(F[n]) + 2
    <3>1. IsSeq(F[n]) /\ IsSeq(h(n)) /\ Len(h(n)) = 2
      BY <1>7, <1>8, <2>1
    <3>2. IsSeq(F[n] \o h(n)) /\ Len(F[n] \o h(n)) = Len(F[n]) + Len(h(n))
      BY <3>1, CatSeq
    <3> QED  BY <3>1, <3>2
  <2>3. Len((F[n] \o h(n)) \o V(n)) = Len(F[n] \o h(n)) + Len(V(n))
    BY <1>5, <2>2, CatSeq
  <2> QED  BY <1>4, <1>8, <2>1, <2>2, <2>3
<1>10. \A n \in 0..N : Holds(st, 1, F[n])
  <2> DEFINE S == {m \in 0..N : Holds(st, 1, F[N - m])}
  <2>1. 0 \in S
    <3>1. N - 0 = N /\ N \in 0..N
      BY <1>1
    <3>2. Len(st) \in Nat /\ DOMAIN st = 1..Len(st)
      BY <1>2, <1>8, <3>1, IsSeqDomain
    <3>3. Holds(st, 1, st)
      BY <3>2 DEF Holds
    <3> QED  BY <1>1, <1>2, <3>1, <3>3
  <2>2. ASSUME NEW m \in 0..(N - 1), m \in S PROVE m + 1 \in S
    <3>1. PICK n \in 0..(N - 1) : n = N - (m + 1) /\ n + 1 = N - m
      <4>1. N - (m + 1) \in 0..(N - 1) /\ (N - (m + 1)) + 1 = N - m
        BY <1>1
      <4> QED  BY <4>1
    <3>2. Holds(st, 1, (F[n] \o h(n)) \o V(n))
      BY <1>4, <2>2, <3>1
    <3>3. Holds(st, 1, F[n] \o h(n))
      BY <1>5, <1>9, <3>2, HoldsCat
    <3>4. Holds(st, 1, F[n])
      BY <1>7, <1>9, <3>3, HoldsCat
    <3>5. m + 1 \in 0..N
      BY <1>1
    <3> QED  BY <3>1, <3>4, <3>5
  <2>3. 0..N \subseteq S
    <3> HIDE DEF S
    <3> QED  BY <1>1, <2>1, <2>2, UpTo
  <2>4. ASSUME NEW n \in 0..N PROVE Holds(st, 1, F[n])
    <3>1. N - n \in 0..N /\ N - (N - n) = n
      BY <1>1
    <3>2. N - n \in S
      <4> HIDE DEF S
      <4> QED  BY <3>1, <2>3
    <3> QED  BY <3>1, <3>2
  <2> QED  BY <2>4
<1>11. st[4] = <<"fixed", N>>
  <2>1. Holds(st, 1, F[0]) /\ 4 \in 1..Len(F[0]) /\ 1 + 4 - 1 = 4
    BY <1>1, <1>6, <1>10
  <2> QED  BY <1>6, <2>1 DEF Holds
<1>12. ASSUME NEW n \in 0..(N - 1)
       PROVE  /\ Len(F[n]) + 1 \in DOMAIN st /\ st[Len(F[n]) + 1] = <<"string", o[n + 1]>>
              /\ Len(F[n]) + 2 \in DOMAIN st
              /\ st[Len(F[n]) + 2] = <<"next", Len(F[n]) + 3 + Len(V(n))>>
              /\ Holds(st, Len(F[n]) + 3, V(n))
  <2>1. Holds(st, 1, (F[n] \o h(n)) \o V(n))
    <3>1. n + 1 \in 0..N
      BY <1>1
    <3> QED  BY <1>4, <1>10, <3>1
  <2>2. Holds(st, 1, F[n] \o h(n)) /\ Holds(st, 1 + Len(F[n] \o h(n)), V(n))
    BY <1>5, <1>9, <2>1, HoldsCat
  <2>3. Holds(st, 1 + Len(F[n]), h(n))
    BY <1>7, <1>9, <2>2, HoldsCat
  <2>4. /\ 1 + Len(F[n]) = Len(F[n]) + 1 /\ 1 + Len(F[n] \o h(n)) = Len(F[n]) + 3
        /\ Len(F[n]) + 1 \in Nat /\ (Len(F[n]) + 1) + 1 = Len(F[n]) + 2
    BY <1>9
  <2>5. Holds(st, Len(F[n]) + 1, <<<<"string", o[n + 1]>>, <<"next", Len(F[n]) + 3 + Len(V(n))>>>>)
    BY <2>3, <2>4 DEF h
  <2>6. /\ Len(F[n]) + 1 \in DOMAIN st /\ st[Len(F[n]) + 1] = <<"string", o[n + 1]>>
        /\ (Len(F[n]) + 1) + 1 \in DOMAIN st
        /\ st[(Len(F[n]) + 1) + 1] = <<"next", Len(F[n]) + 3 + Len(V(n))>>
    <3> DEFINE a == <<"string", o[n + 1]>>
               b == <<"next", Len(F[n]) + 3 + Len(V(n))>>
    <3>1. Holds(st, Len(F[n]) + 1, <<a, b>>) /\ Len(F[n]) + 1 \in Nat
      BY <2>4, <2>5
    <3> HIDE DEF a, b
    <3>2. /\ Len(F[n]) + 1 \in DOMAIN st /\ st[Len(F[n]) + 1] = a
          /\ (Len(F[n]) + 1) + 1 \in DOMAIN st /\ st[(Len(F[n]) + 1) + 1] = b
      BY <3>1, HoldsLits
    <3> QED  BY <3>2 DEF a, b
  <2> QED  BY <2>2, <2>4, <2>6
<1>13. IsSeq(st) /\ Len(st) = Len(F[N])
  BY <1>1, <1>2, <1>8
<1>14. ContentsAre(w, items, isserialized, o, F, st)
  BY <1>5, <1>6, <1>8, <1>9, <1>11, <1>12, <1>13 DEF ContentsAre, V
<1> QED  BY <1>14 DEF F, o, st

----------------------------------------------------------------------------
(* Loading items *)

IsLoad(l) == l = [hr |-> l.hr, items |-> l.items, isserialized |-> l.isserialized, aligned |-> l.aligned, p |-> l.p]

\* An item that has been read to its end.
ItemOK(w, s, items, isserialized, l, k) ==
    /\ IsValue(s, l.items[k])
    /\ NodesOK(w, s, items[k], k \in isserialized, l.items[k], Len(items[k]))
    /\ k \in l.isserialized <=> s = "classic" /\ items[k][1][1] = "DISPATCH"

\* Loading has gone through the names of done.
ReadAll(w, s, items, isserialized, l, done) ==
    /\ l.hr = "S_OK"
    /\ DOMAIN l.items = done
    /\ \A k \in done : ItemOK(w, s, items, isserialized, l, k)
    /\ l.isserialized \subseteq done

\* Loading has ended at an item that could not be read.
ReadSome(w, s, items, isserialized, l) ==
    /\ l.hr # "S_OK"
    /\ \E k \in DOMAIN items : ~ GoodValue(w, s, items[k], k \in isserialized)
    /\ DOMAIN l.items \subseteq DOMAIN items
    /\ \A k \in DOMAIN l.items : IsValue(s, l.items[k])
    /\ l.isserialized \subseteq DOMAIN l.items
    /\ l.isserialized # {} => s = "classic"

\* What is entered for an object that was no stream.
LEMMA EmptyValue ==
  ASSUME NEW s
  PROVE  IsValue(s, <<Empty>>) /\ <<Empty>>[1][1] = "EMPTY"
<1> DEFINE v == <<Empty>>
<1>1. IsSeq(v) /\ Len(v) = 1 /\ v[1] = Empty
  BY LitsOf
<1> HIDE DEF v
<1>2. Todo(v)[0] = 1 /\ \A n \in 0..(Len(v) - 1) : Todo(v)[n + 1] = Todo(v)[n] - 1 + Children(v[n + 1])
  BY <1>1, TodoRecursion
<1>3. Children(Empty) = 0
  BY DEF Children, Empty
<1>4. Todo(v)[0 + 1] = Todo(v)[0] - 1 + Children(v[0 + 1])
  BY <1>1, <1>2
<1>5. Todo(v)[1] = 0
  BY <1>1, <1>2, <1>3, <1>4
<1>6. IsTree(v)
  BY <1>1, <1>2, <1>5 DEF IsTree
<1>7. IsNode(s, Empty)
  BY DEF IsNode, IsScalar, Empty
<1>8. IsValue(s, v) /\ v[1][1] = "EMPTY"
  BY <1>1, <1>6, <1>7 DEF IsValue, Empty
<1> QED  BY <1>8 DEF v

\* An object that is not written is not good.
LEMMA NotGood ==
  ASSUME NEW w, NEW s, NEW v, IsValue(w, v), NEW isSerialized \in BOOLEAN,
         v[1][1] = "DISPATCH", ~ Matched(v[1], isSerialized)
  PROVE  ~ GoodValue(w, s, v, isSerialized)
<1>1. 1 \in 1..Len(v)
  BY ValueFacts
<1>2. ~ PortableNode(v[1])
  BY DEF PortableNode, Scalars, Fixed
<1>3. ~ OwnNode(w, s, v[1], isSerialized /\ 1 = 1)
  BY DEF OwnNode, Matched
<1> QED  BY <1>1, <1>2, <1>3 DEF GoodValue

\* One item: it is loaded and the reader stands behind it, or loading ends here.
LEMMA NextItemRead ==
  ASSUME NEW w \in Servers, NEW s \in Servers, NEW items, Saved(w, items), NEW isserialized,
         NEW st, IsSeq(st), NEW a \in Nat, NEW done, done \subseteq DOMAIN items,
         NEW k \in DOMAIN items, k \notin done,
         a >= 1, a \in DOMAIN st, st[a] = <<"string", k>>,
         Len(WriteValue(w, items[k], k \in isserialized)) \in Nat,
         st[a + 1] = <<"next", a + 2 + Len(WriteValue(w, items[k], k \in isserialized))>>,
         Holds(st, a + 2, WriteValue(w, items[k], k \in isserialized)),
         ~ At(st, a + 2 + Len(WriteValue(w, items[k], k \in isserialized)), "length"),
         NEW l, l.p = a, l.aligned,
         ReadAll(w, s, items, isserialized, l, done)
  PROVE  LET m == NextItem(s, st, l)
         IN  /\ IsLoad(m) /\ m.aligned
             /\ \/ /\ ReadAll(w, s, items, isserialized, m, done \cup {k})
                   /\ m.p = a + 2 + Len(WriteValue(w, items[k], k \in isserialized))
                \/ ReadSome(w, s, items, isserialized, m)
<1> DEFINE v == items[k]
           i == k \in isserialized
           V == WriteValue(w, v, i)
           r == ReadValue(s, st, a + 2)
           isObject == s = "classic" /\ At(st, a + 2, "vt") /\ st[a + 2][2] \in {"DISPATCH", "UNKNOWN"}
           m == NextItem(s, st, l)
<1>1. IsValue(w, v) /\ ~ Throws(w, v) /\ i \in BOOLEAN /\ a + 2 \in Nat /\ a + 2 >= 1
  BY DEF Saved
<1>2. /\ r.hr = "S_OK" =>
            /\ r.p = a + 2 + Len(V) /\ IsValue(s, r.v)
            /\ NodesOK(w, s, v, i, r.v, Len(v))
      /\ r.hr # "S_OK" => r.v = <<Empty>>
      /\ GoodValue(w, s, v, i) => r.hr = "S_OK"
  <2>1. Holds(st, a + 2, WriteValue(w, v, i)) /\ ~ At(st, a + 2 + Len(WriteValue(w, v, i)), "length")
    OBVIOUS
  <2> HIDE DEF v, i
  <2> QED  BY ONLY <1>1, <2>1, w \in Servers, s \in Servers, IsSeq(st), ValueRead
<1>3. l.hr = "S_OK" /\ At(st, l.p, "string") /\ st[l.p][2] = k
  BY DEF ReadAll, At
<1>4. m = [hr |-> r.hr,
           items |-> Enter(l.items, k, r.v),
           isserialized |-> l.isserialized \cup (IF isObject THEN {k} ELSE {}),
           aligned |-> l.aligned /\ (r.hr = "S_OK" => st[a + 1][2] = r.p),
           p |-> r.p]
  <2> HIDE DEF r
  <2> QED  BY <1>3 DEF NextItem, EnterItem, r
<1>5. isObject <=> s = "classic" /\ v[1][1] = "DISPATCH"
  <2>1. a + 2 \in DOMAIN st /\ st[a + 2] = <<"vt", VtOf(w, v[1][1])>>
    <3>1. 0 \in 0..(Len(v) - 1) /\ 0 + 1 = 1 /\ (i /\ 0 + 1 = 1) = i
      BY <1>1, ValueFacts
    <3>2. Holds(st, a + 2 + Len(CellsOf(w, v, i)[0]), NodeCells(w, v[0 + 1], i /\ 0 + 1 = 1))
      <4>1. Holds(st, a + 2, WriteValue(w, v, i)) /\ ~ At(st, a + 2 + Len(WriteValue(w, v, i)), "length")
        OBVIOUS
      <4> HIDE DEF v, i
      <4>2. Holds(st, a + 2 + Len(CellsOf(w, v, i)[0]), NodeAt(w, v, i, 0 + 1))
        BY ONLY <1>1, <3>1, <4>1, w \in Servers, ValueHolds
      <4> QED  BY <4>2 DEF NodeAt
    <3>3. CellsOf(w, v, i)[0] = <<>>
      <4> HIDE DEF v, i
      <4> QED  BY <1>1, ValueCells
    <3>4. a + 2 + Len(CellsOf(w, v, i)[0]) = a + 2
      <4>1. Len(CellsOf(w, v, i)[0]) = 0
        BY <3>3, LitsOf
      <4> QED  BY <4>1
    <3>5. Holds(st, a + 2, NodeCells(w, v[1], i))
      <4> HIDE DEF i, v
      <4> QED  BY <3>1, <3>2, <3>4
    <3>6. IsNode(w, v[1]) /\ (v[1][1] = "ARRAY" => Writable(w, v[1][2], v[1][3]))
      <4>1. 1 \in 1..Len(v)
        BY <1>1, ValueFacts
      <4> QED  BY <1>1, <4>1, ValueFacts, NotThrown
    <3>7. IsSeq(Rest(w, v[1], i))
      BY <1>1, <3>6, RestIsSeq
    <3> HIDE DEF v, i
    <3> QED  BY <1>1, <3>5, <3>7, NodeCellsAre
  <2>2. VtOf(w, v[1][1]) \in {"DISPATCH", "UNKNOWN"} <=> v[1][1] = "DISPATCH"
    <3>1. IsNode(w, v[1])
      <4>1. 1 \in 1..Len(v)
        BY <1>1, ValueFacts
      <4> QED  BY <1>1, <4>1, ValueFacts
    <3>2. v[1][1] # "UNKNOWN"
      <4> HIDE DEF v
      <4> QED  BY <3>1 DEF IsNode, IsScalar, IsObject, IsArray, Fixed, Classes
    <3> HIDE DEF v
    <3> QED  BY <3>2 DEF VtOf, Classes
  <2> HIDE DEF v, r
  <2> QED  BY <2>1, <2>2 DEF At
<1> HIDE DEF r, isObject, m
<1>6. /\ m.hr = r.hr /\ m.items = Enter(l.items, k, r.v) /\ m.p = r.p
      /\ m.isserialized = l.isserialized \cup (IF isObject THEN {k} ELSE {})
      /\ m.aligned = (l.aligned /\ (r.hr = "S_OK" => st[a + 1][2] = r.p))
      /\ IsLoad(m)
  BY <1>4 DEF IsLoad
<1>7. m.aligned
  <2>1. st[a + 1][2] = a + 2 + Len(V)
    OBVIOUS
  <2> HIDE DEF V
  <2> QED  BY <1>2, <1>6, <2>1
<1>8. /\ DOMAIN l.items = done /\ l.isserialized \subseteq done
      /\ \A j \in done : ItemOK(w, s, items, isserialized, l, j)
  BY DEF ReadAll
<1>9. /\ DOMAIN m.items = done \cup {k} /\ m.items[k] = r.v
      /\ \A j \in done : m.items[j] = l.items[j] /\ (j \in m.isserialized <=> j \in l.isserialized)
      /\ m.isserialized \subseteq done \cup {k}
      /\ k \in m.isserialized <=> isObject
  <2>1. m.items = [j \in done \cup {k} |-> IF j = k THEN r.v ELSE l.items[j]]
    BY <1>6, <1>8 DEF Enter
  <2> QED  BY <1>6, <1>8, <2>1
<1>10. CASE r.hr = "S_OK"
  <2>1. ItemOK(w, s, items, isserialized, m, k)
    BY <1>2, <1>5, <1>9, <1>10 DEF ItemOK
  <2>2. \A j \in done : ItemOK(w, s, items, isserialized, m, j)
    BY <1>8, <1>9 DEF ItemOK
  <2>3. ReadAll(w, s, items, isserialized, m, done \cup {k})
    BY <1>6, <1>9, <1>10, <2>1, <2>2 DEF ReadAll
  <2> QED  BY <1>2, <1>6, <1>7, <1>10, <2>3 DEF m
<1>11. CASE r.hr # "S_OK"
  <2>1. ~ GoodValue(w, s, items[k], k \in isserialized)
    BY <1>2, <1>11
  <2>2. ASSUME NEW j \in done \cup {k} PROVE IsValue(s, m.items[j])
    <3>1. CASE j = k
      BY <1>2, <1>9, <1>11, <3>1, EmptyValue
    <3>2. CASE j \in done
      BY <1>8, <1>9, <3>2 DEF ItemOK
    <3> QED  BY <3>1, <3>2
  <2>3. ASSUME NEW j \in m.isserialized PROVE s = "classic"
    BY <1>5, <1>8, <1>9 DEF ItemOK
  <2>4. ReadSome(w, s, items, isserialized, m)
    BY <1>6, <1>9, <1>11, <2>1, <2>2, <2>3 DEF ReadSome
  <2> QED  BY <1>6, <1>7, <2>4 DEF m
<1> QED  BY <1>10, <1>11

\* Whatever follows an item in a stream is not the length of an object.
LEMMA NoLength ==
  ASSUME NEW w \in Servers, NEW items, Saved(w, items), NEW isserialized,
         NEW n \in 0..(Len(Order(w, DOMAIN items)) - 1)
  PROVE  ~ At(LocalContents(w, items, isserialized),
              Len(StreamOf(w, items, Order(w, DOMAIN items), isserialized)[n + 1]) + 1, "length")
<1> DEFINE o == Order(w, DOMAIN items)
           F == StreamOf(w, items, o, isserialized)
           st == LocalContents(w, items, isserialized)
           N == Len(o)
<1>1. N \in Nat
  BY OrderListsAll DEF Saved
<1>2. /\ IsSeq(st) /\ Len(st) = Len(F[N])
      /\ \A m \in 0..N : Len(F[m]) \in Nat
      /\ \A m \in 0..(N - 1) : Len(F[m]) + 1 \in DOMAIN st /\ st[Len(F[m]) + 1] = <<"string", o[m + 1]>>
  <2>1. ContentsAre(w, items, isserialized, o, F, st)
    BY Contents
  <2> HIDE DEF o, F, st
  <2> QED  BY <2>1 DEF ContentsAre
<1> HIDE DEF o, F, st
<1>3. n \in 0..(N - 1)
  BY DEF o
<1>4. CASE n + 1 = N
  <2>1. DOMAIN st = 1..Len(st) /\ Len(st) \in Nat
    BY <1>2, IsSeqDomain
  <2>2. Len(F[n + 1]) + 1 \notin DOMAIN st
    BY <1>2, <1>4, <2>1
  <2> QED  BY <2>2 DEF At, o, F, st
<1>5. CASE n + 1 # N
  <2>1. n + 1 \in 0..(N - 1)
    BY <1>1, <1>3, <1>5
  <2>2. st[Len(F[n + 1]) + 1][1] = "string"
    BY <1>2, <2>1
  <2> QED  BY <2>2 DEF At, o, F, st
<1> QED  BY <1>4, <1>5

\* After n items: they have all been read, or one of them could not be.
LoadedSoFar(w, s, items, isserialized, l, done, p) ==
    /\ IsLoad(l) /\ l.aligned
    /\ \/ ReadAll(w, s, items, isserialized, l, done) /\ l.p = p
       \/ ReadSome(w, s, items, isserialized, l)

\* One item more of a stream of LocalContents.
LEMMA NextItemLoaded ==
  ASSUME NEW w \in Servers, NEW s \in Servers, NEW items, Saved(w, items), NEW isserialized,
         NEW n \in 0..(Len(Order(w, DOMAIN items)) - 1), NEW l,
         LoadedSoFar(w, s, items, isserialized, l, {Order(w, DOMAIN items)[i] : i \in 1..n},
                     Len(StreamOf(w, items, Order(w, DOMAIN items), isserialized)[n]) + 1)
  PROVE  LoadedSoFar(w, s, items, isserialized, NextItem(s, LocalContents(w, items, isserialized), l),
                     {Order(w, DOMAIN items)[i] : i \in 1..(n + 1)},
                     Len(StreamOf(w, items, Order(w, DOMAIN items), isserialized)[n + 1]) + 1)
<1> DEFINE o == Order(w, DOMAIN items)
           F == StreamOf(w, items, o, isserialized)
           st == LocalContents(w, items, isserialized)
           N == Len(o)
           k == o[n + 1]
           V == WriteValue(w, items[k], k \in isserialized)
           a == Len(F[n]) + 1
           done == {o[i] : i \in 1..n}
           m == NextItem(s, st, l)
<1>1. /\ N \in Nat /\ \A i \in 1..N : o[i] \in DOMAIN items
      /\ \A i, j \in 1..N : o[i] = o[j] => i = j
  BY OrderListsAll DEF Saved
<1>2. n \in 0..(N - 1)
  OBVIOUS
<1>3. /\ IsSeq(st) /\ \A i \in 0..N : Len(F[i]) \in Nat
      /\ \A i \in 0..(N - 1) :
            LET U == WriteValue(w, items[o[i + 1]], o[i + 1] \in isserialized)
            IN  /\ Len(F[i + 1]) = Len(F[i]) + 2 + Len(U) /\ Len(U) \in Nat
                /\ Len(F[i]) + 1 \in DOMAIN st /\ st[Len(F[i]) + 1] = <<"string", o[i + 1]>>
                /\ st[Len(F[i]) + 2] = <<"next", Len(F[i]) + 3 + Len(U)>>
                /\ Holds(st, Len(F[i]) + 3, U)
  <2>1. ContentsAre(w, items, isserialized, o, F, st)
    BY Contents
  <2> HIDE DEF o, F, st
  <2> QED  BY <2>1 DEF ContentsAre
<1>4. ~ At(st, Len(F[n + 1]) + 1, "length")
  BY NoLength
<1>5. LoadedSoFar(w, s, items, isserialized, l, done, a)
  OBVIOUS
<1> HIDE DEF o, F, st, N
<1>6. /\ Len(F[n]) \in Nat /\ Len(V) \in Nat /\ Len(F[n + 1]) = Len(F[n]) + 2 + Len(V)
      /\ a \in DOMAIN st /\ st[a] = <<"string", k>>
      /\ st[Len(F[n]) + 2] = <<"next", Len(F[n]) + 3 + Len(V)>>
      /\ Holds(st, Len(F[n]) + 3, V)
  <2>1. n \in 0..N
    BY <1>1, <1>2
  <2> QED  BY <1>2, <1>3, <2>1
<1>7. /\ a \in Nat /\ a >= 1 /\ a + 1 = Len(F[n]) + 2 /\ a + 2 = Len(F[n]) + 3
      /\ a + 2 + Len(V) = Len(F[n + 1]) + 1
  <2> HIDE DEF V
  <2> QED  BY <1>6
<1>8. k \in DOMAIN items /\ done \subseteq DOMAIN items /\ k \notin done
      /\ done \cup {k} = {o[i] : i \in 1..(n + 1)}
  <2>1. n + 1 \in 1..N /\ \A i \in 1..n : i \in 1..N /\ i # n + 1
    BY <1>1, <1>2
  <2>2. 1..(n + 1) = 1..n \cup {n + 1}
    BY <1>1, <1>2
  <2> QED  BY <1>1, <2>1, <2>2
<1> HIDE DEF a, done, k
<1>9. CASE ReadAll(w, s, items, isserialized, l, done) /\ l.p = a
  <2>1. l.aligned /\ IsLoad(l)
    BY <1>5 DEF LoadedSoFar
  <2>2. st[a + 1] = <<"next", a + 2 + Len(V)>> /\ Holds(st, a + 2, V) /\ ~ At(st, a + 2 + Len(V), "length")
    BY <1>4, <1>6, <1>7
  <2>3. /\ IsLoad(m) /\ m.aligned
        /\ \/ ReadAll(w, s, items, isserialized, m, done \cup {k}) /\ m.p = a + 2 + Len(V)
           \/ ReadSome(w, s, items, isserialized, m)
    BY ONLY w \in Servers, s \in Servers, Saved(w, items), <1>3, <1>6, <1>7, <1>8, <1>9, <2>1, <2>2,
            NextItemRead
  <2> HIDE DEF m, V
  <2>4. LoadedSoFar(w, s, items, isserialized, m, done \cup {k}, Len(F[n + 1]) + 1)
    BY <1>7, <2>3 DEF LoadedSoFar
  <2> QED  BY <1>8, <2>4 DEF m, o, F, st
<1>10. CASE ReadSome(w, s, items, isserialized, l)
  <2>1. l.aligned /\ IsLoad(l) /\ l.hr # "S_OK"
    BY <1>5, <1>10 DEF LoadedSoFar, ReadSome
  <2>2. m = [l EXCEPT !.hr = IF @ = "S_OK" THEN "E_FAIL" ELSE @]
    BY <2>1 DEF NextItem, EnterItem
  <2>3. m = l
    BY <2>1, <2>2 DEF IsLoad
  <2> HIDE DEF m
  <2>4. LoadedSoFar(w, s, items, isserialized, m, {o[i] : i \in 1..(n + 1)}, Len(F[n + 1]) + 1)
    BY <1>10, <2>1, <2>3 DEF LoadedSoFar
  <2> QED  BY <2>4 DEF m, o, F, st
<1> QED  BY <1>5, <1>9, <1>10 DEF LoadedSoFar

\* Whoever loads what a server has saved.
LEMMA ContentsRead ==
  ASSUME NEW w \in Servers, NEW s \in Servers, NEW items, Saved(w, items), NEW isserialized
  PROVE  LET l == LocalLoad(s, LocalContents(w, items, isserialized))
         IN  /\ l.aligned
             /\ \/ ReadAll(w, s, items, isserialized, l, DOMAIN items)
                \/ ReadSome(w, s, items, isserialized, l)
<1> DEFINE o == Order(w, DOMAIN items)
           F == StreamOf(w, items, o, isserialized)
           st == LocalContents(w, items, isserialized)
           N == Len(o)
           R == ItemsOf(s, st)
           done(n) == {o[i] : i \in 1..n}
           good(n) == LoadedSoFar(w, s, items, isserialized, R[n], done(n), Len(F[n]) + 1)
<1>1. /\ N \in Nat /\ \A i \in 1..N : o[i] \in DOMAIN items
      /\ \A k \in DOMAIN items : \E i \in 1..N : o[i] = k
  BY OrderListsAll DEF Saved
<1>2. st[4] = <<"fixed", N>> /\ Len(F[0]) = 4
  <2>1. ContentsAre(w, items, isserialized, o, F, st)
    BY Contents
  <2> HIDE DEF o, F, st
  <2> QED  BY <2>1 DEF ContentsAre
<1>3. LocalLoad(s, st) = R[N]
  BY <1>2 DEF LocalLoad, ItemsOf
<1>4. /\ R[0] = [hr |-> "S_OK", items |-> <<>>, isserialized |-> {}, aligned |-> TRUE, p |-> 5]
      /\ \A n \in 0..(N - 1) : R[n + 1] = NextItem(s, st, R[n])
  <2>1. st[4][2] = N
    BY <1>2
  <2> HIDE DEF st, N, R
  <2> QED  BY <1>1, <2>1, ItemsRecursion DEF R
<1>5. good(0)
  <2>1. done(0) = {}
    OBVIOUS
  <2>2. R[0].aligned /\ IsLoad(R[0]) /\ R[0].p = 5 /\ ReadAll(w, s, items, isserialized, R[0], {})
    <3>1. DOMAIN <<>> = {}
      OBVIOUS
    <3> HIDE DEF R
    <3> QED  BY <1>4, <3>1 DEF IsLoad, ReadAll
  <2> HIDE DEF R, F, done, o, st
  <2>3. R[0].p = Len(F[0]) + 1
    BY <1>2, <2>2
  <2> QED  BY <2>1, <2>2, <2>3 DEF LoadedSoFar
<1>6. ASSUME NEW n \in 0..(N - 1), good(n) PROVE good(n + 1)
  <2>1. R[n + 1] = NextItem(s, st, R[n])
    BY <1>4, <1>6
  <2> HIDE DEF R
  <2> QED  BY <1>6, <2>1, NextItemLoaded
<1>7. good(N)
  <2> DEFINE S == {n \in 0..N : good(n)}
  <2> HIDE DEF good, N
  <2>1. 0 \in S
    BY <1>1, <1>5
  <2>2. ASSUME NEW n \in 0..(N - 1), n \in S PROVE n + 1 \in S
    BY <1>1, <1>6, <2>2
  <2>3. 0..N \subseteq S
    <3> HIDE DEF S
    <3> QED  BY <1>1, <2>1, <2>2, UpTo
  <2> QED  BY <1>1, <2>3
<1>8. done(N) = DOMAIN items
  <2> HIDE DEF o
  <2> QED  BY <1>1
<1> HIDE DEF R, done, F, N
<1> QED  BY <1>3, <1>7, <1>8 DEF LoadedSoFar

----------------------------------------------------------------------------
(* What values mean *)

\* Values of which the pages' meaning is portable are read back by every server.
LEMMA PortableIsGood ==
  ASSUME NEW w \in Servers, NEW s \in Servers, NEW v, IsValue(w, v), NEW isSerialized \in BOOLEAN,
         Matched(v[1], isSerialized), Portable(Meaning(v, isSerialized))
  PROVE  GoodValue(w, s, v, isSerialized)
<1>1. /\ DOMAIN v = 1..Len(v) /\ 1 \in 1..Len(v)
      /\ \A n \in 1..Len(v) : IsNode(w, v[n])
      /\ \A n \in 1..Len(v) : n # 1 => v[n][1] # "DISPATCH"
  <2>1. /\ DOMAIN v = 1..Len(v) /\ Len(v) \in Nat /\ Len(v) >= 1
        /\ \A n \in 1..Len(v) : IsNode(w, v[n])
        /\ \A n \in 2..Len(v) : v[n][1] # "DISPATCH"
    BY ValueFacts
  <2> QED  BY <2>1
<1>2. ASSUME NEW n \in 1..Len(v) PROVE PortableNode(v[n])
  <2> DEFINE x == v[n]
             i == isSerialized /\ n = 1
             m == NodeMeaning(x, i)
  <2>1. PortableNode(m)
    <3>1. n \in DOMAIN v /\ Meaning(v, isSerialized)[n] = m /\ n \in DOMAIN Meaning(v, isSerialized)
      BY <1>1 DEF Meaning
    <3> HIDE DEF m
    <3> QED  BY <3>1 DEF Portable, PortableNode
  <2>2. IsNode(w, x) /\ Matched(x, i) /\ i \in BOOLEAN
    BY <1>1 DEF Matched
  <2> HIDE DEF x, i
  <2>3. CASE x[1] = "UI1"
    BY <2>3 DEF PortableNode, Scalars, Fixed, x
  <2>4. CASE x[1] = "CURRENCY"
    <3>1. m[1] = "CY"
      BY <2>4 DEF NodeMeaning
    <3> QED  BY <2>1, <3>1 DEF PortableNode, Scalars, Fixed
  <2>5. CASE x[1] = "DISPATCH"
    <3>1. m[1] = "OBJECT"
      BY <2>2, <2>5 DEF NodeMeaning, Matched
    <3> QED  BY <2>1, <3>1 DEF PortableNode, Scalars, Fixed
  <2>6. CASE x[1] \in Classes \ {"CURRENCY"}
    <3>1. m[1] = "OBJECT"
      BY <2>6 DEF NodeMeaning, Classes
    <3> QED  BY <2>1, <3>1 DEF PortableNode, Scalars, Fixed
  <2>7. CASE x[1] \notin {"UI1", "DISPATCH"} \cup Classes
    <3>1. m = x
      BY <2>7 DEF NodeMeaning, Classes
    <3> QED  BY <2>1, <3>1 DEF x
  <2> QED  BY <2>3, <2>4, <2>5, <2>6, <2>7 DEF Classes, x
<1> QED  BY <1>2 DEF GoodValue

\* So are those with bounds by servers of the writer's kind.
LEMMA DimensionedIsGood ==
  ASSUME NEW w \in Servers, NEW s \in Servers, Alike(w, s),
         NEW v, IsValue(w, v), NEW isSerialized \in BOOLEAN,
         \A n \in DOMAIN v : ~ Unserializable(w, v[n]),
         Matched(v[1], isSerialized), Dimensioned(Meaning(v, isSerialized))
  PROVE  GoodValue(w, s, v, isSerialized)
<1>1. /\ DOMAIN v = 1..Len(v)
      /\ \A n \in 1..Len(v) : n # 1 => v[n][1] # "DISPATCH"
  <2>1. /\ DOMAIN v = 1..Len(v) /\ Len(v) \in Nat
        /\ \A n \in 2..Len(v) : v[n][1] # "DISPATCH"
    BY ValueFacts
  <2> QED  BY <2>1
<1>2. ASSUME NEW n \in 1..Len(v) PROVE OwnNode(w, s, v[n], isSerialized /\ n = 1)
  <2>1. n \in DOMAIN v /\ ~ Unserializable(w, v[n]) /\ Matched(v[n], isSerialized /\ n = 1)
    BY <1>1 DEF Matched
  <2>2. ASSUME v[n][1] = "ARRAY" PROVE v[n][3] # <<>>
    <3> DEFINE x == v[n]
               m == NodeMeaning(x, isSerialized /\ n = 1)
    <3>1. Meaning(v, isSerialized)[n] = m /\ n \in DOMAIN Meaning(v, isSerialized)
      BY <2>1 DEF Meaning
    <3>2. m = x
      <4>1. x[1] = "ARRAY"
        BY <2>2
      <4> HIDE DEF x
      <4> QED  BY <4>1 DEF NodeMeaning, Classes
    <3> HIDE DEF m
    <3> QED  BY <2>2, <3>1, <3>2 DEF Dimensioned
  <2> QED  BY <2>1, <2>2 DEF OwnNode
<1> QED  BY <1>2 DEF GoodValue

\* A good value that has been read means what it meant.
LEMMA GoodMeaning ==
  ASSUME NEW w \in Servers, NEW s \in Servers, NEW v, IsValue(w, v), NEW isSerialized \in BOOLEAN,
         GoodValue(w, s, v, isSerialized),
         NEW u, NodesOK(w, s, v, isSerialized, u, Len(v)),
         NEW j \in BOOLEAN, j <=> s = "classic" /\ v[1][1] = "DISPATCH"
  PROVE  Meaning(u, j) = Meaning(v, isSerialized)
<1>1. /\ DOMAIN v = 1..Len(v) /\ Len(v) \in Nat
      /\ \A n \in 2..Len(v) : v[n][1] # "DISPATCH"
  BY ValueFacts
<1>2. /\ IsSeq(u) /\ Len(u) = Len(v) /\ DOMAIN u = 1..Len(v)
      /\ \A n \in 1..Len(v) : NodeOK(w, s, v, isSerialized, u[n], n)
  BY IsSeqDomain DEF NodesOK
<1>3. ASSUME NEW n \in 1..Len(v)
      PROVE  NodeMeaning(u[n], j /\ n = 1) = NodeMeaning(v[n], isSerialized /\ n = 1)
  <2>1. SameMeaning(u[n], v[n], isSerialized /\ n = 1) /\ IsNode(s, u[n])
    BY <1>2 DEF NodeOK
  <2>2. CASE v[n][1] # "DISPATCH"
    BY <2>1, <2>2 DEF SameMeaning
  <2>3. CASE v[n][1] = "DISPATCH"
    <3>1. n = 1
      BY <1>1, <2>3
    <3>2. s = "classic"
      <4> DEFINE y == u[n]
      <4>1. IsNode(s, y) /\ y[1] = "DISPATCH"
        BY <2>1, <2>3 DEF SameMeaning
      <4> HIDE DEF y
      <4> QED  BY <4>1 DEF IsNode, IsScalar, IsObject, IsArray, Fixed, Classes
    <3>3. (j /\ n = 1) = TRUE
      BY <2>3, <3>1, <3>2
    <3> QED  BY <2>1, <2>3, <3>3 DEF SameMeaning
  <2> QED  BY <2>2, <2>3
<1> QED  BY <1>1, <1>2, <1>3 DEF Meaning

OneKind(servers) == servers \subseteq {"classic"} \/ servers \subseteq Net

\* The items mean what the pages of the servers meant to store.
Kept(items, isserialized, meant, servers) ==
    /\ DOMAIN items = DOMAIN meant
    /\ \A k \in DOMAIN items : Matched(items[k][1], k \in isserialized)
    /\ \A k \in DOMAIN items :
          Portable(meant[k]) \/ (OneKind(servers) /\ Dimensioned(meant[k]))
          => Meaning(items[k], k \in isserialized) = meant[k]

\* No object was dropped when they were saved.
Whole(w, items) == \A k \in DOMAIN items : \A n \in DOMAIN items[k] : ~ Unserializable(w, items[k][n])

\* What a classic page has written as a stream, the next classic page has as one.
LEMMA ObjectStays ==
  ASSUME NEW w \in Servers, NEW s \in Servers, s = "classic", NEW v, IsValue(w, v), v[1][1] = "DISPATCH",
         NEW isSerialized \in BOOLEAN, Matched(v[1], isSerialized),
         NEW u, NodesOK(w, s, v, isSerialized, u, Len(v))
  PROVE  u[1][1] = "DISPATCH"
<1>1. /\ Len(v) \in Nat /\ Len(v) >= 1 /\ Todo(v)[0] = 1 /\ IsNode(w, v[1])
      /\ \A n \in 0..(Len(v) - 1) : Todo(v)[n] > 0 /\ Todo(v)[n + 1] = Todo(v)[n] - 1 + Children(v[n + 1])
  <2>1. Len(v) \in Nat /\ Len(v) >= 1
    BY ValueFacts
  <2>2. 1 \in 1..Len(v)
    BY <2>1
  <2> QED  BY <2>1, <2>2, ValueFacts
<1>2. Len(v) = 1
  <2>1. Children(v[1]) = 0
    BY DEF Children
  <2>2. 0 \in 0..(Len(v) - 1) /\ Todo(v)[0 + 1] = Todo(v)[0] - 1 + Children(v[0 + 1])
    BY <1>1
  <2>3. Todo(v)[1] = 0
    BY <1>1, <2>1, <2>2
  <2>4. ~ (1 \in 0..(Len(v) - 1))
    BY <1>1, <2>3
  <2>5. Len(v) \in Nat /\ Len(v) >= 1
    BY <1>1
  <2>6. \A N \in Nat : N >= 1 /\ ~ (1 \in 0..(N - 1)) => N = 1
    OBVIOUS
  <2> QED  BY ONLY <2>4, <2>5, <2>6
<1>3. w = "classic"
  <2> DEFINE x == v[1]
  <2>1. IsNode(w, x) /\ x[1] = "DISPATCH"
    BY <1>1
  <2> HIDE DEF x
  <2> QED  BY <2>1 DEF IsNode, IsScalar, IsObject, IsArray, Fixed, Classes
<1>4. OwnNode(w, s, v[1], isSerialized)
  BY <1>3 DEF OwnNode, Alike, Unserializable
<1>5. GoodValue(w, s, v, isSerialized)
  <2> SUFFICES ASSUME NEW n \in 1..Len(v) PROVE OwnNode(w, s, v[n], isSerialized /\ n = 1)
    BY DEF GoodValue
  <2>1. n = 1 /\ (isSerialized /\ n = 1) = isSerialized
    BY <1>2
  <2> QED  BY <1>4, <2>1
<1>6. NodeOK(w, s, v, isSerialized, u[1], 1)
  BY <1>2 DEF NodesOK
<1> QED  BY <1>5, <1>6 DEF NodeOK, SameMeaning

\* LocalLoad keeps what the pages meant, whichever server runs it: all that is portable, and of
\* one kind of servers, all that has bounds.
LEMMA LoadKept ==
  ASSUME NEW w \in Servers, NEW s \in Servers, NEW items, Saved(w, items), Whole(w, items),
         NEW isserialized, NEW meant, NEW servers, w \in servers,
         Kept(items, isserialized, meant, servers)
  PROVE  LET l == LocalLoad(s, LocalContents(w, items, isserialized))
         IN  /\ l.hr = "S_OK" => Kept(l.items, l.isserialized, meant, servers \cup {s}) /\ StillNoted(l) = {}
             /\ (\A k \in DOMAIN meant :
                    Portable(meant[k]) \/ (OneKind(servers \cup {s}) /\ Dimensioned(meant[k])))
                => l.hr = "S_OK"
<1> DEFINE l == LocalLoad(s, LocalContents(w, items, isserialized))
           good(k) == Portable(meant[k]) \/ (OneKind(servers \cup {s}) /\ Dimensioned(meant[k]))
<1>1. \/ ReadAll(w, s, items, isserialized, l, DOMAIN items)
      \/ ReadSome(w, s, items, isserialized, l)
  BY ContentsRead
<1> HIDE DEF l
<1>2. ASSUME NEW k \in DOMAIN items, good(k)
      PROVE  GoodValue(w, s, items[k], k \in isserialized) /\ Meaning(items[k], k \in isserialized) = meant[k]
  <2> DEFINE v == items[k]
             i == k \in isserialized
  <2>1. IsValue(w, v) /\ i \in BOOLEAN /\ Matched(v[1], i) /\ \A n \in DOMAIN v : ~ Unserializable(w, v[n])
    BY DEF Saved, Kept, Whole
  <2>2. Meaning(v, i) = meant[k]
    <3>1. OneKind(servers \cup {s}) => OneKind(servers)
      BY DEF OneKind
    <3> QED  BY <1>2, <3>1 DEF Kept
  <2> HIDE DEF v, i
  <2>3. CASE Portable(meant[k])
    <3>1. GoodValue(w, s, v, i)
      BY <2>1, <2>2, <2>3, PortableIsGood
    <3> QED  BY <2>2, <3>1 DEF v, i
  <2>4. CASE OneKind(servers \cup {s}) /\ Dimensioned(meant[k])
    <3>1. Alike(w, s)
      BY <2>4 DEF OneKind, Alike
    <3>2. GoodValue(w, s, v, i)
      BY <2>1, <2>2, <2>4, <3>1, DimensionedIsGood
    <3> QED  BY <2>2, <3>2 DEF v, i
  <2> QED  BY <1>2, <2>3, <2>4
<1>3. ASSUME l.hr = "S_OK"
      PROVE  Kept(l.items, l.isserialized, meant, servers \cup {s}) /\ StillNoted(l) = {}
  <2>1. /\ DOMAIN l.items = DOMAIN items /\ l.isserialized \subseteq DOMAIN items
        /\ \A k \in DOMAIN items : ItemOK(w, s, items, isserialized, l, k)
    BY <1>1, <1>3 DEF ReadAll, ReadSome
  <2>2. ASSUME NEW k \in DOMAIN items
        PROVE  /\ Matched(l.items[k][1], k \in l.isserialized)
               /\ k \in l.isserialized => l.items[k][1][1] = "DISPATCH"
               /\ good(k) => Meaning(l.items[k], k \in l.isserialized) = meant[k]
    <3> DEFINE v == items[k]
               i == k \in isserialized
               u == l.items[k]
               j == k \in l.isserialized
    <3>1. /\ IsValue(w, v) /\ i \in BOOLEAN /\ j \in BOOLEAN /\ Matched(v[1], i)
          /\ NodesOK(w, s, v, i, u, Len(v))
          /\ (j <=> s = "classic" /\ v[1][1] = "DISPATCH")
      BY <2>1 DEF Saved, ItemOK, Kept
    <3>2. good(k) => GoodValue(w, s, v, i) /\ Meaning(v, i) = meant[k]
      BY <1>2
    <3> HIDE DEF v, i, u, j, good
    <3>3. Matched(u[1], j)
      <4>1. NodeOK(w, s, v, i, u[1], 1)
        <5>1. 1 \in 1..Len(v)
          BY <3>1, ValueFacts
        <5> QED  BY <3>1, <5>1 DEF NodesOK
      <4>2. u[1][1] = "DISPATCH" => v[1][1] = "DISPATCH" /\ u[1][3] = "stream" /\ IsNode(s, u[1])
        BY <4>1 DEF NodeOK
      <4>3. u[1][1] = "DISPATCH" => s = "classic"
        <5> DEFINE y == u[1]
        <5>1. y[1] = "DISPATCH" => IsNode(s, y)
          BY <4>2
        <5> HIDE DEF y
        <5>2. y[1] = "DISPATCH" => s = "classic"
          BY <5>1 DEF IsNode, IsScalar, IsObject, IsArray, Fixed, Classes
        <5> QED  BY <5>2 DEF y
      <4> QED  BY <3>1, <4>2, <4>3 DEF Matched
    <3>4. good(k) => Meaning(u, j) = Meaning(v, i)
      BY <3>1, <3>2, GoodMeaning
    <3>5. j => u[1][1] = "DISPATCH"
      BY <3>1, ObjectStays
    <3> QED  BY <3>2, <3>3, <3>4, <3>5 DEF u, j
  <2>3. DOMAIN l.items = DOMAIN meant
    BY <2>1 DEF Kept
  <2>4. StillNoted(l) = {}
    BY <2>1, <2>2 DEF StillNoted
  <2> QED  BY <2>1, <2>2, <2>3, <2>4 DEF Kept
<1>4. ASSUME \A k \in DOMAIN meant : good(k) PROVE l.hr = "S_OK"
  <2>1. \A k \in DOMAIN items : GoodValue(w, s, items[k], k \in isserialized)
    <3> HIDE DEF good
    <3> QED  BY <1>2, <1>4 DEF Kept
  <2> QED  BY <1>1, <2>1 DEF ReadAll, ReadSome
<1> QED  BY <1>3, <1>4 DEF l

----------------------------------------------------------------------------
(* What pages do to values *)

\* What get_Item leaves of a stream.
LEMMA GotValue ==
  ASSUME NEW v, IsValue("classic", v), v[1][1] = "DISPATCH",
         NEW u, u = [v EXCEPT ![1][3] = "live"]
  PROVE  /\ IsValue("classic", u)
         /\ Matched(u[1], FALSE)
         /\ v[1][3] = "stream" => Meaning(u, FALSE) = Meaning(v, TRUE)
<1>1. /\ IsSeq(v) /\ Len(v) \in Nat /\ Len(v) >= 1 /\ DOMAIN v = 1..Len(v)
      /\ Todo(v)[Len(v)] = 0
      /\ \A n \in 0..(Len(v) - 1) : Todo(v)[n] > 0
      /\ \A n \in 1..Len(v) : IsNode("classic", v[n])
      /\ \A n \in 2..Len(v) : v[n][1] # "DISPATCH"
  BY ValueFacts
<1>2. v[1] = <<"DISPATCH", v[1][2], v[1][3]>>
  <2> DEFINE x == v[1]
  <2>1. IsNode("classic", x) /\ x[1] = "DISPATCH"
    BY <1>1
  <2> HIDE DEF x
  <2>2. x = <<"DISPATCH", x[2], x[3]>>
    BY <2>1 DEF IsNode, IsScalar, IsObject, IsArray, Fixed
  <2> QED  BY <2>2 DEF x
<1> DEFINE y == <<"DISPATCH", v[1][2], "live">>
<1>3. u = [n \in 1..Len(v) |-> IF n = 1 THEN y ELSE v[n]]
  <2>1. [v[1] EXCEPT ![3] = "live"] = y
    <3> DEFINE o == v[1][2]
               f == v[1][3]
    <3>1. v[1] = <<"DISPATCH", o, f>>
      BY <1>2
    <3> HIDE DEF o, f
    <3> QED  BY <3>1 DEF o
  <2>2. u = [v EXCEPT ![1] = [v[1] EXCEPT ![3] = "live"]]
    OBVIOUS
  <2> HIDE DEF y
  <2> QED  BY <1>1, <2>1, <2>2
<1>4. /\ y[1] = "DISPATCH" /\ y[2] = v[1][2] /\ y[3] = "live"
      /\ y = <<"DISPATCH", y[2], y[3]>>
  OBVIOUS
<1> HIDE DEF y
<1>5. IsNode("classic", y) /\ Children(y) = Children(v[1])
  BY <1>4 DEF IsNode, IsObject, Children
<1>6. IsSeq(u) /\ Len(u) = Len(v) /\ u[1] = y /\ \A n \in 2..Len(v) : u[n] = v[n]
  <2>1. Len(v) \in Nat /\ Len(v) >= 1 /\ 1 \in 1..Len(v)
    BY <1>1
  <2>2. u[1] = y
    BY ONLY <1>3, <2>1
  <2>3. ASSUME NEW n \in 2..Len(v) PROVE u[n] = v[n]
    <3>1. n \in 1..Len(v) /\ n # 1
      BY ONLY <2>1, n \in 2..Len(v)
    <3> QED  BY ONLY <1>3, <3>1
  <2>4. u = [n \in 1..Len(v) |-> u[n]]
    <3>1. DOMAIN u = 1..Len(v) /\ u = [n \in DOMAIN u |-> u[n]]
      BY ONLY <1>3
    <3> QED  BY ONLY <3>1
  <2>5. IsSeq(u) /\ Len(u) = Len(v)
    BY ONLY <2>1, <2>4, FcnSeq
  <2> QED  BY ONLY <2>2, <2>3, <2>5
<1>7. IsValue("classic", u)
  <2>1. \A n \in 1..Len(v) : Children(u[n]) = Children(v[n]) /\ IsNode("classic", u[n])
    <3> SUFFICES ASSUME NEW n \in 1..Len(v)
                 PROVE  Children(u[n]) = Children(v[n]) /\ IsNode("classic", u[n])
      OBVIOUS
    <3>1. CASE n = 1
      BY <1>5, <1>6, <3>1
    <3>2. CASE n # 1
      <4>1. n \in 2..Len(v)
        BY <1>1, <3>2
      <4> QED  BY <1>1, <1>6, <4>1
    <3> QED  BY <3>1, <3>2
  <2>2. \A n \in 0..Len(v) : Todo(u)[n] = Todo(v)[n]
    <3>1. \A n \in 1..Len(v) : Children(u[n]) = Children(v[n])
      BY <2>1
    <3> QED  BY ONLY <1>1, <1>6, <3>1, SameTodo
  <2>3. Todo(u)[Len(u)] = 0 /\ \A n \in 0..(Len(u) - 1) : Todo(u)[n] > 0
    <3>1. Len(v) \in 0..Len(v) /\ \A n \in 0..(Len(v) - 1) : n \in 0..Len(v)
      BY <1>1
    <3> QED  BY ONLY <1>1, <1>6, <2>2, <3>1
  <2>4. \A n \in 2..Len(u) : u[n][1] # "DISPATCH"
    BY <1>1, <1>6
  <2> QED  BY <1>6, <2>1, <2>3, <2>4 DEF IsValue, IsTree
<1>8. ASSUME v[1][3] = "stream" PROVE Meaning(u, FALSE) = Meaning(v, TRUE)
  <2>1. DOMAIN u = 1..Len(v)
    BY <1>6, IsSeqDomain
  <2>2. ASSUME NEW n \in 1..Len(v)
        PROVE  NodeMeaning(u[n], FALSE /\ n = 1) = NodeMeaning(v[n], TRUE /\ n = 1)
    <3>1. CASE n = 1
      <4>1. NodeMeaning(y, FALSE) = <<"OBJECT", v[1][2]>>
        BY <1>4 DEF NodeMeaning, Classes
      <4>2. NodeMeaning(v[1], TRUE) = <<"OBJECT", v[1][2]>>
        BY <1>8 DEF NodeMeaning, Classes
      <4> QED  BY <1>6, <3>1, <4>1, <4>2
    <3>2. CASE n # 1
      <4>1. n \in 2..Len(v) /\ (FALSE /\ n = 1) = (TRUE /\ n = 1)
        BY <1>1, <3>2
      <4> QED  BY <1>6, <4>1
    <3> QED  BY <3>1, <3>2
  <2> QED  BY <1>1, <2>1, <2>2 DEF Meaning
<1>9. Matched(u[1], FALSE)
  BY <1>4, <1>6 DEF Matched
<1> QED  BY <1>7, <1>8, <1>9

\* A value means the same whether or not its name is taken for a stream's,
\* unless it is an object.
LEMMA NoObject ==
  ASSUME NEW v, v[1][1] # "DISPATCH", NEW i \in BOOLEAN, NEW j \in BOOLEAN
  PROVE  Meaning(v, i) = Meaning(v, j) /\ Matched(v[1], i)
<1>1. ASSUME NEW n \in DOMAIN v PROVE NodeMeaning(v[n], i /\ n = 1) = NodeMeaning(v[n], j /\ n = 1)
  <2>1. CASE n = 1
    BY <2>1 DEF NodeMeaning
  <2>2. CASE n # 1
    <3>1. (i /\ n = 1) = (j /\ n = 1)
      BY <2>2
    <3> QED  BY <3>1
  <2> QED  BY <2>1, <2>2
<1> QED  BY <1>1 DEF Meaning, Matched

\* Pages of either .NET put values of their own kind.
LEMMA PutValue ==
  ASSUME NEW s \in Servers, NEW v \in Values(s), StreamAssumption
  PROVE  /\ IsValue(s, v)
         /\ v[1][1] = "DISPATCH" => s = "classic" /\ v[1][3] = "live"
<1>1. CASE s = "classic"
  BY <1>1 DEF Values, StreamAssumption
<1>2. CASE s # "classic"
  <2>1. IsValue("managed", v) /\ s \in Net /\ "managed" \in Net
    BY <1>2 DEF Values, StreamAssumption, Servers, Net
  <2>2. IsValue(s, v)
    <3>1. \A x : IsNode("managed", x) => IsNode(s, x)
      <4> SUFFICES ASSUME NEW x, IsNode("managed", x) PROVE IsNode(s, x)
        OBVIOUS
      <4>1. IsScalar("managed", x) => IsScalar(s, x)
        BY <2>1 DEF IsScalar, Fixed, Net
      <4>2. IsObject("managed", x) => IsObject(s, x)
        BY <2>1 DEF IsObject, Net
      <4>3. IsArray("managed", x) => IsArray(s, x)
        BY <2>1 DEF IsArray, Tags, Net, Block
      <4> QED  BY <4>1, <4>2, <4>3 DEF IsNode
    <3> QED  BY <2>1, <3>1 DEF IsValue
  <2>3. v[1][1] # "DISPATCH"
    <3> DEFINE x == v[1]
    <3>1. IsNode("managed", x)
      <4>1. 1 \in 1..Len(v)
        BY <2>1, ValueFacts
      <4> QED  BY <2>1, <4>1, ValueFacts
    <3> HIDE DEF x
    <3>2. x[1] # "DISPATCH"
      BY <3>1 DEF IsNode, IsScalar, IsObject, IsArray, Fixed, Classes
    <3> QED  BY <3>2 DEF x
  <2> QED  BY <2>2, <2>3
<1> QED  BY <1>1, <1>2

\* A stream is never mistaken for no record at all.
LEMMA SomeRecord ==
  ASSUME NEW w \in Servers, NEW items, Saved(w, items), NEW isserialized
  PROVE  LocalContents(w, items, isserialized) # NoRecord
<1> DEFINE o == Order(w, DOMAIN items)
           F == StreamOf(w, items, o, isserialized)
           st == LocalContents(w, items, isserialized)
<1>1. Len(o) \in Nat
  BY OrderListsAll DEF Saved
<1>2. ContentsAre(w, items, isserialized, o, F, st)
  BY Contents
<1> HIDE DEF o, F, st
<1>3. st # <<>>
  <2>1. IsSeq(st) /\ Len(st) = Len(F[Len(o)]) /\ \A n \in 0..Len(o) : Len(F[n]) \in Nat
    BY <1>2 DEF ContentsAre
  <2>2. CASE Len(o) = 0
    <3>1. Len(st) = 4
      BY <1>2, <2>1, <2>2 DEF ContentsAre
    <3> QED  BY <3>1, LitsOf
  <2>3. CASE Len(o) # 0
    <3>1. 0 \in 0..(Len(o) - 1) /\ 0 \in 0..Len(o)
      BY <1>1, <2>3
    <3>2. Len(F[0]) + 1 \in DOMAIN st
      BY <1>2, <3>1 DEF ContentsAre
    <3> QED  BY <3>2
  <2> QED  BY <2>2, <2>3
<1> QED  BY <1>3 DEF st, NoRecord

----------------------------------------------------------------------------
(* The invariant *)

IsFcn(f) == f = [k \in DOMAIN f |-> f[k]]

\* What a page has in hand, while no step is under way.
PageIs(p) ==
    /\ p = [server |-> p.server, items |-> p.items, isserialized |-> p.isserialized, meant |-> p.meant,
            dirty |-> p.dirty, partial |-> p.partial, calls |-> p.calls]
    /\ p.server \in Servers
    /\ IsFiniteSet(DOMAIN p.items) /\ DOMAIN p.items \subseteq Names
    /\ \A k \in DOMAIN p.items : IsValue(p.server, p.items[k])
    /\ p.isserialized \subseteq Names /\ (p.isserialized # {} => p.server = "classic")
    /\ IsFcn(p.meant) /\ DOMAIN p.meant \subseteq Names
    /\ p.partial \in BOOLEAN

\* A page that has the whole session has no streams for objects.
PageKept(p, servers) ==
    ~ p.partial => p.isserialized = {} /\ Kept(p.items, p.isserialized, p.meant, servers \cup {p.server})

\* The record is what one of the savers has saved.
RecordIs(w, items, isserialized) ==
    /\ w \in savers /\ w \in Servers
    /\ record = LocalContents(w, items, isserialized)
    /\ Saved(w, items) /\ DOMAIN items \subseteq Names
    /\ ~ lost => Whole(w, items) /\ Kept(items, isserialized, truth, savers)

SessionInv ==
    /\ IsFcn(truth) /\ DOMAIN truth \subseteq Names
    /\ savers \subseteq Servers /\ lost \in BOOLEAN
    /\ record = NoRecord => truth = <<>>

RecordInv == record # NoRecord => \E w, items, isserialized : RecordIs(w, items, isserialized)

PageInv == page # NoPage => PageIs(page) /\ (~ lost => PageKept(page, savers))

StreamInv == SessionInv /\ RecordInv /\ PageInv

\* Assignments keep what the pages meant.
LEMMA EnterKept ==
  ASSUME NEW items, NEW isserialized, NEW meant, NEW servers,
         Kept(items, isserialized, meant, servers),
         NEW k, NEW v, v[1][1] = "DISPATCH" => v[1][3] = "live" /\ k \notin isserialized
  PROVE  Kept(Enter(items, k, v), isserialized, Enter(meant, k, Meaning(v, FALSE)), servers)
<1> DEFINE f == Enter(items, k, v)
           g == Enter(meant, k, Meaning(v, FALSE))
<1>1. /\ DOMAIN f = DOMAIN items \cup {k} /\ DOMAIN g = DOMAIN meant \cup {k}
      /\ f[k] = v /\ g[k] = Meaning(v, FALSE)
      /\ \A j \in DOMAIN items : j # k => f[j] = items[j]
      /\ \A j \in DOMAIN meant : j # k => g[j] = meant[j]
  BY DEF Enter
<1> HIDE DEF f, g
<1>2. Matched(v[1], k \in isserialized) /\ Meaning(v, k \in isserialized) = Meaning(v, FALSE)
  <2>1. CASE v[1][1] = "DISPATCH"
    <3>1. (k \in isserialized) = FALSE /\ v[1][3] # "stream"
      BY <2>1
    <3> QED  BY <3>1 DEF Matched
  <2>2. CASE v[1][1] # "DISPATCH"
    <3>1. (k \in isserialized) \in BOOLEAN
      OBVIOUS
    <3> QED  BY <2>2, <3>1, NoObject
  <2> QED  BY <2>1, <2>2
<1>3. DOMAIN items = DOMAIN meant
  BY DEF Kept
<1>4. ASSUME NEW j \in DOMAIN f
      PROVE  /\ Matched(f[j][1], j \in isserialized)
             /\ Portable(g[j]) \/ (OneKind(servers) /\ Dimensioned(g[j]))
                => Meaning(f[j], j \in isserialized) = g[j]
  <2>1. CASE j = k
    BY <1>1, <1>2, <2>1
  <2>2. CASE j # k
    <3>1. j \in DOMAIN items /\ f[j] = items[j] /\ g[j] = meant[j]
      BY <1>1, <1>3, <2>2
    <3> QED  BY <3>1 DEF Kept
  <2> QED  BY <2>1, <2>2
<1>5. DOMAIN f = DOMAIN g
  BY <1>1, <1>3
<1> QED  BY <1>4, <1>5 DEF Kept, f, g

\* So do removals, whether or not the name is forgotten as a stream's.
LEMMA WithoutKept ==
  ASSUME NEW items, NEW isserialized, NEW meant, NEW servers,
         Kept(items, isserialized, meant, servers),
         NEW k, NEW now, now = isserialized \/ now = isserialized \ {k}
  PROVE  Kept(Without(items, k), now, Without(meant, k), servers)
<1> DEFINE f == Without(items, k)
           g == Without(meant, k)
<1>1. /\ DOMAIN f = DOMAIN items \ {k} /\ DOMAIN g = DOMAIN meant \ {k}
      /\ \A j \in DOMAIN f : f[j] = items[j]
      /\ \A j \in DOMAIN g : g[j] = meant[j]
  BY DEF Without
<1> HIDE DEF f, g
<1>2. DOMAIN items = DOMAIN meant
  BY DEF Kept
<1>3. ASSUME NEW j \in DOMAIN f
      PROVE  /\ Matched(f[j][1], j \in now)
             /\ Portable(g[j]) \/ (OneKind(servers) /\ Dimensioned(g[j]))
                => Meaning(f[j], j \in now) = g[j]
  <2>1. j \in DOMAIN items /\ f[j] = items[j] /\ g[j] = meant[j] /\ (j \in now) = (j \in isserialized)
    BY <1>1, <1>2
  <2> QED  BY <2>1 DEF Kept
<1>4. DOMAIN f = DOMAIN g
  BY <1>1, <1>2
<1> QED  BY <1>3, <1>4 DEF Kept, f, g

\* OnStartPage makes every object from its stream: values stay values, and mean what they meant.
LEMMA StartedIs ==
  ASSUME NEW s \in Servers, NEW l, \A k \in DOMAIN l.items : IsValue(s, l.items[k]),
         l.isserialized # {} => s = "classic"
  PROVE  /\ DOMAIN Started(l) = DOMAIN l.items
         /\ \A k \in DOMAIN l.items : IsValue(s, Started(l)[k])
         /\ \A meant, servers : Kept(l.items, l.isserialized, meant, servers) => Kept(Started(l), {}, meant, servers)
<1>1. DOMAIN Started(l) = DOMAIN l.items
  BY DEF Started
<1>2. ASSUME NEW k \in DOMAIN l.items
      PROVE  /\ IsValue(s, Started(l)[k])
             /\ Matched(l.items[k][1], k \in l.isserialized) =>
                   /\ Matched(Started(l)[k][1], FALSE)
                   /\ Meaning(Started(l)[k], FALSE) = Meaning(l.items[k], k \in l.isserialized)
  <2> DEFINE v == l.items[k]
             u == Started(l)[k]
             i == k \in l.isserialized
  <2>1. IsValue(s, v) /\ u = Got(v, i) /\ i \in BOOLEAN
    BY DEF Started
  <2>2. i => s = "classic"
    OBVIOUS
  <2> HIDE DEF v, u, i
  <2>3. CASE i /\ v[1][1] = "DISPATCH"
    <3>1. IsValue("classic", v) /\ u = [v EXCEPT ![1][3] = "live"]
      BY <2>1, <2>2, <2>3 DEF Got
    <3>2. /\ IsValue("classic", u) /\ Matched(u[1], FALSE)
          /\ v[1][3] = "stream" => Meaning(u, FALSE) = Meaning(v, TRUE)
      BY <2>3, <3>1, GotValue
    <3>3. i = TRUE
      BY <2>1, <2>3
    <3> QED  BY <2>2, <2>3, <3>2, <3>3 DEF v, u, i, Matched
  <2>4. CASE ~ (i /\ v[1][1] = "DISPATCH")
    <3>1. u = v
      BY <2>1, <2>4 DEF Got
    <3>2. CASE v[1][1] # "DISPATCH"
      <4>1. Matched(v[1], FALSE) /\ Meaning(v, FALSE) = Meaning(v, i)
        BY <2>1, <3>2, NoObject
      <4> QED  BY <2>1, <3>1, <4>1 DEF v, u, i
    <3>3. CASE v[1][1] = "DISPATCH"
      <4>1. i = FALSE
        BY <2>1, <2>4, <3>3
      <4> QED  BY <2>1, <3>1, <4>1 DEF v, u, i
    <3> QED  BY <3>2, <3>3
  <2> QED  BY <2>3, <2>4
<1>3. ASSUME NEW meant, NEW servers, Kept(l.items, l.isserialized, meant, servers)
      PROVE  Kept(Started(l), {}, meant, servers)
  <2>1. ASSUME NEW k \in DOMAIN l.items
        PROVE  /\ Matched(Started(l)[k][1], k \in {})
               /\ Portable(meant[k]) \/ (OneKind(servers) /\ Dimensioned(meant[k]))
                  => Meaning(Started(l)[k], k \in {}) = meant[k]
    <3>1. (k \in {}) = FALSE
      OBVIOUS
    <3> QED  BY <1>2, <1>3, <3>1 DEF Kept
  <2> QED  BY <1>1, <1>3, <2>1 DEF Kept
<1> QED  BY <1>1, <1>2, <1>3

\* A session without items.
LEMMA EmptyFcn == \A f : f = <<>> => IsFcn(f) /\ DOMAIN f \subseteq Names
<1> SUFFICES ASSUME NEW f, f = <<>> PROVE IsFcn(f) /\ DOMAIN f \subseteq Names
  OBVIOUS
<1>1. f = [n \in 1..Len(f) |-> f[n]] /\ Len(f) = 0
  BY LitsOf DEF IsSeq
<1> QED  BY ONLY <1>1 DEF IsFcn

\* There is no session at first.
LEMMA Initially == Init => StreamInv
<1> SUFFICES ASSUME Init PROVE StreamInv
  OBVIOUS
<1>1. SessionInv
  BY EmptyFcn DEF Init, SessionInv
<1>2. RecordInv /\ PageInv
  BY DEF Init, RecordInv, PageInv
<1> QED  BY <1>1, <1>2 DEF StreamInv

\* The rest of the session while a page runs.
LEMMA SessionKept ==
  ASSUME SessionInv, RecordInv, UNCHANGED <<record, truth, savers, lost>>
  PROVE  SessionInv' /\ RecordInv'
<1>1. SessionInv'
  BY DEF SessionInv
<1>2. RecordInv'
  BY DEF RecordInv, RecordIs
<1> QED  BY <1>1, <1>2

\* A method leaves a page as it should be when its effect does.
LEMMA Called ==
  ASSUME NEW p, PageIs(p), ~ lost => PageKept(p, savers), Method(p)
  PROVE  PageInv'
<1>1. page' = [p EXCEPT !.calls = @ + 1] /\ UNCHANGED <<record, truth, savers, lost>>
  BY DEF Method
<1> DEFINE q == [p EXCEPT !.calls = @ + 1]
<1>2. /\ q = [server |-> q.server, items |-> q.items, isserialized |-> q.isserialized, meant |-> q.meant,
              dirty |-> q.dirty, partial |-> q.partial, calls |-> q.calls]
      /\ q.server = p.server /\ q.items = p.items /\ q.isserialized = p.isserialized /\ q.meant = p.meant
      /\ q.partial = p.partial
  BY DEF PageIs
<1> HIDE DEF q
<1>3. PageIs(q) /\ (~ lost => PageKept(q, savers))
  BY <1>2 DEF PageIs, PageKept
<1>4. PageIs(page') /\ (~ lost' => PageKept(page', savers'))
  BY <1>1, <1>3 DEF q
<1> QED  BY <1>4 DEF PageInv

\* What is known of a page that runs.
LEMMA Page ==
  ASSUME PageInv, page # NoPage
  PROVE  PageIs(page) /\ (~ lost => PageKept(page, savers))
  BY DEF PageInv

\* A page's parts.
Parts(p, a, b, c, d, e, f, g) ==
    p = [server |-> a, items |-> b, isserialized |-> c, meant |-> d, dirty |-> e, partial |-> f, calls |-> g]

\* An assignment to one part.
LEMMA PartsSet ==
  ASSUME NEW p, NEW a, NEW b, NEW c, NEW d, NEW e, NEW f, NEW g, NEW x,
         Parts(p, a, b, c, d, e, f, g)
  PROVE  /\ Parts([p EXCEPT !.items = x], a, x, c, d, e, f, g)
         /\ Parts([p EXCEPT !.isserialized = x], a, b, x, d, e, f, g)
         /\ Parts([p EXCEPT !.meant = x], a, b, c, x, e, f, g)
         /\ Parts([p EXCEPT !.dirty = x], a, b, c, d, x, f, g)
<1> USE DEF Parts
<1>1. Parts([p EXCEPT !.items = x], a, x, c, d, e, f, g)
  OBVIOUS
<1>2. Parts([p EXCEPT !.isserialized = x], a, b, x, d, e, f, g)
  OBVIOUS
<1>3. Parts([p EXCEPT !.meant = x], a, b, c, x, e, f, g)
  OBVIOUS
<1>4. Parts([p EXCEPT !.dirty = x], a, b, c, d, x, f, g)
  OBVIOUS
<1> HIDE DEF Parts
<1> QED  BY <1>1, <1>2, <1>3, <1>4

\* The parts after Remove.
LEMMA RemovedPage ==
  ASSUME NEW p, NEW a, NEW b, NEW c, NEW d, NEW e, NEW f, NEW g, NEW k, NEW i \in BOOLEAN,
         Parts(p, a, b, c, d, e, f, g)
  PROVE  Parts([p EXCEPT !.items = Without(@, k), !.meant = Without(@, k),
                         !.isserialized = IF i THEN @ \ {k} ELSE @, !.dirty = TRUE],
               a, Without(b, k), IF i THEN c \ {k} ELSE c, Without(d, k), TRUE, f, g)
<1> DEFINE x == Without(b, k)
           y == Without(d, k)
           z == IF i THEN c \ {k} ELSE c
           q1 == [p EXCEPT !.items = x]
           q2 == [q1 EXCEPT !.meant = y]
           q3 == [q2 EXCEPT !.isserialized = z]
<1>1. p.items = b /\ p.isserialized = c /\ p.meant = d
  BY DEF Parts
<1>2. [p EXCEPT !.items = Without(@, k), !.meant = Without(@, k),
                !.isserialized = IF i THEN @ \ {k} ELSE @, !.dirty = TRUE]
      = [q3 EXCEPT !.dirty = TRUE]
  BY <1>1
<1> HIDE DEF x, y, z
<1>3. Parts(q1, a, x, c, d, e, f, g)
  BY PartsSet
<1> HIDE DEF q1
<1>4. Parts(q2, a, x, c, y, e, f, g)
  BY <1>3, PartsSet
<1> HIDE DEF q2
<1>5. Parts(q3, a, x, z, y, e, f, g)
  BY <1>4, PartsSet
<1> HIDE DEF q3
<1>6. Parts([q3 EXCEPT !.dirty = TRUE], a, x, z, y, TRUE, f, g)
  BY <1>5, PartsSet
<1> QED  BY <1>2, <1>6 DEF x, y, z

----------------------------------------------------------------------------
(* The steps *)

\* What the page that starts has.
LEMMA NewPageIs ==
  ASSUME NEW s, NEW items, NEW isserialized, NEW partial, NEW p, p = NewPage(s, items, isserialized, partial)
  PROVE  /\ p = [server |-> p.server, items |-> p.items, isserialized |-> p.isserialized, meant |-> p.meant,
                 dirty |-> p.dirty, partial |-> p.partial, calls |-> p.calls]
         /\ p.server = s /\ p.items = items /\ p.isserialized = isserialized /\ p.meant = truth
         /\ p.partial = partial
  BY DEF NewPage

\* Loading: the page has what a saver left, or a part of it.
LEMMA LoadStep ==
  ASSUME StreamAssumption, StreamInv, NEW s \in Servers, Load(s)
  PROVE  StreamInv'
<1>1. SessionInv' /\ RecordInv'
  BY SessionKept DEF StreamInv, Load
<1>2. UNCHANGED <<record, truth, savers, lost>>
  BY DEF Load
<1>3. CASE record = NoRecord
  <2> DEFINE p == NewPage(s, <<>>, {}, FALSE)
  <2>1. page' = p /\ truth = <<>> /\ IsFcn(truth) /\ DOMAIN truth \subseteq Names
    BY <1>3 DEF Load, StreamInv, SessionInv
  <2>2. /\ p = [server |-> p.server, items |-> p.items, isserialized |-> p.isserialized, meant |-> p.meant,
                dirty |-> p.dirty, partial |-> p.partial, calls |-> p.calls]
        /\ p.server = s /\ p.items = <<>> /\ p.isserialized = {} /\ p.meant = truth /\ p.partial = FALSE
    BY DEF NewPage
  <2> HIDE DEF p
  <2>3. DOMAIN p.items = {}
    BY <2>2
  <2>4. PageIs(p)
    BY <2>1, <2>2, <2>3, FS_EmptySet DEF PageIs
  <2>5. PageKept(p, savers)
    BY <2>1, <2>2, <2>3 DEF PageKept, Kept
  <2> QED  BY <1>2, <2>1, <2>4, <2>5, <1>1 DEF PageInv, StreamInv
<1>4. CASE record # NoRecord
  <2> DEFINE l == LocalLoad(s, record)
             p == NewPage(s, Started(l), StillNoted(l), l.hr # "S_OK")
  <2>1. page' = p
    BY <1>4 DEF Load
  <2>2. PICK w, items, isserialized : RecordIs(w, items, isserialized)
    BY <1>4 DEF StreamInv, RecordInv
  <2>3. /\ w \in Servers /\ w \in savers /\ Saved(w, items) /\ DOMAIN items \subseteq Names
        /\ record = LocalContents(w, items, isserialized)
        /\ ~ lost => Whole(w, items) /\ Kept(items, isserialized, truth, savers)
    BY <2>2 DEF RecordIs
  <2>4. \/ ReadAll(w, s, items, isserialized, l, DOMAIN items)
        \/ ReadSome(w, s, items, isserialized, l)
    BY <2>3, ContentsRead
  <2>5. ~ lost /\ l.hr = "S_OK" => Kept(l.items, l.isserialized, truth, savers \cup {s}) /\ StillNoted(l) = {}
    BY <2>3, LoadKept
  <2>6. /\ p = [server |-> p.server, items |-> p.items, isserialized |-> p.isserialized, meant |-> p.meant,
                dirty |-> p.dirty, partial |-> p.partial, calls |-> p.calls]
        /\ p.server = s /\ p.items = Started(l) /\ p.isserialized = StillNoted(l) /\ p.meant = truth
        /\ p.partial = (l.hr # "S_OK")
    BY NewPageIs
  <2> HIDE DEF l, p
  <2>7. /\ DOMAIN l.items \subseteq DOMAIN items
        /\ \A k \in DOMAIN l.items : IsValue(s, l.items[k])
        /\ l.isserialized \subseteq DOMAIN l.items
        /\ l.isserialized # {} => s = "classic"
    <3>1. CASE ReadAll(w, s, items, isserialized, l, DOMAIN items)
      BY <3>1 DEF ReadAll, ItemOK
    <3>2. CASE ReadSome(w, s, items, isserialized, l)
      BY <3>2 DEF ReadSome
    <3> QED  BY <2>4, <3>1, <3>2
  <2>8. /\ DOMAIN Started(l) = DOMAIN l.items
        /\ \A k \in DOMAIN l.items : IsValue(s, Started(l)[k])
        /\ \A meant, servers : Kept(l.items, l.isserialized, meant, servers) => Kept(Started(l), {}, meant, servers)
    BY <2>7, StartedIs
  <2>9. IsFiniteSet(DOMAIN l.items)
    BY <2>3, <2>7, FS_Subset DEF Saved
  <2>10. IsFcn(truth) /\ DOMAIN truth \subseteq Names
    BY DEF StreamInv, SessionInv
  <2>11. StillNoted(l) \subseteq l.isserialized
    BY DEF StillNoted
  <2>12. PageIs(p)
    BY <2>3, <2>6, <2>7, <2>8, <2>9, <2>10, <2>11 DEF PageIs
  <2>13. ASSUME ~ lost, ~ p.partial
         PROVE  p.isserialized = {} /\ Kept(p.items, p.isserialized, p.meant, savers \cup {p.server})
    <3>1. Kept(l.items, l.isserialized, truth, savers \cup {s}) /\ StillNoted(l) = {}
      BY <2>5, <2>6, <2>13
    <3>2. Kept(Started(l), {}, truth, savers \cup {s})
      BY <2>8, <3>1
    <3> QED  BY <2>6, <3>1, <3>2
  <2>14. ~ lost => PageKept(p, savers)
    BY <2>13 DEF PageKept
  <2> QED  BY <1>1, <1>2, <2>1, <2>12, <2>14 DEF PageInv, StreamInv
<1> QED  BY <1>3, <1>4

\* What With leaves.
LEMMA WithIs ==
  ASSUME PageIs(page), ~ lost => PageKept(page, savers),
         NEW k \in Names, NEW v, IsValue(page.server, v),
         v[1][1] = "DISPATCH" => v[1][3] = "live",
         NEW dirty, NEW q, q = [With(k, v) EXCEPT !.dirty = dirty]
  PROVE  PageIs(q) /\ (~ lost => PageKept(q, savers))
<1>1. /\ q = [server |-> q.server, items |-> q.items, isserialized |-> q.isserialized, meant |-> q.meant,
              dirty |-> q.dirty, partial |-> q.partial, calls |-> q.calls]
      /\ q.server = page.server /\ q.isserialized = page.isserialized
      /\ q.items = Enter(page.items, k, v) /\ q.meant = Enter(page.meant, k, Meaning(v, FALSE))
      /\ q.partial = page.partial
  BY DEF PageIs, With
<1>2. /\ DOMAIN q.items = DOMAIN page.items \cup {k} /\ DOMAIN q.meant = DOMAIN page.meant \cup {k}
      /\ q.items[k] = v /\ \A j \in DOMAIN page.items : j # k => q.items[j] = page.items[j]
      /\ IsFcn(q.meant)
  BY <1>1 DEF Enter, IsFcn
<1>3. IsFiniteSet(DOMAIN q.items)
  BY <1>2, FS_AddElement DEF PageIs
<1>4. \A j \in DOMAIN q.items : IsValue(q.server, q.items[j])
  BY <1>1, <1>2 DEF PageIs
<1>5. PageIs(q)
  BY <1>1, <1>2, <1>3, <1>4 DEF PageIs
<1>6. ASSUME ~ lost, ~ q.partial
      PROVE  q.isserialized = {} /\ Kept(q.items, q.isserialized, q.meant, savers \cup {q.server})
  <2>1. /\ page.isserialized = {}
        /\ Kept(page.items, page.isserialized, page.meant, savers \cup {page.server})
    BY <1>1, <1>6 DEF PageKept
  <2>2. v[1][1] = "DISPATCH" => v[1][3] = "live" /\ k \notin page.isserialized
    BY <2>1
  <2>3. Kept(Enter(page.items, k, v), page.isserialized, Enter(page.meant, k, Meaning(v, FALSE)),
             savers \cup {page.server})
    BY ONLY <2>1, <2>2, EnterKept
  <2> QED  BY <1>1, <2>1, <2>3
<1> QED  BY <1>5, <1>6 DEF PageKept

\* put_Item and the indexers.
LEMMA PutStep ==
  ASSUME StreamAssumption, StreamInv, NEW k \in Names, NEW v, Put(k, v)
  PROVE  StreamInv'
<1> DEFINE q == [With(k, v) EXCEPT !.dirty = TRUE]
<1>1. /\ page # NoPage /\ v \in Values(page.server) /\ v[1][1] # "DISPATCH" /\ Method(q)
  BY DEF Put
<1>2. PageIs(page) /\ (~ lost => PageKept(page, savers))
  BY <1>1, Page DEF StreamInv
<1>3. IsValue(page.server, v) /\ page.server \in Servers
  BY <1>1, <1>2, PutValue DEF PageIs
<1>4. q = [With(k, v) EXCEPT !.dirty = TRUE]
  OBVIOUS
<1> HIDE DEF q
<1>5. PageIs(q) /\ (~ lost => PageKept(q, savers))
  BY ONLY <1>1, <1>2, <1>3, <1>4, k \in Names, WithIs
<1>6. PageInv'
  BY <1>1, <1>5, Called
<1> QED  BY <1>1, <1>6, SessionKept DEF StreamInv, Method

\* putref_Item, which leaves dirty as it is.
LEMMA PutRefStep ==
  ASSUME StreamAssumption, StreamInv, NEW k \in Names, NEW v, PutRef(k, v)
  PROVE  StreamInv'
<1> DEFINE q == With(k, v)
<1>1. /\ page # NoPage /\ v \in Values(page.server) /\ v[1][1] = "DISPATCH" /\ Method(q)
  BY DEF PutRef
<1>2. PageIs(page) /\ (~ lost => PageKept(page, savers))
  BY <1>1, Page DEF StreamInv
<1>3. IsValue(page.server, v) /\ page.server \in Servers /\ v[1][3] = "live"
  BY <1>1, <1>2, PutValue DEF PageIs
<1>4. q = [With(k, v) EXCEPT !.dirty = page.dirty]
  BY <1>2 DEF PageIs, With
<1> HIDE DEF q
<1>5. PageIs(q) /\ (~ lost => PageKept(q, savers))
  BY ONLY <1>1, <1>2, <1>3, <1>4, k \in Names, WithIs
<1>6. PageInv'
  BY <1>1, <1>5, Called
<1> QED  BY <1>1, <1>6, SessionKept DEF StreamInv, Method

\* Remove.
LEMMA RemoveItemStep ==
  ASSUME StreamAssumption, StreamInv, NEW k \in Names, RemoveItem(k)
  PROVE  StreamInv'
<1> DEFINE i == page.items[k][1][1] = "DISPATCH"
           now == IF i THEN page.isserialized \ {k} ELSE page.isserialized
           q == [page EXCEPT !.items = Without(@, k), !.meant = Without(@, k),
                             !.isserialized = IF i THEN @ \ {k} ELSE @,
                             !.dirty = TRUE]
<1>1. page # NoPage /\ Method(q)
  BY DEF RemoveItem
<1>2. PageIs(page) /\ (~ lost => PageKept(page, savers))
  BY <1>1, Page DEF StreamInv
<1>3. i \in BOOLEAN /\ (now = page.isserialized \/ now = page.isserialized \ {k})
  OBVIOUS
<1> HIDE DEF i
<1>4. /\ q = [server |-> q.server, items |-> q.items, isserialized |-> q.isserialized, meant |-> q.meant,
              dirty |-> q.dirty, partial |-> q.partial, calls |-> q.calls]
      /\ q.server = page.server /\ q.isserialized = now
      /\ q.items = Without(page.items, k) /\ q.meant = Without(page.meant, k)
      /\ q.partial = page.partial
  <2>1. Parts(page, page.server, page.items, page.isserialized, page.meant, page.dirty, page.partial, page.calls)
    BY <1>2 DEF PageIs, Parts
  <2>2. Parts(q, page.server, Without(page.items, k), now,
              Without(page.meant, k), TRUE, page.partial, page.calls)
    BY ONLY <2>1, <1>3, RemovedPage
  <2> HIDE DEF q
  <2> QED  BY ONLY <2>2 DEF Parts
<1> HIDE DEF q, now
<1>5. /\ DOMAIN q.items = DOMAIN page.items \ {k} /\ DOMAIN q.meant = DOMAIN page.meant \ {k}
      /\ \A j \in DOMAIN q.items : q.items[j] = page.items[j]
      /\ IsFcn(q.meant)
  BY <1>4 DEF Without, IsFcn
<1>6. IsFiniteSet(DOMAIN q.items)
  BY <1>2, <1>5, FS_Subset DEF PageIs
<1>7. PageIs(q)
  BY <1>2, <1>3, <1>4, <1>5, <1>6 DEF PageIs
<1>8. ~ lost => PageKept(q, savers)
  <2> SUFFICES ASSUME ~ lost, ~ q.partial
               PROVE  q.isserialized = {} /\ Kept(q.items, q.isserialized, q.meant, savers \cup {q.server})
    BY DEF PageKept
  <2>1. /\ page.isserialized = {}
        /\ Kept(page.items, page.isserialized, page.meant, savers \cup {page.server})
    BY <1>2, <1>4 DEF PageKept
  <2>2. q.isserialized = {}
    BY <1>3, <1>4, <2>1
  <2>3. Kept(q.items, q.isserialized, q.meant, savers \cup {q.server})
    BY <1>3, <1>4, <2>1, WithoutKept
  <2> QED  BY <2>2, <2>3
<1>9. PageInv'
  BY <1>1, <1>7, <1>8, Called
<1> QED  BY <1>1, <1>9, SessionKept DEF StreamInv, Method

\* Saving: the page becomes the record, its meaning the truth.
LEMMA SaveStep ==
  ASSUME StreamAssumption, StreamInv, Save
  PROVE  StreamInv'
<1> DEFINE w == page.server
           items == page.items
           iss == page.isserialized
<1>1. /\ page # NoPage /\ \A k \in DOMAIN items : ~ Throws(w, items[k])
      /\ record' = LocalContents(w, items, iss)
      /\ truth' = page.meant /\ savers' = savers \cup {w} /\ page' = NoPage
      /\ lost' = (lost \/ page.partial \/ \E k \in DOMAIN items : \E n \in DOMAIN items[k] :
                                                Unserializable(w, items[k][n]))
  BY DEF Save
<1>2. PageIs(page) /\ (~ lost => PageKept(page, savers))
  BY <1>1, Page DEF StreamInv
<1>3. /\ w \in Servers /\ DOMAIN items \subseteq Names /\ IsFiniteSet(DOMAIN items)
      /\ \A k \in DOMAIN items : IsValue(w, items[k])
      /\ IsFcn(page.meant) /\ DOMAIN page.meant \subseteq Names
  BY <1>2 DEF PageIs
<1>4. Saved(w, items)
  BY <1>1, <1>3 DEF Saved, StreamAssumption
<1>5. ~ lost' => Whole(w, items) /\ Kept(items, iss, page.meant, savers \cup {w})
  BY <1>1, <1>2 DEF PageKept, Whole
<1>6. LocalContents(w, items, iss) # NoRecord
  BY <1>3, <1>4, SomeRecord
<1> HIDE DEF w, items, iss
<1>7. w \in savers'
  BY <1>1
<1>8. RecordInv'
  <2>1. \E a, b, c : /\ a \in savers' /\ a \in Servers
                     /\ record' = LocalContents(a, b, c)
                     /\ Saved(a, b) /\ DOMAIN b \subseteq Names
                     /\ ~ lost' => Whole(a, b) /\ Kept(b, c, truth', savers')
    <3>1. /\ w \in savers' /\ w \in Servers
          /\ record' = LocalContents(w, items, iss)
          /\ Saved(w, items) /\ DOMAIN items \subseteq Names
          /\ ~ lost' => Whole(w, items) /\ Kept(items, iss, truth', savers')
      BY <1>1, <1>3, <1>4, <1>5
    <3> QED  BY <3>1
  <2> QED  BY <2>1 DEF RecordInv, RecordIs
<1>9. SessionInv'
  <2>1. savers' \subseteq Servers /\ lost' \in BOOLEAN
    BY <1>1, <1>3 DEF StreamInv, SessionInv
  <2> QED  BY <1>1, <1>3, <1>6, <2>1 DEF SessionInv
<1> QED  BY <1>1, <1>8, <1>9 DEF StreamInv, PageInv

\* Pages that save nothing.
LEMMA PageEnds ==
  ASSUME StreamInv, page' = NoPage, UNCHANGED <<record, truth, savers, lost>>
  PROVE  StreamInv'
  BY SessionKept DEF StreamInv, PageInv

\* Abandon and expiry.
LEMMA SessionEndsStep ==
  ASSUME StreamInv, SessionEnds
  PROVE  StreamInv'
<1>1. record' = NoRecord /\ truth' = <<>> /\ savers' = {} /\ lost' = FALSE /\ page' = NoPage
  BY DEF SessionEnds
<1>2. \A f : f = <<>> => IsFcn(f) /\ DOMAIN f \subseteq Names
  BY EmptyFcn
<1>3. SessionInv'
  BY <1>1, <1>2 DEF SessionInv
<1>4. RecordInv' /\ PageInv'
  BY <1>1 DEF RecordInv, PageInv
<1> QED  BY <1>3, <1>4 DEF StreamInv

\* Every step of every server.
LEMMA Invariant ==
  ASSUME StreamAssumption, StreamInv, [Next]_vars
  PROVE  StreamInv'
<1>1. CASE \E s \in Servers : Load(s)
  BY <1>1, LoadStep
<1>2. ASSUME NEW k \in Names, RemoveItem(k) PROVE StreamInv'
  BY <1>2, RemoveItemStep
<1>3. ASSUME NEW k \in Names, NEW v \in ClassicValues \cup ManagedValues, Put(k, v) \/ PutRef(k, v)
      PROVE  StreamInv'
  BY <1>3, PutStep, PutRefStep
<1>4. CASE Save
  BY <1>4, SaveStep
<1>5. CASE End
  BY <1>5, PageEnds DEF End
<1>6. CASE SessionEnds
  BY <1>6, SessionEndsStep
<1>7. CASE UNCHANGED vars
  <2>1. UNCHANGED <<record, truth, savers, lost>> /\ page' = page
    BY <1>7 DEF vars
  <2>2. PageInv'
    BY <2>1 DEF PageInv, StreamInv
  <2> QED  BY <2>1, <2>2, SessionKept DEF StreamInv
<1> QED  BY <1>1, <1>2, <1>3, <1>4, <1>5, <1>6, <1>7 DEF Next

\* The record is at all times what LocalContents of one of its savers has made of items that
\* mean what the pages meant, and the page that runs has such items: the invariant on which the
\* other theorems rest.
THEOREM AlwaysStreamInv == Spec => []StreamInv
<1>1. Init => StreamInv
  BY Initially
<1>2. StreamInv /\ [Next]_vars => StreamInv'
  BY StreamAssumption, Invariant
<1> QED  BY <1>1, <1>2, PTL DEF Spec

\* The types: names and servers, and that only classic pages note items as streams.
THEOREM TypeCorrect == Spec => []TypeOK
<1>1. StreamInv => TypeOK
  BY DEF StreamInv, SessionInv, PageInv, PageIs, TypeOK
<1> QED  BY <1>1, AlwaysStreamInv, PTL

\* Whatever was stored and whoever reads it, the values that ReadProperty reads end where the
\* offset before them, written by WriteProperty, says.
THEOREM ValuesInStep == Spec => []InStep
<1>1. StreamInv => InStep
  <2> SUFFICES ASSUME StreamInv, record # NoRecord, NEW s \in Servers PROVE LocalLoad(s, record).aligned
    BY DEF InStep
  <2>1. PICK w, items, isserialized : RecordIs(w, items, isserialized)
    BY DEF StreamInv, RecordInv
  <2> QED  BY <2>1, ContentsRead DEF RecordIs
<1> QED  BY <1>1, AlwaysStreamInv, PTL

\* What is in Redis is read back by a server to which all of it is portable, or its own.
LEMMA AllRead ==
  ASSUME StreamInv, record # NoRecord, ~ lost, NEW s \in Servers,
         \A k \in DOMAIN truth : Portable(truth[k]) \/ (OneKind(savers \cup {s}) /\ Dimensioned(truth[k]))
  PROVE  Reads(s)
<1> DEFINE l == LocalLoad(s, record)
<1>1. PICK w, items, isserialized : RecordIs(w, items, isserialized)
  BY DEF StreamInv, RecordInv
<1>2. /\ l.hr = "S_OK" => Kept(l.items, l.isserialized, truth, savers \cup {s})
      /\ (\A k \in DOMAIN truth : Portable(truth[k]) \/ (OneKind(savers \cup {s}) /\ Dimensioned(truth[k])))
         => l.hr = "S_OK"
  BY <1>1, LoadKept DEF RecordIs
<1> HIDE DEF l
<1>3. l.hr = "S_OK" /\ Kept(l.items, l.isserialized, truth, savers \cup {s})
  BY <1>2
<1>4. Seen(l) = truth
  <2>1. truth = [k \in DOMAIN truth |-> truth[k]] /\ DOMAIN l.items = DOMAIN truth
    BY <1>3 DEF StreamInv, SessionInv, IsFcn, Kept
  <2>2. \A k \in DOMAIN truth : Meaning(l.items[k], k \in l.isserialized) = truth[k]
    BY <1>3, <2>1 DEF Kept
  <2>3. Seen(l) = [k \in DOMAIN truth |-> Meaning(l.items[k], k \in l.isserialized)]
    BY <2>1 DEF Seen
  <2> QED  BY <2>1, <2>2, <2>3
<1> QED  BY <1>3, <1>4 DEF Reads, l

\* Portable values are read back as they were meant, by LocalLoad of whichever server, after any
\* number of pages on any servers.
THEOREM ValuesReadBack == Spec => []ReadBack
<1>1. StreamInv => ReadBack
  BY AllRead DEF ReadBack
<1> QED  BY <1>1, AlwaysStreamInv, PTL

\* Values with bounds, objects among them, are read back by LocalLoad of the kind of servers that
\* has written all of the session.
THEOREM OwnValuesRead == Spec => []OwnValues
<1>1. StreamInv => OwnValues
  <2> SUFFICES ASSUME StreamInv, record # NoRecord, ~ lost,
                      \A k \in DOMAIN truth : Dimensioned(truth[k])
               PROVE  /\ savers \subseteq {"classic"} => Reads("classic")
                      /\ savers \subseteq Net => \A s \in Net : Reads(s)
    BY DEF OwnValues
  <2>1. ASSUME savers \subseteq {"classic"} PROVE Reads("classic")
    <3>1. OneKind(savers \cup {"classic"}) /\ "classic" \in Servers
      BY <2>1 DEF OneKind, Servers
    <3> QED  BY <3>1, AllRead
  <2>2. ASSUME savers \subseteq Net, NEW s \in Net PROVE Reads(s)
    <3>1. OneKind(savers \cup {s}) /\ s \in Servers
      BY <2>2 DEF OneKind, Servers, Net
    <3> QED  BY <3>1, AllRead
  <2> QED  BY <2>1, <2>2
<1> QED  BY <1>1, AlwaysStreamInv, PTL
=============================================================================
