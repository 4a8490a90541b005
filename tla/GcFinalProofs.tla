--------------------------- MODULE GcFinalProofs ---------------------------
(***************************************************************************)
(* Finalization, for any heap, any number of registrations and any depth   *)
(* of calls: what t.fincount counts, what a registration keeps alive, and  *)
(* that nothing the program can get at is reclaimed when finalizers do not *)
(* store.                                                                  *)
(***************************************************************************)
EXTENDS GcFinal, GcHeapProofs, LeastNumber, SequenceTheorems

-----------------------------------------------------------------------------
(* The entries of a list that belong to a set.                             *)

SiftedFn(s, S, m, f) ==
  f = [n \in 0 .. m |-> IF n = 0 THEN <<>>
                        ELSE IF s[n] \in S THEN Append(f[n - 1], s[n])
                        ELSE f[n - 1]]

\* There is a function defined by that recursion.
LEMMA SiftedExists ==
  ASSUME NEW s, NEW S, NEW m \in Nat
  PROVE  \E f : SiftedFn(s, S, m, f)
<1> DEFINE T == {n \in Nat : ~\E f : SiftedFn(s, S, n, f)}
<1> SUFFICES ASSUME T # {} PROVE FALSE
  OBVIOUS
<1>1. PICK n \in T : \A y \in T : n <= y
  <2> T \subseteq Nat
    OBVIOUS
  <2> HIDE DEF T
  <2> QED BY LeastNat
<1>2. n # 0
  <2> DEFINE f == [j \in 0 .. 0 |-> <<>>]
  <2>1. SiftedFn(s, S, 0, f)
    BY DEF SiftedFn
  <2> QED BY <2>1
<1>3. n - 1 \in Nat /\ n \in Nat
  BY <1>2
<1>4. PICK g : SiftedFn(s, S, n - 1, g)
  <2>1. n - 1 \notin T
    BY <1>1, <1>3
  <2> QED BY <1>3, <2>1
<1> DEFINE last == IF s[n] \in S THEN Append(g[n - 1], s[n]) ELSE g[n - 1]
           f == [j \in 0 .. n |-> IF j = n THEN last ELSE g[j]]
           next(j) == IF j = 0 THEN <<>>
                      ELSE IF s[j] \in S THEN Append(f[j - 1], s[j])
                      ELSE f[j - 1]
<1>5. SiftedFn(s, S, n, f)
  <2>1. \A j \in 0 .. n - 1 : f[j] = next(j)
    <3>1. \A j \in 0 .. n - 1 : g[j] = IF j = 0 THEN <<>>
                                      ELSE IF s[j] \in S THEN Append(g[j - 1], s[j])
                                      ELSE g[j - 1]
      BY <1>3, <1>4 DEF SiftedFn
    <3>2. \A j \in 0 .. n - 1 : f[j] = g[j] /\ (j # 0 => f[j - 1] = g[j - 1])
      BY <1>3
    <3> HIDE DEF f
    <3> QED BY <3>1, <3>2
  <2>2. f[n] = next(n)
    BY <1>2, <1>3
  <2>3. \A j \in 0 .. n : f[j] = next(j)
    <3> HIDE DEF f, next
    <3> QED BY <1>3, <2>1, <2>2
  <2> QED BY <2>3 DEF SiftedFn
<1> QED BY <1>5

\* So Sifted is it.
LEMMA SiftedIs ==
  ASSUME NEW E, NEW s \in Seq(E), NEW S
  PROVE  /\ Len(s) \in Nat
         /\ Sifted(s, S)[0] = <<>>
         /\ \A n \in 1 .. Len(s) :
              Sifted(s, S)[n] = IF s[n] \in S THEN Append(Sifted(s, S)[n - 1], s[n])
                                ELSE Sifted(s, S)[n - 1]
<1> DEFINE f == Sifted(s, S)
<1>1. Len(s) \in Nat
  OBVIOUS
<1>2. f = CHOOSE g : SiftedFn(s, S, Len(s), g)
  BY DEF Sifted, SiftedFn
<1>3. SiftedFn(s, S, Len(s), f)
  BY <1>1, <1>2, SiftedExists
<1> HIDE DEF f
<1>4. \A n \in 0 .. Len(s) :
        f[n] = IF n = 0 THEN <<>>
               ELSE IF s[n] \in S THEN Append(f[n - 1], s[n]) ELSE f[n - 1]
  BY <1>3 DEF SiftedFn
<1> QED BY <1>1, <1>4 DEF f

\* A list of entries is sifted into a list of entries, each of them one of those
\* wanted, and none of those is left out.
LEMMA OnlyThose ==
  ASSUME NEW E, NEW s \in Seq(E), NEW S
  PROVE  /\ Only(s, S) \in Seq(E)
         /\ \A i \in DOMAIN Only(s, S) :
              Only(s, S)[i] \in S /\ \E j \in DOMAIN s : s[j] = Only(s, S)[i]
         /\ \A j \in DOMAIN s :
              s[j] \in S => \E i \in DOMAIN Only(s, S) : Only(s, S)[i] = s[j]
<1> DEFINE f == Sifted(s, S)
           P(n) == /\ f[n] \in Seq(E)
                   /\ \A i \in 1 .. Len(f[n]) :
                        f[n][i] \in S /\ \E j \in 1 .. n : s[j] = f[n][i]
                   /\ \A j \in 1 .. n :
                        s[j] \in S => \E i \in 1 .. Len(f[n]) : f[n][i] = s[j]
           T == {n \in 0 .. Len(s) : ~P(n)}
<1>1. /\ Len(s) \in Nat /\ f[0] = <<>>
      /\ \A n \in 1 .. Len(s) :
           f[n] = IF s[n] \in S THEN Append(f[n - 1], s[n]) ELSE f[n - 1]
  BY SiftedIs
<1> HIDE DEF f
<1>2. P(0)
  BY <1>1
<1>3. ASSUME NEW n \in 1 .. Len(s), P(n - 1) PROVE P(n)
  <2>1. CASE s[n] \notin S
    <3>1. f[n] = f[n - 1]
      BY <1>1, <2>1
    <3> QED BY <1>1, <1>3, <2>1, <3>1
  <2>2. CASE s[n] \in S
    <3> DEFINE t == f[n - 1]
    <3>0. s[n] \in E /\ n \in Nat
      BY <1>1, ElementOfSeq
    <3>1. f[n] = Append(t, s[n]) /\ t \in Seq(E) /\ s[n] \in E /\ n \in Nat
      BY <1>1, <1>3, <2>2, <3>0
    <3> HIDE DEF t
    <3>2. /\ f[n] \in Seq(E) /\ Len(f[n]) = Len(t) + 1 /\ Len(t) \in Nat
          /\ \A i \in 1 .. Len(t) : f[n][i] = t[i]
          /\ f[n][Len(t) + 1] = s[n]
      BY <3>1, AppendProperties
    <3>3. \A i \in 1 .. Len(f[n]) :
            f[n][i] \in S /\ \E j \in 1 .. n : s[j] = f[n][i]
      <4> TAKE i \in 1 .. Len(f[n])
      <4>1. CASE i = Len(t) + 1
        BY <2>2, <3>1, <3>2, <4>1
      <4>2. CASE i # Len(t) + 1
        <5>1. i \in 1 .. Len(t) /\ f[n][i] = t[i]
          BY <3>2, <4>2
        <5>2. PICK j \in 1 .. n - 1 : s[j] = t[i]
          BY <1>3, <5>1 DEF t
        <5>3. j \in 1 .. n
          BY <3>1, <5>2
        <5>4. t[i] \in S
          BY <1>3, <5>1 DEF t
        <5> QED BY <5>1, <5>2, <5>3, <5>4
      <4> QED BY <4>1, <4>2
    <3>4. \A j \in 1 .. n : s[j] \in S => \E i \in 1 .. Len(f[n]) : f[n][i] = s[j]
      <4> SUFFICES ASSUME NEW j \in 1 .. n, s[j] \in S
                   PROVE  \E i \in 1 .. Len(f[n]) : f[n][i] = s[j]
        OBVIOUS
      <4>1. CASE j = n
        BY <3>2, <4>1
      <4>2. CASE j # n
        <5>1. j \in 1 .. n - 1
          BY <3>1, <4>2
        <5>2. PICK i \in 1 .. Len(t) : t[i] = s[j]
          BY <1>3, <5>1 DEF t
        <5>3. i \in 1 .. Len(f[n]) /\ f[n][i] = t[i]
          BY <3>2
        <5> QED BY <5>2, <5>3
      <4> QED BY <4>1, <4>2
    <3> QED BY <3>2, <3>3, <3>4
  <2> QED BY <2>1, <2>2
<1> HIDE DEF P
<1>4. T = {}
  <2> SUFFICES ASSUME T # {} PROVE FALSE
    OBVIOUS
  <2>1. PICK n \in T : \A y \in T : n <= y
    <3> T \subseteq Nat
      BY <1>1
    <3> HIDE DEF T
    <3> QED BY LeastNat
  <2>2. n \in 0 .. Len(s) /\ ~P(n) /\ n # 0
    BY <1>2
  <2>3. n \in 1 .. Len(s) /\ n - 1 \in 0 .. Len(s) /\ ~(n <= n - 1)
    BY <1>1, <2>2
  <2>4. P(n - 1)
    BY <2>1, <2>3
  <2> QED BY <1>3, <2>2, <2>3, <2>4
<1>5. P(Len(s))
  BY <1>1, <1>4
<1>6. Only(s, S) = f[Len(s)]
  BY DEF Only, f
<1>7. DOMAIN s = 1 .. Len(s)
  OBVIOUS
<1>8. /\ Only(s, S) \in Seq(E)
      /\ DOMAIN Only(s, S) = 1 .. Len(Only(s, S))
  BY <1>5, <1>6 DEF P
<1> QED BY <1>5, <1>6, <1>7, <1>8 DEF P

-----------------------------------------------------------------------------
(* How many entries of a list are for an object.                           *)

Regs == Seq(Entry)

\* The places of the object's entries.
Places(s, o) == {i \in 1 .. Len(s) : s[i].obj = o}

Many(s, o) == Cardinality(Places(s, o))

One(e, o) == IF e.obj = o THEN 1 ELSE 0

\* They are finitely many.
LEMMA ManyType ==
  ASSUME NEW s \in Regs, NEW o
  PROVE  /\ IsFiniteSet(Places(s, o)) /\ Many(s, o) \in Nat
         /\ Many(<<>>, o) = 0
<1>1. Places(s, o) \in SUBSET (1 .. Len(s)) /\ Len(s) \in Int
  BY DEF Places, Regs
<1>2. IsFiniteSet(1 .. Len(s))
  BY <1>1, FS_Interval
<1>3. IsFiniteSet(Places(s, o))
  BY <1>1, <1>2, FS_Subset
<1>4. Places(<<>>, o) = {}
  BY DEF Places
<1> QED BY <1>3, <1>4, FS_CardinalityType, FS_EmptySet DEF Many

\* An entry more, at the end.
LEMMA ManyAppend ==
  ASSUME NEW s \in Regs, NEW e \in Entry, NEW o
  PROVE  Many(Append(s, e), o) = Many(s, o) + One(e, o)
<1> DEFINE t == Append(s, e)
           n == Len(s)
<1>1. /\ n \in Nat /\ Len(t) = n + 1 /\ t[n + 1] = e
      /\ \A i \in 1 .. n : t[i] = s[i]
  BY AppendProperties DEF Regs
<1> HIDE DEF t
<1>2. Places(t, o) = Places(s, o) \cup (IF e.obj = o THEN {n + 1} ELSE {})
  BY <1>1 DEF Places
<1>3. n + 1 \notin Places(s, o)
  BY <1>1 DEF Places
<1>4. IsFiniteSet(Places(s, o)) /\ Many(s, o) \in Nat
  BY ManyType
<1>5. CASE e.obj = o
  <2>1. Cardinality(Places(s, o) \cup {n + 1}) = Cardinality(Places(s, o)) + 1
    BY <1>3, <1>4, FS_AddElement
  <2> QED BY <1>2, <1>5, <2>1 DEF Many, One, t
<1>6. CASE e.obj # o
  BY <1>2, <1>4, <1>6 DEF Many, One, t
<1> QED BY <1>5, <1>6

\* An entry more, at the head.
LEMMA ManyCons ==
  ASSUME NEW s \in Regs, NEW e \in Entry, NEW o
  PROVE  Many(<<e>> \o s, o) = Many(s, o) + One(e, o)
<1> DEFINE t == <<e>> \o s
           n == Len(s)
           moved == {i + 1 : i \in Places(s, o)}
           shift == [i \in Places(s, o) |-> i + 1]
<1>1. /\ n \in Nat /\ Len(t) = n + 1 /\ t[1] = e
      /\ \A i \in 1 .. n : t[i + 1] = s[i]
  <2>1. <<e>> \in Seq(Entry) /\ Len(<<e>>) = 1 /\ <<e>>[1] = e /\ n \in Nat /\ s \in Seq(Entry)
    BY DEF Regs
  <2> HIDE DEF n
  <2>2. /\ Len(t) = 1 + Len(s)
        /\ \A i \in 1 .. 1 + Len(s) : t[i] = IF i <= 1 THEN <<e>>[i] ELSE s[i - 1]
    BY <2>1, ConcatProperties
  <2> HIDE DEF t
  <2>3. t[1] = e
    BY <2>1, <2>2 DEF n
  <2>4. \A i \in 1 .. n : t[i + 1] = s[(i + 1) - 1] /\ (i + 1) - 1 = i
    BY <2>1, <2>2 DEF n
  <2> QED BY <2>1, <2>2, <2>3, <2>4 DEF n
<1> HIDE DEF t
<1>2. Places(t, o) = moved \cup (IF e.obj = o THEN {1} ELSE {})
  <2>1. \A j \in Places(t, o) : j \in moved \/ (j = 1 /\ e.obj = o)
    <3> TAKE j \in Places(t, o)
    <3>1. j \in 1 .. n + 1 /\ t[j].obj = o
      BY <1>1 DEF Places
    <3>2. CASE j # 1
      <4>1. j - 1 \in 1 .. n /\ j = (j - 1) + 1
        BY <1>1, <3>1, <3>2
      <4>2. j - 1 \in Places(s, o)
        BY <1>1, <3>1, <4>1 DEF Places
      <4> QED BY <4>1, <4>2
    <3>3. CASE j = 1
      BY <1>1, <3>1, <3>3
    <3> QED BY <3>2, <3>3
  <2>2. \A i \in Places(s, o) : i + 1 \in Places(t, o)
    BY <1>1 DEF Places
  <2>3. e.obj = o => 1 \in Places(t, o)
    BY <1>1 DEF Places
  <2> QED BY <2>1, <2>2, <2>3
<1>3. 1 \notin moved
  BY <1>1 DEF Places
<1>4. IsFiniteSet(Places(s, o)) /\ Many(s, o) \in Nat
  BY ManyType
<1>5. IsFiniteSet(moved) /\ Cardinality(moved) = Many(s, o)
  <2>1. \A i \in Places(s, o) : i \in Int
    BY <1>1 DEF Places
  <2>2. shift \in Bijection(Places(s, o), moved)
    BY <2>1 DEF Bijection, Injection, Surjection, IsInjective
  <2>3. ExistsBijection(Places(s, o), moved)
    BY <2>2 DEF ExistsBijection
  <2> HIDE DEF moved
  <2> QED BY <1>4, <2>3, FS_Bijection DEF Many
<1> HIDE DEF moved
<1>6. CASE e.obj = o
  <2>1. Cardinality(moved \cup {1}) = Cardinality(moved) + 1
    BY <1>3, <1>5, FS_AddElement
  <2> QED BY <1>2, <1>5, <1>6, <2>1 DEF Many, One, t
<1>7. CASE e.obj # o
  <2>1. Places(t, o) = moved
    BY <1>2, <1>7
  <2> QED BY <1>4, <1>5, <1>7, <2>1 DEF Many, One, t
<1> QED BY <1>6, <1>7

\* An entry less, from the head.
LEMMA ManyTail ==
  ASSUME NEW s \in Regs, s # <<>>, NEW o
  PROVE  /\ Head(s) \in Entry /\ Tail(s) \in Regs
         /\ Many(s, o) = Many(Tail(s), o) + One(Head(s), o)
<1>1. Head(s) \in Entry /\ Tail(s) \in Regs
  BY HeadTailProperties DEF Regs
<1>2. s = <<Head(s)>> \o Tail(s)
  BY DEF Regs
<1>3. Many(<<Head(s)>> \o Tail(s), o) = Many(Tail(s), o) + One(Head(s), o)
  BY <1>1, ManyCons
<1> QED BY <1>1, <1>2, <1>3

\* Every entry is sifted out or is not.
LEMMA ManySplit ==
  ASSUME NEW s \in Regs, NEW S, NEW o
  PROVE  /\ Only(s, S) \in Regs /\ Only(s, Entry \ S) \in Regs
         /\ Many(s, o) = Many(Only(s, S), o) + Many(Only(s, Entry \ S), o)
<1> DEFINE f == Sifted(s, S)
           g == Sifted(s, Entry \ S)
           p(n) == SubSeq(s, 1, n)
           P(n) == /\ f[n] \in Regs /\ g[n] \in Regs
                   /\ Many(p(n), o) = Many(f[n], o) + Many(g[n], o)
           T == {n \in 0 .. Len(s) : ~P(n)}
<1>1. /\ Len(s) \in Nat /\ f[0] = <<>> /\ g[0] = <<>>
      /\ \A n \in 1 .. Len(s) :
           f[n] = IF s[n] \in S THEN Append(f[n - 1], s[n]) ELSE f[n - 1]
      /\ \A n \in 1 .. Len(s) :
           g[n] = IF s[n] \in Entry \ S THEN Append(g[n - 1], s[n]) ELSE g[n - 1]
  BY SiftedIs DEF Regs
<1> HIDE DEF f, g
<1>2. P(0)
  <2>1. p(0) = <<>> /\ <<>> \in Regs
    BY SubSeqEmpty DEF Regs
  <2>2. Many(<<>>, o) = 0
    BY <2>1, ManyType
  <2> HIDE DEF p
  <2>3. Many(p(0), o) = 0 /\ Many(f[0], o) = 0 /\ Many(g[0], o) = 0
    BY <1>1, <2>1, <2>2
  <2>4. f[0] \in Regs /\ g[0] \in Regs
    BY <1>1, <2>1
  <2>5. Many(p(0), o) = Many(f[0], o) + Many(g[0], o)
    BY <2>3
  <2> QED BY <2>4, <2>5
<1>3. ASSUME NEW n \in 1 .. Len(s), P(n - 1) PROVE P(n)
  <2>1. s[n] \in Entry /\ s \in Seq(Entry)
    BY <1>1, ElementOfSeq DEF Regs
  <2>2. p(n) = Append(p(n - 1), s[n]) /\ p(n - 1) \in Regs
    BY <1>1, <2>1 DEF Regs
  <2> HIDE DEF p
  <2>3. Many(p(n), o) = Many(p(n - 1), o) + One(s[n], o)
    BY <2>1, <2>2, ManyAppend
  <2>4. /\ Many(f[n - 1], o) \in Nat /\ Many(g[n - 1], o) \in Nat
        /\ One(s[n], o) \in Nat
    BY <1>3, ManyType DEF One
  <2>5. CASE s[n] \in S
    <3>1. f[n] = Append(f[n - 1], s[n]) /\ g[n] = g[n - 1]
      BY <1>1, <2>5
    <3>2. Many(f[n], o) = Many(f[n - 1], o) + One(s[n], o) /\ f[n] \in Regs
      BY <1>3, <2>1, <3>1, ManyAppend, AppendProperties DEF Regs
    <3> QED BY <1>3, <2>3, <2>4, <3>1, <3>2
  <2>6. CASE s[n] \notin S
    <3>1. g[n] = Append(g[n - 1], s[n]) /\ f[n] = f[n - 1]
      BY <1>1, <2>1, <2>6
    <3>2. Many(g[n], o) = Many(g[n - 1], o) + One(s[n], o) /\ g[n] \in Regs
      BY <1>3, <2>1, <3>1, ManyAppend, AppendProperties DEF Regs
    <3> QED BY <1>3, <2>3, <2>4, <3>1, <3>2
  <2> QED BY <2>5, <2>6
<1> HIDE DEF P
<1>4. T = {}
  <2> SUFFICES ASSUME T # {} PROVE FALSE
    OBVIOUS
  <2>1. PICK n \in T : \A y \in T : n <= y
    <3> T \subseteq Nat
      BY <1>1
    <3> HIDE DEF T
    <3> QED BY LeastNat
  <2>2. n \in 0 .. Len(s) /\ ~P(n) /\ n # 0
    BY <1>2
  <2>3. n \in 1 .. Len(s) /\ n - 1 \in 0 .. Len(s) /\ ~(n <= n - 1)
    BY <1>1, <2>2
  <2>4. P(n - 1)
    BY <2>1, <2>3
  <2> QED BY <1>3, <2>2, <2>3, <2>4
<1>5. P(Len(s))
  BY <1>1, <1>4
<1>6. p(Len(s)) = s
  BY SubSeqFull DEF Regs
<1>7. Only(s, S) = f[Len(s)] /\ Only(s, Entry \ S) = g[Len(s)]
  BY DEF Only, f, g
<1> HIDE DEF p
<1> QED BY <1>5, <1>6, <1>7 DEF P

\* An object with an entry is counted.
LEMMA ManySome ==
  ASSUME NEW s \in Regs, NEW o
  PROVE  Many(s, o) = 0 <=> \A i \in DOMAIN s : s[i].obj # o
<1>1. IsFiniteSet(Places(s, o))
  BY ManyType
<1>2. Many(s, o) = 0 <=> Places(s, o) = {}
  BY <1>1, FS_EmptySet DEF Many
<1>3. DOMAIN s = 1 .. Len(s)
  BY DEF Regs
<1> QED BY <1>2, <1>3 DEF Places

\* When all entries are for the object, it is the length of the list.
LEMMA ManyAll ==
  ASSUME NEW s \in Regs, NEW o, \A i \in DOMAIN s : s[i].obj = o
  PROVE  Many(s, o) = Len(s)
<1>1. DOMAIN s = 1 .. Len(s) /\ Len(s) \in Nat
  BY DEF Regs
<1>2. Places(s, o) = 1 .. Len(s)
  BY <1>1 DEF Places
<1>3. Cardinality(1 .. Len(s)) = Len(s)
  BY <1>1, FS_Interval
<1> QED BY <1>2, <1>3 DEF Many

-----------------------------------------------------------------------------
(* The entries of all activations.                                         *)

Frames == Seq(Frame)

\* The places of the object's entries in the activations.
Bills(cs, o) ==
  {d \in (1 .. Len(cs)) \X Nat : d[2] \in Places(cs[d[1]].todo, o)}

Owed(cs, o) == Cardinality(Bills(cs, o))

\* An activation more.
LEMMA OwedPush ==
  ASSUME NEW cs \in Frames, NEW f \in Frame, NEW o, IsFiniteSet(Bills(cs, o))
  PROVE  /\ IsFiniteSet(Bills(Append(cs, f), o))
         /\ Owed(Append(cs, f), o) = Owed(cs, o) + Many(f.todo, o)
<1> DEFINE t == Append(cs, f)
           n == Len(cs) + 1
           more == {<<n, j>> : j \in Places(f.todo, o)}
           pair == [j \in Places(f.todo, o) |-> <<n, j>>]
<1>1. /\ Len(cs) \in Nat /\ Len(t) = n /\ t[n] = f
      /\ \A i \in 1 .. Len(cs) : t[i] = cs[i]
  BY AppendProperties DEF Frames
<1>2. f.todo \in Regs
  BY DEF Frame, Regs
<1>3. Places(f.todo, o) \subseteq Nat
  BY <1>2 DEF Places, Regs
<1> HIDE DEF t
<1>4. Bills(t, o) = Bills(cs, o) \cup more
  <2>1. \A d \in Bills(t, o) : d \in Bills(cs, o) \/ d \in more
    <3> TAKE d \in Bills(t, o)
    <3>1. d = <<d[1], d[2]>> /\ d[1] \in 1 .. n /\ d[2] \in Nat
          /\ d[2] \in Places(t[d[1]].todo, o)
      BY <1>1 DEF Bills
    <3>2. CASE d[1] = n
      BY <1>1, <3>1, <3>2
    <3>3. CASE d[1] # n
      <4>1. d[1] \in 1 .. Len(cs)
        BY <1>1, <3>1, <3>3
      <4> QED BY <1>1, <3>1, <4>1 DEF Bills
    <3> QED BY <3>2, <3>3
  <2>2. \A d \in Bills(cs, o) : d \in Bills(t, o)
    <3> TAKE d \in Bills(cs, o)
    <3>1. d = <<d[1], d[2]>> /\ d[1] \in 1 .. Len(cs) /\ d[2] \in Nat
          /\ d[2] \in Places(cs[d[1]].todo, o)
      BY DEF Bills
    <3>2. d[1] \in 1 .. Len(t) /\ t[d[1]] = cs[d[1]]
      BY <1>1, <3>1
    <3> QED BY <3>1, <3>2 DEF Bills
  <2>3. \A d \in more : d \in Bills(t, o)
    BY <1>1, <1>3 DEF Bills
  <2> QED BY <2>1, <2>2, <2>3
<1>5. Bills(cs, o) \cap more = {}
  BY <1>1 DEF Bills
<1>6. IsFiniteSet(Places(f.todo, o)) /\ Many(f.todo, o) \in Nat
  BY <1>2, ManyType
<1>7. IsFiniteSet(more) /\ Cardinality(more) = Many(f.todo, o)
  <2>1. pair \in Bijection(Places(f.todo, o), more)
    BY DEF Bijection, Injection, Surjection, IsInjective
  <2>2. ExistsBijection(Places(f.todo, o), more)
    BY <2>1 DEF ExistsBijection
  <2> HIDE DEF more
  <2> QED BY <1>6, <2>2, FS_Bijection DEF Many
<1> HIDE DEF more
<1>8. /\ IsFiniteSet(Bills(cs, o) \cup more)
      /\ Cardinality(Bills(cs, o) \cup more) =
           Cardinality(Bills(cs, o)) + Cardinality(more) - Cardinality({})
  BY <1>5, <1>7, FS_Union
<1>9. Cardinality({}) = 0 /\ Cardinality(Bills(cs, o)) \in Nat
  BY FS_EmptySet, FS_CardinalityType
<1> QED BY <1>4, <1>6, <1>7, <1>8, <1>9 DEF Owed, t

\* Activations less.
LEMMA OwedPrefix ==
  ASSUME NEW cs \in Frames, NEW k \in 0 .. Len(cs), NEW o, IsFiniteSet(Bills(cs, o))
  PROVE  /\ SubSeq(cs, 1, k) \in Frames /\ Len(SubSeq(cs, 1, k)) = k
         /\ \A i \in 1 .. k : SubSeq(cs, 1, k)[i] = cs[i]
         /\ IsFiniteSet(Bills(SubSeq(cs, 1, k), o))
         /\ Owed(SubSeq(cs, 1, k), o) <= Owed(cs, o)
<1> DEFINE t == SubSeq(cs, 1, k)
<1>1. Len(cs) \in Nat /\ k \in Nat /\ 1 .. k \subseteq 1 .. Len(cs)
  BY DEF Frames
<1>2. \A i \in 1 .. k : cs[i] \in Frame
  BY <1>1, ElementOfSeq DEF Frames
<1>3. /\ t \in Frames /\ Len(t) = k
      /\ \A i \in 1 .. k : t[i] = cs[i]
  BY <1>1, <1>2 DEF Frames
<1> HIDE DEF t
<1>4. Bills(t, o) \in SUBSET Bills(cs, o)
  <2> SUFFICES ASSUME NEW d \in Bills(t, o) PROVE d \in Bills(cs, o)
    OBVIOUS
  <2>1. d = <<d[1], d[2]>> /\ d[1] \in 1 .. k /\ d[2] \in Nat
        /\ d[2] \in Places(t[d[1]].todo, o)
    BY <1>3 DEF Bills
  <2>2. d[1] \in 1 .. Len(cs) /\ t[d[1]] = cs[d[1]]
    BY <1>1, <1>3, <2>1
  <2> QED BY <2>1, <2>2 DEF Bills
<1>5. IsFiniteSet(Bills(t, o)) /\ Cardinality(Bills(t, o)) <= Cardinality(Bills(cs, o))
  BY <1>4, FS_Subset
<1> QED BY <1>3, <1>5 DEF Owed, t

\* The innermost activation and the others.
LEMMA TopSplit ==
  ASSUME calls \in Frames, calls # <<>>
  PROVE  LET rest == SubSeq(calls, 1, Len(calls) - 1)
         IN  /\ Len(calls) \in Nat \ {0} /\ Top \in Frame /\ rest \in Frames
             /\ calls = Append(rest, Top)
             /\ \A f \in Frame :
                  [calls EXCEPT ![Len(calls)] = f] = Append(rest, f)
<1> DEFINE n == Len(calls)
           rest == SubSeq(calls, 1, n - 1)
<1>1. n \in Nat \ {0} /\ calls \in Seq(Frame)
  BY EmptySeq DEF Frames
<1>2. Top \in Frame /\ Top = calls[n]
  BY <1>1, ElementOfSeq DEF Top
<1>3. \A i \in 1 .. n - 1 : calls[i] \in Frame
  BY <1>1, ElementOfSeq
<1>4. /\ rest \in Seq(Frame) /\ Len(rest) = n - 1
      /\ \A i \in 1 .. n - 1 : rest[i] = calls[i]
  <2>1. \A i \in 1 .. n - 1 : 1 + i - 1 = i
    BY <1>1
  <2>2. /\ SubSeq(calls, 1, n - 1) \in Seq(Frame)
        /\ Len(SubSeq(calls, 1, n - 1)) = IF 1 <= n - 1 THEN n - 1 - 1 + 1 ELSE 0
        /\ \A i \in 1 .. n - 1 - 1 + 1 : SubSeq(calls, 1, n - 1)[i] = calls[1 + i - 1]
    BY <1>1, <1>3, SubSeqProperties
  <2>3. n - 1 - 1 + 1 = n - 1 /\ (~(1 <= n - 1) => n - 1 = 0)
    BY <1>1
  <2> QED BY <2>1, <2>2, <2>3
<1> HIDE DEF rest
<1>5. calls = Append(rest, Top)
  <2>1. /\ Append(rest, Top) \in Seq(Frame) /\ Len(Append(rest, Top)) = n - 1 + 1
        /\ \A i \in 1 .. n - 1 : Append(rest, Top)[i] = rest[i]
        /\ Append(rest, Top)[n - 1 + 1] = Top
    BY <1>2, <1>4, AppendProperties
  <2>2. n - 1 + 1 = n
    BY <1>1
  <2>3. \A i \in 1 .. n : calls[i] = Append(rest, Top)[i]
    <3> TAKE i \in 1 .. n
    <3>1. i = n \/ i \in 1 .. n - 1
      BY <1>1
    <3> QED BY <1>2, <1>4, <2>1, <2>2, <3>1
  <2> QED BY <1>1, <2>1, <2>2, <2>3, SeqEqual
<1>6. ASSUME NEW f \in Frame
      PROVE  [calls EXCEPT ![n] = f] = Append(rest, f)
  <2>1. /\ Append(rest, f) \in Seq(Frame) /\ Len(Append(rest, f)) = n - 1 + 1
        /\ \A i \in 1 .. n - 1 : Append(rest, f)[i] = rest[i]
        /\ Append(rest, f)[n - 1 + 1] = f
    BY <1>4, AppendProperties
  <2>2. n - 1 + 1 = n
    BY <1>1
  <2>3. /\ [calls EXCEPT ![n] = f] \in Seq(Frame) /\ Len([calls EXCEPT ![n] = f]) = n
        /\ \A i \in 1 .. n : [calls EXCEPT ![n] = f][i] = IF i = n THEN f ELSE calls[i]
    BY <1>1, ExceptSeq
  <2>4. \A i \in 1 .. n : [calls EXCEPT ![n] = f][i] = Append(rest, f)[i]
    <3> TAKE i \in 1 .. n
    <3>1. i = n \/ (i # n /\ i \in 1 .. n - 1)
      BY <1>1
    <3> QED BY <1>4, <2>1, <2>2, <2>3, <3>1
  <2> QED BY <2>1, <2>2, <2>3, <2>4, SeqEqual
<1> QED BY <1>1, <1>2, <1>4, <1>5, <1>6 DEF Frames, rest

-----------------------------------------------------------------------------
(* What registrations hold, whatever finalizers do.                        *)

\* TypeOK of the heap, but for pc, which has one value more here.
HeapTypes ==
  /\ heaps \subseteq Heaps
  /\ live \subseteq Obj
  /\ slot \in [Obj -> [Slot -> Ref]]
  /\ gen \in [Obj -> {-1, 0, 1}]
  /\ flag \subseteq Obj
  /\ fresh \subseteq Obj /\ check \subseteq Obj /\ mutd \subseteq Obj
  /\ fullGc \in BOOLEAN /\ gcEnabled \in BOOLEAN /\ pressure \in BOOLEAN
  /\ gcCounter \in 0..Interval
  /\ roots \subseteq Obj
  /\ op \in Op
  /\ tries \in 0..3

Types == HeapTypes /\ FinalTypeOK

\* What an activation was given: entries for live objects, and when it is one of
\* call-finalizers, for the object asked for.
Given(f, cells) ==
  /\ \A j \in DOMAIN f.todo : f.todo[j].obj \in cells
  /\ f.ctx # Nil => /\ f.ctx \in cells
                    /\ \A j \in DOMAIN f.todo : f.todo[j].obj = f.ctx

AllGiven(cs, cells) == \A i \in 1 .. Len(cs) : Given(cs[i], cells)

\* Of these activations one at most is a collection's, and is marked as such.
Alone(cs, mark) ==
  \A i \in 1 .. Len(cs) :
    cs[i].ctx = Nil => mark /\ \A j \in 1 .. Len(cs) : cs[j].ctx = Nil => j = i

\* Activations whose finalizer runs have its entry.
Working(cs, last) == \A i \in 1 .. Len(cs) : i < Len(cs) \/ last => cs[i].todo # <<>>

\* The count kept for an object covers its entries.
Covers(cs, fs, o, n) == IsFiniteSet(Bills(cs, o)) /\ Many(fs, o) + Owed(cs, o) <= n

Registered ==
  /\ FinalRoots \subseteq live
  /\ AllGiven(calls, live)
  /\ Alone(calls, inprogress)
  /\ Working(calls, pc # "call")
  /\ pc = "call" => calls # <<>>
  /\ \A o \in live : Covers(calls, finals, o, fincount[o])

\* The types at the start.
LEMMA FinalInitFits == FinalInit => Types /\ Registered
<1> SUFFICES ASSUME FinalInit PROVE Types /\ Registered
  OBVIOUS
<1>1. TypeOK /\ pc = "run"
  BY InitIInv DEF FinalInit, IInv, Init
<1>2. finals = <<>> /\ calls = <<>> /\ inprogress = FALSE
      /\ fincount = [o \in Obj |-> 0] /\ live = {}
  BY DEF FinalInit, Init
<1>3. HeapTypes
  BY <1>1 DEF TypeOK, HeapTypes
<1>4. FinalTypeOK
  <2>1. <<>> \in Seq(Entry) /\ <<>> \in Seq(Frame)
    OBVIOUS
  <2>2. 0 \in 0 .. FinMax
    BY FinalAssumption
  <2> QED BY <1>1, <1>2, <2>1, <2>2 DEF FinalTypeOK
<1>5. FinalRoots \subseteq live
  BY <1>2 DEF FinalRoots
<1>6. Len(calls) = 0 /\ 1 .. 0 = {}
  BY <1>2
<1>7. AllGiven(calls, live) /\ Alone(calls, inprogress) /\ Working(calls, pc # "call")
  BY <1>6 DEF AllGiven, Alone, Working
<1>8. pc # "call" /\ live = {}
  BY <1>1, <1>2
<1>9. Registered
  BY <1>5, <1>7, <1>8 DEF Registered
<1> QED BY <1>3, <1>4, <1>9 DEF Types

\* The prefixes of the stack of activations keep these facts.
LEMMA PrefixFits ==
  ASSUME NEW cs \in Frames, NEW k \in 0 .. Len(cs), NEW cells, NEW mark,
         AllGiven(cs, cells), Alone(cs, mark)
  PROVE  AllGiven(SubSeq(cs, 1, k), cells) /\ Alone(SubSeq(cs, 1, k), mark)
<1> DEFINE t == SubSeq(cs, 1, k)
<1>1. Len(cs) \in Nat /\ k \in Nat /\ 1 .. k \subseteq 1 .. Len(cs)
  BY DEF Frames
<1>2. \A i \in 1 .. k : cs[i] \in Frame
  BY <1>1, ElementOfSeq DEF Frames
<1>3. Len(t) = k /\ \A i \in 1 .. k : t[i] = cs[i]
  BY <1>1, <1>2
<1> HIDE DEF t
<1>4. AllGiven(t, cells)
  BY <1>1, <1>3 DEF AllGiven
<1>5. Alone(t, mark)
  <2> SUFFICES ASSUME NEW i \in 1 .. k, t[i].ctx = Nil
               PROVE  mark /\ \A j \in 1 .. k : t[j].ctx = Nil => j = i
    BY <1>3 DEF Alone
  <2>1. i \in 1 .. Len(cs) /\ cs[i].ctx = Nil
    BY <1>1, <1>3
  <2>2. mark /\ \A j \in 1 .. Len(cs) : cs[j].ctx = Nil => j = i
    BY <2>1 DEF Alone
  <2>3. \A j \in 1 .. k : j \in 1 .. Len(cs) /\ t[j] = cs[j]
    BY <1>1, <1>3
  <2> QED BY <2>2, <2>3
<1> QED BY <1>4, <1>5 DEF t

\* One activation more.
LEMMA PushFits ==
  ASSUME NEW cs \in Frames, NEW f \in Frame, NEW cells,
         AllGiven(cs, cells), Given(f, cells)
  PROVE  AllGiven(Append(cs, f), cells)
<1> DEFINE t == Append(cs, f)
           n == Len(cs) + 1
<1>1. /\ Len(cs) \in Nat /\ Len(t) = n /\ t[n] = f
      /\ \A i \in 1 .. Len(cs) : t[i] = cs[i]
  BY AppendProperties DEF Frames
<1> HIDE DEF t
<1>2. ASSUME NEW i \in 1 .. n PROVE Given(t[i], cells)
  <2>1. i = n \/ i \in 1 .. Len(cs)
    BY <1>1
  <2> QED BY <1>1, <2>1 DEF AllGiven
<1>3. AllGiven(t, cells)
  BY <1>1, <1>2 DEF AllGiven
<1> QED BY <1>3 DEF t

\* One more that is not a collection's, or one that is, where there was none.
LEMMA PushAlone ==
  ASSUME NEW cs \in Frames, NEW f \in Frame, NEW mark, NEW new,
         Alone(cs, mark),
         \/ f.ctx # Nil /\ (mark => new)
         \/ new /\ ~mark
  PROVE  Alone(Append(cs, f), new)
<1> DEFINE t == Append(cs, f)
           n == Len(cs) + 1
<1>1. /\ Len(cs) \in Nat /\ Len(t) = n /\ t[n] = f
      /\ \A i \in 1 .. Len(cs) : t[i] = cs[i]
  BY AppendProperties DEF Frames
<1> HIDE DEF t
<1>2. \A i \in 1 .. n : i = n \/ i \in 1 .. Len(cs)
  BY <1>1
<1>3. \A i \in 1 .. Len(cs) : cs[i].ctx = Nil => mark
  BY DEF Alone
<1>4. \A i, j \in 1 .. Len(cs) : cs[i].ctx = Nil /\ cs[j].ctx = Nil => j = i
  BY DEF Alone
<1>5. ASSUME NEW i \in 1 .. n, t[i].ctx = Nil
      PROVE  new /\ \A j \in 1 .. n : t[j].ctx = Nil => j = i
  <2>1. CASE f.ctx # Nil
    <3>1. i \in 1 .. Len(cs) /\ cs[i].ctx = Nil
      BY <1>1, <1>2, <1>5, <2>1
    <3>2. \A j \in 1 .. n : t[j].ctx = Nil => j \in 1 .. Len(cs) /\ cs[j].ctx = Nil
      BY <1>1, <1>2, <2>1
    <3>3. mark
      BY <1>3, <3>1
    <3> QED BY <1>3, <1>4, <2>1, <3>1, <3>2, <3>3
  <2>2. CASE new /\ ~mark
    <3>1. \A j \in 1 .. n : t[j].ctx = Nil => j = n
      BY <1>1, <1>2, <1>3, <2>2
    <3> QED BY <1>5, <2>2, <3>1
  <2> QED BY <2>1, <2>2
<1>6. Alone(t, new)
  BY <1>1, <1>5 DEF Alone
<1> QED BY <1>6 DEF t

\* Activations all of which have an entry, and one more.
LEMMA PushWorking ==
  ASSUME NEW cs \in Frames, NEW f \in Frame, NEW last,
         Working(cs, TRUE), last => f.todo # <<>>
  PROVE  Working(Append(cs, f), last)
<1> DEFINE t == Append(cs, f)
           n == Len(cs) + 1
<1>1. /\ Len(cs) \in Nat /\ Len(t) = n /\ t[n] = f
      /\ \A i \in 1 .. Len(cs) : t[i] = cs[i]
  BY AppendProperties DEF Frames
<1> HIDE DEF t
<1>2. ASSUME NEW i \in 1 .. n, i < n \/ last PROVE t[i].todo # <<>>
  <2>1. i = n \/ i \in 1 .. Len(cs)
    BY <1>1
  <2>2. \A j \in 1 .. Len(cs) : cs[j].todo # <<>>
    BY DEF Working
  <2>3. i = n => last
    BY <1>1, <1>2
  <2> QED BY <1>1, <2>1, <2>2, <2>3
<1>3. Working(t, last)
  BY <1>1, <1>2 DEF Working
<1> QED BY <1>3 DEF t

\* All activations but the innermost have an entry.
LEMMA RestWorking ==
  ASSUME NEW cs \in Frames, NEW k \in 0 .. Len(cs), NEW last, Working(cs, last),
         k < Len(cs) \/ last
  PROVE  Working(SubSeq(cs, 1, k), TRUE)
<1> DEFINE t == SubSeq(cs, 1, k)
<1>1. Len(cs) \in Nat /\ k \in Nat /\ 1 .. k \subseteq 1 .. Len(cs)
  BY DEF Frames
<1>2. \A i \in 1 .. k : cs[i] \in Frame
  BY <1>1, ElementOfSeq DEF Frames
<1>3. Len(t) = k /\ \A i \in 1 .. k : t[i] = cs[i]
  BY <1>1, <1>2
<1> HIDE DEF t
<1>4. ASSUME NEW i \in 1 .. k PROVE t[i].todo # <<>>
  <2>1. i \in 1 .. Len(cs) /\ (i < Len(cs) \/ last)
    BY <1>1
  <2> QED BY <1>3, <2>1 DEF Working
<1>5. Working(t, TRUE)
  BY <1>3, <1>4 DEF Working
<1> QED BY <1>5 DEF t

-----------------------------------------------------------------------------
(* The steps of finalization.                                              *)

\* What is sifted out of a list of entries for some cells, and what stays.
LEMMA SiftingOf ==
  ASSUME NEW s \in Regs, NEW cells,
         \A j \in DOMAIN s : s[j].obj \in cells /\ s[j].fun \in cells, NEW S
  PROVE  /\ Only(s, S) \in Regs /\ Only(s, Entry \ S) \in Regs
         /\ \A o : /\ Many(Only(s, S), o) \in Nat
                   /\ Many(Only(s, Entry \ S), o) \in Nat
                   /\ Many(s, o) = Many(Only(s, S), o) + Many(Only(s, Entry \ S), o)
         /\ \A j \in DOMAIN Only(s, S) :
              LET e == Only(s, S)[j] IN e \in S /\ e.obj \in cells /\ e.fun \in cells
         /\ \A j \in DOMAIN Only(s, Entry \ S) :
              LET e == Only(s, Entry \ S)[j] IN
                e \in Entry \ S /\ e.obj \in cells /\ e.fun \in cells
<1>1. s \in Seq(Entry)
  BY DEF Regs
<1>2. ASSUME NEW R
      PROVE  /\ Only(s, R) \in Regs
             /\ \A j \in DOMAIN Only(s, R) :
                  LET e == Only(s, R)[j] IN e \in R /\ e.obj \in cells /\ e.fun \in cells
  <2>1. /\ Only(s, R) \in Seq(Entry)
        /\ \A i \in DOMAIN Only(s, R) :
             Only(s, R)[i] \in R /\ \E j \in DOMAIN s : s[j] = Only(s, R)[i]
    BY <1>1, OnlyThose
  <2>2. ASSUME NEW i \in DOMAIN Only(s, R)
        PROVE  LET e == Only(s, R)[i] IN e \in R /\ e.obj \in cells /\ e.fun \in cells
    <3>1. PICK j \in DOMAIN s : s[j] = Only(s, R)[i]
      BY <2>1
    <3>2. s[j].obj \in cells /\ s[j].fun \in cells
      OBVIOUS
    <3> QED BY <2>1, <3>1, <3>2
  <2> QED BY <2>1, <2>2 DEF Regs
<1>3. ASSUME NEW o
      PROVE  /\ Many(Only(s, S), o) \in Nat
             /\ Many(Only(s, Entry \ S), o) \in Nat
             /\ Many(s, o) = Many(Only(s, S), o) + Many(Only(s, Entry \ S), o)
  BY <1>2, ManyType, ManySplit
<1> QED BY <1>2, <1>3

\* What is sifted out of final_list, and what stays.
LEMMA Sifting ==
  ASSUME Types, FinalRoots \subseteq live, NEW S
  PROVE  /\ Only(finals, S) \in Regs /\ Only(finals, Entry \ S) \in Regs
         /\ \A o : /\ Many(Only(finals, S), o) \in Nat
                   /\ Many(Only(finals, Entry \ S), o) \in Nat
                   /\ Many(finals, o) =
                        Many(Only(finals, S), o) + Many(Only(finals, Entry \ S), o)
         /\ \A j \in DOMAIN Only(finals, S) :
              LET e == Only(finals, S)[j] IN e \in S /\ e.obj \in live /\ e.fun \in live
         /\ \A j \in DOMAIN Only(finals, Entry \ S) :
              LET e == Only(finals, Entry \ S)[j] IN
                e \in Entry \ S /\ e.obj \in live /\ e.fun \in live
<1>1. finals \in Regs
  BY DEF Types, FinalTypeOK, Regs
<1>2. \A j \in DOMAIN finals : finals[j].obj \in live /\ finals[j].fun \in live
  BY DEF FinalRoots
<1> QED BY <1>1, <1>2, SiftingOf

\* The facts about the innermost activation.
LEMMA TopFacts ==
  ASSUME Types, Registered, calls # <<>>
  PROVE  /\ calls \in Frames /\ Len(calls) \in Nat \ {0} /\ Top \in Frame
         /\ Top.todo \in Regs /\ Given(Top, live)
         /\ pc # "call" => Top.todo # <<>>
         /\ Top.ctx = Nil => inprogress
<1>1. calls \in Frames
  BY DEF Types, FinalTypeOK, Frames
<1>2. Len(calls) \in Nat \ {0} /\ Top \in Frame
  BY <1>1, TopSplit
<1>3. Top.todo \in Regs
  BY <1>2 DEF Frame, Regs
<1>4. Len(calls) \in 1 .. Len(calls)
  BY <1>2
<1> QED BY <1>1, <1>2, <1>3, <1>4
        DEF Registered, AllGiven, Working, Alone, Top

\* A finalizer is called.
LEMMA CallNextStep == Types /\ Registered /\ CallNext => Types' /\ Registered'
<1> SUFFICES ASSUME Types, Registered, CallNext PROVE Types' /\ Registered'
  OBVIOUS
<1>1. /\ pc = "call" /\ Top.todo # <<>> /\ pc' = "run"
      /\ roots' = roots \cup {Head(Top.todo).obj, Head(Top.todo).fun}
      /\ UNCHANGED <<heaps, live, slot, gen, flag, fresh, check, mutd, fullGc, gcEnabled,
                     gcCounter, pressure, op, tries, finals, fincount, calls, inprogress>>
  BY DEF CallNext, heapVars, listVars, gcVars, finVars
<1>2. calls # <<>>
  BY <1>1 DEF Registered
<1>3. Top.todo \in Regs /\ Top \in Frame /\ Len(calls) \in Nat \ {0}
  BY <1>2, TopFacts
<1>4. Head(Top.todo) \in Entry
  BY <1>1, <1>3, ManyTail
<1>5. roots' \subseteq Obj
  BY <1>1, <1>4 DEF Entry, Types, HeapTypes
<1>6. Types'
  BY <1>1, <1>5 DEF Types, HeapTypes, FinalTypeOK
<1>7. Working(calls', pc' # "call")
  <2>1. \A i \in 1 .. Len(calls) : calls[i].todo # <<>>
    BY <1>1, <1>3 DEF Registered, Working, Top
  <2> QED BY <1>1, <2>1 DEF Working
<1> QED BY <1>1, <1>6, <1>7 DEF Registered, FinalRoots, AllGiven, Given, Alone

\* What a step does to the number of an object's entries decides whether they are
\* still covered.
LEMMA CoversLess ==
  ASSUME NEW cs \in Frames, NEW fs \in Regs, NEW o, NEW n \in Nat, Covers(cs, fs, o, n)
  PROVE  /\ Many(fs, o) \in Nat /\ Owed(cs, o) \in Nat
         /\ Many(fs, o) <= n /\ Owed(cs, o) <= n
         /\ Many(fs, o) + Owed(cs, o) <= n /\ IsFiniteSet(Bills(cs, o))
<1>1. Many(fs, o) \in Nat
  BY ManyType
<1>2. IsFiniteSet(Bills(cs, o)) /\ Owed(cs, o) \in Nat
  BY FS_CardinalityType DEF Covers, Owed
<1>3. Many(fs, o) + Owed(cs, o) <= n
  BY DEF Covers
<1>4. Many(fs, o) <= n /\ Owed(cs, o) <= n
  BY <1>1, <1>2, <1>3
<1> QED BY <1>1, <1>2, <1>3, <1>4

\* An activation is left with other entries.
LEMMA SwapTop ==
  ASSUME calls \in Frames, calls # <<>>, NEW f \in Frame, f.ctx = Top.ctx,
         NEW cells, AllGiven(calls, cells), Given(f, cells),
         NEW mark, Alone(calls, mark),
         NEW last, Working(calls, last)
  PROVE  LET t == [calls EXCEPT ![Len(calls)] = f]
         IN  /\ t \in Frames /\ t # <<>>
             /\ AllGiven(t, cells) /\ Alone(t, mark) /\ Working(t, FALSE)
             /\ \A o : IsFiniteSet(Bills(calls, o)) =>
                  /\ IsFiniteSet(Bills(t, o))
                  /\ Owed(t, o) \in Nat /\ Owed(calls, o) \in Nat
                  /\ Many(Top.todo, o) \in Nat /\ Many(f.todo, o) \in Nat
                  /\ Owed(t, o) = Owed(calls, o) - Many(Top.todo, o) + Many(f.todo, o)
<1> DEFINE rest == SubSeq(calls, 1, Len(calls) - 1)
           t == [calls EXCEPT ![Len(calls)] = f]
<1>1. /\ Len(calls) \in Nat \ {0} /\ Top \in Frame /\ rest \in Frames
      /\ calls = Append(rest, Top) /\ t = Append(rest, f)
  BY TopSplit
<1>2. Len(calls) - 1 \in 0 .. Len(calls) /\ Len(calls) - 1 < Len(calls)
  BY <1>1
<1>3. AllGiven(rest, cells)
  BY <1>2, PrefixFits
<1>4. Working(rest, TRUE)
  BY <1>2, RestWorking
<1>5. \A o : IsFiniteSet(Bills(calls, o)) => IsFiniteSet(Bills(rest, o))
  BY <1>2, OwedPrefix
<1> HIDE DEF rest, t
<1>6. AllGiven(t, cells)
  BY <1>1, <1>3, PushFits
<1>7. Working(t, FALSE)
  <2>1. Working(Append(rest, f), FALSE)
    BY <1>1, <1>4, PushWorking
  <2> QED BY <1>1, <2>1
<1>8. /\ Len(rest) \in Nat /\ Len(calls) = Len(rest) + 1 /\ Len(t) = Len(rest) + 1
      /\ \A i \in 1 .. Len(rest) : t[i] = calls[i]
      /\ t[Len(rest) + 1].ctx = calls[Len(rest) + 1].ctx
      /\ t \in Frames
  BY <1>1, AppendProperties DEF Frames
<1>9. Alone(t, mark)
  <2>1. \A i \in 1 .. Len(calls) : i \in 1 .. Len(rest) \/ i = Len(rest) + 1
    BY <1>8
  <2>2. \A i \in 1 .. Len(calls) : t[i].ctx = calls[i].ctx
    BY <1>8, <2>1
  <2> QED BY <1>8, <2>2 DEF Alone
<1>10. ASSUME NEW o, IsFiniteSet(Bills(calls, o))
       PROVE  /\ IsFiniteSet(Bills(t, o))
              /\ Owed(t, o) \in Nat /\ Owed(calls, o) \in Nat
              /\ Many(Top.todo, o) \in Nat /\ Many(f.todo, o) \in Nat
              /\ Owed(t, o) = Owed(calls, o) - Many(Top.todo, o) + Many(f.todo, o)
  <2>1. Top.todo \in Regs /\ f.todo \in Regs
    BY <1>1 DEF Frame, Regs
  <2>2. Many(Top.todo, o) \in Nat /\ Many(f.todo, o) \in Nat
    BY <2>1, ManyType
  <2>3. IsFiniteSet(Bills(rest, o))
    BY <1>5, <1>10
  <2>4. Owed(rest, o) \in Nat
    BY <2>3, FS_CardinalityType DEF Owed
  <2>5. Owed(Append(rest, Top), o) = Owed(rest, o) + Many(Top.todo, o)
    BY <1>1, <2>3, OwedPush
  <2>6. /\ IsFiniteSet(Bills(Append(rest, f), o))
        /\ Owed(Append(rest, f), o) = Owed(rest, o) + Many(f.todo, o)
    BY <1>1, <2>3, OwedPush
  <2> QED BY <1>1, <2>2, <2>4, <2>5, <2>6
<1>11. t # <<>>
  BY <1>8
<1> QED BY <1>6, <1>7, <1>8, <1>9, <1>10, <1>11 DEF t

\* A finalizer returns.
LEMMA ReturnStep == Types /\ Registered /\ Return => Types' /\ Registered'
<1> SUFFICES ASSUME Types, Registered, Return PROVE Types' /\ Registered'
  OBVIOUS
<1> DEFINE e == Head(Top.todo)
           less == [Top EXCEPT !.todo = Tail(Top.todo)]
<1>1. /\ pc = "run" /\ calls # <<>> /\ pc' = "call" /\ roots' = Top.saved
      /\ fincount' = [fincount EXCEPT ![e.obj] = @ - 1]
      /\ calls' = [calls EXCEPT ![Len(calls)] = less]
      /\ UNCHANGED <<heaps, live, slot, flag, check, mutd, gcEnabled, gcCounter,
                     pressure, op, tries, finals, inprogress>>
  BY DEF Return, Top
<1>2. /\ gen' = gen \/ gen' = [gen EXCEPT ![e.obj] = 0]
      /\ fresh' = fresh \/ fresh' = fresh \cup {e.obj}
      /\ fullGc' = fullGc \/ fullGc' = TRUE
  BY DEF Return, MakeBaby
<1>3. /\ calls \in Frames /\ Len(calls) \in Nat \ {0} /\ Top \in Frame
      /\ Top.todo \in Regs /\ Given(Top, live) /\ Top.todo # <<>>
  BY <1>1, TopFacts
<1>4. /\ e \in Entry /\ Tail(Top.todo) \in Regs
      /\ \A o : Many(Top.todo, o) = Many(Tail(Top.todo), o) + One(e, o)
  BY <1>3, ManyTail
<1>5. e.obj \in Obj /\ e.obj \in live
  <2>1. e = Top.todo[1] /\ 1 \in DOMAIN Top.todo
    BY <1>3 DEF Regs
  <2> QED BY <1>3, <1>4, <2>1 DEF Given, Entry
<1> HIDE DEF e
<1>6. less \in Frame /\ less.ctx = Top.ctx /\ less.todo = Tail(Top.todo)
  BY <1>3, <1>4 DEF Frame, Regs
<1> HIDE DEF less
<1>7. Given(less, live)
  <2>1. \A j \in DOMAIN Tail(Top.todo) :
          j + 1 \in DOMAIN Top.todo /\ Tail(Top.todo)[j] = Top.todo[j + 1]
    BY <1>3, HeadTailProperties DEF Regs
  <2> QED BY <1>3, <1>6, <2>1 DEF Given
<1>8. /\ calls' \in Frames /\ calls' # <<>>
      /\ AllGiven(calls', live) /\ Alone(calls', inprogress) /\ Working(calls', FALSE)
      /\ \A o : IsFiniteSet(Bills(calls, o)) =>
           /\ IsFiniteSet(Bills(calls', o))
           /\ Owed(calls', o) \in Nat
           /\ Many(Top.todo, o) \in Nat /\ Many(less.todo, o) \in Nat
           /\ Owed(calls', o) = Owed(calls, o) - Many(Top.todo, o) + Many(less.todo, o)
  <2>1. AllGiven(calls, live) /\ Alone(calls, inprogress) /\ Working(calls, pc # "call")
    BY DEF Registered
  <2> QED BY <1>1, <1>3, <1>6, <1>7, <2>1, SwapTop
<1>9. ASSUME NEW o \in live
      PROVE  /\ Covers(calls', finals', o, fincount[o] - One(e, o))
             /\ One(e, o) <= fincount[o] /\ fincount[o] \in Nat
  <2>1. finals \in Regs /\ fincount[o] \in Nat
    BY FinalAssumption DEF Types, HeapTypes, FinalTypeOK, Regs
  <2>2. Covers(calls, finals, o, fincount[o])
    BY DEF Registered
  <2>3. /\ Many(finals, o) \in Nat /\ Owed(calls, o) \in Nat
        /\ Many(finals, o) + Owed(calls, o) <= fincount[o]
        /\ IsFiniteSet(Bills(calls, o))
    BY <1>3, <2>1, <2>2, CoversLess
  <2>4. /\ IsFiniteSet(Bills(calls', o)) /\ Owed(calls', o) \in Nat
        /\ Many(Top.todo, o) \in Nat /\ Many(less.todo, o) \in Nat
        /\ Owed(calls', o) = Owed(calls, o) - Many(Top.todo, o) + Many(less.todo, o)
    BY <1>8, <2>3
  <2>5. Many(Top.todo, o) = Many(less.todo, o) + One(e, o) /\ One(e, o) \in Nat
    BY <1>4, <1>6 DEF One
  <2>6. Many(finals, o) + Owed(calls', o) <= fincount[o] - One(e, o)
        /\ One(e, o) <= fincount[o]
    BY <2>1, <2>3, <2>4, <2>5
  <2> QED BY <1>1, <2>1, <2>4, <2>6 DEF Covers
<1>10. \A o \in live : fincount'[o] = fincount[o] - One(e, o)
  <2>1. fincount \in [Obj -> 0 .. FinMax] /\ live \subseteq Obj
    BY DEF Types, HeapTypes, FinalTypeOK
  <2>2. \A o \in live : fincount[o] \in Nat
    BY <2>1, FinalAssumption
  <2> QED BY <1>1, <2>1, <2>2 DEF One
<1>11. fincount' \in [Obj -> 0 .. FinMax]
  <2>1. fincount \in [Obj -> 0 .. FinMax]
    BY DEF Types, FinalTypeOK
  <2>2. One(e, e.obj) = 1
    BY DEF One
  <2>3. 1 <= fincount[e.obj] /\ fincount[e.obj] \in 0 .. FinMax
    BY <1>5, <1>9, <2>1, <2>2
  <2>4. fincount[e.obj] - 1 \in 0 .. FinMax
    BY <2>3, FinalAssumption
  <2> QED BY <1>1, <2>1, <2>4
<1>12. Types'
  <2>1. gen' \in [Obj -> {-1, 0, 1}] /\ fresh' \subseteq Obj /\ fullGc' \in BOOLEAN
    BY <1>2, <1>5 DEF Types, HeapTypes
  <2>2. roots' \subseteq Obj
    BY <1>1, <1>3 DEF Frame
  <2>3. HeapTypes'
    BY <1>1, <2>1, <2>2 DEF Types, HeapTypes
  <2>4. FinalTypeOK'
    BY <1>1, <1>8, <1>11 DEF Types, FinalTypeOK, Frames
  <2> QED BY <2>3, <2>4 DEF Types
<1>13. (FinalRoots \subseteq live)'
  BY <1>1 DEF Registered, FinalRoots
<1>14. Working(calls', pc' # "call")
  <2>1. (pc' # "call") = FALSE
    BY <1>1
  <2> QED BY <1>8, <2>1
<1> QED BY <1>1, <1>8, <1>9, <1>10, <1>12, <1>13, <1>14 DEF Registered

\* The activations that a return or a throw leaves.
LEMMA RestFacts ==
  ASSUME Types, Registered, calls # <<>>, NEW k \in 0 .. Len(calls) - 1
  PROVE  LET t == SubSeq(calls, 1, k)
         IN  /\ t \in Frames /\ Len(t) = k
             /\ \A i \in 1 .. k : t[i] = calls[i]
             /\ AllGiven(t, live) /\ Alone(t, inprogress) /\ Working(t, TRUE)
             /\ \A o \in live : Covers(t, finals, o, fincount[o])
<1> DEFINE t == SubSeq(calls, 1, k)
<1>1. calls \in Frames /\ Len(calls) \in Nat \ {0}
  BY TopFacts
<1>2. k \in 0 .. Len(calls) /\ k < Len(calls)
  BY <1>1
<1>3. AllGiven(calls, live) /\ Alone(calls, inprogress) /\ Working(calls, pc # "call")
  BY DEF Registered
<1>4. AllGiven(t, live) /\ Alone(t, inprogress)
  BY <1>1, <1>2, <1>3, PrefixFits
<1>5. Working(t, TRUE)
  BY <1>1, <1>2, <1>3, RestWorking
<1>6. t \in Frames /\ Len(t) = k /\ \A i \in 1 .. k : t[i] = calls[i]
  <2>1. \A i \in 1 .. k : calls[i] \in Frame
    BY <1>1, <1>2, ElementOfSeq DEF Frames
  <2> QED BY <1>1, <1>2, <2>1 DEF Frames
<1>7. ASSUME NEW o \in live PROVE Covers(t, finals, o, fincount[o])
  <2>1. finals \in Regs /\ fincount[o] \in Nat
    BY FinalAssumption DEF Types, HeapTypes, FinalTypeOK, Regs
  <2>2. Covers(calls, finals, o, fincount[o])
    BY DEF Registered
  <2>3. /\ Many(finals, o) \in Nat /\ Owed(calls, o) \in Nat
        /\ Many(finals, o) + Owed(calls, o) <= fincount[o]
        /\ IsFiniteSet(Bills(calls, o))
    BY <1>1, <2>1, <2>2, CoversLess
  <2>4. IsFiniteSet(Bills(t, o)) /\ Owed(t, o) <= Owed(calls, o)
    BY <1>1, <1>2, <2>3, OwedPrefix
  <2>5. Owed(t, o) \in Nat
    BY <2>4, FS_CardinalityType DEF Owed
  <2> HIDE DEF t
  <2> QED BY <2>1, <2>3, <2>4, <2>5 DEF Covers
<1> HIDE DEF t
<1> QED BY <1>4, <1>5, <1>6, <1>7 DEF t

\* A finalizer throws past its caller.
LEMMA ThrowStep == Types /\ Registered /\ Throw => Types' /\ Registered'
<1> SUFFICES ASSUME Types, Registered, Throw PROVE Types' /\ Registered'
  OBVIOUS
<1>1. /\ pc = "run" /\ pc' = "run" /\ calls # <<>> /\ tries' = 0
      /\ UNCHANGED <<heaps, live, slot, gen, flag, fresh, check, mutd, fullGc, gcCounter,
                     pressure, op, finals, fincount, inprogress>>
  BY DEF Throw, heapVars, listVars
<1>2. PICK k \in 0 .. Len(calls) - 1 :
        /\ calls' = SubSeq(calls, 1, k)
        /\ roots' = calls[k + 1].saved
        /\ gcEnabled' = (gcEnabled \/
                           /\ inprogress
                           /\ \A i \in 1 .. k : calls[i].ctx # Nil)
  BY DEF Throw
<1>3. /\ calls' \in Frames
      /\ AllGiven(calls', live) /\ Alone(calls', inprogress) /\ Working(calls', TRUE)
      /\ \A o \in live : Covers(calls', finals, o, fincount[o])
  BY <1>1, <1>2, RestFacts
<1>4. roots' \subseteq Obj
  <2>1. calls \in Frames /\ Len(calls) \in Nat \ {0}
    BY <1>1, TopFacts
  <2>2. k + 1 \in 1 .. Len(calls)
    BY <2>1
  <2>3. calls[k + 1] \in Frame
    BY <2>1, <2>2, ElementOfSeq DEF Frames
  <2> QED BY <1>2, <2>3 DEF Frame
<1>5. gcEnabled' \in BOOLEAN
  BY <1>2 DEF Types, HeapTypes, FinalTypeOK
<1>6. Types'
  <2>1. HeapTypes'
    BY <1>1, <1>4, <1>5 DEF Types, HeapTypes
  <2>2. FinalTypeOK'
    BY <1>1, <1>3 DEF Types, FinalTypeOK, Frames
  <2> QED BY <2>1, <2>2 DEF Types
<1>7. (FinalRoots \subseteq live)'
  BY <1>1 DEF Registered, FinalRoots
<1>8. Working(calls', pc' # "call")
  <2>1. (pc' # "call") = TRUE
    BY <1>1
  <2> QED BY <1>3, <2>1
<1> QED BY <1>1, <1>3, <1>6, <1>7, <1>8 DEF Registered

\* What an activation finds on final_list can be handed to it.
LEMMA FoundGiven ==
  ASSUME Types, FinalRoots \subseteq live, NEW ctx \in Ref, NEW S,
         ctx # Nil => S = Matching(ctx), Only(finals, S) # <<>>,
         NEW f, f.todo = Only(finals, S), f.ctx = ctx
  PROVE  Given(f, live)
<1>1. /\ Only(finals, S) \in Regs
      /\ \A j \in DOMAIN Only(finals, S) :
           Only(finals, S)[j] \in S /\ Only(finals, S)[j].obj \in live
  BY Sifting
<1>2. 1 \in DOMAIN Only(finals, S)
  BY <1>1 DEF Regs
<1>3. ctx # Nil => \A j \in DOMAIN Only(finals, S) : Only(finals, S)[j].obj = ctx
  BY <1>1 DEF Matching
<1> QED BY <1>1, <1>2, <1>3 DEF Given

\* Every round ends with more finalizers, or with the activation.
LEMMA EndRoundStep == Types /\ Registered /\ EndRound => Types' /\ Registered'
<1> SUFFICES ASSUME Types, Registered, EndRound PROVE Types' /\ Registered'
  OBVIOUS
<1> DEFINE found == Only(finals, Again)
           more == [Top EXCEPT !.todo = found]
<1>1. /\ pc = "call" /\ Top.todo = <<>> /\ finals' = Only(finals, Entry \ Again)
      /\ UNCHANGED <<heaps, live, slot, gen, flag, fresh, check, mutd, fullGc, gcCounter,
                     roots, fincount>>
  BY DEF EndRound, heapVars, listVars
<1>2. found # <<>> => /\ calls' = [calls EXCEPT ![Len(calls)] = more]
                      /\ UNCHANGED <<pc, op, tries, gcEnabled, pressure, inprogress>>
  BY DEF EndRound, Top
<1>3. found = <<>> => /\ calls' = SubSeq(calls, 1, Len(calls) - 1)
                      /\ pc' = Resume(Top.op) /\ op' = Resumed(Top.op)
                      /\ tries' = Top.tries
                      /\ IF Top.ctx = Nil
                           THEN gcEnabled' = TRUE /\ inprogress' = FALSE /\ pressure' = FALSE
                           ELSE UNCHANGED <<gcEnabled, inprogress, pressure>>
  BY DEF EndRound
<1>4. calls # <<>>
  BY <1>1 DEF Registered
<1>5. /\ calls \in Frames /\ Len(calls) \in Nat \ {0} /\ Top \in Frame
      /\ Top.todo \in Regs /\ Top.op \in Op /\ Top.ctx \in Ref
  BY <1>4, TopFacts DEF Frame
<1>6. FinalRoots \subseteq live
  BY DEF Registered
<1>7. /\ found \in Regs /\ finals' \in Regs
      /\ \A o : /\ Many(found, o) \in Nat /\ Many(finals', o) \in Nat
                /\ Many(finals, o) = Many(found, o) + Many(finals', o)
      /\ \A j \in DOMAIN finals' : finals'[j].obj \in live /\ finals'[j].fun \in live
  BY <1>1, <1>6, Sifting
<1>8. (FinalRoots \subseteq live)'
  <2>1. \A j \in DOMAIN finals' : {finals'[j].obj, finals'[j].fun} \subseteq live'
    BY <1>1, <1>7
  <2> QED BY <2>1 DEF FinalRoots
<1>9. ASSUME NEW o \in live
      PROVE  /\ fincount[o] \in Nat /\ fincount'[o] = fincount[o]
             /\ Many(finals, o) \in Nat /\ Owed(calls, o) \in Nat
             /\ Many(finals, o) + Owed(calls, o) <= fincount[o]
             /\ IsFiniteSet(Bills(calls, o))
  <2>1. finals \in Regs /\ fincount[o] \in Nat
    BY FinalAssumption DEF Types, HeapTypes, FinalTypeOK, Regs
  <2>2. Covers(calls, finals, o, fincount[o])
    BY DEF Registered
  <2> QED BY <1>1, <1>5, <2>1, <2>2, CoversLess
<1>10. CASE found # <<>>
  <2>1. more \in Frame /\ more.ctx = Top.ctx /\ more.todo = found
    BY <1>5, <1>7 DEF Frame, Regs
  <2>2. Given(more, live)
    <3>1. Top.ctx # Nil => Again = Matching(Top.ctx)
      BY DEF Again
    <3> QED BY <1>5, <1>6, <1>10, <2>1, <3>1, FoundGiven
  <2> HIDE DEF more, found
  <2>3. /\ calls' \in Frames /\ calls' # <<>>
        /\ AllGiven(calls', live) /\ Alone(calls', inprogress) /\ Working(calls', FALSE)
        /\ \A o : IsFiniteSet(Bills(calls, o)) =>
             /\ IsFiniteSet(Bills(calls', o))
             /\ Owed(calls', o) \in Nat
             /\ Owed(calls', o) = Owed(calls, o) - Many(Top.todo, o) + Many(more.todo, o)
    <3>1. AllGiven(calls, live) /\ Alone(calls, inprogress) /\ Working(calls, pc # "call")
      BY DEF Registered
    <3> QED BY <1>2, <1>4, <1>5, <1>10, <2>1, <2>2, <3>1, SwapTop
  <2>4. ASSUME NEW o \in live PROVE Covers(calls', finals', o, fincount'[o])
    <3>1. Many(Top.todo, o) = 0
      BY <1>1, <1>5, ManyType
    <3>2. Owed(calls', o) = Owed(calls, o) + Many(found, o)
      BY <1>9, <2>1, <2>3, <3>1
    <3>3. Many(finals', o) + Owed(calls', o) <= fincount'[o]
      BY <1>7, <1>9, <3>2
    <3> QED BY <1>9, <2>3, <3>3 DEF Covers
  <2>5. Types'
    <3>1. /\ pc' = "call" /\ pc' \in {"run", "gc", "find", "store", "call", "abort", "oom"}
          /\ UNCHANGED <<op, tries, gcEnabled, pressure, inprogress>>
      BY <1>1, <1>2, <1>10
    <3>2. HeapTypes'
      BY <1>1, <3>1 DEF Types, HeapTypes
    <3>3. FinalTypeOK'
      BY <1>1, <1>7, <2>3, <3>1 DEF Types, FinalTypeOK, Frames, Regs
    <3> QED BY <3>2, <3>3 DEF Types
  <2>6. Working(calls', pc' # "call")
    <3>1. (pc' # "call") = FALSE
      BY <1>1, <1>2, <1>10
    <3> QED BY <2>3, <3>1
  <2>7. live' = live /\ inprogress' = inprogress
    BY <1>1, <1>2, <1>10
  <2>8. AllGiven(calls', live') /\ Alone(calls', inprogress')
    BY <2>3, <2>7
  <2>9. \A o \in live' : Covers(calls', finals', o, fincount'[o])
    BY <2>4, <2>7
  <2> QED BY <1>8, <2>3, <2>5, <2>6, <2>8, <2>9 DEF Registered
<1>11. CASE found = <<>>
  <2> HIDE DEF found
  <2>1. Len(calls) - 1 \in 0 .. Len(calls) - 1
    BY <1>5
  <2>2. /\ calls' \in Frames /\ Len(calls') = Len(calls) - 1
        /\ \A i \in 1 .. Len(calls) - 1 : calls'[i] = calls[i]
        /\ AllGiven(calls', live) /\ Alone(calls', inprogress) /\ Working(calls', TRUE)
        /\ \A o \in live : Covers(calls', finals, o, fincount[o])
    <3>1. calls' = SubSeq(calls, 1, Len(calls) - 1)
      BY <1>3, <1>11
    <3> QED BY <1>4, <2>1, <3>1, RestFacts
  <2>3. Alone(calls', inprogress')
    <3>1. CASE Top.ctx # Nil
      <4>1. inprogress' = inprogress
        BY <1>3, <1>11, <3>1
      <4> QED BY <2>2, <4>1
    <3>2. CASE Top.ctx = Nil
      <4>1. Len(calls) \in 1 .. Len(calls) /\ calls[Len(calls)].ctx = Nil
        BY <1>5, <3>2 DEF Top
      <4>2. \A j \in 1 .. Len(calls) : calls[j].ctx = Nil => j = Len(calls)
        BY <4>1 DEF Registered, Alone
      <4>3. \A j \in 1 .. Len(calls') : j \in 1 .. Len(calls) /\ j # Len(calls)
        BY <1>5, <2>2
      <4>4. \A j \in 1 .. Len(calls') : calls'[j].ctx # Nil
        BY <2>2, <4>2, <4>3
      <4> QED BY <4>4 DEF Alone
    <3> QED BY <3>1, <3>2
  <2>4. ASSUME NEW o \in live PROVE Covers(calls', finals', o, fincount'[o])
    <3>1. finals \in Regs
      BY DEF Types, FinalTypeOK, Regs
    <3>2. Covers(calls', finals, o, fincount[o])
      BY <2>2
    <3>3. /\ Owed(calls', o) \in Nat /\ Many(finals, o) + Owed(calls', o) <= fincount[o]
          /\ IsFiniteSet(Bills(calls', o))
      BY <1>9, <2>2, <3>1, <3>2, CoversLess
    <3>4. Many(finals', o) <= Many(finals, o)
      BY <1>7
    <3>5. Many(finals', o) + Owed(calls', o) <= fincount'[o]
      BY <1>7, <1>9, <3>3, <3>4
    <3> QED BY <3>3, <3>5 DEF Covers
  <2>5. pc' \in {"run", "find", "store"} /\ op' \in Op /\ tries' \in 0 .. 3
    <3>1. Idle \in Op
      BY DEF Idle, Op, Ref
    <3>2. Top.op.kind \in {"none", "find", "store"} /\ Top.tries \in 0 .. 3
      BY <1>5 DEF Frame, Op
    <3>3. pc' = Resume(Top.op) /\ op' = Resumed(Top.op) /\ tries' = Top.tries
      BY <1>3, <1>11
    <3> QED BY <1>5, <3>1, <3>2, <3>3 DEF Resume, Resumed
  <2>6. Types'
    <3>1. gcEnabled' \in BOOLEAN /\ inprogress' \in BOOLEAN /\ pressure' \in BOOLEAN
      BY <1>3, <1>11 DEF Types, HeapTypes, FinalTypeOK
    <3>2. HeapTypes'
      BY <1>1, <2>5, <3>1 DEF Types, HeapTypes
    <3>3. FinalTypeOK'
      BY <1>1, <1>7, <2>2, <2>5, <3>1 DEF Types, FinalTypeOK, Frames, Regs
    <3> QED BY <3>2, <3>3 DEF Types
  <2>7. Working(calls', pc' # "call")
    <3>1. (pc' # "call") = TRUE
      BY <2>5
    <3> QED BY <2>2, <3>1
  <2>8. live' = live
    BY <1>1
  <2> QED BY <1>8, <2>2, <2>3, <2>4, <2>5, <2>6, <2>7, <2>8 DEF Registered
<1> QED BY <1>10, <1>11

\* call-finalizers takes the object's entries off the list.
LEMMA CallFinalizersStep ==
  ASSUME Types, Registered, NEW o \in roots, CallFinalizers(o)
  PROVE  Types' /\ Registered'
<1> DEFINE found == Only(finals, Matching(o))
           f == [todo |-> found, ctx |-> o, saved |-> roots, op |-> Idle, tries |-> 0]
<1>1. /\ pc = "run" /\ pc' = "call" /\ found # <<>>
      /\ finals' = Only(finals, Entry \ Matching(o))
      /\ calls' = Append(calls, f)
      /\ UNCHANGED <<heaps, live, slot, gen, flag, fresh, check, mutd, fullGc, gcEnabled,
                     gcCounter, pressure, roots, op, tries, fincount, inprogress>>
  BY DEF CallFinalizers, heapVars, listVars, gcVars
<1>2. FinalRoots \subseteq live /\ calls \in Frames /\ finals \in Regs
  BY DEF Registered, Types, FinalTypeOK, Frames, Regs
<1>3. o \in Ref /\ o # Nil
  BY NilAssumption DEF Types, HeapTypes, Ref
<1>4. /\ found \in Regs /\ finals' \in Regs
      /\ \A x : /\ Many(found, x) \in Nat /\ Many(finals', x) \in Nat
                /\ Many(finals, x) = Many(found, x) + Many(finals', x)
      /\ \A j \in DOMAIN finals' : finals'[j].obj \in live /\ finals'[j].fun \in live
  BY <1>1, <1>2, Sifting
<1>5. f \in Frame /\ f.todo = found /\ f.ctx = o
  <2>1. Idle \in Op /\ roots \in SUBSET Obj
    BY DEF Idle, Op, Ref, Types, HeapTypes
  <2> QED BY <1>3, <1>4, <2>1 DEF Frame, Regs
<1>6. Given(f, live)
  BY <1>1, <1>2, <1>3, <1>5, FoundGiven
<1> HIDE DEF f, found
<1>7. AllGiven(calls, live) /\ Alone(calls, inprogress) /\ Working(calls, TRUE)
  <2>1. (pc # "call") = TRUE
    BY <1>1
  <2>2. Working(calls, pc # "call") /\ AllGiven(calls, live) /\ Alone(calls, inprogress)
    BY DEF Registered
  <2> QED BY <2>1, <2>2
<1>8. AllGiven(calls', live)
  BY <1>1, <1>2, <1>5, <1>6, <1>7, PushFits
<1>9. Alone(calls', inprogress)
  BY <1>1, <1>2, <1>3, <1>5, <1>7, PushAlone
<1>10. Working(calls', pc' # "call")
  <2>1. f.todo # <<>>
    BY <1>1, <1>5
  <2>2. Working(Append(calls, f), pc' # "call")
    BY <1>2, <1>5, <1>7, <2>1, PushWorking
  <2> QED BY <1>1, <2>2
<1>11. calls' \in Frames /\ calls' # <<>>
  BY <1>1, <1>2, <1>5, AppendProperties DEF Frames
<1>12. ASSUME NEW x \in live PROVE Covers(calls', finals', x, fincount[x])
  <2>1. fincount[x] \in Nat
    BY FinalAssumption DEF Types, HeapTypes, FinalTypeOK
  <2>2. Covers(calls, finals, x, fincount[x])
    BY DEF Registered
  <2>3. /\ Many(finals, x) \in Nat /\ Owed(calls, x) \in Nat
        /\ Many(finals, x) + Owed(calls, x) <= fincount[x]
        /\ IsFiniteSet(Bills(calls, x))
    BY <1>2, <2>1, <2>2, CoversLess
  <2>4. /\ IsFiniteSet(Bills(calls', x))
        /\ Owed(calls', x) = Owed(calls, x) + Many(found, x)
    BY <1>1, <1>2, <1>5, <2>3, OwedPush
  <2>5. Many(finals', x) + Owed(calls', x) <= fincount[x]
    BY <1>4, <2>1, <2>3, <2>4
  <2> QED BY <2>4, <2>5 DEF Covers
<1>13. Types'
  <2>1. HeapTypes'
    BY <1>1 DEF Types, HeapTypes
  <2>2. FinalTypeOK'
    BY <1>1, <1>4, <1>11 DEF Types, FinalTypeOK, Frames, Regs
  <2> QED BY <2>1, <2>2 DEF Types
<1>14. (FinalRoots \subseteq live)'
  <2>1. \A j \in DOMAIN finals' : {finals'[j].obj, finals'[j].fun} \subseteq live'
    BY <1>1, <1>4
  <2> QED BY <2>1 DEF FinalRoots
<1> QED BY <1>1, <1>8, <1>9, <1>10, <1>11, <1>12, <1>13, <1>14 DEF Registered

\* The list with one entry more, at either end.
LEMMA NewEntries ==
  ASSUME NEW s \in Seq(Entry), NEW e \in Entry, NEW t,
         t = <<e>> \o s \/ t = Append(s, e)
  PROVE  /\ t \in Seq(Entry)
         /\ \A j \in DOMAIN t : t[j] = e \/ \E i \in DOMAIN s : s[i] = t[j]
<1>1. CASE t = Append(s, e)
  BY <1>1, AppendProperties
<1>2. CASE t = <<e>> \o s
  <2>1. /\ <<e>> \in Seq(Entry) /\ Len(<<e>>) = 1 /\ <<e>>[1] = e
    OBVIOUS
  <2>2. /\ t \in Seq(Entry) /\ Len(t) = 1 + Len(s) /\ Len(s) \in Nat
        /\ \A i \in 1 .. 1 + Len(s) : t[i] = IF i <= 1 THEN <<e>>[i] ELSE s[i - 1]
    BY <1>2, <2>1, ConcatProperties
  <2>3. ASSUME NEW j \in 1 .. Len(t)
        PROVE  t[j] = e \/ \E i \in 1 .. Len(s) : s[i] = t[j]
    <3>1. CASE j = 1
      BY <2>1, <2>2, <3>1
    <3>2. CASE j # 1
      <4>1. j - 1 \in 1 .. Len(s) /\ t[j] = s[j - 1]
        BY <2>2, <3>2
      <4> QED BY <4>1
    <3> QED BY <3>1, <3>2
  <2>4. DOMAIN t = 1 .. Len(t) /\ DOMAIN s = 1 .. Len(s)
    BY <2>2
  <2> QED BY <2>2, <2>3, <2>4
<1> QED BY <1>1, <1>2

\* A registration of what the program can get at.
LEMMA FinalizeStep ==
  ASSUME Types, Registered, roots \subseteq live,
         NEW o \in roots, NEW f \in roots, NEW reverse, Finalize(o, f, reverse)
  PROVE  Types' /\ Registered'
<1> DEFINE e == NewEntry(o, f)
<1>0. /\ fincount[o] # FinMax
      /\ Counted(o) = [fincount EXCEPT ![o] = @ + 1]
  <2>1. fincount \in [Obj -> 0 .. FinMax] /\ o \in Obj /\ FinMax \in Nat \ {0}
    BY FinalAssumption DEF Types, HeapTypes, FinalTypeOK
  <2> DEFINE n == fincount[o]
  <2>2. n \in 0 .. FinMax /\ (n + 1) % (FinMax + 1) # 0
    BY <2>1 DEF Finalize, AtLimit, Counted
  <2> HIDE DEF n
  <2>3. n # FinMax
    <3> SUFFICES ASSUME n = FinMax PROVE FALSE
      OBVIOUS
    <3>1. \A m \in Nat \ {0} : m % m = 0
      OBVIOUS
    <3>2. n + 1 = FinMax + 1 /\ FinMax + 1 \in Nat \ {0}
      BY <2>1
    <3> QED BY <2>2, <3>1, <3>2
  <2>4. (n + 1) % (FinMax + 1) = n + 1
    <3>1. n + 1 \in 0 .. FinMax /\ FinMax + 1 \in Nat \ {0}
      BY <2>1, <2>2, <2>3
    <3>2. \A k \in Nat, m \in Nat \ {0} : k < m => k % m = k
      OBVIOUS
    <3>3. n + 1 \in Nat /\ n + 1 < FinMax + 1
      BY <2>1, <3>1
    <3> QED BY <3>1, <3>2, <3>3
  <2> QED BY <2>1, <2>3, <2>4 DEF n, Counted
<1>1. /\ pc = "run"
      /\ finals' = <<e>> \o finals \/ finals' = Append(finals, e)
      /\ fincount' = [fincount EXCEPT ![o] = @ + 1]
      /\ UNCHANGED <<heaps, live, slot, gen, flag, fresh, check, mutd, fullGc, gcEnabled,
                     gcCounter, pressure, roots, pc, op, tries, calls, inprogress>>
  BY <1>0 DEF Finalize, vars, heapVars, listVars, gcVars, ctlVars
<1>2. o \in Obj /\ f \in Obj /\ finals \in Regs /\ calls \in Frames
  BY DEF Types, HeapTypes, FinalTypeOK, Regs, Frames
<1>3. e \in Entry /\ e.obj = o /\ e.fun = f
  BY <1>2 DEF NewEntry, Entry
<1> HIDE DEF e
<1>4. /\ finals' \in Regs
      /\ \A j \in DOMAIN finals' : finals'[j] = e \/ \E i \in DOMAIN finals : finals[i] = finals'[j]
      /\ \A x : Many(finals', x) = Many(finals, x) + One(e, x)
  <2>1. /\ finals' \in Seq(Entry)
        /\ \A j \in DOMAIN finals' : finals'[j] = e \/ \E i \in DOMAIN finals : finals[i] = finals'[j]
    BY <1>1, <1>2, <1>3, NewEntries DEF Regs
  <2>2. \A x : Many(finals', x) = Many(finals, x) + One(e, x)
    <3>1. CASE finals' = <<e>> \o finals
      BY <1>2, <1>3, <3>1, ManyCons
    <3>2. CASE finals' = Append(finals, e)
      BY <1>2, <1>3, <3>2, ManyAppend
    <3> QED BY <1>1, <3>1, <3>2
  <2> QED BY <2>1, <2>2 DEF Regs
<1>5. fincount' \in [Obj -> 0 .. FinMax]
  <2>1. fincount \in [Obj -> 0 .. FinMax]
    BY DEF Types, FinalTypeOK
  <2>2. fincount[o] + 1 \in 0 .. FinMax
    BY <1>0, <1>2, <2>1, FinalAssumption
  <2> QED BY <1>1, <2>1, <2>2
<1>6. Types'
  <2>1. HeapTypes'
    BY <1>1 DEF Types, HeapTypes
  <2>2. FinalTypeOK'
    BY <1>1, <1>4, <1>5 DEF Types, FinalTypeOK, Regs
  <2> QED BY <2>1, <2>2 DEF Types
<1>7. (FinalRoots \subseteq live)'
  <2>1. \A i \in DOMAIN finals : finals[i].obj \in live /\ finals[i].fun \in live
    BY DEF Registered, FinalRoots
  <2>2. \A j \in DOMAIN finals' : finals'[j].obj \in live /\ finals'[j].fun \in live
    BY <1>3, <1>4, <2>1
  <2> QED BY <1>1, <2>2 DEF FinalRoots
<1>8. ASSUME NEW x \in live PROVE Covers(calls', finals', x, fincount'[x])
  <2>1. fincount[x] \in Nat /\ x \in Obj /\ fincount \in [Obj -> 0 .. FinMax]
    BY FinalAssumption DEF Types, HeapTypes, FinalTypeOK
  <2>2. Covers(calls, finals, x, fincount[x])
    BY DEF Registered
  <2>3. /\ Many(finals, x) \in Nat /\ Owed(calls, x) \in Nat
        /\ Many(finals, x) + Owed(calls, x) <= fincount[x]
        /\ IsFiniteSet(Bills(calls, x))
    BY <1>2, <2>1, <2>2, CoversLess
  <2>4. fincount'[x] = fincount[x] + One(e, x)
    BY <1>1, <1>2, <1>3, <2>1 DEF One
  <2>5. One(e, x) \in Nat
    BY DEF One
  <2>6. Many(finals', x) + Owed(calls, x) <= fincount'[x]
    BY <1>4, <2>1, <2>3, <2>4, <2>5
  <2> QED BY <1>1, <2>3, <2>6 DEF Covers
<1> QED BY <1>1, <1>6, <1>7, <1>8 DEF Registered

-----------------------------------------------------------------------------
(* The steps of the heap.                                                  *)

\* A collection leaves variables of their types.
LEMMA CollectTypes ==
  ASSUME HeapTypes, NEW full \in BOOLEAN, NEW marked \in SUBSET Obj, NEW next,
         Collect(full, marked, next)
  PROVE  /\ heaps' \subseteq Heaps /\ live' \subseteq live
         /\ slot' \in [Obj -> [Slot -> Ref]] /\ gen' \in [Obj -> {-1, 0, 1}]
         /\ flag' \subseteq Obj
         /\ fresh' \subseteq Obj /\ check' \subseteq Obj /\ mutd' \subseteq Obj
         /\ gcCounter' \in 0 .. Interval /\ fullGc' \in BOOLEAN /\ pressure' \in BOOLEAN
         /\ pc' \in {next, "oom"}
<1>1. heaps' \subseteq Heaps /\ live' \subseteq live
  BY DEF Collect, Kept, InUse, HeapTypes
<1>2. slot' \in [Obj -> [Slot -> Ref]]
  BY DEF Collect, HeapTypes, Ref
<1>3. gen' \in [Obj -> {-1, 0, 1}]
  BY DEF Collect, HeapTypes
<1>4. flag' \subseteq Obj
  BY DEF Collect, HeapTypes
<1>5. gcCounter' \in 0 .. Interval /\ fullGc' \in BOOLEAN
  <2>1. fullGc' = FullDue /\ FullDue \in BOOLEAN
    BY DEF Collect, FullDue
  <2>2. gcCounter' = IF FullDue THEN 0 ELSE gcCounter + 1
    BY DEF Collect
  <2>3. ~FullDue => gcCounter + 1 < Interval
    BY SizeAssumption DEF HeapTypes, FullDue
  <2> QED BY <2>1, <2>2, <2>3, SizeAssumption DEF HeapTypes
<1>6. fresh' = {} /\ check' = {} /\ mutd' = {} /\ pressure' = FALSE
  BY DEF Collect
<1>7. pc' \in {next, "oom"}
  BY DEF Collect
<1> QED BY <1>1, <1>2, <1>3, <1>4, <1>5, <1>6, <1>7

\* What a collection that does not abort is given to mark survives it.
LEMMA Survives ==
  ASSUME HeapTypes, NEW full \in BOOLEAN, NEW given \in SUBSET Obj,
         ~GcAborts(full, Marked(full, given)), NEW o \in live, o \in given
  PROVE  o \in Kept(full, Marked(full, given))
<1> DEFINE start == roots \cup given \cup (IF full THEN {} ELSE check \cup mutd)
           succ == [x \in Obj |-> Entered(Children(x), full)]
           marked == Marked(full, given)
<1>1. o \in Obj /\ start \subseteq Obj /\ gen[o] \in {-1, 0, 1}
  BY DEF HeapTypes
<1>2. CASE o \notin flag /\ (full \/ gen[o] <= 0)
  <2>1. Entered(start, full) \in SUBSET DOMAIN succ
    BY <1>1 DEF Entered
  <2>2. o \in Entered(start, full)
    BY <1>2 DEF Entered, Enters
  <2>3. marked = ReachedFrom(Entered(start, full), succ)
    BY DEF Marked
  <2> HIDE DEF marked, start, succ
  <2>4. o \in marked
    BY <2>1, <2>2, <2>3, ReachedStart
  <2> QED BY <2>4 DEF Kept, marked
<1>3. CASE o \in flag
  BY <1>3 DEF Kept
<1>4. CASE ~full /\ gen[o] = 1
  <2>1. o \notin fresh \cup mutd
    BY <1>4 DEF GcAborts
  <2> QED BY <1>4, <2>1 DEF Kept, SweepSet
<1> QED BY <1>1, <1>2, <1>3, <1>4

\* prepare_finals only notes in the entries who is reachable.
LEMMA PreparedRegs ==
  ASSUME finals \in Regs, NEW full, NEW first
  PROVE  LET ready == Prepared(full, first)
         IN  /\ ready \in Regs /\ DOMAIN ready = DOMAIN finals
             /\ \A i \in DOMAIN ready :
                  /\ ready[i].obj = finals[i].obj /\ ready[i].fun = finals[i].fun
                  /\ ready[i].reachable = IsReachable(finals[i].obj, full, first)
             /\ \A o : Many(ready, o) = Many(finals, o)
<1> DEFINE ready == Prepared(full, first)
<1>1. Len(finals) \in Nat /\ DOMAIN finals = 1 .. Len(finals)
      /\ \A i \in 1 .. Len(finals) : finals[i] \in Entry
  BY ElementOfSeq DEF Regs
<1>2. \A i \in 1 .. Len(finals) : IsReachable(finals[i].obj, full, first) \in BOOLEAN
  BY DEF IsReachable
<1>3. ready = [i \in 1 .. Len(finals) |->
                 [finals[i] EXCEPT !.reachable = IsReachable(finals[i].obj, full, first)]]
  BY <1>1 DEF Prepared
<1> HIDE DEF ready
<1>4. \A i \in 1 .. Len(finals) :
        /\ ready[i] \in Entry /\ ready[i].obj = finals[i].obj /\ ready[i].fun = finals[i].fun
        /\ ready[i].reachable = IsReachable(finals[i].obj, full, first)
  BY <1>1, <1>2, <1>3 DEF Entry
<1>5. ready \in Regs /\ Len(ready) = Len(finals) /\ DOMAIN ready = 1 .. Len(finals)
  <2>1. DOMAIN ready = 1 .. Len(finals)
    BY <1>3
  <2>2. ready \in [1 .. Len(finals) -> Entry]
    BY <1>3, <1>4, <2>1
  <2> QED BY <1>1, <2>1, <2>2 DEF Regs
<1>6. ASSUME NEW o PROVE Many(ready, o) = Many(finals, o)
  BY <1>4, <1>5 DEF Many, Places
<1> QED BY <1>1, <1>4, <1>5, <1>6 DEF ready

\* The entries it splits the list into.
LEMMA PreparedSplit ==
  ASSUME finals \in Regs, NEW full, NEW first
  PROVE  LET found == Only(Prepared(full, first), Unreachable)
             rest  == Only(Prepared(full, first), Entry \ Unreachable)
         IN  /\ \A j \in DOMAIN found : \E i \in DOMAIN finals :
                  /\ found[j].obj = finals[i].obj /\ found[j].fun = finals[i].fun
                  /\ ~IsReachable(finals[i].obj, full, first)
             /\ \A j \in DOMAIN rest : \E i \in DOMAIN finals :
                  /\ rest[j].obj = finals[i].obj /\ rest[j].fun = finals[i].fun
                  /\ rest[j].reachable /\ IsReachable(finals[i].obj, full, first)
<1> DEFINE ready == Prepared(full, first)
<1>1. /\ ready \in Seq(Entry) /\ DOMAIN ready = DOMAIN finals
      /\ \A i \in DOMAIN ready :
           /\ ready[i].obj = finals[i].obj /\ ready[i].fun = finals[i].fun
           /\ ready[i].reachable = IsReachable(finals[i].obj, full, first)
  BY PreparedRegs DEF Regs
<1> HIDE DEF ready
<1>2. ASSUME NEW S
      PROVE  \A j \in DOMAIN Only(ready, S) :
               Only(ready, S)[j] \in S /\ \E i \in DOMAIN ready : ready[i] = Only(ready, S)[j]
  BY <1>1, OnlyThose
<1>3. ASSUME NEW j \in DOMAIN Only(ready, Unreachable)
      PROVE  LET e == Only(ready, Unreachable)[j]
             IN  \E i \in DOMAIN finals :
                   /\ e.obj = finals[i].obj /\ e.fun = finals[i].fun
                   /\ ~IsReachable(finals[i].obj, full, first)
  <2>1. PICK i \in DOMAIN ready : ready[i] = Only(ready, Unreachable)[j]
    BY <1>2
  <2>2. ~ready[i].reachable
    BY <1>2, <2>1 DEF Unreachable
  <2> QED BY <1>1, <2>1, <2>2
<1>4. ASSUME NEW j \in DOMAIN Only(ready, Entry \ Unreachable)
      PROVE  LET e == Only(ready, Entry \ Unreachable)[j]
             IN  \E i \in DOMAIN finals :
                   /\ e.obj = finals[i].obj /\ e.fun = finals[i].fun
                   /\ e.reachable /\ IsReachable(finals[i].obj, full, first)
  <2>1. PICK i \in DOMAIN ready : ready[i] = Only(ready, Entry \ Unreachable)[j]
    BY <1>2
  <2>2. ready[i].reachable
    BY <1>2, <2>1 DEF Unreachable
  <2> QED BY <1>1, <2>1, <2>2
<1> QED BY <1>3, <1>4 DEF ready

\* A collection keeps what the registrations and the activations need, and hands the
\* entries of the objects found unreachable to an activation of its own.
LEMMA FinalGcStep == Types /\ Registered /\ FinalGc => Types' /\ Registered'
<1> SUFFICES ASSUME Types, Registered, FinalGc PROVE Types' /\ Registered'
  OBVIOUS
<1>0. /\ pc = "gc" /\ finals \in Regs /\ calls \in Frames /\ HeapTypes
      /\ inprogress \in BOOLEAN
  BY DEF FinalGc, Types, FinalTypeOK, Regs, Frames
<1> DEFINE full == fullGc \/ pressure
<1>1. full \in BOOLEAN
  BY DEF Types, HeapTypes
<1>2. PICK junk \in SUBSET live :
        LET first  == Marked(full, junk \cup Pinned)
            marked == Marked(full, junk \cup Pinned \cup FinalRoots)
            ready  == Prepared(full, first)
            found  == Only(ready, Unreachable)
        IN  IF GcAborts(full, marked) \/ ~gcEnabled \/ inprogress
              THEN /\ pc' = "abort"
                   /\ UNCHANGED <<heapVars, listVars, gcVars, op, finVars, roots, tries>>
              ELSE /\ finals' = Only(ready, Entry \ Unreachable)
                   /\ fincount' = fincount
                   /\ IF found = <<>>
                        THEN /\ Collect(full, marked, Resume(op))
                             /\ op' = Resumed(op)
                             /\ UNCHANGED <<gcEnabled, calls, inprogress, roots, tries>>
                        ELSE /\ Collect(full, marked, "call")
                             /\ calls' = Append(calls,
                                  [todo |-> found, ctx |-> Nil, saved |-> roots,
                                   op |-> op, tries |-> tries])
                             /\ op' = Idle /\ tries' = 0
                             /\ gcEnabled' = FALSE /\ inprogress' = TRUE
                             /\ UNCHANGED roots
  BY DEF FinalGc
<1> DEFINE first == Marked(full, junk \cup Pinned)
           given == junk \cup Pinned \cup FinalRoots
           marked == Marked(full, given)
           ready == Prepared(full, first)
           found == Only(ready, Unreachable)
           f == [todo |-> found, ctx |-> Nil, saved |-> roots, op |-> op, tries |-> tries]
           aborts == GcAborts(full, marked) \/ ~gcEnabled \/ inprogress
<1>3. aborts => /\ pc' = "abort"
                /\ UNCHANGED <<heaps, live, slot, gen, flag, fresh, check, mutd, fullGc,
                               gcEnabled, gcCounter, pressure, roots, op, tries,
                               finals, fincount, calls, inprogress>>
  BY <1>2 DEF heapVars, listVars, gcVars, finVars
<1>4. ~aborts => /\ finals' = Only(ready, Entry \ Unreachable)
                 /\ fincount' = fincount /\ roots' = roots
                 /\ found = <<>> => /\ Collect(full, marked, Resume(op))
                                    /\ op' = Resumed(op)
                                    /\ UNCHANGED <<gcEnabled, calls, inprogress, tries>>
                 /\ found # <<>> => /\ Collect(full, marked, "call")
                                    /\ calls' = Append(calls, f)
                                    /\ op' = Idle /\ tries' = 0
                                    /\ gcEnabled' = FALSE /\ inprogress' = TRUE
  BY <1>2
<1>5. ~aborts => ~GcAborts(full, marked) /\ ~inprogress
  OBVIOUS
<1>6. AllGiven(calls, live) /\ Alone(calls, inprogress) /\ Working(calls, TRUE)
      /\ FinalRoots \subseteq live /\ calls \in Frames
  <2>1. (pc # "call") = TRUE
    BY <1>0
  <2>2. Working(calls, pc # "call") /\ AllGiven(calls, live) /\ Alone(calls, inprogress)
        /\ FinalRoots \subseteq live
    BY DEF Registered
  <2> QED BY <1>0, <2>1, <2>2
<1>7. /\ ready \in Regs /\ DOMAIN ready = DOMAIN finals
      /\ \A i \in DOMAIN ready : ready[i].obj = finals[i].obj /\ ready[i].fun = finals[i].fun
      /\ \A o : Many(ready, o) = Many(finals, o)
  BY <1>0, PreparedRegs
<1>8. marked \in SUBSET Obj
  BY DEF Marked, ReachedFrom
<1>9. junk \subseteq Obj /\ Pinned \subseteq Obj /\ FinalRoots \subseteq Obj
  <2>1. junk \subseteq Obj /\ FinalRoots \subseteq Obj
    BY <1>6 DEF Types, HeapTypes
  <2>2. ASSUME NEW i \in DOMAIN calls PROVE PinnedBy(calls[i]) \subseteq Obj
    <3>1. calls[i] \in Frame
      BY <1>0 DEF Frames
    <3>2. calls[i].todo \in Regs /\ calls[i].saved \subseteq Obj /\ calls[i].ctx \in Ref
      BY <3>1 DEF Frame, Regs
    <3>3. calls[i].todo # <<>> => Head(calls[i].todo) \in Entry
      BY <3>2, ManyTail
    <3> QED BY <3>2, <3>3 DEF PinnedBy, Ref, Entry
  <2> QED BY <2>1, <2>2 DEF Pinned
<1>10. CASE aborts
  <2> HIDE DEF aborts
  <2>1. HeapTypes'
    BY <1>3, <1>10 DEF Types, HeapTypes
  <2>2. FinalTypeOK'
    BY <1>3, <1>10 DEF Types, FinalTypeOK
  <2>3. Working(calls', pc' # "call")
    <3>1. (pc' # "call") = TRUE
      BY <1>3, <1>10
    <3> QED BY <1>3, <1>6, <1>10, <3>1
  <2>4. /\ FinalRoots' = FinalRoots /\ live' = live /\ calls' = calls
        /\ inprogress' = inprogress /\ pc' = "abort"
        /\ finals' = finals /\ fincount' = fincount
    BY <1>3, <1>10 DEF FinalRoots
  <2>5. AllGiven(calls', live') /\ Alone(calls', inprogress')
    BY <1>6, <2>4
  <2>6. \A o \in live' : Covers(calls', finals', o, fincount'[o])
    BY <2>4 DEF Registered
  <2> QED BY <1>6, <2>1, <2>2, <2>3, <2>4, <2>5, <2>6 DEF Types, Registered
<1>11. CASE ~aborts
  <2>1. ~GcAborts(full, marked) /\ ~inprogress
    BY <1>5, <1>11
  <2>2. Collect(full, marked, IF found = <<>> THEN Resume(op) ELSE "call")
    BY <1>4, <1>11
  <2>3. live' = Kept(full, marked) /\ live' \subseteq live
    BY <2>2 DEF Collect, Kept
  <2> HIDE DEF marked, aborts, ready, full
  <2>4. \A o \in live \cap given : o \in live'
    <3>1. given \in SUBSET Obj
      BY <1>9
    <3> HIDE DEF given
    <3> QED BY <1>0, <1>1, <2>1, <2>3, <3>1, Survives DEF marked
  <2>5. FinalRoots \subseteq live'
    BY <1>6, <2>4
  <2>6. ASSUME NEW i \in 1 .. Len(calls) PROVE Given(calls[i], live')
    <3>1. calls[i].ctx # Nil
      BY <1>6, <2>1 DEF Alone
    <3>2. /\ calls[i].ctx \in live
          /\ \A j \in DOMAIN calls[i].todo : calls[i].todo[j].obj = calls[i].ctx
      BY <1>6, <3>1 DEF AllGiven, Given
    <3>3. i \in DOMAIN calls
      BY <1>0 DEF Frames
    <3>4. calls[i].ctx \in Pinned
      BY <3>1, <3>3 DEF Pinned, PinnedBy
    <3>5. calls[i].ctx \in live'
      BY <2>4, <3>2, <3>4
    <3> QED BY <3>2, <3>5 DEF Given
  <2>7. AllGiven(calls, live')
    BY <2>6 DEF AllGiven
  <2>8. /\ found \in Regs /\ Only(ready, Entry \ Unreachable) \in Regs
        /\ \A o : /\ Many(found, o) \in Nat
                  /\ Many(Only(ready, Entry \ Unreachable), o) \in Nat
                  /\ Many(ready, o) = Many(found, o) + Many(Only(ready, Entry \ Unreachable), o)
        /\ \A j \in DOMAIN found : found[j].obj \in live'
        /\ \A j \in DOMAIN Only(ready, Entry \ Unreachable) :
             LET e == Only(ready, Entry \ Unreachable)[j] IN e.obj \in live' /\ e.fun \in live'
    <3>1. \A i \in DOMAIN finals : finals[i].obj \in live' /\ finals[i].fun \in live'
      BY <2>5 DEF FinalRoots
    <3>2. \A i \in DOMAIN ready : ready[i].obj \in live' /\ ready[i].fun \in live'
      BY <1>7, <3>1
    <3> QED BY <1>7, <3>2, SiftingOf
  <2>9. finals' = Only(ready, Entry \ Unreachable) /\ fincount' = fincount /\ roots' = roots
    BY <1>4, <1>11
  <2>10. /\ finals' \in Regs
         /\ \A o : /\ Many(found, o) \in Nat /\ Many(finals', o) \in Nat
                   /\ Many(finals, o) = Many(found, o) + Many(finals', o)
         /\ \A j \in DOMAIN finals' : finals'[j].obj \in live' /\ finals'[j].fun \in live'
    BY <1>7, <2>8, <2>9
  <2>11. (FinalRoots \subseteq live)'
    BY <2>10 DEF FinalRoots
  <2>12. ASSUME NEW o \in live'
         PROVE  /\ fincount[o] \in Nat /\ fincount'[o] = fincount[o]
                /\ Many(finals, o) \in Nat /\ Owed(calls, o) \in Nat
                /\ Many(finals, o) + Owed(calls, o) <= fincount[o]
                /\ IsFiniteSet(Bills(calls, o))
    <3>1. o \in live
      BY <2>3
    <3>2. fincount[o] \in Nat
      BY <3>1, FinalAssumption DEF Types, HeapTypes, FinalTypeOK
    <3>3. Covers(calls, finals, o, fincount[o])
      BY <3>1 DEF Registered
    <3> QED BY <1>0, <2>9, <3>2, <3>3, CoversLess
  <2>13. /\ heaps' \subseteq Heaps /\ live' \subseteq Obj
         /\ slot' \in [Obj -> [Slot -> Ref]] /\ gen' \in [Obj -> {-1, 0, 1}]
         /\ flag' \subseteq Obj
         /\ fresh' \subseteq Obj /\ check' \subseteq Obj /\ mutd' \subseteq Obj
         /\ gcCounter' \in 0 .. Interval /\ fullGc' \in BOOLEAN /\ pressure' \in BOOLEAN
         /\ pc' \in {IF found = <<>> THEN Resume(op) ELSE "call", "oom"}
         /\ roots' \subseteq Obj
    <3>1. live \subseteq Obj /\ roots \subseteq Obj
      BY DEF Types, HeapTypes
    <3> HIDE DEF found
    <3> QED BY <1>0, <1>1, <1>8, <2>2, <2>3, <2>9, <3>1, CollectTypes
  <2>14. Idle \in Op /\ op \in Op /\ tries \in 0 .. 3 /\ roots \subseteq Obj
    BY DEF Idle, Op, Ref, Types, HeapTypes
  <2>15. CASE found = <<>>
    <3>1. op' = Resumed(op) /\ UNCHANGED <<gcEnabled, calls, inprogress, tries>>
      BY <1>4, <1>11, <2>15
    <3>2. pc' \in {Resume(op), "oom"}
      BY <2>13, <2>15
    <3>3. pc' \in {"run", "find", "store", "oom"} /\ op' \in Op
      BY <2>14, <3>1, <3>2 DEF Resume, Resumed, Op
    <3>4. HeapTypes'
      BY <2>13, <2>14, <3>1, <3>3 DEF Types, HeapTypes
    <3>5. FinalTypeOK'
      BY <2>9, <2>10, <3>1, <3>3 DEF Types, FinalTypeOK, Regs
    <3>6. Working(calls', pc' # "call")
      <4>1. (pc' # "call") = TRUE
        BY <3>3
      <4> QED BY <1>6, <3>1, <4>1
    <3>7. AllGiven(calls', live') /\ Alone(calls', inprogress')
      BY <1>6, <2>7, <3>1
    <3>8. ASSUME NEW o \in live' PROVE Covers(calls', finals', o, fincount'[o])
      <4>1. Many(finals', o) + Owed(calls, o) <= fincount'[o] /\ IsFiniteSet(Bills(calls, o))
        BY <2>10, <2>12
      <4> QED BY <3>1, <4>1 DEF Covers
    <3> QED BY <2>11, <3>3, <3>4, <3>5, <3>6, <3>7, <3>8 DEF Types, Registered
  <2>16. CASE found # <<>>
    <3>1. /\ calls' = Append(calls, f) /\ op' = Idle /\ tries' = 0
          /\ gcEnabled' = FALSE /\ inprogress' = TRUE
      BY <1>4, <1>11, <2>16
    <3>2. pc' \in {"call", "oom"}
      BY <2>13, <2>16
    <3>3. f \in Frame /\ f.todo = found /\ f.ctx = Nil
      BY <2>8, <2>14 DEF Frame, Ref, Regs
    <3> HIDE DEF f, found
    <3>4. Given(f, live')
      BY <2>8, <3>3 DEF Given
    <3>5. AllGiven(calls', live')
      BY <1>0, <2>7, <3>1, <3>3, <3>4, PushFits
    <3>6. Alone(calls', inprogress')
      <4>1. inprogress' /\ ~inprogress
        BY <2>1, <3>1
      <4>2. Alone(Append(calls, f), inprogress')
        BY <1>6, <3>3, <4>1, PushAlone
      <4> QED BY <3>1, <4>2
    <3>7. Working(calls', pc' # "call")
      <4>1. Working(Append(calls, f), pc' # "call")
        BY <1>6, <2>16, <3>3, PushWorking
      <4> QED BY <3>1, <4>1
    <3>8. calls' \in Frames /\ calls' # <<>>
      BY <1>0, <3>1, <3>3, AppendProperties DEF Frames
    <3>9. ASSUME NEW o \in live' PROVE Covers(calls', finals', o, fincount'[o])
      <4>1. /\ IsFiniteSet(Bills(calls', o))
            /\ Owed(calls', o) = Owed(calls, o) + Many(found, o)
        BY <1>0, <2>12, <3>1, <3>3, OwedPush
      <4>2. Many(finals', o) + Owed(calls', o) <= fincount'[o]
        BY <2>10, <2>12, <4>1
      <4> QED BY <4>1, <4>2 DEF Covers
    <3>10. HeapTypes'
      <4>1. op' \in Op /\ tries' \in 0 .. 3
        BY <2>14, <3>1
      <4>2. gcEnabled' \in BOOLEAN
        BY <3>1
      <4> QED BY <2>13, <4>1, <4>2 DEF HeapTypes
    <3>11. FinalTypeOK'
      <4>1. inprogress' \in BOOLEAN
        BY <3>1
      <4> QED BY <2>9, <2>10, <3>2, <3>8, <4>1 DEF Types, FinalTypeOK, Frames, Regs
    <3> QED BY <2>11, <3>5, <3>6, <3>7, <3>8, <3>9, <3>10, <3>11 DEF Types, Registered
  <2> QED BY <2>15, <2>16
<1> QED BY <1>10, <1>11

\* Outside a collection every step of the heap is one of GcHeap.
LEMMA HeapStepsAreSteps ==
  ASSUME Types, Allocate \/ Store \/ Other
  PROVE  /\ TypeOK /\ Next /\ UNCHANGED <<finals, calls, inprogress>>
         /\ live \subseteq live'
         /\ ~Allocate => fincount' = fincount
<1>1. CASE Allocate
  <2>1. TakeFree /\ UNCHANGED <<finals, calls, inprogress>>
    BY <1>1 DEF Allocate
  <2>2. pc = "find" /\ live \subseteq live'
    BY <2>1 DEF TakeFree
  <2>3. TypeOK
    BY <2>2 DEF Types, HeapTypes, TypeOK
  <2> QED BY <1>1, <2>1, <2>2, <2>3 DEF Next
<1>2. CASE Store
  <2>1. UNCHANGED <<finals, calls, inprogress>> /\ fincount' = fincount
    BY <1>2 DEF Store, finVars
  <2>2. \/ \E p \in roots, s \in Slot, c \in roots \cup {Nil} : Set(p, s, c)
        \/ \E p, q \in roots : Replace(p, q)
    BY <1>2 DEF Store
  <2>3. pc = "run" /\ live' = live
    BY <2>2 DEF Set, Replace
  <2>4. TypeOK
    BY <2>3 DEF Types, HeapTypes, TypeOK
  <2> QED BY <2>1, <2>2, <2>3, <2>4 DEF Next
<1>3. CASE Other
  <2>1. UNCHANGED <<finals, calls, inprogress>> /\ fincount' = fincount
    BY <1>3 DEF Other, finVars
  <2>2. /\ Next /\ pc \in {"run", "find", "store"}
        /\ live' = live
    <3>1. CASE MakeObj
      BY <3>1 DEF MakeObj, heapVars, Next
    <3>2. CASE Refill
      BY <3>2 DEF Refill, Next
    <3>3. CASE FinishSet
      BY <3>3 DEF FinishSet, Next
    <3>4. ASSUME NEW p \in roots, NEW s \in Slot, Load(p, s)
          PROVE  Next /\ pc \in {"run", "find", "store"} /\ live' = live
      BY <3>4 DEF Load, heapVars, Next
    <3>5. ASSUME NEW o \in roots, Drop(o)
          PROVE  Next /\ pc \in {"run", "find", "store"} /\ live' = live
      BY <3>5 DEF Drop, heapVars, Next
    <3>6. CASE Malloc
      BY <3>6 DEF Malloc, heapVars, Next
    <3>7. ASSUME NEW b \in BOOLEAN, GcWrap(b)
          PROVE  Next /\ pc \in {"run", "find", "store"} /\ live' = live
      BY <3>7 DEF GcWrap, heapVars, Next
    <3>8. ASSUME NEW b \in BOOLEAN, GcState(b)
          PROVE  Next /\ pc \in {"run", "find", "store"} /\ live' = live
      BY <3>8 DEF GcState, heapVars, Next
    <3> QED BY <1>3, <3>1, <3>2, <3>3, <3>4, <3>5, <3>6, <3>7, <3>8 DEF Other
  <2>3. TypeOK
    BY <2>2 DEF Types, HeapTypes, TypeOK
  <2> QED BY <2>1, <2>2, <2>3
<1> QED BY <1>1, <1>2, <1>3

\* They keep what registrations hold; a new object has none.
LEMMA HeapStep == Types /\ Registered /\ (Allocate \/ Store \/ Other) => Types' /\ Registered'
<1> SUFFICES ASSUME Types, Registered, Allocate \/ Store \/ Other
             PROVE  Types' /\ Registered'
  OBVIOUS
<1>1. /\ TypeOK /\ TypeOK' /\ UNCHANGED <<finals, calls, inprogress>>
      /\ live \subseteq live'
      /\ ~Allocate => fincount' = fincount
  BY HeapStepsAreSteps, NextTypeOK
<1>2. live' \subseteq Obj /\ fincount \in [Obj -> 0 .. FinMax] /\ 0 \in 0 .. FinMax
  BY <1>1, FinalAssumption DEF TypeOK, Types, FinalTypeOK
<1>3. /\ fincount' \in [Obj -> 0 .. FinMax]
      /\ \A o \in live : fincount'[o] = fincount[o]
  <2>1. CASE ~Allocate
    BY <1>1, <1>2, <2>1
  <2>2. CASE Allocate
    <3>1. fincount' = [o \in Obj |-> IF o \in live' \ live THEN 0 ELSE fincount[o]]
      BY <2>2 DEF Allocate
    <3>2. live \subseteq Obj
      BY DEF Types, HeapTypes
    <3> QED BY <1>2, <3>1, <3>2
  <2> QED BY <2>1, <2>2
<1>4. pc # "call" /\ pc' # "call"
  BY <1>1 DEF TypeOK
<1>5. Types'
  <2>1. HeapTypes'
    BY <1>1 DEF TypeOK, HeapTypes
  <2>2. FinalTypeOK'
    <3>1. pc' \in {"run", "gc", "find", "store", "call", "abort", "oom"}
      BY <1>1 DEF TypeOK
    <3> QED BY <1>1, <1>3, <3>1 DEF Types, FinalTypeOK
  <2> QED BY <2>1, <2>2 DEF Types
<1>6. finals \in Regs /\ calls \in Frames
  BY DEF Types, FinalTypeOK, Regs, Frames
<1>7. ASSUME NEW o \in live' PROVE Covers(calls', finals', o, fincount'[o])
  <2>1. CASE o \in live
    <3>1. Covers(calls, finals, o, fincount[o])
      BY <2>1 DEF Registered
    <3> QED BY <1>1, <1>3, <2>1, <3>1
  <2>2. CASE o \notin live
    <3>1. Many(finals, o) = 0
      <4>1. \A i \in DOMAIN finals : finals[i].obj \in live
        BY DEF Registered, FinalRoots
      <4> QED BY <1>6, <2>2, <4>1, ManySome
    <3>2. Bills(calls, o) = {}
      <4> SUFFICES ASSUME NEW d \in Bills(calls, o) PROVE FALSE
        OBVIOUS
      <4>1. d[1] \in 1 .. Len(calls) /\ d[2] \in Places(calls[d[1]].todo, o)
        BY DEF Bills
      <4>2. calls[d[1]].todo \in Regs
        <5>1. calls[d[1]] \in Frame
          BY <1>6, <4>1, ElementOfSeq DEF Frames
        <5> QED BY <5>1 DEF Frame, Regs
      <4>3. d[2] \in DOMAIN calls[d[1]].todo /\ calls[d[1]].todo[d[2]].obj = o
        BY <4>1, <4>2 DEF Places, Regs
      <4>4. Given(calls[d[1]], live)
        BY <4>1 DEF Registered, AllGiven
      <4> QED BY <2>2, <4>3, <4>4 DEF Given
    <3>3. Owed(calls, o) = 0 /\ IsFiniteSet(Bills(calls, o))
      BY <3>2, FS_EmptySet DEF Owed
    <3>4. fincount'[o] \in Nat
      BY <1>2, <1>3, FinalAssumption
    <3> QED BY <1>1, <3>1, <3>3, <3>4 DEF Covers
  <2> QED BY <2>1, <2>2
<1>8. AllGiven(calls, live')
  BY <1>1 DEF Registered, AllGiven, Given
<1>9. /\ FinalRoots' \subseteq live'
      /\ AllGiven(calls', live') /\ Alone(calls', inprogress')
      /\ Working(calls', pc' # "call")
  <2>1. FinalRoots' = FinalRoots
    BY <1>1 DEF FinalRoots
  <2>2. (pc # "call") = TRUE /\ (pc' # "call") = TRUE
    BY <1>4
  <2>3. Working(calls', pc' # "call")
    BY <1>1, <2>2 DEF Registered
  <2> QED BY <1>1, <1>8, <2>1, <2>3 DEF Registered
<1> QED BY <1>4, <1>5, <1>7, <1>9 DEF Registered

-----------------------------------------------------------------------------
(* What follows.                                                           *)

\* A step from a state in which the program has no dangling reference.
LEMMA FinalStep ==
  Types /\ Registered /\ roots \subseteq live /\ [FinalNext]_allVars
    => Types' /\ Registered'
<1> SUFFICES ASSUME Types, Registered, roots \subseteq live, [FinalNext]_allVars
             PROVE  Types' /\ Registered'
  OBVIOUS
<1>1. CASE UNCHANGED allVars
  <2>1. UNCHANGED <<heaps, live, slot, gen, flag, fresh, check, mutd, fullGc, gcEnabled,
                    gcCounter, pressure, roots, pc, op, tries, finals, fincount, calls,
                    inprogress>>
    BY <1>1 DEF allVars, vars, heapVars, listVars, gcVars, ctlVars, finVars
  <2>2. Types'
    BY <2>1 DEF Types, HeapTypes, FinalTypeOK
  <2>3. Registered'
    BY <2>1 DEF Registered, FinalRoots
  <2> QED BY <2>2, <2>3
<1>2. CASE FinalGc
  BY <1>2, FinalGcStep
<1>3. CASE CallNext
  BY <1>3, CallNextStep
<1>4. CASE Return
  BY <1>4, ReturnStep
<1>5. CASE EndRound
  BY <1>5, EndRoundStep
<1>6. CASE Throw
  BY <1>6, ThrowStep
<1>7. CASE Allocate \/ Store \/ Other
  BY <1>7, HeapStep
<1>8. ASSUME NEW o \in roots, NEW f \in roots, NEW reverse \in BOOLEAN, Finalize(o, f, reverse)
      PROVE  Types' /\ Registered'
  BY <1>8, FinalizeStep
<1>9. ASSUME NEW o \in roots, CallFinalizers(o) PROVE Types' /\ Registered'
  BY <1>9, CallFinalizersStep
<1> QED BY <1>1, <1>2, <1>3, <1>4, <1>5, <1>6, <1>7, <1>8, <1>9 DEF FinalNext

\* What the program can get at includes its own variables.
LEMMA RootsLive == Types /\ AccessibleLive => roots \subseteq live
<1> SUFFICES ASSUME Types, AccessibleLive PROVE roots \subseteq live
  OBVIOUS
<1>1. roots \subseteq Obj
  BY DEF Types, HeapTypes
<1>2. roots \subseteq Accessible
  BY <1>1 DEF Accessible, ReachedFrom
<1> QED BY <1>2 DEF AccessibleLive

\* What Registered says of the counts is what FincountCovers does, which counts
\* within the bound of the runs.
LEMMA CoversAll == Types /\ Registered => FincountCovers
<1> SUFFICES ASSUME Types, Registered, NEW o \in live
             PROVE  fincount[o] >=
                      Cardinality({i \in DOMAIN finals : finals[i].obj = o}) +
                      Cardinality({d \in Detached : calls[d[1]].todo[d[2]].obj = o})
  BY DEF FincountCovers
<1> DEFINE called == {d \in Detached : calls[d[1]].todo[d[2]].obj = o}
<1>1. finals \in Regs /\ calls \in Frames /\ fincount[o] \in Nat
  BY FinalAssumption DEF Types, HeapTypes, FinalTypeOK, Regs, Frames
<1>2. {i \in DOMAIN finals : finals[i].obj = o} = Places(finals, o)
  BY <1>1 DEF Places, Regs
<1>3. called \in SUBSET Bills(calls, o)
  <2> SUFFICES ASSUME NEW d \in called PROVE d \in Bills(calls, o)
    OBVIOUS
  <2>1. d \in (DOMAIN calls) \X (1 .. RegMax) /\ d[2] \in DOMAIN calls[d[1]].todo
        /\ calls[d[1]].todo[d[2]].obj = o
    BY DEF Detached
  <2>2. d[1] \in 1 .. Len(calls) /\ d \in (1 .. Len(calls)) \X Nat
    BY <1>1, <2>1, FinalAssumption DEF Frames
  <2>3. calls[d[1]] \in Frame
    BY <1>1, <2>2, ElementOfSeq DEF Frames
  <2>4. d[2] \in Places(calls[d[1]].todo, o)
    BY <2>1, <2>3 DEF Places, Frame
  <2> QED BY <2>2, <2>4 DEF Bills
<1> HIDE DEF called
<1>4. Covers(calls, finals, o, fincount[o])
  BY DEF Registered
<1>5. /\ Many(finals, o) \in Nat /\ Owed(calls, o) \in Nat
      /\ Many(finals, o) + Owed(calls, o) <= fincount[o]
      /\ IsFiniteSet(Bills(calls, o))
  BY <1>1, <1>4, CoversLess
<1>6. Cardinality(called) \in Nat /\ Cardinality(called) <= Owed(calls, o)
  BY <1>3, <1>5, FS_Subset, FS_CardinalityType DEF Owed
<1>7. fincount[o] >= Many(finals, o) + Cardinality(called)
  BY <1>1, <1>5, <1>6
<1>8. Cardinality({i \in DOMAIN finals : finals[i].obj = o}) = Many(finals, o)
  BY <1>2 DEF Many
<1> QED BY <1>7, <1>8 DEF called

\* As long as nothing the program can get at is reclaimed, the finalizer count of a
\* live object covers its registrations that wait or have not returned.
THEOREM CountsCover == FinalSpec /\ []AccessibleLive => [](FinalTypeOK /\ FincountCovers)
<1>1. FinalInit => Types /\ Registered
  BY FinalInitFits
<1>2. Types /\ Registered /\ AccessibleLive /\ [FinalNext]_allVars => Types' /\ Registered'
  BY FinalStep, RootsLive
<1>3. Types /\ Registered => FinalTypeOK /\ FincountCovers
  BY CoversAll DEF Types
<1> QED BY <1>1, <1>2, <1>3, PTL DEF FinalSpec

-----------------------------------------------------------------------------
(***************************************************************************)
(* Finalizers that gc() calls and that neither store nor register, in a    *)
(* program that does not call finalizers itself: nothing the program can   *)
(* get at is reclaimed.                                                    *)
(*                                                                         *)
(* NoDangling of GcHeap does not hold here: an object that was finalized   *)
(* becomes a baby again, so mature garbage may refer to a reclaimed cell.  *)
(* Two closed sets of live cells take its place.  S is what the program    *)
(* can get at once the finalizers have returned; in it the write barrier's *)
(* notes are complete.  T is what it can get at now, when a finalizer      *)
(* holds its object.  The objects being finalized are in T and not in S.   *)
(***************************************************************************)

\* What the program holds when the finalizers have returned.
Base == IF calls = <<>> THEN roots ELSE Top.saved

ClosedIn(S) == \A o \in S : Children(o) \subseteq S

\* The entries for babies are held by the program's part.
YoungIn(S) ==
  \A i \in DOMAIN finals :
    gen[finals[i].obj] = 0 => finals[i].obj \in S /\ finals[i].fun \in S

\* The entries being called are apart from it.
DueApart(S, T) ==
  calls # <<>> => \A j \in DOMAIN Top.todo :
    Top.todo[j].obj \in T /\ Top.todo[j].fun \in T /\ Top.todo[j].obj \notin S

\* Remembered, for the program's part.
Noted(p) ==
  \/ Tracked(p)
  \/ /\ pc \in {"gc", "abort"} /\ calls = <<>>
     /\ \E q \in roots : slot[q] = slot[p] /\ (gen[q] <= 0 \/ Tracked(q))

Recalled(S) == ~fullGc => \A p \in S : gen[p] = 1 => Noted(p)

Split(S, T) ==
  /\ S \subseteq T /\ T \subseteq live
  /\ ClosedIn(S) /\ ClosedIn(T)
  /\ Base \subseteq S /\ roots \subseteq T
  /\ YoungIn(S) /\ DueApart(S, T) /\ Recalled(S)

Lists == live \subseteq UNION heaps /\ flag = {} /\ ListsExact

StoreFits(o, held) ==
  o.kind = "store" => o.p \in held /\ o.s \in Slot /\ o.c \in held

\* Where the finalizers and the interrupted operation stand.
Placed ==
  /\ calls # <<>> =>
       /\ Len(calls) = 1 /\ Top.ctx = Nil
       /\ ~gcEnabled /\ check = {} /\ mutd = {}
       /\ StoreFits(Top.op, Top.saved)
       /\ Top.op.kind = "store" => gen[Top.op.c] = 1
       /\ pc # "store" /\ op.kind # "store"
       /\ pc = "call" => roots = Top.saved
  /\ calls = <<>> => StoreFits(op, roots)
  /\ pc = "store" => op.kind = "store" /\ gen[op.c] = 1
  /\ pc \in {"run", "find", "call"} => op = Idle
  /\ \A i \in DOMAIN finals : finals[i].reachable

SafeInv ==
  /\ Types /\ Registered /\ Lists /\ Placed
  /\ \E S, T \in SUBSET live : Split(S, T)

\* What finalizers do here.
Mild == FinalizerMay \subseteq {"throw"} /\ DepthMax = 0

\* The invariant at the start.
LEMMA SafeInit == FinalInit => SafeInv
<1> SUFFICES ASSUME FinalInit PROVE SafeInv
  OBVIOUS
<1>1. Types /\ Registered
  BY FinalInitFits
<1>2. /\ pc = "run" /\ op = Idle /\ live = {} /\ flag = {} /\ roots = {} /\ fresh = {}
      /\ check = {} /\ mutd = {} /\ finals = <<>> /\ calls = <<>>
  BY DEF FinalInit, Init
<1>3. Lists
  BY <1>2 DEF Lists, ListsExact
<1>4. Placed
  <2>1. DOMAIN finals = {} /\ op.kind # "store"
    BY <1>2 DEF Idle
  <2> QED BY <1>2, <2>1 DEF Placed, StoreFits
<1>5. Split({}, {})
  <2>1. DOMAIN finals = {}
    BY <1>2
  <2> QED BY <1>2, <2>1 DEF Split, ClosedIn, Base, YoungIn, DueApart, Recalled
<1> QED BY <1>1, <1>3, <1>4, <1>5 DEF SafeInv

\* Neither the heap nor the registrations change.
LEMMA SplitQuiet ==
  ASSUME NEW S, NEW T, Split(S, T),
         UNCHANGED <<live, slot, gen, check, mutd, finals, calls, roots>>,
         fullGc => fullGc', pc \in {"gc", "abort"} => pc' \in {"gc", "abort"}
  PROVE  Split(S, T)'
<1>1. ClosedIn(S)' /\ ClosedIn(T)' /\ YoungIn(S)'
  BY DEF Split, ClosedIn, Children, YoungIn
<1>2. Base' = Base /\ Top' = Top
  BY DEF Base, Top
<1>3. DueApart(S, T)'
  BY <1>2 DEF Split, DueApart
<1>4. Recalled(S)'
  <2>1. \A p : Tracked(p)' <=> Tracked(p)
    BY DEF Tracked, Children
  <2>2. \A p : Noted(p) => Noted(p)'
    BY <2>1 DEF Noted
  <2> QED BY <2>2 DEF Split, Recalled
<1> QED BY <1>1, <1>2, <1>3, <1>4 DEF Split

\* What the collector marks when no mark is left over from before.
LEMMA MarkFacts ==
  ASSUME HeapTypes, flag = {}, NEW full \in BOOLEAN, NEW given \in SUBSET Obj
  PROVE  LET marked == Marked(full, given)
         IN  /\ marked \subseteq Obj
             /\ \A o \in marked : full \/ gen[o] <= 0
             /\ \A o \in roots \cup given \cup (IF full THEN {} ELSE check \cup mutd) :
                  full \/ gen[o] <= 0 => o \in marked
             /\ \A o \in marked : \A c \in Children(o) :
                  full \/ gen[c] <= 0 => c \in marked
<1> DEFINE start == roots \cup given \cup (IF full THEN {} ELSE check \cup mutd)
           succ == [x \in Obj |-> Entered(Children(x), full)]
           marked == Marked(full, given)
           open == {x \in Obj : full \/ gen[x] <= 0}
<1>1. start \subseteq Obj /\ \A o \in Obj : Children(o) \subseteq Obj
  BY DEF HeapTypes, Children, Ref
<1>2. \A X : Entered(X, full) = {o \in X : full \/ gen[o] <= 0}
  BY DEF Entered, Enters
<1>3. Entered(start, full) \in SUBSET DOMAIN succ /\ DOMAIN succ = Obj
  BY <1>1, <1>2
<1>4. marked = ReachedFrom(Entered(start, full), succ)
  BY DEF Marked
<1>5. \A o \in DOMAIN succ : succ[o] \subseteq DOMAIN succ
  BY <1>1, <1>2
<1>6. \A o \in Obj : succ[o] = {c \in Children(o) : full \/ gen[c] <= 0}
  BY <1>2
<1> HIDE DEF marked, succ, start
<1>7. Entered(start, full) \subseteq marked
  BY <1>3, <1>4, ReachedStart
<1>8. IsClosed(marked, succ)
  BY <1>4, <1>5, ReachedClosed
<1>9. marked \subseteq open
  <2>1. open \in SUBSET DOMAIN succ /\ Entered(start, full) \subseteq open
    BY <1>2, <1>3
  <2>2. IsClosed(open, succ)
    BY <1>1, <1>6 DEF IsClosed
  <2> QED BY <1>4, <2>1, <2>2, ReachedLeast
<1>10. \A o \in marked : \A c \in Children(o) : full \/ gen[c] <= 0 => c \in marked
  BY <1>6, <1>8, <1>9 DEF IsClosed
<1>11. \A o \in start : full \/ gen[o] <= 0 => o \in marked
  BY <1>2, <1>7
<1> QED BY <1>9, <1>10, <1>11 DEF marked, start

\* To be given more is to mark more.
LEMMA MarkMore ==
  ASSUME HeapTypes, flag = {}, NEW full \in BOOLEAN, NEW less \in SUBSET Obj,
         NEW given \in SUBSET Obj, less \subseteq given
  PROVE  Marked(full, less) \subseteq Marked(full, given)
<1> DEFINE start == roots \cup less \cup (IF full THEN {} ELSE check \cup mutd)
           succ == [x \in Obj |-> Entered(Children(x), full)]
           marked == Marked(full, given)
<1>1. /\ marked \subseteq Obj
      /\ \A o \in roots \cup given \cup (IF full THEN {} ELSE check \cup mutd) :
           full \/ gen[o] <= 0 => o \in marked
      /\ \A o \in marked : \A c \in Children(o) : full \/ gen[c] <= 0 => c \in marked
  BY MarkFacts
<1>2. \A X : Entered(X, full) = {o \in X : full \/ gen[o] <= 0}
  BY DEF Entered, Enters
<1> HIDE DEF marked
<1>3. Entered(start, full) \subseteq marked
  BY <1>1, <1>2
<1>4. IsClosed(marked, succ) /\ marked \in SUBSET DOMAIN succ
  BY <1>1, <1>2 DEF IsClosed
<1>5. Marked(full, less) = ReachedFrom(Entered(start, full), succ)
  BY DEF Marked
<1> HIDE DEF start, succ
<1> QED BY <1>3, <1>4, <1>5, ReachedLeast DEF marked

\* Parts that a collection has to leave: the objects found unreachable, and what
\* their entries refer to, are in B and not in A.
Remain(A, B, full, first) ==
  /\ A \subseteq B /\ ClosedIn(A) /\ ClosedIn(B) /\ roots \subseteq A
  /\ \A i \in DOMAIN finals :
       ~IsReachable(finals[i].obj, full, first) =>
         finals[i].obj \in B /\ finals[i].fun \in B /\ finals[i].obj \notin A

\* They survive a collection that does not abort.
LEMMA GcSplit ==
  ASSUME Types, Registered, Lists, pc = "gc", calls = <<>>,
         NEW S, NEW T, Split(S, T),
         NEW full \in BOOLEAN, fullGc => full, NEW junk \in SUBSET live,
         ~GcAborts(full, Marked(full, junk \cup Pinned \cup FinalRoots))
  PROVE  \E A, B \in SUBSET Kept(full, Marked(full, junk \cup Pinned \cup FinalRoots)) :
           Remain(A, B, full, Marked(full, junk \cup Pinned))
<1> DEFINE first == Marked(full, junk \cup Pinned)
           marked == Marked(full, junk \cup Pinned \cup FinalRoots)
<1>1. /\ HeapTypes /\ flag = {} /\ live \subseteq Obj /\ live \subseteq UNION heaps
      /\ \A o \in live : gen[o] \in {-1, 0, 1}
  BY DEF Types, HeapTypes, Lists
<1>2. FinalRoots \subseteq live /\ Pinned = {}
  <2>1. DOMAIN calls = {}
    BY DEF Types, FinalTypeOK
  <2> QED BY <2>1 DEF Registered, Pinned
<1>3. /\ junk \cup Pinned \in SUBSET Obj
      /\ junk \cup Pinned \cup FinalRoots \in SUBSET Obj
      /\ junk \cup Pinned \subseteq junk \cup Pinned \cup FinalRoots
  BY <1>1, <1>2
<1>4. first \subseteq marked
  BY <1>1, <1>3, MarkMore
<1>5. /\ \A o \in roots \cup (IF full THEN {} ELSE check \cup mutd) :
           full \/ gen[o] <= 0 => o \in first
      /\ \A o \in first : \A c \in Children(o) : full \/ gen[c] <= 0 => c \in first
  BY <1>1, <1>3, MarkFacts
<1>6. /\ \A o \in roots \cup FinalRoots \cup (IF full THEN {} ELSE check \cup mutd) :
           full \/ gen[o] <= 0 => o \in marked
      /\ \A o \in marked : \A c \in Children(o) : full \/ gen[c] <= 0 => c \in marked
  BY <1>1, <1>3, MarkFacts
<1>7. marked \subseteq live
  BY DEF GcAborts
<1> HIDE DEF first, marked
<1>8. \A o \in live : o \in marked => o \in Kept(full, marked)
  BY DEF Kept
<1>9. ASSUME NEW i \in DOMAIN finals
      PROVE  finals[i].obj \in FinalRoots /\ finals[i].fun \in FinalRoots
  BY DEF FinalRoots
<1>10. CASE full
  <2>1. first \in SUBSET Kept(full, marked) /\ marked \in SUBSET Kept(full, marked)
    BY <1>4, <1>7, <1>8
  <2>2. ClosedIn(first) /\ ClosedIn(marked)
    BY <1>5, <1>6, <1>10 DEF ClosedIn
  <2>3. roots \subseteq first
    BY <1>5, <1>10
  <2>4. \A i \in DOMAIN finals :
          ~IsReachable(finals[i].obj, full, first) =>
            finals[i].obj \in marked /\ finals[i].fun \in marked /\ finals[i].obj \notin first
    BY <1>6, <1>9, <1>10 DEF IsReachable
  <2>5. Remain(first, marked, full, first)
    BY <1>4, <2>2, <2>3, <2>4 DEF Remain
  <2> QED BY <2>1, <2>5 DEF first, marked
<1>11. CASE ~full
  <2> DEFINE P(M) == {o \in S : gen[o] = 1 \/ o \in M}
  <2>0. ~fullGc /\ S \subseteq live /\ ClosedIn(S) /\ roots \subseteq S
        /\ \A p \in S : gen[p] = 1 => Noted(p)
    BY <1>11 DEF Split, Recalled, Base
  <2>1. /\ fresh \cup mutd = {o \in live : gen[o] <= 0}
        /\ check \cup mutd = {o \in live : gen[o] = -1}
    BY <2>0 DEF Lists, ListsExact
  <2>2. \A o \in live : gen[o] = 1 => o \in Kept(full, marked)
    BY <1>11, <2>1 DEF Kept, SweepSet
  <2>8. /\ \A o \in roots : gen[o] <= 0 => o \in first
        /\ \A o \in check \cup mutd : gen[o] <= 0 => o \in first
        /\ \A o \in first : \A c \in Children(o) : gen[c] <= 0 => c \in first
    BY <1>5, <1>11
  <2>9. /\ \A o \in FinalRoots : gen[o] <= 0 => o \in marked
        /\ \A o \in marked : \A c \in Children(o) : gen[c] <= 0 => c \in marked
    BY <1>6, <1>11
  <2>3. ASSUME NEW M, first \subseteq M, M \subseteq marked,
               \A o \in M : \A c \in Children(o) : gen[c] <= 0 => c \in M
        PROVE  P(M) \in SUBSET Kept(full, marked) /\ ClosedIn(P(M)) /\ roots \subseteq P(M)
    <3>1. P(M) \in SUBSET Kept(full, marked)
      BY <1>7, <1>8, <2>0, <2>2, <2>3
    <3>2. roots \subseteq P(M)
      <4> SUFFICES ASSUME NEW o \in roots PROVE o \in P(M)
        OBVIOUS
      <4>1. o \in S /\ gen[o] \in {-1, 0, 1}
        BY <1>1, <2>0
      <4>2. gen[o] = 1 \/ gen[o] <= 0
        BY <4>1
      <4>3. gen[o] = 1 \/ o \in M
        BY <2>3, <2>8, <4>2
      <4> QED BY <4>1, <4>3
    <3>3. ASSUME NEW o \in P(M), NEW c \in Children(o) PROVE c \in P(M)
      <4>1. o \in S /\ c \in S /\ gen[c] \in {-1, 0, 1}
        BY <1>1, <2>0 DEF ClosedIn
      <4>2. CASE gen[c] = 1
        BY <4>1, <4>2
      <4>3. CASE gen[c] <= 0 /\ o \in M
        BY <2>3, <4>1, <4>3
      <4>4. CASE gen[c] <= 0 /\ gen[o] = 1
        <5>1. CASE Tracked(o)
          <6>1. c \in check \cup mutd
            BY <4>4, <5>1 DEF Tracked
          <6>2. c \in first
            BY <2>8, <4>4, <6>1
          <6> QED BY <2>3, <4>1, <6>2
        <5>2. CASE ~Tracked(o)
          <6>1. PICK q \in roots : slot[q] = slot[o] /\ (gen[q] <= 0 \/ Tracked(q))
            BY <2>0, <4>1, <4>4, <5>2 DEF Noted
          <6>2. c \in Children(q)
            BY <6>1 DEF Children
          <6>3. c \in first
            <7>1. CASE gen[q] <= 0
              <8>1. q \in first
                BY <2>8, <7>1
              <8> QED BY <2>8, <4>4, <6>2, <8>1
            <7>2. CASE Tracked(q)
              <8>1. c \in check \cup mutd
                BY <4>4, <6>2, <7>2 DEF Tracked
              <8> QED BY <2>8, <4>4, <8>1
            <7> QED BY <6>1, <7>1, <7>2
          <6> QED BY <2>3, <4>1, <6>3
        <5> QED BY <5>1, <5>2
      <4> QED BY <4>1, <4>2, <4>3, <4>4
    <3> QED BY <3>1, <3>2, <3>3 DEF ClosedIn
  <2>4. P(first) \in SUBSET Kept(full, marked) /\ ClosedIn(P(first)) /\ roots \subseteq P(first)
    BY <1>4, <2>3, <2>8
  <2>5. P(marked) \in SUBSET Kept(full, marked) /\ ClosedIn(P(marked))
    BY <1>4, <2>3, <2>9
  <2>6. P(first) \subseteq P(marked)
    BY <1>4
  <2>7. ASSUME NEW i \in DOMAIN finals, ~IsReachable(finals[i].obj, full, first)
        PROVE  /\ finals[i].obj \in P(marked) /\ finals[i].fun \in P(marked)
               /\ finals[i].obj \notin P(first)
    <3>1. /\ finals[i].obj \in live /\ finals[i].fun \in live
          /\ finals[i].obj \in FinalRoots /\ finals[i].fun \in FinalRoots
      BY <1>2, <1>9
    <3>2. gen[finals[i].obj] \in {-1, 0, 1} /\ gen[finals[i].fun] \in {-1, 0, 1}
      BY <1>1, <3>1
    <3>3. ~(gen[finals[i].obj] > 0) /\ finals[i].obj \notin first
      BY <1>11, <2>7 DEF IsReachable
    <3>4. gen[finals[i].obj] # -1
      <4>1. gen[finals[i].obj] = -1 => finals[i].obj \in check \cup mutd
        BY <2>1, <3>1
      <4>2. gen[finals[i].obj] = -1 => gen[finals[i].obj] <= 0
        OBVIOUS
      <4> QED BY <2>8, <3>3, <4>1, <4>2
    <3>5. gen[finals[i].obj] = 0
      BY <3>2, <3>3, <3>4
    <3>6. finals[i].obj \in S /\ finals[i].fun \in S
      BY <3>5 DEF Split, YoungIn
    <3>7. finals[i].obj \in marked /\ (finals[i].fun \in marked \/ gen[finals[i].fun] = 1)
      <4>1. gen[finals[i].obj] <= 0 /\ (gen[finals[i].fun] <= 0 \/ gen[finals[i].fun] = 1)
        BY <3>2, <3>5
      <4> QED BY <2>9, <3>1, <4>1
    <3> QED BY <3>3, <3>5, <3>6, <3>7
  <2> HIDE DEF P
  <2>10. Remain(P(first), P(marked), full, first)
    BY <2>4, <2>5, <2>6, <2>7 DEF Remain
  <2> QED BY <2>4, <2>5, <2>10 DEF first, marked
<1> QED BY <1>10, <1>11

\* A collection, with the finalizers it hands over.
LEMMA FinalGcSafe ==
  ASSUME SafeInv, FinalGc, Types', Registered'
  PROVE  SafeInv'
<1> DEFINE full == fullGc \/ pressure
<1>0. Types /\ Registered /\ Lists /\ Placed /\ pc = "gc"
  BY DEF SafeInv, FinalGc
<1>1. PICK junk \in SUBSET live :
        LET first  == Marked(full, junk \cup Pinned)
            marked == Marked(full, junk \cup Pinned \cup FinalRoots)
            ready  == Prepared(full, first)
            found  == Only(ready, Unreachable)
        IN  IF GcAborts(full, marked) \/ ~gcEnabled \/ inprogress
              THEN /\ pc' = "abort"
                   /\ UNCHANGED <<heapVars, listVars, gcVars, op, finVars, roots, tries>>
              ELSE /\ finals' = Only(ready, Entry \ Unreachable)
                   /\ fincount' = fincount
                   /\ IF found = <<>>
                        THEN /\ Collect(full, marked, Resume(op))
                             /\ op' = Resumed(op)
                             /\ UNCHANGED <<gcEnabled, calls, inprogress, roots, tries>>
                        ELSE /\ Collect(full, marked, "call")
                             /\ calls' = Append(calls,
                                  [todo |-> found, ctx |-> Nil, saved |-> roots,
                                   op |-> op, tries |-> tries])
                             /\ op' = Idle /\ tries' = 0
                             /\ gcEnabled' = FALSE /\ inprogress' = TRUE
                             /\ UNCHANGED roots
  BY DEF FinalGc
<1> DEFINE first == Marked(full, junk \cup Pinned)
           marked == Marked(full, junk \cup Pinned \cup FinalRoots)
           ready == Prepared(full, first)
           found == Only(ready, Unreachable)
           rest == Only(ready, Entry \ Unreachable)
           f == [todo |-> found, ctx |-> Nil, saved |-> roots, op |-> op, tries |-> tries]
           aborts == GcAborts(full, marked) \/ ~gcEnabled \/ inprogress
           swept == SweepSet(full)
           kept == Kept(full, marked)
<1>2. aborts => /\ pc' = "abort"
                /\ UNCHANGED <<heaps, live, slot, gen, flag, fresh, check, mutd, fullGc,
                               gcEnabled, gcCounter, pressure, roots, op, tries,
                               finals, fincount, calls, inprogress>>
  BY <1>1 DEF heapVars, listVars, gcVars, finVars
<1>3. ~aborts => /\ finals' = rest /\ roots' = roots
                 /\ found = <<>> => /\ Collect(full, marked, Resume(op))
                                    /\ op' = Resumed(op) /\ calls' = calls
                 /\ found # <<>> => /\ Collect(full, marked, "call")
                                    /\ calls' = Append(calls, f) /\ op' = Idle
                                    /\ gcEnabled' = FALSE
  BY <1>1
<1>4. PICK S, T \in SUBSET live : Split(S, T)
  BY DEF SafeInv
<1>5. full \in BOOLEAN /\ (fullGc => full)
  BY <1>0 DEF Types, HeapTypes
<1>6. CASE aborts
  <2> HIDE DEF aborts
  <2>1. Split(S, T)' /\ live' = live
    BY <1>0, <1>2, <1>4, <1>6, SplitQuiet
  <2>2. Lists'
    BY <1>0, <1>2, <1>6 DEF Lists, ListsExact
  <2>3. Top' = Top
    BY <1>2, <1>6 DEF Top
  <2>4. Placed'
    BY <1>0, <1>2, <1>6, <2>3 DEF Placed, StoreFits
  <2> QED BY <2>1, <2>2, <2>4 DEF SafeInv
<1>7. CASE ~aborts
  <2>1. ~GcAborts(full, marked) /\ ~inprogress
    BY <1>7
  <2>2. calls = <<>>
    <3> SUFFICES ASSUME calls # <<>> PROVE FALSE
      OBVIOUS
    <3>1. Top.ctx = Nil
      BY <1>0 DEF Placed
    <3>2. Top.ctx = Nil => inprogress
      BY <1>0, TopFacts
    <3> QED BY <2>1, <3>1, <3>2
  <2>3. Collect(full, marked, IF found = <<>> THEN Resume(op) ELSE "call")
    BY <1>3, <1>7
  <2>4. /\ finals' = rest /\ roots' = roots
        /\ found = <<>> => calls' = <<>> /\ op' = Resumed(op)
        /\ found # <<>> => calls' = <<f>> /\ op' = Idle /\ gcEnabled' = FALSE
    BY <1>3, <1>7, <2>2
  <2> HIDE DEF aborts, full, first, marked, ready
  <2>5. PICK A, B \in SUBSET kept :
          /\ A \subseteq B /\ ClosedIn(A) /\ ClosedIn(B) /\ roots \subseteq A
          /\ \A i \in DOMAIN finals :
               ~IsReachable(finals[i].obj, full, first) =>
                 finals[i].obj \in B /\ finals[i].fun \in B /\ finals[i].obj \notin A
    <3>1. /\ first = Marked(full, junk \cup Pinned)
          /\ marked = Marked(full, junk \cup Pinned \cup FinalRoots)
          /\ ~GcAborts(full, marked)
      BY <2>1 DEF first, marked
    <3> HIDE DEF kept
    <3>2. \E A, B \in SUBSET Kept(full, marked) : Remain(A, B, full, first)
      <4>1. Types /\ Registered /\ Lists /\ pc = "gc" /\ calls = <<>> /\ Split(S, T)
        BY <1>0, <1>4, <2>2
      <4>2. full \in BOOLEAN /\ (fullGc => full) /\ junk \in SUBSET live
        BY <1>5
      <4> QED BY <3>1, <4>1, <4>2, GcSplit
    <3> QED BY <3>2 DEF kept, Remain
  <2>6. /\ live' = kept
        /\ slot' = [o \in Obj |-> IF o \in kept THEN slot[o]
                                  ELSE [s \in Slot |-> Nil]]
        /\ gen' = [o \in Obj |-> IF o \notin kept THEN 0
                                 ELSE IF o \in swept THEN 1
                                 ELSE IF o \in marked /\ gen[o] = -1 THEN 0
                                 ELSE gen[o]]
        /\ flag' = (flag \cup marked) \ swept
        /\ InUse(full, kept) \subseteq heaps'
        /\ pc' \in {IF found = <<>> THEN Resume(op) ELSE "call", "oom"}
        /\ fresh' = {} /\ check' = {} /\ mutd' = {}
    BY <2>3 DEF Collect
  <2>7. /\ flag = {} /\ live \subseteq Obj /\ live \subseteq UNION heaps
        /\ \A o \in live : gen[o] \in {-1, 0, 1}
        /\ kept = live \ (swept \ marked)
        /\ HeapTypes /\ finals \in Regs
    BY <1>0 DEF Lists, Types, HeapTypes, FinalTypeOK, Kept, Regs
  <2>8. ~full => swept = {o \in live : gen[o] <= 0}
    BY <1>0, <1>5 DEF SweepSet, Lists, ListsExact
  <2>9. full => swept = UNION heaps
    BY DEF SweepSet
  <2>10. marked \subseteq live
    BY <2>1 DEF GcAborts
  <2> HIDE DEF swept, kept
  <2>11. \A o \in kept : gen'[o] = 1 /\ o \in live
    <3> SUFFICES ASSUME NEW o \in kept PROVE gen'[o] = 1 /\ o \in live
      OBVIOUS
    <3>1. o \in live /\ o \in Obj /\ gen[o] \in {-1, 0, 1}
      BY <2>7
    <3>2. o \notin swept => gen[o] = 1
      <4>1. CASE full
        BY <2>7, <2>9, <3>1, <4>1
      <4>2. CASE ~full
        BY <2>8, <3>1, <4>2
      <4> QED BY <4>1, <4>2
    <3> QED BY <2>6, <3>1, <3>2
  <2>12. flag' = {}
    <3>1. \A o \in marked : full \/ gen[o] <= 0
      <4>1. junk \cup Pinned \cup FinalRoots \in SUBSET Obj
        <5>1. DOMAIN calls = {}
          BY <2>2
        <5> QED BY <1>0, <2>7, <5>1 DEF Registered, Pinned
      <4> QED BY <1>5, <2>7, <4>1, MarkFacts DEF marked
    <3>2. CASE full
      BY <2>6, <2>7, <2>9, <2>10, <3>2
    <3>3. CASE ~full
      BY <2>6, <2>7, <2>8, <2>10, <3>1, <3>3
    <3> QED BY <3>2, <3>3
  <2>13. live' \subseteq UNION heaps'
    BY <2>6, <2>7 DEF InUse
  <2>14. Lists'
    <3>1. \A o \in live' : gen'[o] = 1
      BY <2>6, <2>11
    <3>2. {o \in live' : gen'[o] <= 0} = {} /\ {o \in live' : gen'[o] = -1} = {}
      BY <3>1
    <3>3. ListsExact'
      BY <2>6, <3>2 DEF ListsExact
    <3> QED BY <2>12, <2>13, <3>3 DEF Lists
  <2>15. \A o \in kept : Children(o)' = Children(o)
    BY <2>6, <2>7, <2>11 DEF Children
  <2>16. ClosedIn(A)' /\ ClosedIn(B)'
    BY <2>5, <2>15 DEF ClosedIn
  <2>17. Recalled(A)'
    <3>1. \A p \in A : Tracked(p)'
      <4> SUFFICES ASSUME NEW p \in A, NEW c \in Children(p)' PROVE gen'[c] = 1
        BY DEF Tracked
      <4>1. c \in A
        BY <2>16 DEF ClosedIn
      <4> QED BY <2>5, <2>11, <4>1
    <3> QED BY <3>1 DEF Recalled, Noted
  <2>18. /\ \A j \in DOMAIN found : \E i \in DOMAIN finals :
              /\ found[j].obj = finals[i].obj /\ found[j].fun = finals[i].fun
              /\ ~IsReachable(finals[i].obj, full, first)
         /\ \A j \in DOMAIN rest : rest[j].reachable
    BY <2>7, PreparedSplit DEF ready
  <2>19. YoungIn(A)'
    <3>1. \A i \in DOMAIN finals' : finals'[i].obj \in live'
      BY DEF Registered, FinalRoots
    <3>2. \A i \in DOMAIN finals' : gen'[finals'[i].obj] = 1
      BY <2>6, <2>11, <3>1
    <3>3. \A i \in DOMAIN finals' : gen'[finals'[i].obj] # 0
      BY <3>2
    <3> QED BY <3>3 DEF YoungIn
  <2>20. found # <<>> => Len(calls') = 1 /\ Top' = f /\ calls' # <<>>
    <3> HIDE DEF f, found
    <3> SUFFICES ASSUME found # <<>> PROVE Len(calls') = 1 /\ Top' = f /\ calls' # <<>>
      OBVIOUS
    <3>1. calls' = <<f>>
      BY <2>4
    <3>2. Len(calls') = 1 /\ calls'[1] = f /\ calls' # <<>>
      BY <3>1
    <3>3. Top' = calls'[Len(calls')]
      BY DEF Top
    <3> QED BY <3>2, <3>3
  <2>21. Base' = roots
    <3>1. CASE found = <<>>
      BY <2>4, <3>1 DEF Base
    <3>2. CASE found # <<>>
      <4>1. Top'.saved = roots
        BY <2>20, <3>2
      <4> QED BY <2>20, <3>2, <4>1 DEF Base
    <3> QED BY <3>1, <3>2
  <2>22. DueApart(A, B)'
    <3>1. CASE found = <<>>
      BY <2>4, <3>1 DEF DueApart
    <3>2. CASE found # <<>>
      <4>1. Top'.todo = found
        BY <2>20, <3>2
      <4> QED BY <2>5, <2>18, <4>1 DEF DueApart
    <3> QED BY <3>1, <3>2
  <2>23. Split(A, B)'
    BY <2>4, <2>5, <2>6, <2>16, <2>17, <2>19, <2>21, <2>22 DEF Split
  <2>24. StoreFits(op, roots) /\ (op.kind = "store" => gen'[op.c] = 1)
    <3>1. StoreFits(op, roots)
      BY <1>0, <2>2 DEF Placed
    <3>2. roots \subseteq kept
      BY <2>5
    <3> QED BY <2>11, <3>1, <3>2 DEF StoreFits
  <2>25. op.kind \in {"none", "find", "store"}
    BY <1>0 DEF Types, HeapTypes, Op
  <2>26. Placed'
    <3>1. \A i \in DOMAIN finals' : finals'[i].reachable
      BY <2>4, <2>18
    <3>2. CASE found = <<>>
      <4>1. pc' \in {Resume(op), "oom"} /\ op' = Resumed(op) /\ calls' = <<>> /\ roots' = roots
        BY <2>4, <2>6, <3>2
      <4>2. StoreFits(op', roots')
        BY <2>24, <4>1 DEF Resumed, StoreFits, Idle
      <4>3. pc' = "store" => op.kind = "store" /\ op' = op
        BY <2>25, <4>1 DEF Resume, Resumed
      <4>4. pc' \in {"run", "find", "call"} => op' = Idle
        BY <2>25, <4>1 DEF Resume, Resumed
      <4> QED BY <2>24, <3>1, <4>1, <4>2, <4>3, <4>4 DEF Placed
    <3>3. CASE found # <<>>
      <4>1. pc' \in {"call", "oom"} /\ op' = Idle /\ gcEnabled' = FALSE /\ roots' = roots
        BY <2>4, <2>6, <3>3
      <4>2. /\ Len(calls') = 1 /\ calls' # <<>>
            /\ Top'.ctx = Nil /\ Top'.saved = roots /\ Top'.op = op
        BY <2>20, <3>3
      <4>3. op'.kind = "none"
        BY <4>1 DEF Idle
      <4>4. StoreFits(Top'.op, Top'.saved) /\ (Top'.op.kind = "store" => gen'[Top'.op.c] = 1)
        BY <2>24, <4>2
      <4>5. pc' # "store" /\ op'.kind # "store"
        BY <4>1, <4>3
      <4> QED BY <2>6, <3>1, <4>1, <4>2, <4>4, <4>5 DEF Placed
    <3> QED BY <3>2, <3>3
  <2> QED BY <2>5, <2>6, <2>14, <2>23, <2>26 DEF SafeInv
<1> QED BY <1>6, <1>7

-----------------------------------------------------------------------------
(* The finalizers' own steps.                                              *)

\* The innermost activation is the only one.
LEMMA OneActivation ==
  ASSUME Types, Registered, Placed, calls # <<>>
  PROVE  /\ calls \in Frames /\ Len(calls) = 1 /\ calls[1] = Top /\ Top \in Frame
         /\ Top.todo \in Regs /\ Top.ctx = Nil /\ inprogress
         /\ Base = Top.saved
<1>1. calls \in Frames /\ Top \in Frame /\ Top.todo \in Regs /\ (Top.ctx = Nil => inprogress)
  BY TopFacts
<1>2. Len(calls) = 1 /\ Top.ctx = Nil
  BY DEF Placed
<1> QED BY <1>1, <1>2 DEF Top, Base

\* A finalizer is called with its object, which is in T.
LEMMA CallNextSafe ==
  ASSUME SafeInv, CallNext, Types', Registered'
  PROVE  SafeInv'
<1>0. Types /\ Registered /\ Lists /\ Placed
  BY DEF SafeInv
<1> PICK S, T \in SUBSET live : Split(S, T)
  BY DEF SafeInv
<1>1. /\ pc = "call" /\ Top.todo # <<>> /\ pc' = "run"
      /\ roots' = roots \cup {Head(Top.todo).obj, Head(Top.todo).fun}
      /\ UNCHANGED <<heaps, live, slot, gen, flag, fresh, check, mutd, fullGc, gcEnabled,
                     gcCounter, pressure, op, tries, finals, fincount, calls, inprogress>>
  BY DEF CallNext, heapVars, listVars, gcVars, finVars
<1>2. calls # <<>>
  BY <1>0, <1>1 DEF Registered
<1>3. Top.todo \in Regs /\ Base = Top.saved
  BY <1>0, <1>2, OneActivation
<1>4. 1 \in DOMAIN Top.todo /\ Head(Top.todo) = Top.todo[1]
  BY <1>1, <1>3 DEF Regs
<1>5. roots' \subseteq T
  BY <1>1, <1>2, <1>4 DEF Split, DueApart
<1>6. Top' = Top /\ Base' = Base
  BY <1>1, <1>2, <1>3 DEF Top, Base
<1>7. \A p : Noted(p) => Noted(p)'
  BY <1>1 DEF Noted, Tracked, Children
<1>8. Split(S, T)'
  <2>1. ClosedIn(S)' /\ ClosedIn(T)' /\ YoungIn(S)' /\ DueApart(S, T)' /\ Recalled(S)'
    BY <1>1, <1>6, <1>7
       DEF Split, ClosedIn, Children, YoungIn, DueApart, Recalled
  <2> QED BY <1>1, <1>5, <1>6, <2>1 DEF Split
<1>9. Lists'
  BY <1>0, <1>1 DEF Lists, ListsExact
<1>10. Placed'
  BY <1>0, <1>1, <1>2, <1>6 DEF Placed, Idle
<1> QED BY <1>1, <1>8, <1>9, <1>10 DEF SafeInv

\* What it is left with when one returns: the object it may have made a baby again has
\* no other registration, for its count was one, and is not in S.
LEMMA ReturnSafe ==
  ASSUME SafeInv, Return, Types', Registered'
  PROVE  SafeInv'
<1>0. Types /\ Registered /\ Lists /\ Placed
  BY DEF SafeInv
<1> PICK S, T \in SUBSET live : Split(S, T)
  BY DEF SafeInv
<1> DEFINE e == Head(Top.todo)
           less == [Top EXCEPT !.todo = Tail(Top.todo)]
<1>1. /\ pc = "run" /\ calls # <<>> /\ pc' = "call" /\ roots' = Top.saved
      /\ calls' = [calls EXCEPT ![Len(calls)] = less]
      /\ UNCHANGED <<heaps, live, slot, flag, check, mutd, gcEnabled, gcCounter,
                     pressure, op, tries, finals, inprogress>>
  BY DEF Return, Top
<1>2. \/ fincount[e.obj] = 1 /\ ~fullGc
         /\ gen' = [gen EXCEPT ![e.obj] = 0] /\ fresh' = fresh \cup {e.obj}
         /\ fullGc' = fullGc
      \/ fullGc' = TRUE /\ UNCHANGED <<gen, fresh>>
      \/ UNCHANGED <<gen, fresh, fullGc>>
  BY DEF Return, MakeBaby, Demoted
<1>3. /\ calls \in Frames /\ Len(calls) = 1 /\ calls[1] = Top /\ Top \in Frame
      /\ Top.todo \in Regs /\ Top.todo # <<>> /\ Top.ctx = Nil /\ Base = Top.saved
      /\ op = Idle /\ ~gcEnabled /\ check = {} /\ mutd = {}
  BY <1>0, <1>1, OneActivation, TopFacts DEF Placed
<1>4. /\ e \in Entry /\ Tail(Top.todo) \in Regs
      /\ \A o : Many(Top.todo, o) = Many(Tail(Top.todo), o) + One(e, o)
      /\ e = Top.todo[1] /\ 1 \in DOMAIN Top.todo
      /\ \A j \in DOMAIN Tail(Top.todo) :
          j + 1 \in DOMAIN Top.todo /\ Tail(Top.todo)[j] = Top.todo[j + 1]
  BY <1>3, ManyTail, HeadTailProperties DEF Regs
<1> HIDE DEF e
<1>5. e.obj \in Obj /\ e.obj \in live /\ e.obj \notin S
  BY <1>1, <1>4 DEF Entry, Split, DueApart
<1>6. less.ctx = Top.ctx /\ less.todo = Tail(Top.todo) /\ less.saved = Top.saved
      /\ less.op = Top.op
  BY <1>3 DEF Frame
<1> HIDE DEF less
<1>7. /\ calls' # <<>> /\ Len(calls') = 1 /\ Top' = less
      /\ roots' = Top.saved /\ Base' = Top.saved /\ Top.saved \subseteq S
  <2>1. Len(calls') = 1 /\ calls'[1] = less
    BY <1>1, <1>3 DEF Frames
  <2>2. Top' = less
    BY <2>1 DEF Top
  <2>3. calls' # <<>>
    BY <2>1
  <2> QED BY <1>1, <1>3, <1>6, <2>1, <2>2, <2>3 DEF Base, Split
\* A demoted object has no entry left on the list.
<1>8. ASSUME fincount[e.obj] = 1
      PROVE  \A i \in DOMAIN finals : finals[i].obj # e.obj
  <2> DEFINE o == e.obj
             rest == SubSeq(calls, 1, Len(calls) - 1)
  <2>1. finals \in Regs
    BY <1>0 DEF Types, FinalTypeOK, Regs
  <2>2. Covers(calls, finals, o, 1)
    BY <1>0, <1>5, <1>8 DEF Registered
  <2>3. /\ Many(finals, o) \in Nat /\ Owed(calls, o) \in Nat
        /\ Many(finals, o) + Owed(calls, o) <= 1
        /\ IsFiniteSet(Bills(calls, o))
    BY <1>3, <2>1, <2>2, CoversLess
  <2>4. rest \in Frames /\ calls = Append(rest, Top)
    BY <1>1, <1>3, TopSplit
  <2>5. IsFiniteSet(Bills(rest, o))
    <3>1. Len(calls) - 1 \in 0 .. Len(calls)
      BY <1>3
    <3> QED BY <1>3, <2>3, <3>1, OwedPrefix
  <2> HIDE DEF rest
  <2>6. Owed(calls, o) = Owed(rest, o) + Many(Top.todo, o) /\ Owed(rest, o) \in Nat
    BY <1>3, <2>4, <2>5, OwedPush, FS_CardinalityType DEF Owed
  <2>7. Many(Top.todo, o) = Many(Tail(Top.todo), o) + 1 /\ Many(Tail(Top.todo), o) \in Nat
    BY <1>4, ManyType DEF One
  <2>8. Many(finals, o) = 0
    BY <2>3, <2>6, <2>7
  <2> QED BY <2>1, <2>8, ManySome
<1>9. \A o \in S : gen'[o] = gen[o]
  BY <1>2, <1>5, <1>0 DEF Types, HeapTypes, Split
<1>10. YoungIn(S)'
  <2> SUFFICES ASSUME NEW i \in DOMAIN finals, gen'[finals[i].obj] = 0
               PROVE  finals[i].obj \in S /\ finals[i].fun \in S
    BY <1>1 DEF YoungIn
  <2>1. finals[i].obj \in Obj /\ gen \in [Obj -> {-1, 0, 1}]
    BY <1>0 DEF Registered, FinalRoots, Types, HeapTypes
  <2>2. gen[finals[i].obj] = 0
    BY <1>2, <1>8, <2>1
  <2> QED BY <2>2 DEF Split, YoungIn
<1>11. DueApart(S, T)'
  BY <1>1, <1>4, <1>6, <1>7 DEF Split, DueApart
<1>12. Recalled(S)'
  <2> SUFFICES ASSUME ~fullGc', NEW p \in S, gen'[p] = 1 PROVE Noted(p)'
    BY DEF Recalled
  <2>1. ~fullGc /\ gen[p] = 1 /\ Children(p) \subseteq S
    BY <1>2, <1>9 DEF Split, ClosedIn
  <2>2. Tracked(p)
    BY <1>1, <2>1 DEF Split, Recalled, Noted
  <2>3. Tracked(p)'
    BY <1>1, <1>9, <2>1, <2>2 DEF Tracked, Children
  <2> QED BY <2>3 DEF Noted
<1>13. Split(S, T)'
  <2>1. ClosedIn(S)' /\ ClosedIn(T)'
    BY <1>1 DEF Split, ClosedIn, Children
  <2> QED BY <1>1, <1>7, <1>10, <1>11, <1>12, <2>1 DEF Split
<1>14. Lists'
  <2>1. ListsExact'
    <3> SUFFICES ASSUME ~fullGc' PROVE ListsExact'
      BY DEF ListsExact
    <3>1. ~fullGc /\ ListsExact
      BY <1>0, <1>2 DEF Lists
    <3>2. live \subseteq Obj
      BY <1>0 DEF Types, HeapTypes
    <3>3. CASE UNCHANGED <<gen, fresh>>
      BY <1>1, <3>1, <3>3 DEF ListsExact
    <3>4. CASE gen' = [gen EXCEPT ![e.obj] = 0] /\ fresh' = fresh \cup {e.obj}
      <4>1. \A o \in live : gen'[o] = IF o = e.obj THEN 0 ELSE gen[o]
        BY <1>0, <1>5, <3>2, <3>4 DEF Types, HeapTypes
      <4>2. fresh = {o \in live : gen[o] <= 0} /\ {o \in live : gen[o] = -1} = {}
        BY <1>3, <3>1 DEF ListsExact
      <4>3. fresh' = {o \in live : gen'[o] <= 0} /\ {o \in live : gen'[o] = -1} = {}
        BY <1>5, <3>4, <4>1, <4>2
      <4> QED BY <1>1, <1>3, <4>3 DEF ListsExact
    <3> QED BY <1>2, <3>3, <3>4
  <2> QED BY <1>0, <1>1, <2>1 DEF Lists
<1>15. Placed'
  <2>1. Top'.op.kind = "store" => gen'[Top'.op.c] = 1
    <3> SUFFICES ASSUME Top.op.kind = "store" PROVE gen'[Top.op.c] = 1
      BY <1>6, <1>7
    <3>1. Top.op.c \in Top.saved /\ gen[Top.op.c] = 1
      BY <1>0, <1>1 DEF Placed, StoreFits
    <3> QED BY <1>7, <1>9, <3>1
  <2>2. StoreFits(Top'.op, Top'.saved)
    BY <1>0, <1>1, <1>6, <1>7 DEF Placed
  <2>3. op' = Idle /\ op'.kind # "store" /\ pc' = "call"
    BY <1>1, <1>3 DEF Idle
  <2>4. /\ Top'.ctx = Nil /\ ~gcEnabled' /\ check' = {} /\ mutd' = {}
        /\ roots' = Top'.saved
    BY <1>1, <1>3, <1>6, <1>7
  <2>5. \A i \in DOMAIN finals' : finals'[i].reachable
    BY <1>0, <1>1 DEF Placed
  <2> QED BY <1>7, <2>1, <2>2, <2>3, <2>4, <2>5 DEF Placed
<1> QED BY <1>1, <1>13, <1>14, <1>15 DEF SafeInv

\* The finalizers of a collection end with their list: whoever was registered before it
\* was found reachable.
LEMMA EndRoundSafe ==
  ASSUME SafeInv, EndRound, Types', Registered'
  PROVE  SafeInv'
<1>0. Types /\ Registered /\ Lists /\ Placed
  BY DEF SafeInv
<1> PICK S, T \in SUBSET live : Split(S, T)
  BY DEF SafeInv
<1>1. /\ pc = "call" /\ Top.todo = <<>> /\ finals' = Only(finals, Entry \ Again)
      /\ UNCHANGED <<heaps, live, slot, gen, flag, fresh, check, mutd, fullGc, gcCounter,
                     roots, fincount>>
  BY DEF EndRound, heapVars, listVars
<1>2. calls # <<>>
  BY <1>0, <1>1 DEF Registered
<1>3. /\ calls \in Frames /\ Len(calls) = 1 /\ Top \in Frame
      /\ Top.ctx = Nil /\ Base = Top.saved
  BY <1>0, <1>2, OneActivation
<1>4. Again = Unreachable /\ finals \in Seq(Entry)
  BY <1>0, <1>3 DEF Again, Types, FinalTypeOK
<1>5. Only(finals, Again) = <<>>
  <2>1. \A i \in DOMAIN Only(finals, Again) :
          Only(finals, Again)[i] \in Again
            /\ \E j \in DOMAIN finals : finals[j] = Only(finals, Again)[i]
    BY <1>4, OnlyThose
  <2>2. \A i \in DOMAIN Only(finals, Again) : FALSE
    <3> SUFFICES ASSUME NEW i \in DOMAIN Only(finals, Again) PROVE FALSE
      OBVIOUS
    <3>1. PICK j \in DOMAIN finals : finals[j] = Only(finals, Again)[i]
      BY <2>1
    <3>2. ~finals[j].reachable
      BY <1>4, <2>1, <3>1 DEF Unreachable
    <3> QED BY <1>0, <3>2 DEF Placed
  <2>3. Only(finals, Again) \in Seq(Entry)
    BY <1>4, OnlyThose
  <2> DEFINE found == Only(finals, Again)
  <2> HIDE DEF found
  <2>4. found \in Seq(Entry) /\ ~(1 \in DOMAIN found)
    BY <2>2, <2>3 DEF found
  <2>5. found = <<>>
    <3>1. Len(found) \in Nat /\ DOMAIN found = 1 .. Len(found)
      BY <2>4
    <3>2. ~(1 <= Len(found))
      BY <2>4, <3>1
    <3>3. Len(found) = 0
      BY <3>1, <3>2
    <3> QED BY <2>4, <3>3
  <2> QED BY <2>5 DEF found
<1>6. /\ calls' = SubSeq(calls, 1, Len(calls) - 1)
      /\ pc' = Resume(Top.op) /\ op' = Resumed(Top.op)
  BY <1>5 DEF EndRound
<1>7. calls' = <<>>
  BY <1>3, <1>6
<1>8. \A j \in DOMAIN finals' : \E i \in DOMAIN finals : finals[i] = finals'[j]
  BY <1>1, <1>4, OnlyThose
<1>9. roots' = Top.saved /\ Base' = Base
  <2>1. roots = Top.saved
    BY <1>0, <1>1, <1>2 DEF Placed
  <2> QED BY <1>1, <1>3, <1>7, <2>1 DEF Base
<1>10. Split(S, T)'
  <2>1. \A p : Noted(p) => Noted(p)'
    BY <1>1, <1>2 DEF Noted, Tracked, Children
  <2>2. ClosedIn(S)' /\ ClosedIn(T)' /\ Recalled(S)'
    BY <1>1, <2>1 DEF Split, ClosedIn, Children, Recalled
  <2>3. YoungIn(S)'
    <3> SUFFICES ASSUME NEW j \in DOMAIN finals', gen[finals'[j].obj] = 0
                 PROVE  finals'[j].obj \in S /\ finals'[j].fun \in S
      BY <1>1 DEF YoungIn
    <3>1. PICK i \in DOMAIN finals : finals[i] = finals'[j]
      BY <1>8
    <3> QED BY <3>1 DEF Split, YoungIn
  <2>4. DueApart(S, T)'
    BY <1>7 DEF DueApart
  <2> QED BY <1>1, <1>9, <2>2, <2>3, <2>4 DEF Split
<1>11. Lists'
  BY <1>0, <1>1 DEF Lists, ListsExact
<1>12. Placed'
  <2>1. Top.op.kind \in {"none", "find", "store"}
    BY <1>3 DEF Frame, Op
  <2>2. StoreFits(op', roots') /\ (pc' = "store" => op'.kind = "store" /\ gen[op'.c] = 1)
    BY <1>0, <1>2, <1>6, <1>9, <2>1 DEF Placed, StoreFits, Resume, Resumed, Idle
  <2>3. pc' \in {"run", "find", "call"} => op' = Idle
    BY <1>6, <2>1 DEF Resume, Resumed
  <2>4. \A j \in DOMAIN finals' : finals'[j].reachable
    <3> SUFFICES ASSUME NEW j \in DOMAIN finals' PROVE finals'[j].reachable
      OBVIOUS
    <3>1. PICK i \in DOMAIN finals : finals[i] = finals'[j]
      BY <1>8
    <3> QED BY <1>0, <3>1 DEF Placed
  <2> QED BY <1>1, <1>7, <2>2, <2>3, <2>4 DEF Placed
<1> QED BY <1>1, <1>10, <1>11, <1>12 DEF SafeInv

\* A finalizer that throws leaves the program with what it held before.
LEMMA ThrowSafe ==
  ASSUME SafeInv, Throw, Types', Registered'
  PROVE  SafeInv'
<1>0. Types /\ Registered /\ Lists /\ Placed
  BY DEF SafeInv
<1> PICK S, T \in SUBSET live : Split(S, T)
  BY DEF SafeInv
<1>1. /\ pc = "run" /\ calls # <<>> /\ pc' = "run"
      /\ UNCHANGED <<heaps, live, slot, gen, flag, fresh, check, mutd, fullGc, op, finals>>
  BY DEF Throw, heapVars, listVars
<1>2. calls \in Frames /\ Len(calls) = 1 /\ calls[1] = Top /\ Base = Top.saved
  BY <1>0, <1>1, OneActivation
<1>3. PICK k \in 0 .. Len(calls) - 1 :
        calls' = SubSeq(calls, 1, k) /\ roots' = calls[k + 1].saved
  BY DEF Throw
<1>4. k = 0
  BY <1>2
<1>5. calls' = <<>> /\ roots' = Top.saved
  BY <1>2, <1>3, <1>4
<1>6. Base' = Base
  BY <1>2, <1>5 DEF Base
<1>7. Split(S, T)'
  <2>1. \A p : Noted(p) => Noted(p)'
    BY <1>1 DEF Noted, Tracked, Children
  <2>2. ClosedIn(S)' /\ ClosedIn(T)' /\ Recalled(S)' /\ YoungIn(S)'
    BY <1>1, <2>1 DEF Split, ClosedIn, Children, Recalled, YoungIn
  <2>3. DueApart(S, T)'
    BY <1>5 DEF DueApart
  <2> QED BY <1>1, <1>2, <1>5, <1>6, <2>2, <2>3 DEF Split
<1>8. Lists'
  BY <1>0, <1>1 DEF Lists, ListsExact
<1>9. Placed'
  BY <1>0, <1>1, <1>5 DEF Placed, StoreFits, Idle
<1> QED BY <1>1, <1>7, <1>8, <1>9 DEF SafeInv

\* Registering an object between two collections.
LEMMA FinalizeSafe ==
  ASSUME Mild, SafeInv, NEW o \in roots, NEW g \in roots, NEW reverse,
         Finalize(o, g, reverse), Types', Registered'
  PROVE  SafeInv'
<1>0. Types /\ Registered /\ Lists /\ Placed
  BY DEF SafeInv
<1> PICK S, T \in SUBSET live : Split(S, T)
  BY DEF SafeInv
<1> DEFINE e == NewEntry(o, g)
<1>1. /\ ~inprogress
      /\ finals' = <<e>> \o finals \/ finals' = Append(finals, e)
      /\ UNCHANGED <<heaps, live, slot, gen, flag, fresh, check, mutd, fullGc, gcEnabled,
                     gcCounter, pressure, roots, pc, op, tries, calls, inprogress>>
  BY DEF Finalize, Mild, vars, heapVars, listVars, gcVars, ctlVars
<1>2. calls = <<>>
  BY <1>0, <1>1, OneActivation
<1>3. o \in S /\ g \in S
  BY <1>2 DEF Split, Base
<1>4. e \in Entry /\ e.obj = o /\ e.fun = g /\ e.reachable
  BY <1>0 DEF NewEntry, Entry, Types, HeapTypes
<1> HIDE DEF e
<1>5. \A j \in DOMAIN finals' : finals'[j] = e \/ \E i \in DOMAIN finals : finals[i] = finals'[j]
  <2>1. finals \in Seq(Entry)
    BY <1>0 DEF Types, FinalTypeOK
  <2> QED BY <1>1, <1>4, <2>1, NewEntries
<1>6. Split(S, T)'
  <2>1. \A p : Noted(p) => Noted(p)'
    BY <1>1 DEF Noted, Tracked, Children
  <2>2. ClosedIn(S)' /\ ClosedIn(T)' /\ Recalled(S)' /\ DueApart(S, T)' /\ Base' = Base
    BY <1>1, <1>2, <2>1 DEF Split, ClosedIn, Children, Recalled, DueApart, Base
  <2>3. YoungIn(S)'
    <3> SUFFICES ASSUME NEW j \in DOMAIN finals', gen[finals'[j].obj] = 0
                 PROVE  finals'[j].obj \in S /\ finals'[j].fun \in S
      BY <1>1 DEF YoungIn
    <3>1. CASE finals'[j] = e
      BY <1>3, <1>4, <3>1
    <3>2. ASSUME NEW i \in DOMAIN finals, finals[i] = finals'[j]
          PROVE  finals'[j].obj \in S /\ finals'[j].fun \in S
      BY <3>2 DEF Split, YoungIn
    <3> QED BY <1>5, <3>1, <3>2
  <2> QED BY <1>1, <2>2, <2>3 DEF Split
<1>7. Lists'
  BY <1>0, <1>1 DEF Lists, ListsExact
<1>8. Placed'
  <2>1. \A j \in DOMAIN finals' : finals'[j].reachable
    BY <1>0, <1>4, <1>5 DEF Placed
  <2> QED BY <1>0, <1>1, <1>2, <2>1 DEF Placed
<1> QED BY <1>1, <1>6, <1>7, <1>8 DEF SafeInv

-----------------------------------------------------------------------------
(* The heap's own steps.                                                   *)

\* A new object is in T; it is in S too unless a finalizer allocated it.
LEMMA AllocateSafe ==
  ASSUME SafeInv, Allocate, Types', Registered'
  PROVE  SafeInv'
<1>0. Types /\ Registered /\ Lists /\ Placed
  BY DEF SafeInv
<1> PICK S, T \in SUBSET live : Split(S, T)
  BY DEF SafeInv
<1> PICK o \in Free, f \in InitialSlots :
      /\ live' = live \cup {o}
      /\ slot' = [slot EXCEPT ![o] = f]
      /\ gen' = [gen EXCEPT ![o] = 0]
      /\ fresh' = IF FullNow THEN fresh ELSE fresh \cup {o}
      /\ roots' = roots \cup {o}
  BY DEF Allocate, TakeFree
<1>1. /\ pc = "find" /\ pc' = "run" /\ op = Idle /\ op' = Idle
      /\ fullGc' = FullNow
      /\ UNCHANGED <<heaps, flag, check, mutd, gcEnabled, finals, calls, inprogress>>
  BY <1>0 DEF Allocate, TakeFree, Placed
<1>2. o \in Obj /\ o \in UNION heaps /\ o \notin live
  <2>1. o \in UNION heaps /\ o \notin live
    BY DEF Free
  <2>2. UNION heaps \subseteq Obj
    BY <1>0 DEF Types, HeapTypes, Obj
  <2> QED BY <2>1, <2>2
<1>3. live \subseteq Obj /\ \A x \in live : slot'[x] = slot[x] /\ gen'[x] = gen[x]
  BY <1>0, <1>2 DEF Types, HeapTypes
<1>4. \A x \in live : Children(x)' = Children(x)
  BY <1>3 DEF Children
<1>5. Children(o)' \subseteq T /\ (calls = <<>> => Children(o)' \subseteq S)
  <2>1. Children(o)' = {f[s] : s \in Slot} \ {Nil}
    BY <1>0, <1>2 DEF Children, Types, HeapTypes
  <2>2. roots \subseteq T /\ ClosedIn(T) /\ ClosedIn(S) /\ (calls = <<>> => roots \subseteq S)
    BY DEF Split, Base
  <2>3. CASE f \in [Slot -> roots \cup {Nil}]
    BY <2>1, <2>2, <2>3
  <2>4. ASSUME NEW q \in roots, f = slot[q]
        PROVE  Children(o)' \subseteq T /\ (calls = <<>> => Children(o)' \subseteq S)
    <3>1. Children(o)' = Children(q)
      BY <2>1, <2>4 DEF Children
    <3> QED BY <2>2, <3>1 DEF ClosedIn
  <2> QED BY <2>3, <2>4 DEF InitialSlots
<1>6. gen'[o] = 0
  BY <1>0, <1>2 DEF Types, HeapTypes
<1>7. \A p \in live : Children(p) \subseteq live /\ Tracked(p) => Tracked(p)'
  BY <1>1, <1>3, <1>4 DEF Tracked
<1>8. ASSUME NEW A \in SUBSET live', A \ {o} = S, calls = <<>> => o \in A, calls # <<>> => A = S
      PROVE  Split(A, T \cup {o})'
  <2>1. A \subseteq T \cup {o} /\ T \cup {o} \subseteq live'
    BY <1>8 DEF Split
  <2>2. ClosedIn(A)' /\ ClosedIn(T \cup {o})'
    <3>1. ASSUME NEW x \in A PROVE Children(x)' \subseteq A
      <4>1. CASE x = o
        BY <1>2, <1>5, <1>8, <4>1
      <4>2. CASE x # o
        BY <1>4, <1>8, <4>2 DEF Split, ClosedIn
      <4> QED BY <4>1, <4>2
    <3>2. ASSUME NEW x \in T \cup {o} PROVE Children(x)' \subseteq T \cup {o}
      <4>1. CASE x = o
        BY <1>5, <4>1
      <4>2. CASE x # o
        BY <1>4, <4>2 DEF Split, ClosedIn
      <4> QED BY <4>1, <4>2
    <3> QED BY <3>1, <3>2 DEF ClosedIn
  <2>3. Base' \subseteq A /\ roots' \subseteq T \cup {o}
    BY <1>1, <1>8 DEF Base, Top, Split
  <2>4. YoungIn(A)'
    <3> SUFFICES ASSUME NEW i \in DOMAIN finals, gen'[finals[i].obj] = 0
                 PROVE  finals[i].obj \in S /\ finals[i].fun \in S
      BY <1>1, <1>8 DEF YoungIn
    <3>1. finals[i].obj \in live
      BY <1>0 DEF Registered, FinalRoots
    <3>2. gen[finals[i].obj] = 0
      BY <1>3, <3>1
    <3> QED BY <3>2 DEF Split, YoungIn
  <2>5. DueApart(A, T \cup {o})'
    <3>1. Top' = Top
      BY <1>1 DEF Top
    <3> QED BY <1>1, <1>8, <3>1 DEF Split, DueApart
  <2>6. Recalled(A)'
    <3> SUFFICES ASSUME ~fullGc', NEW p \in A, gen'[p] = 1 PROVE Noted(p)'
      BY DEF Recalled
    <3>1. ~fullGc /\ p \in S /\ p \in live
      <4>1. ~fullGc
        BY <1>1 DEF FullNow
      <4>2. p # o
        BY <1>6
      <4> QED BY <1>8, <4>1, <4>2
    <3>2. gen[p] = 1
      BY <1>3, <3>1
    <3>3. Tracked(p)
      BY <1>1, <3>1, <3>2 DEF Split, Recalled, Noted
    <3>4. Children(p) \subseteq live
      BY <3>1 DEF Split, ClosedIn
    <3> QED BY <1>7, <3>1, <3>3, <3>4 DEF Noted
  <2> QED BY <2>1, <2>2, <2>3, <2>4, <2>5, <2>6 DEF Split
<1>9. \E A, B \in SUBSET live' : Split(A, B)'
  <2>1. o \notin S /\ T \cup {o} \in SUBSET live' /\ S \in SUBSET live' /\ S \cup {o} \in SUBSET live'
    BY <1>2 DEF Split
  <2>2. CASE calls = <<>>
    <3>1. Split(S \cup {o}, T \cup {o})'
      BY <1>8, <2>1, <2>2
    <3> QED BY <2>1, <3>1
  <2>3. CASE calls # <<>>
    <3>1. Split(S, T \cup {o})'
      BY <1>8, <2>1, <2>3
    <3> QED BY <2>1, <3>1
  <2> QED BY <2>2, <2>3
<1>10. Lists'
  <2>1. ListsExact'
    <3> SUFFICES ASSUME ~fullGc' PROVE ListsExact'
      BY DEF ListsExact
    <3>1. ~fullGc /\ fresh' = fresh \cup {o}
      BY <1>1 DEF FullNow
    <3> QED BY <1>0, <1>1, <1>2, <1>3, <1>6, <3>1 DEF Lists, ListsExact
  <2> QED BY <1>0, <1>1, <1>2, <2>1 DEF Lists
<1>11. Placed'
  <2>1. Top' = Top
    BY <1>1 DEF Top
  <2>2. calls # <<>> => Top.saved \subseteq live
    BY DEF Split, Base
  <2>3. calls # <<>> /\ Top.op.kind = "store" => gen'[Top.op.c] = 1
    BY <1>0, <1>3, <2>2 DEF Placed, StoreFits
  <2> QED BY <1>0, <1>1, <2>1, <2>3 DEF Placed, StoreFits, Idle
<1> QED BY <1>9, <1>10, <1>11 DEF SafeInv

\* With no finalizer at work, one part is enough: the program's.
LEMMA Alike ==
  ASSUME NEW S, NEW T, Split(S, T), calls = <<>>
  PROVE  Split(S, S)
BY DEF Split, Base, DueApart

\* gc_set notes the baby it stores in a mature object.
LEMMA SetSafe ==
  ASSUME SafeInv, calls = <<>>, NEW p \in roots, NEW s \in Slot, NEW c \in roots \cup {Nil},
         Set(p, s, c), UNCHANGED finVars, Types', Registered'
  PROVE  SafeInv'
<1>0. Types /\ Registered /\ Lists /\ Placed
  BY DEF SafeInv
<1> PICK S \in SUBSET live : Split(S, S)
  BY Alike DEF SafeInv
<1>1. /\ pc = "run" /\ op = Idle
      /\ UNCHANGED <<heaps, live, flag, fresh, mutd, gcEnabled, roots, tries, finals, calls>>
      /\ calls' = <<>>
  BY <1>0 DEF Set, Placed, finVars
<1>2. /\ roots \subseteq S /\ S \subseteq live /\ live \subseteq Obj /\ ClosedIn(S)
      /\ p \in S /\ p \in live /\ p \in Obj
  BY <1>0 DEF Split, Base, Types, HeapTypes
<1>3. ~fullGc => \A o \in S : gen[o] = 1 => Tracked(o)
  BY <1>1 DEF Split, Recalled, Noted
<1>4. ASSUME Write(p, s, c)
      PROVE  /\ \A o \in live : o # p => Children(o)' = Children(o)
             /\ Children(p)' \subseteq Children(p) \cup ({c} \ {Nil})
             /\ ClosedIn(S)'
  <2>1. \A o \in live : o # p => Children(o)' = Children(o)
    BY <1>0, <1>2, <1>4 DEF Write, Children, Types, HeapTypes
  <2>2. Children(p)' \subseteq Children(p) \cup ({c} \ {Nil})
    BY <1>0, <1>2, <1>4 DEF Write, Children, Types, HeapTypes
  <2>3. ClosedIn(S)'
    BY <1>2, <2>1, <2>2 DEF ClosedIn
  <2> QED BY <2>1, <2>2, <2>3
<1>5. /\ roots' = roots /\ Base' = roots /\ DueApart(S, S)'
  BY <1>1 DEF Base, DueApart
<1>6. ASSUME ClosedIn(S)', Recalled(S)', \A o \in live : gen'[o] = gen[o] \/ gen'[o] # 0
      PROVE  Split(S, S)'
  <2>1. YoungIn(S)'
    <3> SUFFICES ASSUME NEW i \in DOMAIN finals, gen'[finals[i].obj] = 0
                 PROVE  finals[i].obj \in S /\ finals[i].fun \in S
      BY <1>1 DEF YoungIn
    <3>1. finals[i].obj \in live
      BY <1>0 DEF Registered, FinalRoots
    <3>2. gen[finals[i].obj] = 0
      BY <1>6, <3>1
    <3> QED BY <3>2 DEF Split, YoungIn
  <2> QED BY <1>1, <1>2, <1>5, <1>6, <2>1 DEF Split
<1>7. \A i \in DOMAIN finals' : finals'[i].reachable
  BY <1>0, <1>1 DEF Placed
<1>8. CASE Write(p, s, c) /\ UNCHANGED <<gen, check, fullGc, pc, op>>
           /\ ~(c # Nil /\ gen[p] = 1 /\ gen[c] = 0 /\ ~fullGc)
  <2>1. Recalled(S)'
    <3> SUFFICES ASSUME ~fullGc, NEW o \in S, gen[o] = 1
                 PROVE  Tracked(o)'
      BY <1>1, <1>8 DEF Recalled, Noted
    <3>1. Tracked(o)
      BY <1>3
    <3>2. c # Nil /\ o = p => gen[c] = 1 \/ c \in check \cup mutd
      BY <1>0, <1>2, <1>8 DEF Lists, ListsExact, Types, HeapTypes
    <3> QED BY <1>1, <1>2, <1>4, <1>8, <3>1, <3>2 DEF Tracked
  <2>2. Split(S, S)'
    BY <1>4, <1>6, <1>8, <2>1
  <2>3. Lists' /\ Placed'
    <3>1. Lists'
      BY <1>0, <1>1, <1>8 DEF Lists, ListsExact
    <3>2. Placed'
      BY <1>1, <1>7, <1>8 DEF Placed, StoreFits, Idle
    <3> QED BY <3>1, <3>2
  <2> QED BY <1>1, <2>2, <2>3 DEF SafeInv
<1>9. CASE c # Nil /\ gen[p] = 1 /\ gen[c] = 0 /\ ~fullGc
  <2>0. c \in live /\ c \in Obj /\ c # p /\ c \in roots
    BY <1>2, <1>9
  <2>1. CASE /\ gen' = [gen EXCEPT ![c] = -1] /\ check' = check \cup {c}
             /\ Write(p, s, c)
             /\ UNCHANGED <<fullGc, pc, op>>
    <3>1. gen'[c] = -1 /\ \A o \in live : o # c => gen'[o] = gen[o]
      BY <1>0, <1>2, <2>0, <2>1 DEF Types, HeapTypes
    <3>2. Recalled(S)'
      <4> SUFFICES ASSUME NEW o \in S, gen'[o] = 1 PROVE Tracked(o)'
        BY <1>1, <1>9, <2>1 DEF Recalled, Noted
      <4>1. gen[o] = 1 /\ Tracked(o) /\ Children(o) \subseteq live
        BY <1>2, <1>3, <1>9, <3>1 DEF ClosedIn
      <4> QED BY <1>1, <1>2, <1>4, <2>1, <3>1, <4>1 DEF Tracked
    <3>3. \A o \in live : gen'[o] = gen[o] \/ gen'[o] # 0
      BY <3>1
    <3>4. Split(S, S)'
      BY <1>4, <1>6, <2>1, <3>2, <3>3
    <3>5. Lists'
      <4>1. ListsExact'
        BY <1>0, <1>1, <1>9, <2>0, <2>1, <3>1 DEF Lists, ListsExact
      <4> QED BY <1>0, <1>1, <4>1 DEF Lists
    <3>6. Placed'
      BY <1>1, <1>7, <2>1 DEF Placed, StoreFits, Idle
    <3> QED BY <1>1, <3>4, <3>5, <3>6 DEF SafeInv
  <2>2. CASE /\ gcEnabled /\ pc' = "gc"
             /\ op' = [kind |-> "store", p |-> p, s |-> s, c |-> c]
             /\ UNCHANGED <<gen, check, slot, fullGc>>
    <3>1. Split(S, S)'
      BY <1>1, <2>2, SplitQuiet
    <3>2. Lists'
      BY <1>0, <1>1, <2>2 DEF Lists, ListsExact
    <3>3. Placed'
      BY <1>1, <1>7, <2>0, <2>2 DEF Placed, StoreFits
    <3> QED BY <1>1, <3>1, <3>2, <3>3 DEF SafeInv
  <2>3. CASE fullGc' = TRUE /\ Write(p, s, c) /\ UNCHANGED <<gen, check, pc, op>>
    <3>1. Recalled(S)'
      BY <2>3 DEF Recalled
    <3>2. Split(S, S)'
      BY <1>4, <1>6, <2>3, <3>1
    <3>3. Lists'
      BY <1>0, <1>1, <2>3 DEF Lists, ListsExact
    <3>4. Placed'
      BY <1>1, <1>7, <2>3 DEF Placed, StoreFits, Idle
    <3> QED BY <1>1, <3>2, <3>3, <3>4 DEF SafeInv
  <2> QED BY <1>9, <2>1, <2>2, <2>3 DEF Set, Unsafe
<1> QED BY <1>8, <1>9 DEF Set, Unsafe

\* A store after a collection finds the stored object promoted.
LEMMA FinishSetSafe ==
  ASSUME SafeInv, FinishSet, UNCHANGED finVars, Types', Registered'
  PROVE  SafeInv'
<1>0. Types /\ Registered /\ Lists /\ Placed
  BY DEF SafeInv
<1>1. /\ pc = "store" /\ pc' = "run" /\ op' = Idle /\ calls = <<>> /\ calls' = <<>>
      /\ op.p \in roots /\ op.s \in Slot /\ op.c \in roots /\ gen[op.c] = 1
      /\ UNCHANGED <<heaps, live, gen, flag, fresh, check, mutd, fullGc, roots, finals, calls>>
  BY <1>0 DEF FinishSet, Placed, StoreFits, finVars, listVars, gcVars
<1> PICK S \in SUBSET live : Split(S, S)
  BY <1>1, Alike DEF SafeInv
<1> PICK p \in roots, s \in Slot, c \in roots : p = op.p /\ s = op.s /\ c = op.c
  BY <1>1
<1>2. Write(p, s, c) /\ gen[c] = 1
  BY <1>1 DEF FinishSet
<1>3. /\ roots \subseteq S /\ S \subseteq live /\ live \subseteq Obj /\ ClosedIn(S)
      /\ p \in S /\ p \in live /\ p \in Obj
  BY <1>0, <1>1 DEF Split, Base, Types, HeapTypes
<1>4. /\ \A o \in live : o # p => Children(o)' = Children(o)
      /\ Children(p)' \subseteq Children(p) \cup ({c} \ {Nil})
  BY <1>0, <1>2, <1>3 DEF Write, Children, Types, HeapTypes
<1>5. ClosedIn(S)'
  BY <1>3, <1>4 DEF ClosedIn
<1>6. Recalled(S)'
  <2>1. \A o \in live : Tracked(o) => Tracked(o)'
    BY <1>1, <1>2, <1>4 DEF Tracked
  <2> QED BY <1>1, <1>3, <2>1 DEF Split, Recalled, Noted
<1>7. Split(S, S)'
  <2>1. YoungIn(S)' /\ DueApart(S, S)' /\ Base' = roots
    BY <1>1 DEF Split, YoungIn, DueApart, Base
  <2> QED BY <1>1, <1>3, <1>5, <1>6, <2>1 DEF Split
<1>8. Lists'
  BY <1>0, <1>1 DEF Lists, ListsExact
<1>9. Placed'
  BY <1>0, <1>1 DEF Placed, StoreFits, Idle
<1> QED BY <1>1, <1>7, <1>8, <1>9 DEF SafeInv

\* replace_struct: when mutobj is full, the babies that p is given are also held by
\* q until the collection is over.
LEMMA ReplaceSafe ==
  ASSUME SafeInv, calls = <<>>, NEW p \in roots, NEW q \in roots, Replace(p, q),
         UNCHANGED finVars, Types', Registered'
  PROVE  SafeInv'
<1>0. Types /\ Registered /\ Lists /\ Placed
  BY DEF SafeInv
<1> PICK S \in SUBSET live : Split(S, S)
  BY Alike DEF SafeInv
<1>1. /\ pc = "run" /\ op = Idle /\ op' = Idle /\ p # q
      /\ slot' = [slot EXCEPT ![p] = slot[q]]
      /\ UNCHANGED <<heaps, live, flag, fresh, check, gcEnabled, roots, tries, finals, calls>>
      /\ calls' = <<>>
  BY <1>0 DEF Replace, Placed, finVars
<1>2. /\ roots \subseteq S /\ S \subseteq live /\ live \subseteq Obj /\ ClosedIn(S)
      /\ p \in S /\ p \in live /\ p \in Obj /\ q \in S /\ q \in live
  BY <1>0 DEF Split, Base, Types, HeapTypes
<1>3. ~fullGc => \A o \in S : gen[o] = 1 => Tracked(o)
  BY <1>1 DEF Split, Recalled, Noted
<1>4. /\ slot'[p] = slot[q]
      /\ \A o \in live : o # p => slot'[o] = slot[o]
  BY <1>0, <1>1, <1>2 DEF Types, HeapTypes
<1>5. /\ Children(p)' = Children(q)
      /\ \A o \in live : o # p => Children(o)' = Children(o)
  BY <1>4 DEF Children
<1>6. ClosedIn(S)'
  BY <1>2, <1>5 DEF ClosedIn
<1>7. ASSUME Recalled(S)', \A o \in live : gen'[o] = gen[o] \/ gen'[o] # 0
      PROVE  Split(S, S)'
  <2>1. YoungIn(S)'
    <3> SUFFICES ASSUME NEW i \in DOMAIN finals, gen'[finals[i].obj] = 0
                 PROVE  finals[i].obj \in S /\ finals[i].fun \in S
      BY <1>1 DEF YoungIn
    <3>1. finals[i].obj \in live
      BY <1>0 DEF Registered, FinalRoots
    <3>2. gen[finals[i].obj] = 0
      BY <1>7, <3>1
    <3> QED BY <3>2 DEF Split, YoungIn
  <2>2. Base' = roots /\ DueApart(S, S)'
    BY <1>1 DEF Base, DueApart
  <2> QED BY <1>1, <1>2, <1>6, <1>7, <2>1, <2>2 DEF Split
<1>8. \A i \in DOMAIN finals' : finals'[i].reachable
  BY <1>0, <1>1 DEF Placed
<1>9. ASSUME pc' # "store" PROVE Placed'
  BY <1>1, <1>8, <1>9 DEF Placed, StoreFits, Idle
<1>10. CASE (fullGc \/ gen[p] <= 0) /\ UNCHANGED <<gen, mutd, fullGc, pc>>
  <2>1. Recalled(S)'
    <3> SUFFICES ASSUME ~fullGc, NEW o \in S, gen[o] = 1 PROVE Tracked(o)'
      BY <1>1, <1>10 DEF Recalled, Noted
    <3>1. o # p /\ Tracked(o)
      BY <1>3, <1>10
    <3> QED BY <1>1, <1>2, <1>5, <1>10, <3>1 DEF Tracked
  <2>2. Split(S, S)'
    BY <1>7, <1>10, <2>1
  <2>3. Lists'
    BY <1>0, <1>1, <1>10 DEF Lists, ListsExact
  <2> QED BY <1>1, <1>9, <1>10, <2>2, <2>3 DEF SafeInv
<1>11. CASE ~fullGc /\ gen[p] = 1
  <2>1. CASE /\ gen' = [gen EXCEPT ![p] = -1] /\ mutd' = mutd \cup {p}
             /\ UNCHANGED <<fullGc, pc>>
    <3>1. gen'[p] = -1 /\ \A o \in live : o # p => gen'[o] = gen[o]
      BY <1>0, <1>2, <2>1 DEF Types, HeapTypes
    <3>2. Recalled(S)'
      <4> SUFFICES ASSUME NEW o \in S, gen'[o] = 1 PROVE Tracked(o)'
        BY <1>1, <2>1 DEF Recalled, Noted
      <4>1. o # p /\ gen[o] = 1 /\ Tracked(o) /\ Children(o) \subseteq live
        BY <1>2, <1>3, <1>11, <3>1 DEF ClosedIn
      <4> QED BY <1>1, <1>2, <1>5, <2>1, <3>1, <4>1 DEF Tracked
    <3>3. Split(S, S)'
      BY <1>7, <3>1, <3>2
    <3>4. Lists'
      <4>1. ListsExact'
        BY <1>0, <1>1, <1>2, <1>11, <2>1, <3>1 DEF Lists, ListsExact
      <4> QED BY <1>0, <1>1, <4>1 DEF Lists
    <3> QED BY <1>1, <1>9, <2>1, <3>3, <3>4 DEF SafeInv
  <2>2. CASE gcEnabled /\ pc' = "gc" /\ UNCHANGED <<gen, mutd, fullGc>>
    <3>1. \A o \in S : o # p => (Tracked(o) => Tracked(o)')
      BY <1>1, <1>2, <1>5, <2>2 DEF Tracked
    <3>2. gen[q] \in {-1, 0, 1} /\ (gen[q] = 1 => Tracked(q))
      BY <1>0, <1>2, <1>3, <1>11 DEF Types, HeapTypes
    <3>3. slot'[q] = slot'[p] /\ (gen'[q] <= 0 \/ Tracked(q)')
      BY <1>1, <1>2, <1>4, <2>2, <3>1, <3>2
    <3>4. Recalled(S)'
      <4> SUFFICES ASSUME NEW o \in S, gen[o] = 1 PROVE Noted(o)'
        BY <2>2 DEF Recalled
      <4>1. CASE o = p
        BY <1>1, <2>2, <3>3, <4>1 DEF Noted
      <4>2. CASE o # p
        BY <1>3, <1>11, <3>1, <4>2 DEF Noted
      <4> QED BY <4>1, <4>2
    <3>5. Split(S, S)'
      BY <1>7, <2>2, <3>4
    <3>6. Lists'
      BY <1>0, <1>1, <2>2 DEF Lists, ListsExact
    <3> QED BY <1>1, <1>9, <2>2, <3>5, <3>6 DEF SafeInv
  <2>3. CASE fullGc' = TRUE /\ UNCHANGED <<gen, mutd, pc>>
    <3>1. Split(S, S)'
      BY <1>7, <2>3 DEF Recalled
    <3>2. Lists'
      BY <1>0, <1>1, <2>3 DEF Lists, ListsExact
    <3> QED BY <1>1, <1>9, <2>3, <3>1, <3>2 DEF SafeInv
  <2>4. ~(fullGc \/ gen[p] <= 0)
    BY <1>11
  <2>5. \/ /\ gen' = [gen EXCEPT ![p] = -1] /\ mutd' = mutd \cup {p}
           /\ UNCHANGED <<fullGc, pc>>
        \/ gcEnabled /\ pc' = "gc" /\ UNCHANGED <<gen, mutd, fullGc>>
        \/ fullGc' = TRUE /\ UNCHANGED <<gen, mutd, pc>>
    BY <2>4 DEF Replace, NeedsNote
  <2> QED BY <2>1, <2>2, <2>3, <2>5
<1>12. gen[p] \in {-1, 0, 1} /\ fullGc \in BOOLEAN
  BY <1>0, <1>2 DEF Types, HeapTypes
<1>13. CASE fullGc \/ gen[p] <= 0
  <2>1. UNCHANGED <<gen, mutd, fullGc, pc>>
    BY <1>13 DEF Replace, NeedsNote
  <2> QED BY <1>10, <1>13, <2>1
<1> QED BY <1>11, <1>12, <1>13

\* Steps that touch neither the cells nor what the program holds.
LEMMA QuietSafe ==
  ASSUME SafeInv, Types', Registered',
         heaps \subseteq heaps', fullGc => fullGc', pc \in {"gc", "abort"} => pc' \in {"gc", "abort"},
         UNCHANGED <<live, slot, gen, flag, fresh, check, mutd, roots, finals, calls>>,
         calls # <<>> => ~gcEnabled',
         \/ UNCHANGED <<pc, op>>
         \/ pc \in {"run", "find"} /\ pc' \in {"run", "find"} /\ op' = op
         \/ pc \in {"run", "find"} /\ pc' \in {"gc", "abort", "oom"} /\ op'.kind # "store"
  PROVE  SafeInv'
<1>0. Types /\ Registered /\ Lists /\ Placed
  BY DEF SafeInv
<1> PICK S, T \in SUBSET live : Split(S, T)
  BY DEF SafeInv
<1>1. Split(S, T)'
  BY SplitQuiet
<1>2. Lists'
  BY <1>0 DEF Lists, ListsExact
<1>3. Placed'
  <2>1. Top' = Top
    BY DEF Top
  <2>2. CASE UNCHANGED <<pc, op>>
    BY <1>0, <2>1, <2>2 DEF Placed, StoreFits
  <2>3. CASE pc \in {"run", "find"} /\ pc' \in {"run", "find"} /\ op' = op
    BY <1>0, <2>1, <2>3 DEF Placed, StoreFits
  <2>4. CASE pc \in {"run", "find"} /\ pc' \in {"gc", "abort", "oom"} /\ op'.kind # "store"
    BY <1>0, <2>1, <2>4 DEF Placed, StoreFits
  <2> QED BY <2>2, <2>3, <2>4
<1> QED BY <1>1, <1>2, <1>3 DEF SafeInv

\* A variable is set or goes out of scope.
LEMMA HoldSafe ==
  ASSUME SafeInv, Types', Registered', pc = "run",
         UNCHANGED <<heaps, live, slot, gen, flag, fresh, check, mutd, fullGc, gcEnabled, pc, op,
                     finals, calls>>,
         roots' \subseteq roots \cup UNION {Children(o) : o \in roots}
  PROVE  SafeInv'
<1>0. Types /\ Registered /\ Lists /\ Placed
  BY DEF SafeInv
<1> PICK S, T \in SUBSET live : Split(S, T)
  BY DEF SafeInv
<1>1. roots' \subseteq T /\ (calls = <<>> => roots' \subseteq S)
  BY DEF Split, ClosedIn, Base
<1>2. Top' = Top /\ Base' \subseteq S
  BY <1>1 DEF Base, Top, Split
<1>3. Split(S, T)'
  <2>1. \A p : Noted(p) => Noted(p)'
    BY DEF Noted, Tracked, Children
  <2>2. /\ ClosedIn(S)' /\ ClosedIn(T)' /\ YoungIn(S)' /\ DueApart(S, T)' /\ Recalled(S)'
    BY <1>2, <2>1 DEF Split, ClosedIn, Children, YoungIn, DueApart, Recalled
  <2> QED BY <1>1, <1>2, <2>2 DEF Split
<1>4. Lists'
  BY <1>0 DEF Lists, ListsExact
<1>5. Placed'
  BY <1>0, <1>2 DEF Placed, StoreFits, Idle
<1> QED BY <1>3, <1>4, <1>5 DEF SafeInv

\* The program's own steps, and those of a finalizer.
LEMMA OtherSafe ==
  ASSUME Mild, SafeInv, Store \/ Other, Types', Registered'
  PROVE  SafeInv'
<1>0. Types /\ Registered /\ Placed
  BY DEF SafeInv
<1>1. /\ UNCHANGED finVars /\ UNCHANGED <<finals, calls>>
      /\ ~inprogress => calls = <<>>
      /\ calls # <<>> => ~gcEnabled
      /\ pc \in {"run", "find", "call"} => op = Idle
  BY <1>0, OneActivation DEF Store, Other, finVars, Placed
<1>2. ASSUME MakeObj PROVE SafeInv'
  <2>1. /\ UNCHANGED <<heaps, live, slot, gen, flag, fresh, check, mutd, fullGc, gcEnabled, roots>>
        /\ pc = "run"
        /\ \/ pc' = "gc" /\ op' = [Idle EXCEPT !.kind = "find"]
           \/ pc' = "find" /\ op' = Idle
    BY <1>2 DEF MakeObj, heapVars, listVars, gcVars
  <2>2. \/ pc \in {"run", "find"} /\ pc' \in {"run", "find"} /\ op' = op
        \/ pc \in {"run", "find"} /\ pc' \in {"gc", "abort", "oom"} /\ op'.kind # "store"
    BY <1>1, <2>1 DEF Idle
  <2> QED BY <1>1, <2>1, <2>2, QuietSafe
<1>3. ASSUME Refill PROVE SafeInv'
  <2>1. /\ UNCHANGED <<live, slot, gen, flag, fresh, check, mutd, gcEnabled, roots>>
        /\ pc = "find" /\ op = Idle /\ heaps \subseteq heaps'
    BY <1>1, <1>3 DEF Refill, More, listVars
  <2>2. fullGc => fullGc'
    BY <1>3 DEF Refill, FullNow
  <2>3. \/ pc' \in {"find", "abort", "oom"} /\ op' = op
        \/ pc' = "gc" /\ op' = [Idle EXCEPT !.kind = "find"]
    BY <1>3 DEF Refill, More
  <2>4. \/ pc \in {"run", "find"} /\ pc' \in {"run", "find"} /\ op' = op
        \/ pc \in {"run", "find"} /\ pc' \in {"gc", "abort", "oom"} /\ op'.kind # "store"
    BY <2>1, <2>3 DEF Idle
  <2> QED BY <1>1, <2>1, <2>2, <2>4, QuietSafe
<1>4. ASSUME FinishSet PROVE SafeInv'
  BY <1>1, <1>4, FinishSetSafe
<1>5. ASSUME NEW p \in roots, NEW s \in Slot, Load(p, s) PROVE SafeInv'
  <2>1. /\ UNCHANGED <<heaps, live, slot, gen, flag, fresh, check, mutd, fullGc, gcEnabled, pc, op>>
        /\ pc = "run" /\ roots' = roots \cup {slot[p][s]} /\ slot[p][s] # Nil
    BY <1>5 DEF Load, heapVars, listVars, gcVars, ctlVars
  <2>2. slot[p][s] \in Children(p)
    BY <2>1 DEF Children
  <2>3. roots' \subseteq roots \cup UNION {Children(o) : o \in roots}
    BY <2>1, <2>2
  <2> QED BY <1>1, <2>1, <2>3, HoldSafe
<1>6. ASSUME NEW o \in roots, Drop(o) PROVE SafeInv'
  <2>1. /\ UNCHANGED <<heaps, live, slot, gen, flag, fresh, check, mutd, fullGc, gcEnabled, pc, op>>
        /\ pc = "run" /\ roots' \subseteq roots
    BY <1>6 DEF Drop, heapVars, listVars, gcVars, ctlVars
  <2>2. roots' \subseteq roots \cup UNION {Children(x) : x \in roots}
    BY <2>1
  <2> QED BY <1>1, <2>1, <2>2, HoldSafe
<1>7. ASSUME Malloc PROVE SafeInv'
  <2>1. UNCHANGED <<heaps, live, slot, gen, flag, fresh, check, mutd, fullGc, gcEnabled, roots, pc, op>>
    BY <1>7 DEF Malloc, heapVars, listVars, ctlVars
  <2> QED BY <1>1, <2>1, QuietSafe
<1>8. ASSUME NEW b \in BOOLEAN, GcWrap(b) PROVE SafeInv'
  <2>1. /\ UNCHANGED <<heaps, live, slot, gen, flag, fresh, check, mutd, gcEnabled, roots, op>>
        /\ fullGc' = (fullGc \/ b) /\ pc = "run" /\ pc' = "gc" /\ op = Idle
    BY <1>1, <1>8 DEF GcWrap, heapVars, listVars
  <2>2. (fullGc => fullGc') /\ op'.kind # "store"
    BY <2>1 DEF Idle
  <2>3. pc \in {"run", "find"} /\ pc' \in {"gc", "abort", "oom"} /\ op'.kind # "store"
    BY <2>1, <2>2
  <2> QED BY <1>1, <2>1, <2>2, <2>3, QuietSafe
<1>9. ASSUME NEW b \in BOOLEAN, ~inprogress, GcState(b) PROVE SafeInv'
  <2>1. UNCHANGED <<heaps, live, slot, gen, flag, fresh, check, mutd, fullGc, roots, pc, op>>
    BY <1>9 DEF GcState, heapVars, listVars, ctlVars
  <2> QED BY <1>1, <1>9, <2>1, QuietSafe
<1>10. ASSUME Store PROVE SafeInv'
  <2>1. calls = <<>>
    BY <1>1, <1>10 DEF Store, Mild
  <2> QED BY <1>1, <1>10, <2>1, SetSafe, ReplaceSafe DEF Store
<1> QED BY <1>2, <1>3, <1>4, <1>5, <1>6, <1>7, <1>8, <1>9, <1>10 DEF Other

\* The program's variables refer to live objects.
LEMMA SafeRoots == SafeInv => roots \subseteq live
BY DEF SafeInv, Split

\* Every step leaves the two parts.
LEMMA SafeStep ==
  ASSUME Mild, SafeInv, [FinalNext]_allVars
  PROVE  SafeInv'
<1>1. Types /\ Registered /\ roots \subseteq live
  BY SafeRoots DEF SafeInv
<1>2. Types' /\ Registered'
  BY <1>1, FinalStep
<1>3. CASE UNCHANGED allVars
  <2>1. /\ UNCHANGED <<heaps, live, slot, gen, flag, fresh, check, mutd, fullGc, gcEnabled,
                       roots, pc, op, finals, calls>>
    BY <1>3 DEF allVars, vars, heapVars, listVars, gcVars, ctlVars, finVars
  <2>2. calls # <<>> => ~gcEnabled'
    BY <2>1 DEF SafeInv, Placed
  <2> QED BY <1>2, <2>1, <2>2, QuietSafe
<1>4. ASSUME NEW o \in roots, CallFinalizers(o) PROVE FALSE
  <2>1. Len(calls) < 0 /\ calls \in Seq(Frame)
    BY <1>1, <1>4 DEF CallFinalizers, Mild, Types, FinalTypeOK
  <2> QED BY <2>1
<1>5. ASSUME NEW o \in roots, NEW f \in roots, NEW reverse \in BOOLEAN, Finalize(o, f, reverse)
      PROVE  SafeInv'
  BY <1>2, <1>5, FinalizeSafe
<1>6. FinalGc => SafeInv'
  BY <1>2, FinalGcSafe
<1>7. CallNext => SafeInv'
  BY <1>2, CallNextSafe
<1>8. Return => SafeInv'
  BY <1>2, ReturnSafe
<1>9. EndRound => SafeInv'
  BY <1>2, EndRoundSafe
<1>10. Throw => SafeInv'
  BY <1>2, ThrowSafe
<1>11. Allocate => SafeInv'
  BY <1>2, AllocateSafe
<1>12. Store \/ Other => SafeInv'
  BY <1>2, OtherSafe
<1> QED BY <1>3, <1>4, <1>5, <1>6, <1>7, <1>8, <1>9, <1>10, <1>11, <1>12 DEF FinalNext

-----------------------------------------------------------------------------
\* What the two parts say of the program's references and of the registrations.
LEMMA NothingDangles == SafeInv => AccessibleLive /\ RegistrationsLive
<1> SUFFICES ASSUME SafeInv PROVE AccessibleLive /\ RegistrationsLive
  OBVIOUS
<1> DEFINE succ == [o \in Obj |-> Children(o)]
<1>0. Types /\ Registered /\ Placed
  BY DEF SafeInv
<1> PICK S, T \in SUBSET live : Split(S, T)
  BY DEF SafeInv
<1>1. calls # <<>> =>
        calls \in Frames /\ Len(calls) = 1 /\ calls[1] = Top /\ Top \in Frame /\ Top.todo \in Regs
          /\ Top.ctx = Nil
  BY <1>0, OneActivation
<1>2. live \subseteq Obj /\ \A o \in Obj : Children(o) \subseteq Obj
  BY <1>0 DEF Types, HeapTypes, Children, Ref
<1>3. Pinned \subseteq T
  <2>1. CASE calls = <<>>
    <3>1. DOMAIN calls = {}
      BY <2>1
    <3> QED BY <3>1 DEF Pinned
  <2>2. CASE calls # <<>>
    <3>1. DOMAIN calls = {1}
      BY <1>1, <2>2 DEF Frames
    <3>2. Pinned = PinnedBy(Top)
      BY <1>1, <2>2, <3>1 DEF Pinned
    <3>3. Top.saved \subseteq T
      BY <2>2 DEF Split, Base
    <3>4. Top.todo # <<>> => Head(Top.todo).obj \in T /\ Head(Top.todo).fun \in T
      <4> SUFFICES ASSUME Top.todo # <<>>
                   PROVE  Head(Top.todo).obj \in T /\ Head(Top.todo).fun \in T
        OBVIOUS
      <4>1. 1 \in DOMAIN Top.todo /\ Head(Top.todo) = Top.todo[1]
        BY <1>1, <2>2 DEF Regs
      <4> QED BY <2>2, <4>1 DEF Split, DueApart
    <3> QED BY <1>1, <2>2, <3>2, <3>3, <3>4 DEF PinnedBy
  <2> QED BY <2>1, <2>2
<1>4. AccessibleLive
  <2>1. roots \cup Pinned \subseteq T /\ T \in SUBSET DOMAIN succ
    BY <1>2, <1>3 DEF Split
  <2>2. IsClosed(T, succ)
    BY <1>2 DEF Split, ClosedIn, IsClosed
  <2>3. roots \cup Pinned \in SUBSET DOMAIN succ
    BY <2>1
  <2> HIDE DEF succ
  <2>4. ReachedFrom(roots \cup Pinned, succ) \subseteq T
    BY <2>1, <2>2, <2>3, ReachedLeast
  <2> QED BY <2>4 DEF AccessibleLive, Accessible, succ
<1>5. RegistrationsLive
  <2>1. FinalRoots \subseteq live
    BY <1>0 DEF Registered
  <2>2. ASSUME NEW d \in Detached
        PROVE  {calls[d[1]].todo[d[2]].obj, calls[d[1]].todo[d[2]].fun} \subseteq live
    <3>1. d[1] \in DOMAIN calls /\ d[2] \in DOMAIN calls[d[1]].todo
      BY DEF Detached
    <3>2. calls # <<>>
      BY <3>1
    <3>3. d[1] = 1 /\ calls[d[1]] = Top
      BY <1>1, <3>1, <3>2 DEF Frames
    <3>4. Top.todo[d[2]].obj \in T /\ Top.todo[d[2]].fun \in T
      BY <3>1, <3>2, <3>3 DEF Split, DueApart
    <3> QED BY <3>3, <3>4
  <2> QED BY <2>1, <2>2 DEF RegistrationsLive
<1> QED BY <1>4, <1>5

\* As long as finalizers neither store nor register and are not called explicitly:
\* nothing the program can get at is reclaimed, every registration keeps its object and
\* its function, and the finalizer counts cover the registrations.
THEOREM NothingLost ==
  ASSUME Mild
  PROVE  FinalSpec => [](AccessibleLive /\ RegistrationsLive /\ FincountCovers)
<1>1. FinalInit => SafeInv
  BY SafeInit
<1>2. SafeInv /\ [FinalNext]_allVars => SafeInv'
  BY SafeStep
<1>3. SafeInv => AccessibleLive /\ RegistrationsLive /\ FincountCovers
  BY NothingDangles, CoversAll DEF SafeInv
<1> QED BY <1>1, <1>2, <1>3, PTL DEF FinalSpec

\* What FinalizesUnreachable says of a step.
HandsOver ==
  pc = "gc" /\ pc' # "abort" =>
    /\ \A i \in DOMAIN calls' \ DOMAIN calls :
         \A j \in DOMAIN calls'[i].todo : calls'[i].todo[j].obj \notin Accessible
    /\ fullGc \/ pressure =>
         \E junk \in SUBSET live :
           /\ Cardinality(junk) <= JunkMax
           /\ {finals'[i].obj : i \in DOMAIN finals'} \subseteq
                ReachedFrom(roots \cup Pinned \cup junk, [o \in Obj |-> Children(o)])

\* With no finalizer at work, what the program can get at is in any closed part that
\* has its variables.
LEMMA AccessibleIn ==
  ASSUME HeapTypes, calls = <<>>, NEW A \in SUBSET Obj, ClosedIn(A), roots \subseteq A
  PROVE  Accessible \subseteq A /\ Pinned = {}
<1> DEFINE succ == [o \in Obj |-> Children(o)]
<1>1. Pinned = {}
  <2>1. DOMAIN calls = {}
    OBVIOUS
  <2> QED BY <2>1 DEF Pinned
<1>2. A \in SUBSET DOMAIN succ /\ roots \cup Pinned \in SUBSET DOMAIN succ
      /\ roots \cup Pinned \subseteq A
  BY <1>1
<1>3. IsClosed(A, succ)
  BY DEF ClosedIn, IsClosed
<1> HIDE DEF succ
<1>4. ReachedFrom(roots \cup Pinned, succ) \subseteq A
  BY <1>2, <1>3, ReachedLeast
<1> QED BY <1>1, <1>4 DEF Accessible, succ

\* A full collection marks what is reachable, and nothing else.
LEMMA FullMark ==
  ASSUME HeapTypes, flag = {}, NEW given \in SUBSET Obj
  PROVE  Marked(TRUE, given) = ReachedFrom(roots \cup given, [o \in Obj |-> Children(o)])
<1>1. \A X : Entered(X, TRUE) = X
  BY DEF Entered, Enters
<1>2. Entered(roots \cup given \cup (IF TRUE THEN {} ELSE check \cup mutd), TRUE)
        = roots \cup given
  BY <1>1
<1>3. [o \in Obj |-> Entered(Children(o), TRUE)] = [o \in Obj |-> Children(o)]
  BY <1>1
<1> QED BY <1>2, <1>3 DEF Marked

\* A collection hands over the entries of inaccessible objects.
LEMMA GcHandsOver ==
  ASSUME SafeInv, FinalGc, pc' # "abort"
  PROVE  HandsOver
<1> DEFINE full == fullGc \/ pressure
<1>0. Types /\ Registered /\ Lists /\ Placed /\ pc = "gc" /\ finals \in Regs /\ HeapTypes
      /\ flag = {} /\ live \subseteq Obj
  BY DEF SafeInv, FinalGc, Types, HeapTypes, FinalTypeOK, Regs, Lists
<1>1. PICK junk \in {j \in SUBSET live : Cardinality(j) <= JunkMax} :
        LET first  == Marked(full, junk \cup Pinned)
            marked == Marked(full, junk \cup Pinned \cup FinalRoots)
            ready  == Prepared(full, first)
            found  == Only(ready, Unreachable)
        IN  /\ ~(GcAborts(full, marked) \/ ~gcEnabled \/ inprogress)
            /\ finals' = Only(ready, Entry \ Unreachable)
            /\ \/ calls' = calls
               \/ calls' = Append(calls, [todo |-> found, ctx |-> Nil, saved |-> roots,
                                          op |-> op, tries |-> tries])
  BY DEF FinalGc
<1> DEFINE first == Marked(full, junk \cup Pinned)
           marked == Marked(full, junk \cup Pinned \cup FinalRoots)
           ready == Prepared(full, first)
           found == Only(ready, Unreachable)
           rest == Only(ready, Entry \ Unreachable)
           f == [todo |-> found, ctx |-> Nil, saved |-> roots, op |-> op, tries |-> tries]
<1>2. /\ ~GcAborts(full, marked) /\ ~inprogress /\ finals' = rest
      /\ calls' = calls \/ calls' = Append(calls, f)
  BY <1>1
<1>3. calls = <<>>
  <2> SUFFICES ASSUME calls # <<>> PROVE FALSE
    OBVIOUS
  <2>1. Top.ctx = Nil /\ (Top.ctx = Nil => inprogress)
    BY <1>0, TopFacts DEF Placed
  <2> QED BY <1>2, <2>1
<1>4. PICK S, T \in SUBSET live : Split(S, T)
  BY DEF SafeInv
<1>5. full \in BOOLEAN /\ (fullGc => full) /\ junk \in SUBSET live
  BY <1>0 DEF Types, HeapTypes
<1>6. /\ \A j \in DOMAIN found : \E i \in DOMAIN finals :
           found[j].obj = finals[i].obj /\ ~IsReachable(finals[i].obj, full, first)
      /\ \A j \in DOMAIN rest : \E i \in DOMAIN finals :
           rest[j].obj = finals[i].obj /\ IsReachable(finals[i].obj, full, first)
  <2> HIDE DEF first, full
  <2>1. finals \in Regs
    BY <1>0
  <2>2. /\ \A j \in DOMAIN found : \E i \in DOMAIN finals :
             /\ found[j].obj = finals[i].obj /\ found[j].fun = finals[i].fun
             /\ ~IsReachable(finals[i].obj, full, first)
        /\ \A j \in DOMAIN rest : \E i \in DOMAIN finals :
             /\ rest[j].obj = finals[i].obj /\ rest[j].fun = finals[i].fun
             /\ rest[j].reachable /\ IsReachable(finals[i].obj, full, first)
    BY <2>1, PreparedSplit
  <2> HIDE DEF ready, found, rest
  <2> QED BY <2>2
<1> HIDE DEF ready, full
<1>7. first = Marked(full, junk \cup Pinned) /\ ~GcAborts(full, marked)
      /\ marked = Marked(full, junk \cup Pinned \cup FinalRoots)
  BY <1>2
<1> HIDE DEF first, marked, found, rest
<1>8. \E A, B \in SUBSET Kept(full, marked) : Remain(A, B, full, first)
  <2>1. Types /\ Registered /\ Lists /\ pc = "gc" /\ calls = <<>> /\ Split(S, T)
    BY <1>0, <1>3, <1>4
  <2> QED BY <1>5, <1>7, <2>1, GcSplit
<1>9. PICK A, B \in SUBSET Kept(full, marked) : Remain(A, B, full, first)
  BY <1>8
<1>10. Accessible \subseteq A /\ Pinned = {}
  <2>1. A \in SUBSET Obj
    BY <1>0 DEF Kept
  <2> QED BY <1>0, <1>3, <1>9, <2>1, AccessibleIn DEF Remain
<1>11. ASSUME NEW i \in DOMAIN calls' \ DOMAIN calls, NEW j \in DOMAIN calls'[i].todo
       PROVE  calls'[i].todo[j].obj \notin Accessible
  <2>1. calls' = <<f>>
    BY <1>2, <1>3, <1>11
  <2>2. i = 1 /\ calls'[i].todo = found
    BY <2>1, <1>11
  <2>3. PICK k \in DOMAIN finals :
          found[j].obj = finals[k].obj /\ ~IsReachable(finals[k].obj, full, first)
    BY <1>6, <1>11, <2>2
  <2>4. finals[k].obj \notin A
    BY <1>9, <2>3 DEF Remain
  <2> QED BY <1>10, <2>2, <2>3, <2>4
<1>12. ASSUME full
       PROVE  {finals'[i].obj : i \in DOMAIN finals'} \subseteq
                ReachedFrom(roots \cup Pinned \cup junk, [o \in Obj |-> Children(o)])
  <2>1. full = TRUE /\ junk \cup Pinned \in SUBSET Obj
    BY <1>0, <1>5, <1>10, <1>12
  <2>2. first = ReachedFrom(roots \cup (junk \cup Pinned), [o \in Obj |-> Children(o)])
    BY <1>0, <1>7, <2>1, FullMark
  <2>3. roots \cup (junk \cup Pinned) = roots \cup Pinned \cup junk
    OBVIOUS
  <2>4. \A j \in DOMAIN rest : rest[j].obj \in first
    BY <1>6, <2>1 DEF IsReachable
  <2> QED BY <1>2, <2>2, <2>3, <2>4
<1> QED BY <1>11, <1>12 DEF HandsOver, full

\* No other step leaves a collection.
LEMMA StepHandsOver ==
  ASSUME SafeInv, [FinalNext]_allVars PROVE HandsOver \/ UNCHANGED allVars
<1>1. CASE FinalGc
  BY <1>1, GcHandsOver DEF HandsOver
<1>2. CASE CallNext \/ Return \/ EndRound \/ Throw
  BY <1>2 DEF CallNext, Return, EndRound, Throw, HandsOver
<1>3. CASE Allocate \/ Store \/ Other
  BY <1>3 DEF Allocate, TakeFree, Store, Set, Replace, Other, MakeObj, Refill, FinishSet, Load, Drop,
     Malloc, GcWrap, GcState, HandsOver
<1>4. ASSUME NEW o \in roots, NEW f \in roots, NEW reverse \in BOOLEAN, Finalize(o, f, reverse)
      PROVE  HandsOver
  BY <1>4 DEF Finalize, HandsOver
<1>5. ASSUME NEW o \in roots, CallFinalizers(o) PROVE HandsOver
  BY <1>5 DEF CallFinalizers, HandsOver
<1> QED BY <1>1, <1>2, <1>3, <1>4, <1>5 DEF FinalNext

\* In such a program, gc() finalizes an object only when the program cannot get at it,
\* and a full collection misses none.
THEOREM OnlyUnreachable ==
  ASSUME Mild
  PROVE  FinalSpec => FinalizesUnreachable
<1>1. FinalInit => SafeInv
  BY SafeInit
<1>2. SafeInv /\ [FinalNext]_allVars => SafeInv'
  BY SafeStep
<1>3. SafeInv /\ [FinalNext]_allVars => [HandsOver]_allVars
  BY StepHandsOver
<1> QED BY <1>1, <1>2, <1>3, PTL DEF FinalSpec, FinalizesUnreachable, HandsOver

-----------------------------------------------------------------------------
(***************************************************************************)
(* What a registration keeps, whatever finalizers do: they may register,   *)
(* store, throw and call others.  An activation of call-finalizers holds   *)
(* its entries in storage that the collector does not scan; only the one   *)
(* being called is in a variable.  So an activation must have one entry.   *)
(***************************************************************************)

\* The functions that activations have to call are among these cells.
Callable(f, cells) == \A j \in DOMAIN f.todo : f.todo[j].fun \in cells

AllCallable(cs, cells) == \A i \in 1 .. Len(cs) : Callable(cs[i], cells)

\* With one activation more.
LEMMA PushCallable ==
  ASSUME NEW cs \in Frames, NEW f \in Frame, NEW cells,
         AllCallable(cs, cells), Callable(f, cells)
  PROVE  AllCallable(Append(cs, f), cells)
<1> DEFINE t == Append(cs, f)
           n == Len(cs) + 1
<1>1. /\ Len(cs) \in Nat /\ Len(t) = n /\ t[n] = f
      /\ \A i \in 1 .. Len(cs) : t[i] = cs[i]
  BY AppendProperties DEF Frames
<1> HIDE DEF t
<1>2. ASSUME NEW i \in 1 .. n PROVE Callable(t[i], cells)
  <2>1. i = n \/ i \in 1 .. Len(cs)
    BY <1>1
  <2> QED BY <1>1, <2>1 DEF AllCallable
<1> QED BY <1>1, <1>2 DEF AllCallable, t

\* With some activations less.
LEMMA PrefixCallable ==
  ASSUME Types, Registered, calls # <<>>, AllCallable(calls, live),
         NEW k \in 0 .. Len(calls) - 1
  PROVE  AllCallable(SubSeq(calls, 1, k), live)
<1> DEFINE t == SubSeq(calls, 1, k)
<1>1. Len(t) = k /\ \A i \in 1 .. k : t[i] = calls[i]
  BY RestFacts
<1>2. Len(calls) \in Nat \ {0}
  BY TopFacts
<1>3. 1 .. k \subseteq 1 .. Len(calls)
  BY <1>2
<1> HIDE DEF t
<1> QED BY <1>1, <1>3 DEF AllCallable, t

\* The innermost activation is left with other entries.
LEMMA SwapCallable ==
  ASSUME calls \in Frames, calls # <<>>, NEW f \in Frame, NEW cells,
         AllCallable(calls, cells), Callable(f, cells)
  PROVE  AllCallable([calls EXCEPT ![Len(calls)] = f], cells)
<1> DEFINE t == [calls EXCEPT ![Len(calls)] = f]
<1>1. /\ Len(t) = Len(calls)
      /\ \A i \in 1 .. Len(calls) : t[i] = IF i = Len(calls) THEN f ELSE calls[i]
  <2>1. Len(calls) \in Nat \ {0} /\ calls \in Seq(Frame)
    BY TopSplit DEF Frames
  <2>2. Len(calls) \in 1 .. Len(calls)
    BY <2>1
  <2> QED BY <2>1, <2>2, ExceptSeq
<1> HIDE DEF t
<1>2. ASSUME NEW i \in 1 .. Len(t) PROVE Callable(t[i], cells)
  BY <1>1 DEF AllCallable
<1> QED BY <1>2 DEF AllCallable, t

\* The invariant.
RegsInv == Types /\ Registered /\ AllCallable(calls, live)

\* A finalizer returns.
LEMMA ReturnCallable == RegsInv /\ Return => AllCallable(calls, live)'
<1> SUFFICES ASSUME RegsInv, Return PROVE AllCallable(calls', live')
  OBVIOUS
<1> DEFINE less == [Top EXCEPT !.todo = Tail(Top.todo)]
<1>1. /\ calls # <<>> /\ live' = live /\ pc = "run"
      /\ calls' = [calls EXCEPT ![Len(calls)] = less]
  BY DEF Return, Top
<1>2. /\ Types /\ Registered /\ AllCallable(calls, live)
      /\ calls \in Frames /\ Len(calls) \in Nat \ {0} /\ Top \in Frame
      /\ Top.todo \in Regs /\ Top.todo # <<>>
  BY <1>1, TopFacts DEF RegsInv
<1>3. /\ Tail(Top.todo) \in Regs
      /\ \A j \in DOMAIN Tail(Top.todo) :
           j + 1 \in DOMAIN Top.todo /\ Tail(Top.todo)[j] = Top.todo[j + 1]
  BY <1>2, HeadTailProperties DEF Regs
<1>4. less \in Frame /\ less.todo = Tail(Top.todo)
  BY <1>2, <1>3 DEF Frame, Regs
<1> HIDE DEF less
<1>5. Callable(Top, live)
  BY <1>2 DEF AllCallable, Top
<1>6. Callable(less, live)
  BY <1>3, <1>4, <1>5 DEF Callable
<1> QED BY <1>1, <1>2, <1>4, <1>6, SwapCallable

\* A round ends.
LEMMA EndRoundCallable == RegsInv /\ EndRound => AllCallable(calls, live)'
<1> SUFFICES ASSUME RegsInv, EndRound PROVE AllCallable(calls', live')
  OBVIOUS
<1> DEFINE found == Only(finals, Again)
           more == [Top EXCEPT !.todo = found]
<1>1. pc = "call" /\ live' = live
  BY DEF EndRound, heapVars
<1>2. found # <<>> => calls' = [calls EXCEPT ![Len(calls)] = more]
  BY DEF EndRound, Top
<1>3. found = <<>> => calls' = SubSeq(calls, 1, Len(calls) - 1)
  BY DEF EndRound
<1>4. calls # <<>> /\ Types /\ Registered /\ AllCallable(calls, live)
  BY <1>1 DEF RegsInv, Registered
<1>5. calls \in Frames /\ Len(calls) \in Nat \ {0} /\ Top \in Frame
  BY <1>4, TopFacts
<1>6. found \in Regs /\ \A j \in DOMAIN found : found[j].fun \in live
  BY <1>4, Sifting DEF Registered
<1>7. CASE found # <<>>
  <2>1. more \in Frame /\ more.todo = found
    BY <1>5, <1>6 DEF Frame, Regs
  <2> HIDE DEF more, found
  <2>2. Callable(more, live)
    BY <1>6, <2>1 DEF Callable
  <2> QED BY <1>1, <1>2, <1>4, <1>5, <1>7, <2>1, <2>2, SwapCallable
<1>8. CASE found = <<>>
  <2> HIDE DEF found
  <2>1. Len(calls) - 1 \in 0 .. Len(calls) - 1
    BY <1>5
  <2> QED BY <1>1, <1>3, <1>4, <1>8, <2>1, PrefixCallable
<1> QED BY <1>7, <1>8

\* call-finalizers takes its entries from the list.
LEMMA CallFinalizersCallable ==
  ASSUME RegsInv, NEW o \in roots, CallFinalizers(o)
  PROVE  AllCallable(calls', live')
<1> DEFINE found == Only(finals, Matching(o))
           f == [todo |-> found, ctx |-> o, saved |-> roots, op |-> Idle, tries |-> 0]
<1>1. calls' = Append(calls, f) /\ live' = live
  BY DEF CallFinalizers, heapVars
<1>2. /\ Types /\ Registered /\ AllCallable(calls, live)
      /\ calls \in Frames /\ FinalRoots \subseteq live
  BY DEF RegsInv, Registered, Types, FinalTypeOK, Frames
<1>3. found \in Regs /\ \A j \in DOMAIN found : found[j].fun \in live
  BY <1>2, Sifting
<1>4. f \in Frame /\ f.todo = found
  <2>1. Idle \in Op /\ roots \in SUBSET Obj /\ o \in Ref
    BY <1>2 DEF Idle, Op, Ref, Types, HeapTypes
  <2> QED BY <1>3, <2>1 DEF Frame, Regs
<1> HIDE DEF f, found
<1>5. Callable(f, live)
  BY <1>3, <1>4 DEF Callable
<1> QED BY <1>1, <1>2, <1>4, <1>5, PushCallable

\* A collection keeps them: those of call_finals are none, for it collects nothing
\* itself; of the others each has its one entry in a variable.
LEMMA FinalGcCallable == RegsInv /\ Single /\ FinalGc => AllCallable(calls, live)'
<1> SUFFICES ASSUME RegsInv, Single, FinalGc PROVE AllCallable(calls', live')
  OBVIOUS
<1>0. /\ Types /\ Registered /\ HeapTypes /\ AllCallable(calls, live)
      /\ finals \in Regs /\ calls \in Frames /\ FinalRoots \subseteq live
      /\ fullGc \in BOOLEAN /\ pressure \in BOOLEAN
      /\ live \subseteq Obj /\ roots \subseteq Obj /\ op \in Op /\ tries \in 0 .. 3
      /\ pc # "call" /\ AllGiven(calls, live)
  BY DEF RegsInv, FinalGc, Types, HeapTypes, FinalTypeOK, Regs, Frames, Registered
<1> DEFINE full == fullGc \/ pressure
<1>1. PICK junk \in SUBSET live :
        LET first  == Marked(full, junk \cup Pinned)
            marked == Marked(full, junk \cup Pinned \cup FinalRoots)
            ready  == Prepared(full, first)
            found  == Only(ready, Unreachable)
        IN  IF GcAborts(full, marked) \/ ~gcEnabled \/ inprogress
              THEN UNCHANGED <<heapVars, finVars>>
              ELSE /\ Collect(full, marked, IF found = <<>> THEN Resume(op) ELSE "call")
                   /\ IF found = <<>> THEN UNCHANGED calls
                      ELSE calls' = Append(calls,
                             [todo |-> found, ctx |-> Nil, saved |-> roots,
                              op |-> op, tries |-> tries])
  BY DEF FinalGc
<1> DEFINE first == Marked(full, junk \cup Pinned)
           given == junk \cup Pinned \cup FinalRoots
           marked == Marked(full, given)
           ready == Prepared(full, first)
           found == Only(ready, Unreachable)
           f == [todo |-> found, ctx |-> Nil, saved |-> roots, op |-> op, tries |-> tries]
           aborts == GcAborts(full, marked) \/ ~gcEnabled \/ inprogress
<1>2. CASE aborts
  <2>1. live' = live /\ calls' = calls
    BY <1>1, <1>2 DEF heapVars, finVars
  <2> QED BY <1>0, <2>1
<1>3. CASE ~aborts
  <2>1. ~GcAborts(full, marked) /\ ~inprogress /\ full \in BOOLEAN
    BY <1>0, <1>3
  <2>2. /\ Collect(full, marked, IF found = <<>> THEN Resume(op) ELSE "call")
        /\ found = <<>> => calls' = calls
        /\ found # <<>> => calls' = Append(calls, f)
    BY <1>1, <1>3
  <2>3. live' = Kept(full, marked)
    BY <2>2 DEF Collect, Kept
  <2>4. given \subseteq Obj
    <3>1. ASSUME NEW i \in DOMAIN calls PROVE PinnedBy(calls[i]) \subseteq Obj
      <4>1. calls[i] \in Frame
        BY <1>0 DEF Frames
      <4>2. calls[i].todo \in Regs /\ calls[i].saved \subseteq Obj /\ calls[i].ctx \in Ref
        BY <4>1 DEF Frame, Regs
      <4>3. calls[i].todo # <<>> => Head(calls[i].todo) \in Entry
        BY <4>2, ManyTail
      <4> QED BY <4>2, <4>3 DEF PinnedBy, Ref, Entry
    <3> QED BY <1>0, <3>1 DEF Pinned
  <2> HIDE DEF marked, aborts, ready, full, given
  <2>5. \A o \in live \cap given : o \in live'
    <3>1. given \in SUBSET Obj
      BY <2>4
    <3> QED BY <1>0, <2>1, <2>3, <3>1, Survives DEF marked
  <2>6. ASSUME NEW i \in 1 .. Len(calls) PROVE Callable(calls[i], live')
    <3> SUFFICES ASSUME NEW j \in DOMAIN calls[i].todo PROVE calls[i].todo[j].fun \in live'
      BY DEF Callable
    <3>1. i \in DOMAIN calls /\ calls[i] \in Frame
      BY <1>0 DEF Frames
    <3>2. calls[i].todo \in Regs /\ calls[i].ctx # Nil
      BY <1>0, <2>1, <3>1 DEF Frame, Regs, Registered, Alone
    <3>3. Len(calls[i].todo) <= 1 /\ Len(calls[i].todo) \in Nat
          /\ DOMAIN calls[i].todo = 1 .. Len(calls[i].todo)
      BY <3>1, <3>2 DEF Single, Regs
    <3>4. j = 1 /\ calls[i].todo # <<>> /\ Head(calls[i].todo) = calls[i].todo[1]
      BY <3>2, <3>3 DEF Regs
    <3>5. calls[i].todo[j].fun \in Pinned
      BY <3>1, <3>4 DEF Pinned, PinnedBy
    <3>6. calls[i].todo[j].fun \in live
      BY <1>0 DEF AllCallable, Callable
    <3> QED BY <2>5, <3>5, <3>6 DEF given
  <2>7. AllCallable(calls, live')
    BY <2>6 DEF AllCallable
  <2>8. CASE found = <<>>
    BY <2>2, <2>7, <2>8
  <2>9. CASE found # <<>>
    <3>1. \A i \in DOMAIN finals : finals[i].obj \in live' /\ finals[i].fun \in live'
      BY <1>0, <2>5 DEF FinalRoots, given
    <3>2. /\ ready \in Regs
          /\ \A i \in DOMAIN ready : ready[i].obj \in live' /\ ready[i].fun \in live'
      BY <1>0, <3>1, PreparedRegs DEF ready
    <3>3. found \in Regs /\ \A j \in DOMAIN found : found[j].fun \in live'
      BY <3>2, SiftingOf
    <3>4. f \in Frame /\ f.todo = found
      BY <1>0, <3>3 DEF Frame, Ref, Regs
    <3> HIDE DEF f, found
    <3>5. Callable(f, live')
      BY <3>3, <3>4 DEF Callable
    <3> QED BY <1>0, <2>2, <2>7, <2>9, <3>4, <3>5, PushCallable
  <2> QED BY <2>8, <2>9
<1> QED BY <1>2, <1>3

\* Every step keeps the invariant.
LEMMA RegsStep ==
  RegsInv /\ Single /\ roots \subseteq live /\ [FinalNext]_allVars => RegsInv'
<1> SUFFICES ASSUME RegsInv, Single, roots \subseteq live, [FinalNext]_allVars
             PROVE  RegsInv'
  OBVIOUS
<1>0. Types /\ Registered /\ AllCallable(calls, live) /\ Types' /\ Registered'
  BY FinalStep DEF RegsInv
<1>1. ASSUME calls' = calls, live \subseteq live' PROVE AllCallable(calls', live')
  BY <1>0, <1>1 DEF AllCallable, Callable
<1>2. AllCallable(calls', live')
  <2>1. CASE UNCHANGED allVars
    BY <1>1, <2>1 DEF allVars, vars, heapVars, finVars
  <2>2. CASE FinalGc
    BY <2>2, FinalGcCallable
  <2>3. CASE CallNext
    BY <1>1, <2>3 DEF CallNext, heapVars, finVars
  <2>4. CASE Return
    BY <2>4, ReturnCallable
  <2>5. CASE EndRound
    BY <2>5, EndRoundCallable
  <2>6. CASE Throw
    <3>1. calls # <<>> /\ live' = live
          /\ \E k \in 0 .. Len(calls) - 1 : calls' = SubSeq(calls, 1, k)
      BY <2>6 DEF Throw, heapVars
    <3> QED BY <1>0, <3>1, PrefixCallable
  <2>7. CASE Allocate \/ Store \/ Other
    BY <1>0, <1>1, <2>7, HeapStepsAreSteps
  <2>8. ASSUME NEW o \in roots, NEW f \in roots, NEW reverse \in BOOLEAN,
               Finalize(o, f, reverse)
        PROVE  AllCallable(calls', live')
    BY <1>1, <2>8 DEF Finalize, vars, heapVars
  <2>9. ASSUME NEW o \in roots, CallFinalizers(o) PROVE AllCallable(calls', live')
    BY <2>9, CallFinalizersCallable
  <2> QED BY <2>1, <2>2, <2>3, <2>4, <2>5, <2>6, <2>7, <2>8, <2>9 DEF FinalNext
<1> QED BY <1>0, <1>2 DEF RegsInv

\* It says more than RegistrationsLive.
LEMMA RegsLive == RegsInv => RegistrationsLive
<1> SUFFICES ASSUME RegsInv PROVE RegistrationsLive
  OBVIOUS
<1>1. /\ FinalRoots \subseteq live /\ AllGiven(calls, live) /\ AllCallable(calls, live)
      /\ DOMAIN calls = 1 .. Len(calls)
  BY DEF RegsInv, Registered, Types, FinalTypeOK
<1>2. ASSUME NEW d \in Detached
      PROVE  {calls[d[1]].todo[d[2]].obj, calls[d[1]].todo[d[2]].fun} \subseteq live
  <2>1. d[1] \in 1 .. Len(calls) /\ d[2] \in DOMAIN calls[d[1]].todo
    BY <1>1 DEF Detached
  <2> QED BY <1>1, <2>1 DEF AllGiven, Given, AllCallable, Callable
<1> QED BY <1>1, <1>2 DEF RegistrationsLive

\* Whatever finalizers do: as long as nothing the program can get at is reclaimed, and
\* call-finalizers is used on objects with one registration each, every registration
\* that waits or has not returned keeps its object and its function.
THEOREM RegistrationsHold ==
  FinalSpec /\ []AccessibleLive /\ []Single => []RegistrationsLive
<1>1. FinalInit => RegsInv
  <2> SUFFICES ASSUME FinalInit PROVE RegsInv
    OBVIOUS
  <2>1. calls = <<>>
    BY DEF FinalInit
  <2>2. AllCallable(calls, live)
    BY <2>1 DEF AllCallable
  <2> QED BY <2>2, FinalInitFits DEF RegsInv
<1>2. RegsInv /\ AccessibleLive /\ Single /\ [FinalNext]_allVars => RegsInv'
  BY RegsStep, RootsLive DEF RegsInv
<1>3. RegsInv => RegistrationsLive
  BY RegsLive
<1> QED BY <1>1, <1>2, <1>3, PTL DEF FinalSpec

-----------------------------------------------------------------------------
(***************************************************************************)
(* What finalizers register waits for the next collection.                 *)
(***************************************************************************)

\* The entries on the list count as reachable.
Wait(s) == \A i \in DOMAIN s : s[i].reachable

\* Taking entries out leaves such a list such a list, and finds no other.
LEMMA SiftWaiting ==
  ASSUME NEW s \in Regs, Wait(s), NEW S
  PROVE  /\ Only(s, S) \in Regs /\ Wait(Only(s, S))
         /\ Only(s, Unreachable) = <<>>
<1>1. /\ Only(s, S) \in Regs
      /\ \A i \in DOMAIN Only(s, S) : \E j \in DOMAIN s : s[j] = Only(s, S)[i]
  BY OnlyThose DEF Regs
<1>2. /\ Only(s, Unreachable) \in Seq(Entry)
      /\ \A i \in DOMAIN Only(s, Unreachable) :
           /\ Only(s, Unreachable)[i] \in Unreachable
           /\ \E j \in DOMAIN s : s[j] = Only(s, Unreachable)[i]
  BY OnlyThose DEF Regs
<1>3. Wait(Only(s, S))
  BY <1>1 DEF Wait
<1>4. DOMAIN Only(s, Unreachable) = {}
  BY <1>2 DEF Wait, Unreachable
<1>5. Only(s, Unreachable) = <<>>
  <2> DEFINE t == Only(s, Unreachable)
  <2>1. t \in Seq(Entry) /\ DOMAIN t = {}
    BY <1>2, <1>4
  <2> HIDE DEF t
  <2>2. DOMAIN t = 1 .. Len(t) /\ Len(t) \in Nat
    BY <2>1, LenProperties
  <2>3. Len(t) = 0
    BY <2>1, <2>2
  <2> QED BY <2>1, <2>3, EmptySeq DEF t
<1> QED BY <1>1, <1>3, <1>5

\* No step puts an entry on the list that counts as unreachable.
LEMMA WaitingStep == Types /\ Registered /\ Wait(finals) /\ FinalTypeOK' /\ [FinalNext]_allVars => Wait(finals)'
<1> SUFFICES ASSUME Types, Registered, Wait(finals), FinalTypeOK', [FinalNext]_allVars
             PROVE  Wait(finals')
  OBVIOUS
<1>1. finals \in Regs
  BY DEF Types, FinalTypeOK, Regs
<1>2. \A S : Wait(Only(finals, S))
  BY <1>1, SiftWaiting
<1>3. CASE FinalGc
  <2>1. PICK first :
          finals' \in {finals, Only(Prepared(fullGc \/ pressure, first), Entry \ Unreachable)}
    BY <1>3 DEF FinalGc, finVars
  <2> DEFINE ready == Prepared(fullGc \/ pressure, first)
  <2>2. \A k \in DOMAIN Only(ready, Entry \ Unreachable) :
          Only(ready, Entry \ Unreachable)[k].reachable
    BY <1>1, PreparedSplit
  <2>3. Wait(Only(ready, Entry \ Unreachable))
    BY <2>2 DEF Wait
  <2> QED BY <2>1, <2>3
<1>4. CASE Return \/ CallNext \/ Throw \/ Allocate \/ Store \/ Other \/ UNCHANGED allVars
  <2>1. finals' = finals
    BY <1>4 DEF Return, CallNext, Throw, Allocate, Store, Other, finVars, allVars
  <2> QED BY <2>1
<1>5. CASE EndRound
  BY <1>2, <1>5 DEF EndRound
<1>6. ASSUME NEW o \in roots, CallFinalizers(o) PROVE Wait(finals')
  BY <1>2, <1>6 DEF CallFinalizers
<1>7. ASSUME NEW o \in roots, NEW f \in roots, NEW reverse \in BOOLEAN,
             Finalize(o, f, reverse)
      PROVE  Wait(finals')
  <2>1. NewEntry(o, f) \in Entry /\ NewEntry(o, f).reachable
    BY DEF NewEntry, Entry, Types, HeapTypes
  <2>2. \A j \in DOMAIN finals' :
          finals'[j] = NewEntry(o, f) \/ \E i \in DOMAIN finals : finals[i] = finals'[j]
    BY <1>1, <1>7, <2>1, NewEntries DEF Finalize, Regs
  <2> QED BY <2>1, <2>2 DEF Wait
<1> QED BY <1>3, <1>4, <1>5, <1>6, <1>7 DEF FinalNext

\* So an activation of call_finals finds no more to call when its round ends.
LEMMA StepShrinks ==
  ASSUME Types, Registered, Wait(finals), [FinalNext]_allVars,
         NEW i \in DOMAIN calls \cap DOMAIN calls',
         calls[i].ctx = Nil, calls'[i].ctx = Nil
  PROVE  Len(calls'[i].todo) <= Len(calls[i].todo)
<1>1. /\ finals \in Regs /\ calls \in Frames /\ DOMAIN calls = 1 .. Len(calls)
      /\ Len(calls) \in Nat /\ i \in 1 .. Len(calls)
  BY LenProperties DEF Types, FinalTypeOK, Regs, Frames
<1>2. calls[i].todo \in Regs /\ Len(calls[i].todo) \in Nat
  <2>1. calls[i] \in Frame
    BY <1>1, ElementOfSeq DEF Frames
  <2> QED BY <2>1, LenProperties DEF Frame, Regs
<1> SUFFICES ASSUME calls'[i] # calls[i]
             PROVE  Len(calls'[i].todo) <= Len(calls[i].todo)
  BY <1>2
<1>3. ASSUME NEW f, calls' = Append(calls, f) PROVE FALSE
  BY <1>1, <1>3 DEF Frames
<1>4. ASSUME NEW k \in 0 .. Len(calls), calls' = SubSeq(calls, 1, k) PROVE FALSE
  <2>1. calls \in Seq(Frame) /\ k \in Int /\ Len(calls') = k /\ DOMAIN calls' = 1 .. k
    BY <1>1, <1>4, ElementOfSeq, SubSeqProperties DEF Frames
  <2>2. calls'[i] = calls[i]
    BY <1>1, <1>4, <2>1, ElementOfSeq, SubSeqProperties DEF Frames
  <2> QED BY <2>2
<1>5. CASE FinalGc
  <2>1. calls' = calls \/ \E f : calls' = Append(calls, f)
    BY <1>5 DEF FinalGc, finVars
  <2> QED BY <1>3, <2>1
<1>6. CASE CallNext \/ Allocate \/ Store \/ Other \/ UNCHANGED allVars
  BY <1>6 DEF CallNext, Allocate, Store, Other, finVars, allVars
<1>7. CASE Return
  <2>1. /\ calls' = [calls EXCEPT ![Len(calls)].todo = Tail(@)]
        /\ pc = "run" /\ calls # <<>>
    BY <1>7 DEF Return
  <2>2. i = Len(calls)
    BY <1>1, <2>1
  <2>3. calls'[i].todo = Tail(calls[i].todo)
    <3>1. calls[i] \in Frame
      BY <1>1, ElementOfSeq DEF Frames
    <3> QED BY <1>1, <2>1, <2>2, <3>1 DEF Frame
  <2>4. calls[i].todo # <<>>
    BY <1>1, <2>1 DEF Registered, Working
  <2>5. Len(Tail(calls[i].todo)) = Len(calls[i].todo) - 1
    BY <1>2, <2>4, HeadTailProperties DEF Regs
  <2> QED BY <1>2, <2>3, <2>5
<1>8. CASE EndRound
  <2>1. \/ calls' = SubSeq(calls, 1, Len(calls) - 1)
        \/ /\ calls' = [calls EXCEPT ![Len(calls)].todo = Only(finals, Again)]
           /\ Only(finals, Again) # <<>>
    BY <1>8 DEF EndRound
  <2>2. calls # <<>>
    BY <1>8 DEF EndRound, Registered
  <2>3. Len(calls) - 1 \in 0 .. Len(calls)
    BY <1>1, <2>2, EmptySeq, LenProperties DEF Frames
  <2>4. CASE calls' = [calls EXCEPT ![Len(calls)].todo = Only(finals, Again)]
    <3>1. i = Len(calls)
      BY <1>1, <2>4
    <3>2. Again = Unreachable
      BY <3>1 DEF Again, Top
    <3> QED BY <1>1, <2>1, <2>3, <1>4, <3>2, SiftWaiting
  <2> QED BY <1>4, <2>1, <2>3, <2>4
<1>9. CASE Throw
  <2>1. \E k \in 0 .. Len(calls) - 1 : calls' = SubSeq(calls, 1, k)
    BY <1>9 DEF Throw
  <2>2. 0 .. Len(calls) - 1 \subseteq 0 .. Len(calls)
    BY <1>1
  <2> QED BY <1>4, <2>1, <2>2
<1>10. ASSUME NEW o \in roots, CallFinalizers(o) PROVE FALSE
  BY <1>3, <1>10 DEF CallFinalizers
<1>11. ASSUME NEW o \in roots, NEW f \in roots, NEW reverse \in BOOLEAN,
              Finalize(o, f, reverse)
       PROVE  FALSE
  BY <1>11 DEF Finalize
<1> QED BY <1>5, <1>6, <1>7, <1>8, <1>9, <1>10, <1>11 DEF FinalNext

\* As long as nothing the program can get at is reclaimed: what a finalizer called by
\* gc() registers, whatever it is, is not called in the same collection, whose list only
\* gets shorter.
THEOREM RegisteredWaits ==
  FinalSpec /\ []AccessibleLive => RoundsShrink
<1> DEFINE Inv == Types /\ Registered /\ Wait(finals)
<1>1. FinalInit => Inv
  <2>1. FinalInit => Wait(finals)
    BY DEF FinalInit, Wait
  <2> QED BY <2>1, FinalInitFits
<1>2. Inv /\ AccessibleLive /\ [FinalNext]_allVars => Inv'
  <2> SUFFICES ASSUME Inv, AccessibleLive, [FinalNext]_allVars PROVE Inv'
    OBVIOUS
  <2>1. Types' /\ Registered'
    BY FinalStep, RootsLive
  <2>2. FinalTypeOK'
    BY <2>1 DEF Types
  <2> QED BY <2>1, <2>2, WaitingStep
<1>3. Inv /\ [FinalNext]_allVars =>
        [\A i \in DOMAIN calls \cap DOMAIN calls' :
           calls[i].ctx = Nil /\ calls'[i].ctx = Nil =>
             Len(calls'[i].todo) <= Len(calls[i].todo)]_allVars
  BY StepShrinks
<1> QED BY <1>1, <1>2, <1>3, PTL DEF FinalSpec, RoundsShrink

=============================================================================
