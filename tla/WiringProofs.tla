---------------------------- MODULE WiringProofs ----------------------------
(***************************************************************************)
(* What is asked of the kernel, for every configuration: proofs about      *)
(* Wiring.                                                                 *)
(*                                                                         *)
(* A plan is joined from lists, one per network and container in order.  A *)
(* list is Good if its requests are for namespaces that Bootstrap was      *)
(* asked for and each of its routes has its interface before it, and Once  *)
(* for a namespace if it gives it at most one default route; None says it  *)
(* gives it none.  Each survives joining (GoodOnto, OnceOnto, NoneOnto),   *)
(* so also a family put in order (Ordered), by induction over how many     *)
(* lists are joined.  The parts of a plan have them (GatewayGood to        *)
(* ContainerGood); what keeps two parts from both giving a container a     *)
(* default is the rule of crossCutting, which counts what ownsDefault asks *)
(* about (SoleDefault).                                                    *)
(*                                                                         *)
(* Carrying the plan out keeps this of the requests to come, and with it   *)
(* that routes made have their interfaces: deletes are over when the first *)
(* interface comes (ClearedFirst), and no request to come would add a      *)
(* second default route where there is one (OneEach).                      *)
(***************************************************************************)
EXTENDS Wiring, TLAPS, SequenceTheorems, FiniteSetTheorems

(* A set of numbers has a least one. *)
LEMMA Least ==
  ASSUME NEW S, S \subseteq Nat, S # {}
  PROVE  \E m \in S : \A k \in S : m <= k
  <1>1. PICK m \in S : \A k \in S : ~(<<k, m>> \in OpToRel(<, Nat))
    BY NatLessThanWellFounded, WFMin
  <1>2. \A k \in S : ~(k < m)
    BY <1>1 DEF OpToRel
  <1> QED  BY <1>2

(* A set with 0 and the successors of its numbers has every number. *)
LEMMA Induction ==
  ASSUME NEW S, 0 \in S, \A n \in Nat : n \in S => n + 1 \in S
  PROVE  Nat \subseteq S
  <1> SUFFICES ASSUME Nat \ S # {} PROVE FALSE
    OBVIOUS
  <1>1. PICK m \in Nat \ S : \A k \in Nat \ S : m <= k
    BY Least
  <1>2. m # 0 /\ m - 1 \in Nat
    BY <1>1
  <1>3. m - 1 \in S
    BY <1>1, <1>2
  <1> QED  BY <1>1, <1>2, <1>3

(* What a family is put in order by: the greatest of its numbers. *)
LEMMA Bounded ==
  ASSUME NEW D, D \subseteq Nat, IsFiniteSet(D)
  PROVE  \E b \in Nat : \A k \in D : k <= b
  <1>1. PICK n \in Nat : ExistsSurjection(1..n, D)
    BY FS_NatSurjection
  <1>2. PICK h \in [1..n -> D] : \A k \in D : \E i \in 1..n : h[i] = k
    BY <1>1 DEF ExistsSurjection, Surjection
  <1> DEFINE S == {m \in Nat : \E b \in Nat : \A i \in 1..n : i <= m => h[i] <= b}
  <1>3. 0 \in S
    <2>1. \A i \in 1..n : i <= 0 => h[i] <= 0
      OBVIOUS
    <2> QED  BY <2>1
  <1>4. ASSUME NEW m \in Nat, m \in S PROVE m + 1 \in S
    <2>1. PICK b \in Nat : \A i \in 1..n : i <= m => h[i] <= b
      BY <1>4
    <2>2. CASE m + 1 \in 1..n
      <3>1. h[m + 1] \in Nat
        BY <1>2, <2>2
      <3> DEFINE c == b + h[m + 1]
      <3>2. c \in Nat
        BY <3>1
      <3>3. \A i \in 1..n : i <= m + 1 => h[i] <= c
        <4> TAKE i \in 1..n
        <4>1. i <= m + 1 => i <= m \/ i = m + 1
          OBVIOUS
        <4>2. h[i] \in Nat
          BY <1>2
        <4> QED  BY <4>1, <4>2, <2>1, <3>1
      <3> HIDE DEF c
      <3> QED  BY <3>2, <3>3
    <2>3. CASE m + 1 \notin 1..n
      <3>1. \A i \in 1..n : i <= m + 1 => i <= m
        BY <2>3
      <3>2. \A i \in 1..n : i <= m + 1 => h[i] <= b
        BY <3>1, <2>1
      <3> QED  BY <3>2
    <2> QED  BY <2>2, <2>3
  <1>5. Nat \subseteq S
    <2> HIDE DEF S
    <2> QED  BY <1>3, <1>4, Induction
  <1>6. PICK b \in Nat : \A i \in 1..n : i <= n => h[i] <= b
    BY <1>5
  <1>7. ASSUME NEW k \in D PROVE k <= b
    <2>1. PICK i \in 1..n : h[i] = k
      BY <1>2
    <2> QED  BY <1>6, <2>1
  <1> QED  BY <1>7

(* Max is what its name says. *)
LEMMA Greatest ==
  ASSUME NEW D, D \subseteq Nat, IsFiniteSet(D), D # {}
  PROVE  Max(D) \in D /\ \A k \in D : k <= Max(D)
  <1>1. PICK b \in Nat : \A k \in D : k <= b
    BY Bounded
  <1> DEFINE T == {b - k : k \in D}
  <1>2. T \subseteq Nat
    BY <1>1
  <1>3. PICK m \in T : \A k \in T : m <= k
    BY <1>2, Least
  <1>4. PICK x \in D : m = b - x
    OBVIOUS
  <1>5. \A k \in D : b - k \in T
    OBVIOUS
  <1>6. \A k \in D : x >= k
    BY <1>3, <1>4, <1>5
  <1>7. \E y \in D : \A k \in D : y >= k
    BY <1>6
  <1>8. Max(D) \in D /\ \A k \in D : Max(D) >= k
    BY <1>7 DEF Max
  <1> QED  BY <1>8

Latest(D) == Max(D \cup {0})

(* The numbers of a family are from 1 to the last. *)
LEMMA LastOf ==
  ASSUME NEW D, Ids(D)
  PROVE  Latest(D) \in Nat /\ \A k \in D : k \in 1..Latest(D)
  <1> DEFINE E == D \cup {0}
  <1>1. IsFiniteSet(E) /\ E \subseteq Nat /\ E # {}
    BY FS_AddElement DEF Ids
  <1>2. Max(E) \in E /\ \A k \in E : k <= Max(E)
    <2> HIDE DEF E
    <2> QED  BY <1>1, Greatest
  <1>3. Latest(D) = Max(E)
    BY DEF Latest
  <1>4. Max(E) \in Nat
    <2> HIDE DEF E
    <2> QED  BY <1>1, <1>2
  <1>5. ASSUME NEW k \in D PROVE k \in 1..Max(E)
    <2>1. k \in E /\ k \in Nat \ {0}
      BY DEF Ids
    <2> HIDE DEF E
    <2> QED  BY <1>2, <1>4, <2>1
  <1> QED  BY <1>3, <1>4, <1>5

------------------------------------------------------------------------------
(* Lists of requests *)

Join(u, s, t) ==
  /\ IsList(u)
  /\ Len(s) \in Nat /\ Len(t) \in Nat
  /\ DOMAIN s = 1..Len(s) /\ DOMAIN t = 1..Len(t)
  /\ DOMAIN u = 1..(Len(s) + Len(t))
  /\ \A i \in DOMAIN s : u[i] = s[i]
  /\ \A i \in DOMAIN t : u[Len(s) + i] = t[i]
  /\ \A i \in DOMAIN u : i \in DOMAIN s \/ \E j \in DOMAIN t : i = Len(s) + j

(* Two lists joined, by their elements. *)
LEMMA Joined ==
  ASSUME NEW s, NEW t, IsList(s), IsList(t)
  PROVE  Join(s \o t, s, t)
  <1> DEFINE U == Range(s) \cup Range(t)
  <1>1. s \in Seq(U) /\ t \in Seq(U)
    BY SeqMonotonic DEF IsList
  <1> HIDE DEF U
  <1>2. /\ Len(s) \in Nat /\ Len(t) \in Nat
        /\ DOMAIN s = 1..Len(s) /\ DOMAIN t = 1..Len(t)
    BY <1>1, LenProperties
  <1>3. /\ s \o t \in Seq(U)
        /\ Len(s \o t) = Len(s) + Len(t)
        /\ \A i \in 1 .. Len(s) + Len(t) : (s \o t)[i] = IF i <= Len(s) THEN s[i] ELSE t[i - Len(s)]
    BY <1>1, ConcatProperties
  <1>4. IsList(s \o t)
    BY <1>3, SeqOfRange DEF IsList
  <1>5. DOMAIN (s \o t) = 1..(Len(s) + Len(t))
    BY <1>3, LenProperties
  <1>6. \A i \in DOMAIN s : (s \o t)[i] = s[i]
    BY <1>2, <1>3
  <1>7. \A i \in DOMAIN t : (s \o t)[Len(s) + i] = t[i]
    BY <1>2, <1>3
  <1>8. ASSUME NEW i \in DOMAIN (s \o t), i \notin DOMAIN s
        PROVE  \E j \in DOMAIN t : i = Len(s) + j
    <2>1. i - Len(s) \in DOMAIN t /\ i = Len(s) + (i - Len(s))
      BY <1>2, <1>5, <1>8
    <2> QED  BY <2>1
  <1> QED  BY <1>2, <1>4, <1>5, <1>6, <1>7, <1>8 DEF Join

IsFlat(g, s, n) == g = [i \in 1..n |-> IF i = 1 THEN s[i] ELSE g[i - 1] \o s[i]]

(* What the fold of FlattenSeq computes at each length. *)
LEMMA FlatIs ==
  ASSUME NEW g, NEW s, NEW n, IsFlat(g, s, n)
  PROVE  \A i \in 1..n : g[i] = IF i = 1 THEN s[i] ELSE g[i - 1] \o s[i]
  <1> DEFINE G(i) == IF i = 1 THEN s[i] ELSE g[i - 1] \o s[i]
             F    == [i \in 1..n |-> G(i)]
  <1>1. g = F
    BY DEF IsFlat
  <1>2. \A i \in 1..n : F[i] = G(i)
    <2> HIDE DEF G
    <2> QED  OBVIOUS
  <1>3. \A i \in 1..n : g[i] = G(i)
    <2> HIDE DEF F, G
    <2> QED  BY <1>1, <1>2
  <1> QED  BY <1>3

(* That function exists, for every number of lists. *)
LEMMA FlatExists ==
  ASSUME NEW s
  PROVE  \A n \in Nat : \E g : IsFlat(g, s, n)
  <1> DEFINE S == {n \in Nat : \E g : IsFlat(g, s, n)}
  <1>1. 0 \in S
    <2> DEFINE g == [i \in 1..0 |-> s]
    <2>1. IsFlat(g, s, 0)
      BY DEF IsFlat
    <2> QED  BY <2>1
  <1>2. ASSUME NEW n \in Nat, n \in S PROVE n + 1 \in S
    <2>1. PICK g : IsFlat(g, s, n)
      BY <1>2
    <2> DEFINE h == [i \in 1..(n + 1) |-> IF i = 1 THEN s[i] ELSE g[i - 1] \o s[i]]
    <2>2. \A i \in 1..n : h[i] = g[i]
      BY <2>1, FlatIs
    <2>3. \A i \in 1..(n + 1) : h[i] = IF i = 1 THEN s[i] ELSE h[i - 1] \o s[i]
      <3> TAKE i \in 1..(n + 1)
      <3>1. CASE i = 1
        BY <3>1
      <3>2. CASE i # 1
        <4>1. i - 1 \in 1..n
          BY <3>2
        <4> QED  BY <3>2, <4>1, <2>2
      <3> QED  BY <3>1, <3>2
    <2>4. IsFlat(h, s, n + 1)
      <3>1. h = [i \in 1..(n + 1) |-> h[i]]
        OBVIOUS
      <3> HIDE DEF h
      <3> QED  BY <2>3, <3>1 DEF IsFlat
    <2> QED  BY <2>4
  <1>3. Nat \subseteq S
    <2> HIDE DEF S
    <2> QED  BY <1>1, <1>2, Induction
  <1> QED  BY <1>3

(* FlattenSeq of a list of lists is its last value. *)
LEMMA Flat ==
  ASSUME NEW s, NEW n \in Nat \ {0}, Len(s) = n
  PROVE  \E g : IsFlat(g, s, n) /\ FlattenSeq(s) = g[n]
  <1> DEFINE g == CHOOSE g : IsFlat(g, s, n)
  <1>1. IsFlat(g, s, n)
    BY FlatExists
  <1>2. FlattenSeq(s) = g[n]
    BY DEF FlattenSeq, IsFlat
  <1> QED  BY <1>1, <1>2

(* A family in order is in a set of lists that concatenation does not leave.
   One member may be in a larger set, where the others change nothing. *)
LEMMA Ordered ==
  ASSUME NEW f, Ids(DOMAIN f), NEW S, NEW T, S \subseteq T, <<>> \in S,
         \A s, t \in S : s \o t \in S,
         \A s \in S, t \in T : s \o t \in T /\ t \o s \in T,
         NEW k, \A i \in DOMAIN f : f[i] \in T /\ (i # k => f[i] \in S)
  PROVE  InOrder(f) \in T
  <1> DEFINE L == Latest(DOMAIN f)
             h == [i \in 1..L |-> If(i \in DOMAIN f, f[i])]
  <1>1. L \in Nat
    BY LastOf
  <1>2. InOrder(f) = FlattenSeq(h)
    BY DEF InOrder, Latest
  <1>3. DOMAIN h = 1..L /\ Len(h) = L
    <2> HIDE DEF L
    <2> QED  BY <1>1
  <1>4. \A i \in 1..L : h[i] \in T /\ (i # k => h[i] \in S)
    <2> HIDE DEF L
    <2> QED  BY DEF If
  <1> HIDE DEF h, L
  <1>5. CASE L = 0
    <2>1. h = <<>>
      <3>1. h = [i \in 1..L |-> If(i \in DOMAIN f, f[i])]
        BY DEF h
      <3>2. \A i \in 1..L : FALSE
        BY <1>5
      <3> QED  BY <3>1, <3>2
    <2>2. FlattenSeq(h) = h
      BY <1>3, <1>5 DEF FlattenSeq
    <2> QED  BY <1>2, <2>1, <2>2
  <1>6. CASE L # 0
    <2>1. PICK g : IsFlat(g, h, L) /\ FlattenSeq(h) = g[L]
      BY <1>1, <1>3, <1>6, Flat
    <2>2. \A i \in 1..L : g[i] = IF i = 1 THEN h[i] ELSE g[i - 1] \o h[i]
      BY <2>1, FlatIs
    <2> DEFINE Early(n) == k \notin 1..n
               N == {n \in Nat : n + 1 \in 1..L =>
                       g[n + 1] \in T /\ (Early(n + 1) => g[n + 1] \in S)}
    <2>3. 0 \in N
      <3>1. 1 \in 1..L => g[1] = h[1]
        BY <2>2
      <3>2. Early(1) => k # 1
        OBVIOUS
      <3> HIDE DEF Early
      <3> QED  BY <3>1, <3>2, <1>4
    <2>4. ASSUME NEW n \in Nat, n \in N, (n + 1) + 1 \in 1..L
          PROVE  g[(n + 1) + 1] \in T /\ (Early((n + 1) + 1) => g[(n + 1) + 1] \in S)
      <3>1. n + 1 \in 1..L /\ (n + 1) + 1 # 1 /\ ((n + 1) + 1) - 1 = n + 1
        BY <2>4, <1>1
      <3>2. g[n + 1] \in T /\ (Early(n + 1) => g[n + 1] \in S)
        BY <2>4, <3>1
      <3>3. g[(n + 1) + 1] = g[n + 1] \o h[(n + 1) + 1]
        BY <2>2, <2>4, <3>1
      <3>4. Early((n + 1) + 1) => Early(n + 1) /\ k # (n + 1) + 1
        OBVIOUS
      <3>5. k = (n + 1) + 1 => Early(n + 1) /\ ~Early((n + 1) + 1)
        OBVIOUS
      <3>6. h[(n + 1) + 1] \in T /\ (k # (n + 1) + 1 => h[(n + 1) + 1] \in S)
        BY <1>4, <2>4
      <3> HIDE DEF Early
      <3>7. CASE k = (n + 1) + 1
        <4>1. g[n + 1] \in S /\ h[(n + 1) + 1] \in T
          BY <3>2, <3>5, <3>6, <3>7
        <4>2. g[n + 1] \o h[(n + 1) + 1] \in T
          BY <4>1
        <4> QED  BY <3>3, <3>5, <3>7, <4>2
      <3>8. CASE k # (n + 1) + 1
        <4>1. h[(n + 1) + 1] \in S
          BY <3>6, <3>8
        <4>2. g[n + 1] \o h[(n + 1) + 1] \in T
          BY <3>2, <4>1
        <4>3. g[n + 1] \in S => g[n + 1] \o h[(n + 1) + 1] \in S
          BY <4>1
        <4> QED  BY <3>2, <3>3, <3>4, <4>2, <4>3
      <3> QED  BY <3>7, <3>8
    <2>5. \A n \in Nat : n \in N => n + 1 \in N
      BY <2>4
    <2>6. Nat \subseteq N
      <3> HIDE DEF N
      <3> QED  BY <2>3, <2>5, Induction
    <2>7. L - 1 \in Nat /\ (L - 1) + 1 = L /\ L \in 1..L
      BY <1>1, <1>6
    <2>8. g[L] \in T
      BY <2>6, <2>7
    <2> QED  BY <1>2, <2>1, <2>8
  <1> QED  BY <1>5, <1>6

(* A family in order has elements of its members only. *)
LEMMA SeqInOrder ==
  ASSUME NEW f, Ids(DOMAIN f), NEW A, \A i \in DOMAIN f : f[i] \in Seq(A)
  PROVE  InOrder(f) \in Seq(A)
  <1> DEFINE S == Seq(A)
  <1>1. <<>> \in S /\ \A s, t \in S : s \o t \in S
    OBVIOUS
  <1>2. \A i \in DOMAIN f : f[i] \in S
    OBVIOUS
  <1> HIDE DEF S
  <1>3. InOrder(f) \in S
    BY <1>1, <1>2, Ordered
  <1> QED  BY <1>3 DEF S

------------------------------------------------------------------------------
(* What a plan's requests have to do with one another *)

End(r)      == <<r.ns, r.dev>>
Gives(r, e) == r.op = "add" /\ (e = End(r) \/ (r.peer # NoEnd /\ e = r.peer))
Default(r)  == r.op = "route" /\ r.dst = Everything /\ r.via # NoAddr

(* Requests for the namespaces D, none of them a delete, and no route without
   its interface, which is in E or was added before. *)
Fine(D, r) == /\ r.op # "del" /\ r.ns \in D
              /\ r.op = "add" => r.peer[1] \in D
Good(D, E, s) ==
  /\ IsList(s)
  /\ \A i \in DOMAIN s :
       /\ Fine(D, s[i])
       /\ s[i].op = "route" => \/ End(s[i]) \in E
                               \/ \E j \in DOMAIN s : j < i /\ Gives(s[j], End(s[i]))

(* No default route in a namespace, and no second one. *)
None(d, s) == IsList(s) /\ \A i \in DOMAIN s : Default(s[i]) => s[i].ns # d
Once(d, s) == IsList(s) /\ \A i, j \in DOMAIN s :
                Default(s[i]) /\ Default(s[j]) /\ s[i].ns = d /\ s[j].ns = d => i = j

(* A list may rely on interfaces that the list before it adds. *)
LEMMA GoodOnto ==
  ASSUME NEW D, NEW E, NEW F, NEW s, NEW t, Good(D, E, s), Good(D, F, t),
         \A e \in F : e \in E \/ \E j \in DOMAIN s : Gives(s[j], e)
  PROVE  Good(D, E, s \o t)
  <1> DEFINE u == s \o t
             Based(r, i) == End(r) \in E \/ \E j \in DOMAIN u : j < i /\ Gives(u[j], End(r))
  <1>1. IsList(s) /\ IsList(t)
    BY DEF Good
  <1>j. Join(u, s, t)
    BY <1>1, Joined
  <1> HIDE DEF u
  <1>2. /\ IsList(u)
        /\ Len(s) \in Nat /\ Len(t) \in Nat
        /\ DOMAIN s = 1..Len(s) /\ DOMAIN t = 1..Len(t)
        /\ DOMAIN u = 1..(Len(s) + Len(t))
        /\ \A i \in DOMAIN s : u[i] = s[i]
        /\ \A i \in DOMAIN t : u[Len(s) + i] = t[i]
        /\ \A i \in DOMAIN u : i \in DOMAIN s \/ \E j \in DOMAIN t : i = Len(s) + j
    BY <1>j DEF Join
  <1>3. ASSUME NEW i \in DOMAIN s
        PROVE  Fine(D, s[i]) /\ (s[i].op = "route" => Based(s[i], i))
    <2>1. Fine(D, s[i])
      BY DEF Good
    <2>2. ASSUME s[i].op = "route", End(s[i]) \notin E PROVE Based(s[i], i)
      <3>1. PICK j \in DOMAIN s : j < i /\ Gives(s[j], End(s[i]))
        BY <2>2 DEF Good
      <3>2. j \in DOMAIN u /\ u[j] = s[j]
        BY <1>2
      <3> QED  BY <3>1, <3>2
    <2> QED  BY <2>1, <2>2
  <1>4. ASSUME NEW i \in DOMAIN t
        PROVE  Fine(D, t[i]) /\ (t[i].op = "route" => Based(t[i], Len(s) + i))
    <2>1. Fine(D, t[i])
      BY DEF Good
    <2>2. ASSUME t[i].op = "route", End(t[i]) \in F PROVE Based(t[i], Len(s) + i)
      <3>1. CASE End(t[i]) \in E
        BY <3>1
      <3>2. CASE \E j \in DOMAIN s : Gives(s[j], End(t[i]))
        <4>1. PICK j \in DOMAIN s : Gives(s[j], End(t[i]))
          BY <3>2
        <4>2. j \in DOMAIN u /\ u[j] = s[j] /\ j < Len(s) + i
          BY <1>2
        <4> QED  BY <4>1, <4>2
      <3> QED  BY <2>2, <3>1, <3>2
    <2>3. ASSUME t[i].op = "route", End(t[i]) \notin F PROVE Based(t[i], Len(s) + i)
      <3>1. PICK j \in DOMAIN t : j < i /\ Gives(t[j], End(t[i]))
        BY <2>3 DEF Good
      <3>2. Len(s) + j \in DOMAIN u /\ u[Len(s) + j] = t[j] /\ Len(s) + j < Len(s) + i
        BY <1>2, <3>1
      <3> QED  BY <3>1, <3>2
    <2> QED  BY <2>1, <2>2, <2>3
  <1>5. ASSUME NEW i \in DOMAIN u
        PROVE  Fine(D, u[i]) /\ (u[i].op = "route" => Based(u[i], i))
    <2> HIDE DEF Based
    <2> QED  BY <1>2, <1>3, <1>4
  <1> QED  BY <1>2, <1>5 DEF Good, u

(* Without a default and without a default. *)
LEMMA NoneOnto ==
  ASSUME NEW d, NEW s, NEW t, None(d, s), None(d, t)
  PROVE  None(d, s \o t)
  <1> DEFINE u == s \o t
  <1>1. Join(u, s, t)
    BY Joined DEF None
  <1> HIDE DEF u
  <1>2. ASSUME NEW i \in DOMAIN u, Default(u[i]) PROVE u[i].ns # d
    BY <1>1, <1>2 DEF None, Join
  <1>3. None(d, u)
    BY <1>1, <1>2 DEF None, Join
  <1> QED  BY <1>3 DEF u

(* At most one default and none. *)
LEMMA OnceOnto ==
  ASSUME NEW d, NEW s, NEW t, None(d, s), Once(d, t)
  PROVE  Once(d, s \o t) /\ Once(d, t \o s)
  <1> DEFINE u == s \o t
             v == t \o s
  <1>1. Join(u, s, t) /\ Join(v, t, s)
    BY Joined DEF None, Once
  <1> HIDE DEF u, v
  <1>2. ASSUME NEW i \in DOMAIN u, Default(u[i]), u[i].ns = d
        PROVE  \E k \in DOMAIN t : i = Len(s) + k /\ u[i] = t[k]
    BY <1>1, <1>2 DEF None, Join
  <1>3. ASSUME NEW i \in DOMAIN v, Default(v[i]), v[i].ns = d
        PROVE  i \in DOMAIN t /\ v[i] = t[i]
    BY <1>1, <1>3 DEF None, Join
  <1>4. \A i, j \in DOMAIN t : Default(t[i]) /\ Default(t[j]) /\ t[i].ns = d /\ t[j].ns = d => i = j
    BY DEF Once
  <1>5. ASSUME NEW i \in DOMAIN u, NEW j \in DOMAIN u,
               Default(u[i]), Default(u[j]), u[i].ns = d, u[j].ns = d
        PROVE  i = j
    <2>1. PICK k \in DOMAIN t : i = Len(s) + k /\ u[i] = t[k]
      BY <1>2, <1>5
    <2>2. PICK l \in DOMAIN t : j = Len(s) + l /\ u[j] = t[l]
      BY <1>2, <1>5
    <2>3. k = l
      BY <1>4, <1>5, <2>1, <2>2
    <2> QED  BY <2>1, <2>2, <2>3
  <1>6. ASSUME NEW i \in DOMAIN v, NEW j \in DOMAIN v,
               Default(v[i]), Default(v[j]), v[i].ns = d, v[j].ns = d
        PROVE  i = j
    BY <1>3, <1>4, <1>6
  <1>7. Once(d, u) /\ Once(d, v)
    BY <1>1, <1>5, <1>6 DEF Once, Join
  <1> QED  BY <1>7 DEF u, v

(* None is at most one. *)
LEMMA NoneIsOnce == ASSUME NEW d, NEW s, None(d, s) PROVE Once(d, s)
  BY DEF None, Once

(* The empty list. *)
LEMMA Nothing ==
  ASSUME NEW D, NEW E, NEW d
  PROVE  IsList(<<>>) /\ Good(D, E, <<>>) /\ None(d, <<>>)
  <1>1. IsList(<<>>)
    BY EmptySeq DEF IsList
  <1>2. DOMAIN <<>> = {}
    OBVIOUS
  <1> QED  BY <1>1, <1>2 DEF Good, None

(* Lists of a family have their elements in one set. *)
LEMMA Common ==
  ASSUME NEW f, \A i \in DOMAIN f : IsList(f[i])
  PROVE  \E U : \A i \in DOMAIN f : f[i] \in Seq(U)
  <1> DEFINE U == UNION {Range(f[i]) : i \in DOMAIN f}
  <1>1. ASSUME NEW i \in DOMAIN f PROVE f[i] \in Seq(U)
    <2>1. f[i] \in Seq(Range(f[i]))
      BY DEF IsList
    <2>2. Range(f[i]) \subseteq U
      OBVIOUS
    <2> HIDE DEF U
    <2> QED  BY <2>1, <2>2, SeqMonotonic
  <1> QED  BY <1>1

(* The same for a family in order. *)
LEMMA GoodInOrder ==
  ASSUME NEW f, Ids(DOMAIN f), NEW D, NEW E, \A i \in DOMAIN f : Good(D, E, f[i])
  PROVE  Good(D, E, InOrder(f))
  <1>1. PICK U : \A i \in DOMAIN f : f[i] \in Seq(U)
    BY Common DEF Good
  <1> DEFINE S == {s \in Seq(U) : Good(D, E, s)}
  <1>2. <<>> \in S
    BY Nothing, EmptySeq
  <1>3. ASSUME NEW s \in S, NEW t \in S PROVE s \o t \in S
    <2>1. s \in Seq(U) /\ t \in Seq(U) /\ Good(D, E, s) /\ Good(D, E, t)
      OBVIOUS
    <2>2. Good(D, E, s \o t)
      BY <2>1, GoodOnto
    <2>3. s \o t \in Seq(U)
      BY <2>1, ConcatProperties
    <2> QED  BY <2>2, <2>3
  <1>4. ASSUME NEW i \in DOMAIN f PROVE f[i] \in S
    BY <1>1
  <1>5. InOrder(f) \in S
    <2> HIDE DEF S
    <2> QED  BY <1>2, <1>3, <1>4, Ordered
  <1> QED  BY <1>5

(* Only one member of the family may have a default. *)
LEMMA OnceInOrder ==
  ASSUME NEW f, Ids(DOMAIN f), NEW d, NEW k,
         \A i \in DOMAIN f : Once(d, f[i]) /\ (i # k => None(d, f[i]))
  PROVE  Once(d, InOrder(f))
  <1>1. PICK U : \A i \in DOMAIN f : f[i] \in Seq(U)
    BY Common DEF Once
  <1> DEFINE S == {s \in Seq(U) : None(d, s)}
             T == {s \in Seq(U) : Once(d, s)}
  <1>2. <<>> \in S
    BY Nothing, EmptySeq
  <1>3. S \subseteq T
    BY NoneIsOnce
  <1>4. \A s, t \in Seq(U) : s \o t \in Seq(U)
    BY ConcatProperties
  <1>5. ASSUME NEW s \in S, NEW t \in S PROVE s \o t \in S
    <2>1. None(d, s \o t)
      BY NoneOnto
    <2> QED  BY <1>4, <2>1
  <1>6. ASSUME NEW s \in S, NEW t \in T PROVE s \o t \in T /\ t \o s \in T
    <2>1. Once(d, s \o t) /\ Once(d, t \o s)
      BY OnceOnto
    <2> QED  BY <1>4, <2>1
  <1>7. ASSUME NEW i \in DOMAIN f PROVE f[i] \in T /\ (i # k => f[i] \in S)
    BY <1>1
  <1>8. InOrder(f) \in T
    <2> HIDE DEF S, T
    <2> QED  BY <1>2, <1>3, <1>5, <1>6, <1>7, Ordered
  <1> QED  BY <1>8

(* No member has one. *)
LEMMA NoneInOrder ==
  ASSUME NEW f, Ids(DOMAIN f), NEW d, \A i \in DOMAIN f : None(d, f[i])
  PROVE  None(d, InOrder(f))
  <1>1. PICK U : \A i \in DOMAIN f : f[i] \in Seq(U)
    BY Common DEF None
  <1> DEFINE S == {s \in Seq(U) : None(d, s)}
  <1>2. <<>> \in S
    BY Nothing, EmptySeq
  <1>3. \A s, t \in Seq(U) : s \o t \in Seq(U)
    BY ConcatProperties
  <1>4. ASSUME NEW s \in S, NEW t \in S PROVE s \o t \in S
    <2>1. None(d, s \o t)
      BY NoneOnto
    <2> QED  BY <1>3, <2>1
  <1>5. ASSUME NEW i \in DOMAIN f PROVE f[i] \in S
    BY <1>1
  <1>6. InOrder(f) \in S
    <2> HIDE DEF S
    <2> QED  BY <1>2, <1>4, <1>5, Ordered
  <1> QED  BY <1>6

(* A list whose every element is good. *)
LEMMA AllGood ==
  ASSUME NEW A, NEW s \in Seq(A), NEW D, NEW E,
         \A r \in A : Fine(D, r) /\ (r.op = "route" => End(r) \in E)
  PROVE  Good(D, E, s)
  <1>1. IsList(s) /\ \A i \in DOMAIN s : s[i] \in A
    BY SeqOfRange, LenProperties, ElementOfSeq DEF IsList
  <1> QED  BY <1>1 DEF Good

(* A list none of whose elements is a default of the namespace. *)
LEMMA AllNone ==
  ASSUME NEW A, NEW s \in Seq(A), NEW d, \A r \in A : Default(r) => r.ns # d
  PROVE  None(d, s)
  <1>1. IsList(s) /\ \A i \in DOMAIN s : s[i] \in A
    BY SeqOfRange, LenProperties, ElementOfSeq DEF IsList
  <1> QED  BY <1>1 DEF None

(* A list that begins by adding the interface of all its routes. *)
LEMMA FirstGood ==
  ASSUME NEW A, NEW s \in Seq(A), s # <<>>, NEW D, s[1].op # "route",
         \A r \in A : Fine(D, r) /\ (r.op = "route" => Gives(s[1], End(r)))
  PROVE  Good(D, {}, s)
  <1>1. IsList(s) /\ DOMAIN s = 1..Len(s) /\ Len(s) \in Nat \ {0} /\ \A i \in DOMAIN s : s[i] \in A
    BY SeqOfRange, LenProperties, ElementOfSeq, EmptySeq DEF IsList
  <1>2. ASSUME NEW i \in DOMAIN s, s[i].op = "route"
        PROVE  \E j \in DOMAIN s : j < i /\ Gives(s[j], End(s[i]))
    <2>1. i # 1
      BY <1>2
    <2>2. 1 \in DOMAIN s /\ 1 < i
      BY <1>1, <2>1
    <2>3. Gives(s[1], End(s[i]))
      BY <1>1, <1>2
    <2> QED  BY <2>2, <2>3
  <1> QED  BY <1>1, <1>2 DEF Good

(* Lists of one and two, and one that may be left out. *)
LEMMA Short ==
  ASSUME NEW A, NEW p \in A, NEW q \in A, NEW b \in BOOLEAN
  PROVE  <<p>> \in Seq(A) /\ <<p, q>> \in Seq(A) /\ If(b, <<p>>) \in Seq(A)
  BY DEF If

Begins(v, p, A) == v \in Seq(A) /\ v # <<>> /\ v[1] = p

(* Lists with a given first element. *)
LEMMA BeginsOne == ASSUME NEW A, NEW p \in A PROVE Begins(<<p>>, p, A)
  BY DEF Begins

(* What is joined behind leaves the first element first. *)
LEMMA BeginsOnto ==
  ASSUME NEW A, NEW p, NEW v, NEW w \in Seq(A), Begins(v, p, A)
  PROVE  Begins(v \o w, p, A)
  <1>1. v \in Seq(A) /\ Len(v) \in Nat \ {0} /\ v[1] = p /\ Len(w) \in Nat
    BY LenProperties, EmptySeq DEF Begins
  <1>2. v \o w \in Seq(A) /\ Len(v \o w) = Len(v) + Len(w) /\ (v \o w)[1] = v[1]
    BY <1>1, ConcatProperties
  <1>3. v \o w # <<>>
    BY <1>1, <1>2, EmptySeq
  <1> QED  BY <1>1, <1>2, <1>3 DEF Begins

(* One request, made or not. *)
LEMMA OneOnce ==
  ASSUME NEW b \in BOOLEAN, NEW r, NEW d
  PROVE  /\ Once(d, If(b, <<r>>))
         /\ (b /\ Default(r) => r.ns # d) => None(d, If(b, <<r>>))
         /\ If(b, <<r>>) \in Seq({r})
  <1>1. CASE b
    <2>1. If(b, <<r>>) = <<r>>
      BY <1>1 DEF If
    <2>2. <<r>> \in Seq({r}) /\ DOMAIN <<r>> = {1} /\ <<r>>[1] = r
      OBVIOUS
    <2>3. IsList(<<r>>)
      BY <2>2, SeqOfRange DEF IsList
    <2>4. Once(d, <<r>>) /\ ((Default(r) => r.ns # d) => None(d, <<r>>))
      BY <2>2, <2>3 DEF Once, None
    <2> QED  BY <1>1, <2>1, <2>2, <2>4
  <1>2. CASE ~b
    <2>1. If(b, <<r>>) = <<>>
      BY <1>2 DEF If
    <2>2. <<>> \in Seq({r})
      OBVIOUS
    <2>3. None(d, <<>>) /\ Once(d, <<>>)
      BY Nothing, NoneIsOnce
    <2> QED  BY <2>1, <2>2, <2>3
  <1> QED  BY <1>1, <1>2

------------------------------------------------------------------------------
(* The requests of each part of a plan *)

(* The requests, by the fields the proofs look at. *)
LEMMA Requests ==
  /\ \A ns, dev, peer : LET r == Add(ns, dev, peer)
                        IN  r.op = "add" /\ r.ns = ns /\ r.dev = dev /\ r.peer = peer
  /\ \A ns, dev, p : Addr(ns, dev, p).op = "addr" /\ Addr(ns, dev, p).ns = ns
  /\ \A ns, dev : Up(ns, dev).op = "up" /\ Up(ns, dev).ns = ns
  /\ \A dev, br : Master(dev, br).op = "master" /\ Master(dev, br).ns = Host
  /\ \A ns, dev, m : Mac(ns, dev, m).op = "mac" /\ Mac(ns, dev, m).ns = ns
  /\ \A ns, dst, dev, via, scope :
       LET r == Route(ns, dst, dev, via, scope)
       IN  r.op = "route" /\ r.ns = ns /\ r.dev = dev /\ r.dst = dst /\ r.via = via
  BY DEF Add, Addr, Up, Master, Mac, Route

(* Namespaces of different networks and containers, and the host's, differ. *)
LEMMA Spaces ==
  /\ \A n : Router(n) # Host /\ \A c : Router(n) # Cont(c)
  /\ \A c : Cont(c) # Host
  /\ \A m, n : Router(m) = Router(n) => m = n
  /\ \A c, d : Cont(c) = Cont(d) => c = d
  /\ NoEnd[1] = Host
  /\ \A c, dev : <<Cont(c), dev>> # NoEnd /\ <<Cont(c), dev>>[1] = Cont(c)
  /\ \A n, dev : <<Router(n), dev>> # NoEnd /\ <<Router(n), dev>>[1] = Router(n)
  BY DEF Router, Cont, Host, NoEnd

(* A route to one address is no default route. *)
LEMMA NotEverything == \A a : Slash32(a) # Everything
  BY LoweringAssumption DEF Slash32, Everything, Prefix

(* The namespaces Bootstrap was asked for, and the host's. *)
Asked(x) == Specs(x) \cup {Host}

(* CreateGateway adds its interface first and no default route. *)
LEMMA GatewayGood ==
  ASSUME NEW x, NEW n \in Networks(x)
  PROVE  Good(Asked(x), {}, CreateGateway(x, n)) /\ \A d : None(d, CreateGateway(x, n))
  <1> DEFINE D == Asked(x)
             r == Router(n)
             dev == x.nets[n].gatewayIf
             a == Add(r, dev, NoEnd)
             b == Addr(r, dev, Slash32(x.nets[n].gateway))
             c == Up(r, dev)
  <1>1. CreateGateway(x, n) = <<a, b, c>>
    BY DEF CreateGateway
  <1>2. r \in D /\ Host \in D
    BY DEF Specs, Asked
  <1>3. /\ Fine(D, a) /\ a.op = "add"
        /\ Fine(D, b) /\ b.op = "addr"
        /\ Fine(D, c) /\ c.op = "up"
    <2> HIDE DEF D, r
    <2> QED  BY <1>2, Requests, Spaces DEF Fine
  <1> HIDE DEF a, b, c, D
  <1> DEFINE A == {a, b, c}
  <1>4. <<a, b, c>> \in Seq(A)
    OBVIOUS
  <1>5. \A q \in A : Fine(D, q) /\ q.op # "route"
    BY <1>3
  <1> HIDE DEF A
  <1>6. Good(D, {}, <<a, b, c>>)
    BY <1>4, <1>5, AllGood
  <1>7. \A d : None(d, <<a, b, c>>)
    BY <1>4, <1>5, AllNone DEF Default
  <1> QED  BY <1>1, <1>6, <1>7 DEF D

(* Connect gives its container a default route only if the attachment owns it. *)
LEMMA ConnectGood ==
  ASSUME NEW x, NEW n \in Networks(x), NEW c \in Containers(x)
  PROVE  /\ Good(Asked(x), {}, Connect(x, n, c))
         /\ \A d : Once(d, Connect(x, n, c))
         /\ \A d : (OwnsDefault(x, n, c) => d # Cont(c)) => None(d, Connect(x, n, c))
  <1> DEFINE D  == Asked(x)
             r  == Router(n)
             k  == Cont(c)
             rd == RouterIf(c)
             kd == x.nets[n].attach[c].interface
             gw == x.nets[n].gateway
             ip == x.nets[n].attach[c].ip
             a1 == Add(r, rd, <<k, kd>>)
             a2 == Up(r, rd)
             a3 == Route(r, Slash32(ip), rd, NoAddr, "link")
             a4 == Addr(k, kd, Slash32(ip))
             a5 == Up(k, kd)
             a6 == Route(k, Slash32(gw), kd, NoAddr, "link")
             a7 == Route(k, Everything, kd, gw, "universe")
             b  == OwnsDefault(x, n, c)
             s  == <<a1, a2, a3, a4, a5, a6>>
             A  == {a1, a2, a3, a4, a5, a6}
  <1>1. Connect(x, n, c) = s \o If(b, <<a7>>)
    BY DEF Connect
  <1>2. r \in D /\ k \in D /\ Host \in D
    BY DEF Specs, Asked
  <1>3. k # Host /\ <<k, kd>> # NoEnd /\ <<k, kd>>[1] = k
    BY Spaces
  <1>4. /\ Fine(D, a1) /\ Gives(a1, <<r, rd>>) /\ Gives(a1, <<k, kd>>) /\ a1.op # "route"
        /\ Fine(D, a2) /\ a2.op # "route"
        /\ Fine(D, a4) /\ a4.op # "route"
        /\ Fine(D, a5) /\ a5.op # "route"
    <2> HIDE DEF D, r, k
    <2> QED  BY <1>2, <1>3, Requests DEF Fine, Gives, End
  <1>5. /\ Fine(D, a3) /\ Gives(a1, End(a3)) /\ ~Default(a3)
        /\ Fine(D, a6) /\ Gives(a1, End(a6)) /\ ~Default(a6)
        /\ Fine(D, a7) /\ End(a7) = <<k, kd>> /\ a7.ns = k
    <2> HIDE DEF D, r, k
    <2>1. a3.op = "route" /\ a3.ns = r /\ a3.dev = rd /\ a3.via = NoAddr
      BY Requests
    <2>2. a6.op = "route" /\ a6.ns = k /\ a6.dev = kd /\ a6.via = NoAddr
      BY Requests
    <2>3. a7.op = "route" /\ a7.ns = k /\ a7.dev = kd
      BY Requests
    <2> HIDE DEF a1, a3, a6, a7
    <2> QED  BY <1>2, <1>4, <2>1, <2>2, <2>3 DEF Fine, End, Default
  <1> HIDE DEF D, k, a1, a2, a3, a4, a5, a6, a7, b
  <1>6. s \in Seq(A) /\ s # <<>> /\ s[1] = a1 /\ 1 \in DOMAIN s
    OBVIOUS
  <1>7. \A q \in A : Fine(D, q) /\ ~Default(q) /\ (q.op = "route" => Gives(a1, End(q)))
    BY <1>4, <1>5 DEF Default
  <1> HIDE DEF s, A
  <1>8. Good(D, {}, s)
    BY <1>4, <1>6, <1>7, FirstGood
  <1>9. \A d : None(d, s)
    BY <1>6, <1>7, AllNone
  <1>10. b \in BOOLEAN
    BY DEF b, OwnsDefault
  <1>11. /\ \A d : Once(d, If(b, <<a7>>)) /\ ((b => d # k) => None(d, If(b, <<a7>>)))
         /\ If(b, <<a7>>) \in Seq({a7})
    BY <1>5, <1>10, OneOnce
  <1>12. Good(D, {<<k, kd>>}, If(b, <<a7>>))
    <2>1. \A q \in {a7} : Fine(D, q) /\ (q.op = "route" => End(q) \in {<<k, kd>>})
      BY <1>5
    <2> QED  BY <1>11, <2>1, AllGood
  <1>13. Good(D, {}, s \o If(b, <<a7>>))
    <2>1. \A e \in {<<k, kd>>} : e \in {} \/ \E j \in DOMAIN s : Gives(s[j], e)
      BY <1>4, <1>6
    <2> QED  BY <1>8, <1>12, <2>1, GoodOnto
  <1>14. \A d : Once(d, s \o If(b, <<a7>>))
    BY <1>9, <1>11, OnceOnto
  <1>15. \A d : (b => d # k) => None(d, s \o If(b, <<a7>>))
    BY <1>9, <1>11, NoneOnto
  <1> QED  BY <1>1, <1>13, <1>14, <1>15 DEF D, k, b

(* HostEdgeConnect gives its router one default route. *)
LEMMA HostEdgeGood ==
  ASSUME NEW x \in Configs, NEW n \in Networks(x)
  PROVE  /\ Good(Asked(x), {}, HostEdgeConnect(x, n))
         /\ \A d : Once(d, HostEdgeConnect(x, n))
         /\ \A d : d # Router(n) => None(d, HostEdgeConnect(x, n))
  <1> DEFINE D  == Asked(x)
             r  == Router(n)
             u  == Uplink(x, n)
             hd == u.hostIf
             rd == u.routerIf
             at == x.nets[n].attach
             a1 == Add(Host, hd, <<r, rd>>)
             a2 == Addr(Host, hd, Prefix(u.link, AddrBits - 1))
             a3 == Up(Host, hd)
             a4 == Addr(r, rd, Prefix(u.link + 1, AddrBits - 1))
             a5 == Up(r, rd)
             a6 == Route(r, Everything, rd, u.link, "universe")
             R(c) == Route(Host, Slash32(at[c].ip), hd, u.link + 1, "universe")
             s  == <<a1, a2, a3, a4, a5, a6>>
             A  == {a1, a2, a3, a4, a5, a6}
             B  == {R(c) : c \in DOMAIN at}
             f  == [c \in DOMAIN at |-> <<R(c)>>]
             t  == InOrder(f)
  <1>1. HostEdgeConnect(x, n) = s \o t
    BY DEF HostEdgeConnect
  <1>2. Ids(DOMAIN f)
    BY WiringAssumption
  <1>3. ASSUME NEW c \in DOMAIN f PROVE f[c] \in Seq(B)
    <2>1. R(c) \in B /\ f[c] = <<R(c)>>
      OBVIOUS
    <2> HIDE DEF R, B, f
    <2> QED  BY <2>1, Short
  <1>4. t \in Seq(B)
    <2> HIDE DEF f, B
    <2> QED  BY <1>2, <1>3, SeqInOrder
  <1>5. r \in D /\ Host \in D
    BY DEF Specs, Asked
  <1>6. r # Host /\ <<r, rd>> # NoEnd /\ <<r, rd>>[1] = r
    BY Spaces
  <1>7. /\ Fine(D, a1) /\ Gives(a1, <<r, rd>>) /\ Gives(a1, <<Host, hd>>) /\ a1.op # "route"
        /\ Fine(D, a2) /\ a2.op # "route"
        /\ Fine(D, a3) /\ a3.op # "route"
        /\ Fine(D, a4) /\ a4.op # "route"
        /\ Fine(D, a5) /\ a5.op # "route"
    <2> HIDE DEF D, r, hd, rd, u
    <2> QED  BY <1>5, <1>6, Requests DEF Fine, Gives, End
  <1>8. Fine(D, a6) /\ Gives(a1, End(a6)) /\ a6.ns = r
    <2> HIDE DEF D, r, rd, hd, u
    <2>1. a6.op = "route" /\ a6.ns = r /\ a6.dev = rd
      BY Requests
    <2> HIDE DEF a1, a6
    <2> QED  BY <1>5, <1>7, <2>1 DEF Fine, End
  <1>9. ASSUME NEW q \in B
        PROVE  Fine(D, q) /\ ~Default(q) /\ End(q) = <<Host, hd>>
    <2>1. PICK c \in DOMAIN at : q = R(c)
      OBVIOUS
    <2> HIDE DEF D, u, hd, at
    <2>2. q.op = "route" /\ q.ns = Host /\ q.dev = hd /\ q.dst = Slash32(at[c].ip)
      BY <2>1, Requests
    <2> QED  BY <1>5, <2>2, NotEverything DEF Fine, Default, End
  <1> HIDE DEF D, r, hd, a1, a2, a3, a4, a5, a6, B, t
  <1>10. s \in Seq(A) /\ s # <<>> /\ s[1] = a1 /\ 1 \in DOMAIN s
    OBVIOUS
  <1>11. \A q \in A : /\ Fine(D, q) /\ (q.op = "route" => Gives(a1, End(q)))
                      /\ Default(q) => q.ns = r
    BY <1>7, <1>8 DEF Default
  <1>12. \A i \in DOMAIN s : Default(s[i]) => i = 6
    BY <1>7 DEF Default
  <1> HIDE DEF s, A
  <1>13. Good(D, {}, s)
    BY <1>7, <1>10, <1>11, FirstGood
  <1>14. \A d : Once(d, s)
    BY <1>10, <1>12, SeqOfRange DEF Once, IsList
  <1>15. \A d : d # r => None(d, s)
    BY <1>10, <1>11, AllNone
  <1>16. Good(D, {<<Host, hd>>}, t) /\ \A d : None(d, t)
    BY <1>4, <1>9, AllGood, AllNone
  <1>17. Good(D, {}, s \o t)
    <2>1. \A e \in {<<Host, hd>>} : e \in {} \/ \E j \in DOMAIN s : Gives(s[j], e)
      BY <1>7, <1>10
    <2> QED  BY <1>13, <1>16, <2>1, GoodOnto
  <1>18. \A d : Once(d, s \o t)
    BY <1>14, <1>16, OnceOnto
  <1>19. \A d : d # r => None(d, s \o t)
    BY <1>15, <1>16, NoneOnto
  <1> QED  BY <1>1, <1>17, <1>18, <1>19 DEF D, r

(* What a link is decoded to. *)
LEMMA LinkDecoded ==
  ASSUME NEW x \in Configs, NEW c \in Containers(x), NEW i \in DOMAIN x.links[c]
  PROVE  LET l == x.links[c][i]
         IN  /\ l.name \in Seq(STRING) /\ l.address \in Subnets /\ l.gateway \in Addresses \cup {NoAddr}
             /\ l.routes \in Seq(Subnets)
  <1>1. x.links[c][i] \in Range(x.links[c])
    BY DEF Range
  <1> QED  BY <1>1, WiringAssumption

(* LinkConnect gives its container a default only if the link asks for it. *)
LEMMA LinkGood ==
  ASSUME NEW x \in Configs, NEW c \in Containers(x), NEW i \in DOMAIN x.links[c]
  PROVE  /\ Good(Asked(x), {}, LinkConnect(x, c, i))
         /\ \A d : Once(d, LinkConnect(x, c, i))
         /\ \A d : (x.links[c][i].default => d # Cont(c)) => None(d, LinkConnect(x, c, i))
  <1> DEFINE D  == Asked(x)
             l  == x.links[c][i]
             h  == LinkHostIf(c, l)
             k  == Cont(c)
             kd == l.name
             a1 == Add(Host, h, <<k, kd>>)
             a2 == Master(h, l.bridge)
             a3 == Up(Host, h)
             a4 == Mac(k, kd, l.mac)
             a5 == Addr(k, kd, l.address)
             a6 == Up(k, kd)
             R(j) == Route(k, l.routes[j], kd, NoAddr, "universe")
             a7 == Route(k, Everything, kd, l.gateway, "universe")
             b  == l.default /\ l.gateway # NoAddr
             B  == {R(j) : j \in DOMAIN l.routes}
             A  == {a1, a2, a3, a4, a5, a6} \cup B
             t  == [j \in DOMAIN l.routes |-> R(j)]
             s  == <<a1>> \o If(l.bridge # <<>>, <<a2>>) \o <<a3>> \o If(l.mac # "", <<a4>>)
                   \o <<a5, a6>> \o t
  <1>1. LinkConnect(x, c, i) = s \o If(b, <<a7>>)
    BY DEF LinkConnect
  <1>2. k \in D /\ Host \in D
    BY DEF Specs, Asked
  <1>3. k # Host /\ <<k, kd>> # NoEnd /\ <<k, kd>>[1] = k
    BY Spaces
  <1>4. /\ Fine(D, a1) /\ Gives(a1, <<k, kd>>) /\ a1.op # "route"
        /\ Fine(D, a2) /\ a2.op # "route"
        /\ Fine(D, a3) /\ a3.op # "route"
        /\ Fine(D, a4) /\ a4.op # "route"
        /\ Fine(D, a5) /\ a5.op # "route"
        /\ Fine(D, a6) /\ a6.op # "route"
    <2> HIDE DEF D, k, h, l
    <2> QED  BY <1>2, <1>3, Requests DEF Fine, Gives, End
  <1>5. ASSUME NEW q \in B
        PROVE  Fine(D, q) /\ Gives(a1, End(q)) /\ ~Default(q)
    <2>1. PICK j \in DOMAIN l.routes : q = R(j)
      OBVIOUS
    <2> HIDE DEF D, k, h, l
    <2>2. q.op = "route" /\ q.ns = k /\ q.dev = kd /\ q.via = NoAddr
      BY <2>1, Requests
    <2> HIDE DEF a1
    <2> QED  BY <1>2, <1>4, <2>2 DEF Fine, End, Default
  <1>6. Fine(D, a7) /\ End(a7) = <<k, kd>> /\ a7.ns = k
    <2> HIDE DEF D, k, l
    <2>1. a7.op = "route" /\ a7.ns = k /\ a7.dev = kd
      BY Requests
    <2> HIDE DEF a7
    <2> QED  BY <1>2, <2>1 DEF Fine, End
  <1>7. t \in Seq(A)
    <2>1. l.routes \in Seq(Subnets)
      BY LinkDecoded
    <2>2. DOMAIN l.routes = 1..Len(l.routes) /\ Len(l.routes) \in Nat
      BY <2>1, LenProperties
    <2>3. \A j \in 1..Len(l.routes) : R(j) \in A
      BY <2>2
    <2> HIDE DEF R, A, l
    <2> QED  BY <2>2, <2>3
  <1> HIDE DEF D, k, h, l, a1, a2, a3, a4, a5, a6, a7, b, B, t
  <1>8. /\ a1 \in A /\ <<a1>> \in Seq(A) /\ <<a3>> \in Seq(A) /\ <<a5, a6>> \in Seq(A)
        /\ If(l.bridge # <<>>, <<a2>>) \in Seq(A) /\ If(l.mac # "", <<a4>>) \in Seq(A)
    <2>1. a1 \in A /\ a2 \in A /\ a3 \in A /\ a4 \in A /\ a5 \in A /\ a6 \in A
      BY DEF A
    <2>2. (l.bridge # <<>>) \in BOOLEAN /\ (l.mac # "") \in BOOLEAN
      OBVIOUS
    <2> HIDE DEF A
    <2> QED  BY <2>1, <2>2, Short
  <1>9. \A q \in A : Fine(D, q) /\ ~Default(q) /\ (q.op = "route" => Gives(a1, End(q)))
    BY <1>4, <1>5 DEF Default
  <1> HIDE DEF A
  <1> DEFINE m1 == If(l.bridge # <<>>, <<a2>>)
             m2 == If(l.mac # "", <<a4>>)
             m3 == <<a5, a6>>
  <1>10. s \in Seq(A) /\ s # <<>> /\ s[1] = a1 /\ 1 \in DOMAIN s
    <2>1. s = <<a1>> \o m1 \o <<a3>> \o m2 \o m3 \o t
      OBVIOUS
    <2> HIDE DEF m1, m2, m3, s
    <2>2. Begins(<<a1>>, a1, A)
      BY <1>8, BeginsOne
    <2>3. Begins(<<a1>> \o m1, a1, A)
      BY <1>8, <2>2, BeginsOnto DEF m1
    <2>4. Begins(<<a1>> \o m1 \o <<a3>>, a1, A)
      BY <1>8, <2>3, BeginsOnto
    <2>5. Begins(<<a1>> \o m1 \o <<a3>> \o m2, a1, A)
      BY <1>8, <2>4, BeginsOnto DEF m2
    <2>6. Begins(<<a1>> \o m1 \o <<a3>> \o m2 \o m3, a1, A)
      BY <1>8, <2>5, BeginsOnto DEF m3
    <2>7. Begins(s, a1, A)
      BY <1>7, <2>1, <2>6, BeginsOnto
    <2> QED  BY <2>7, LenProperties, EmptySeq DEF Begins
  <1> HIDE DEF s
  <1>11. Good(D, {}, s)
    BY <1>4, <1>9, <1>10, FirstGood
  <1>12. \A d : None(d, s)
    BY <1>9, <1>10, AllNone
  <1>13. b \in BOOLEAN /\ (b => l.default)
    BY DEF b
  <1>14. /\ \A d : Once(d, If(b, <<a7>>)) /\ ((b => d # k) => None(d, If(b, <<a7>>)))
         /\ If(b, <<a7>>) \in Seq({a7})
    BY <1>6, <1>13, OneOnce
  <1>15. Good(D, {<<k, kd>>}, If(b, <<a7>>))
    <2>1. \A q \in {a7} : Fine(D, q) /\ (q.op = "route" => End(q) \in {<<k, kd>>})
      BY <1>6
    <2> QED  BY <1>14, <2>1, AllGood
  <1>16. Good(D, {}, s \o If(b, <<a7>>))
    <2>1. \A e \in {<<k, kd>>} : e \in {} \/ \E j \in DOMAIN s : Gives(s[j], e)
      BY <1>4, <1>10
    <2> QED  BY <1>11, <1>15, <2>1, GoodOnto
  <1>17. \A d : Once(d, s \o If(b, <<a7>>))
    BY <1>12, <1>14, OnceOnto
  <1>18. \A d : (l.default => d # k) => None(d, s \o If(b, <<a7>>))
    BY <1>12, <1>13, <1>14, NoneOnto
  <1> QED  BY <1>1, <1>16, <1>17, <1>18 DEF D, k, l

------------------------------------------------------------------------------
(* One default for a container, wherever it comes from *)

(* Two members of a set of at most one. *)
LEMMA AtMostOne ==
  ASSUME NEW S, IsFiniteSet(S), Cardinality(S) <= 1, NEW p \in S, NEW q \in S
  PROVE  p = q
  <1> SUFFICES ASSUME p # q PROVE FALSE
    OBVIOUS
  <1>1. Cardinality(S) \in Nat /\ IsFiniteSet(S \ {p}) /\ Cardinality(S \ {p}) = Cardinality(S) - 1
    BY FS_RemoveElement, FS_CardinalityType
  <1>2. Cardinality(S \ {p}) \in Nat /\ (Cardinality(S \ {p}) = 0 <=> S \ {p} = {})
    BY <1>1, FS_EmptySet, FS_CardinalityType
  <1>3. q \in S \ {p}
    OBVIOUS
  <1> QED  BY <1>1, <1>2, <1>3

(* The links and networks of a container, as sets of numbers. *)
LEMMA LinksAre ==
  ASSUME NEW x \in Configs, NEW c \in Containers(x)
  PROVE  /\ LinksOf(x, c) = x.links[c]
         /\ Len(x.links[c]) \in Nat /\ DOMAIN x.links[c] = 1..Len(x.links[c])
         /\ Ids(DOMAIN x.links[c])
         /\ NetsOf(x, c) \subseteq Networks(x) /\ IsFiniteSet(NetsOf(x, c))
  <1>1. LinksOf(x, c) = x.links[c]
    BY DEF LinksOf
  <1>2. Len(x.links[c]) \in Nat /\ DOMAIN x.links[c] = 1..Len(x.links[c])
    BY WiringAssumption, LenProperties DEF IsList
  <1>3. Ids(DOMAIN x.links[c])
    <2> DEFINE m == Len(x.links[c])
    <2>1. 1 \in Int /\ m \in Int /\ 1..m \subseteq Nat \ {0}
      BY <1>2
    <2>2. IsFiniteSet(1..m)
      BY <2>1, FS_Interval
    <2> QED  BY <1>2, <2>1, <2>2 DEF Ids
  <1>4. NetsOf(x, c) \subseteq Networks(x) /\ IsFiniteSet(Networks(x))
    BY WiringAssumption DEF NetsOf, Ids
  <1>5. IsFiniteSet(NetsOf(x, c))
    BY <1>4, FS_Subset
  <1> QED  BY <1>1, <1>2, <1>3, <1>4, <1>5

Tagged(tag, S) == {<<tag, i>> : i \in S}

(* A finite set, with a tag on each member. *)
LEMMA TagFinite ==
  ASSUME NEW S, IsFiniteSet(S), NEW tag
  PROVE  IsFiniteSet(Tagged(tag, S))
  <1> DEFINE T == Tagged(tag, S)
             f == [i \in S |-> <<tag, i>>]
  <1>1. f \in Surjection(S, T)
    BY DEF Surjection, Tagged
  <1> HIDE DEF f, T
  <1>2. IsFiniteSet(T)
    BY <1>1, FS_Surjection
  <1> QED  BY <1>2 DEF T

(* A container has finitely many interfaces. *)
LEMMA IfacesFinite ==
  ASSUME NEW x \in Configs, NEW c \in Containers(x)
  PROVE  IsFiniteSet(Ifaces(x, c))
  <1>1. IsFiniteSet(DOMAIN LinksOf(x, c)) /\ IsFiniteSet(NetsOf(x, c))
    BY LinksAre DEF Ids
  <1>2. IsFiniteSet(Tagged("link", DOMAIN LinksOf(x, c))) /\ IsFiniteSet(Tagged("net", NetsOf(x, c)))
    BY <1>1, TagFinite
  <1>3. Ifaces(x, c) = Tagged("link", DOMAIN LinksOf(x, c)) \cup Tagged("net", NetsOf(x, c))
    BY DEF Ifaces, Tagged
  <1> QED  BY <1>2, <1>3, FS_Union

(* The rule of one default as the plan needs it. *)
LEMMA SoleDefault ==
  ASSUME NEW x \in Configs, Accepted(x), NEW c \in Containers(x)
  PROVE  /\ \A m, n \in NetsOf(x, c) : OwnsDefault(x, m, c) /\ OwnsDefault(x, n, c) => m = n
         /\ \A n \in NetsOf(x, c) : OwnsDefault(x, n, c) =>
              \A i \in DOMAIN x.links[c] : ~x.links[c][i].default
         /\ \A i, j \in DOMAIN x.links[c] : x.links[c][i].default /\ x.links[c][j].default => i = j
  <1> DEFINE ls == x.links[c]
             D  == {i \in Ifaces(x, c) : IfaceDefault(x, c, i)}
  <1>1. /\ LinksOf(x, c) = ls /\ Len(ls) \in Nat /\ DOMAIN ls = 1..Len(ls)
        /\ IsFiniteSet(NetsOf(x, c))
    BY LinksAre
  <1>2. IsFiniteSet(D) /\ Cardinality(D) <= 1
    <2>1. IsFiniteSet(D)
      <3>1. D \subseteq Ifaces(x, c)
        OBVIOUS
      <3> HIDE DEF D
      <3> QED  BY <3>1, IfacesFinite, FS_Subset
    <2>2. Cardinality(D) <= 1
      BY DEF Accepted, Validate, CrossCutting, OneDefault
    <2> QED  BY <2>1, <2>2
  <1>3. ASSUME NEW n \in NetsOf(x, c), x.nets[n].attach[c].default
        PROVE  <<"net", n>> \in D
    BY <1>3 DEF Ifaces, IfaceDefault
  <1>4. ASSUME NEW i \in DOMAIN ls, ls[i].default
        PROVE  <<"link", i>> \in D
    BY <1>1, <1>4 DEF Ifaces, IfaceDefault
  <1>5. ASSUME NEW n \in NetsOf(x, c), InterfaceCount(x, c) = 1
        PROVE  Len(ls) = 0 /\ \A m \in NetsOf(x, c) : m = n
    <2>1. Cardinality(NetsOf(x, c)) \in Nat
      BY <1>1, FS_CardinalityType
    <2>2. Cardinality(NetsOf(x, c)) # 0
      BY <1>1, <1>5, FS_EmptySet
    <2>3. Len(ls) + Cardinality(NetsOf(x, c)) = 1
      BY <1>1, <1>5 DEF InterfaceCount
    <2>4. Len(ls) = 0 /\ Cardinality(NetsOf(x, c)) <= 1
      BY <1>1, <2>1, <2>2, <2>3
    <2> QED  BY <1>1, <2>4, AtMostOne
  <1> HIDE DEF D
  <1>6. ASSUME NEW m \in NetsOf(x, c), NEW n \in NetsOf(x, c), OwnsDefault(x, m, c), OwnsDefault(x, n, c)
        PROVE  m = n
    <2>1. CASE InterfaceCount(x, c) = 1
      BY <1>5, <2>1
    <2>2. CASE x.nets[m].attach[c].default /\ x.nets[n].attach[c].default
      <3>1. <<"net", m>> = <<"net", n>>
        BY <1>2, <1>3, <2>2, AtMostOne
      <3> QED  BY <3>1
    <2> QED  BY <1>6, <2>1, <2>2 DEF OwnsDefault
  <1>7. ASSUME NEW n \in NetsOf(x, c), OwnsDefault(x, n, c), NEW i \in DOMAIN ls, ls[i].default
        PROVE  FALSE
    <2>1. CASE InterfaceCount(x, c) = 1
      BY <1>1, <1>5, <2>1
    <2>2. CASE x.nets[n].attach[c].default
      <3>1. <<"net", n>> = <<"link", i>>
        BY <1>2, <1>3, <1>4, <1>7, <2>2, AtMostOne
      <3> QED  BY <3>1
    <2> QED  BY <1>7, <2>1, <2>2 DEF OwnsDefault
  <1>8. ASSUME NEW i \in DOMAIN ls, NEW j \in DOMAIN ls, ls[i].default, ls[j].default
        PROVE  i = j
    <2>1. <<"link", i>> = <<"link", j>>
      BY <1>2, <1>4, <1>8, AtMostOne
    <2> QED  BY <2>1
  <1> QED  BY <1>6, <1>7, <1>8

------------------------------------------------------------------------------
(* The whole plan *)

(* What holds of a list holds of it left out. *)
LEMMA IfAlso ==
  ASSUME NEW b \in BOOLEAN, NEW s, NEW D, NEW E
  PROVE  /\ Good(D, E, s) => Good(D, E, If(b, s))
         /\ \A d : None(d, s) => None(d, If(b, s))
         /\ \A d : Once(d, s) => Once(d, If(b, s))
         /\ \A d : ~b => None(d, If(b, s))
  <1>1. Good(D, E, <<>>) /\ \A d : None(d, <<>>) /\ Once(d, <<>>)
    BY Nothing, NoneIsOnce
  <1>2. If(b, s) = IF b THEN s ELSE <<>>
    BY DEF If
  <1> QED  BY <1>1, <1>2

(* ApplyNetwork: defaults for its router and those whose default it owns. *)
LEMMA NetworkGood ==
  ASSUME NEW x \in Configs, Accepted(x), NEW n \in Networks(x)
  PROVE  /\ Good(Asked(x), {}, ApplyNetwork(x, n))
         /\ \A d : Once(d, ApplyNetwork(x, n))
         /\ \A d : d # Router(n) /\ (\A c \in DOMAIN x.nets[n].attach : OwnsDefault(x, n, c) => d # Cont(c))
               => None(d, ApplyNetwork(x, n))
  <1> DEFINE D  == Asked(x)
             at == DOMAIN x.nets[n].attach
             g  == CreateGateway(x, n)
             f  == [c \in at |-> Connect(x, n, c)]
             b  == n \in Uplinked(x)
             h  == If(b, HostEdgeConnect(x, n))
  <1>1. ApplyNetwork(x, n) = g \o InOrder(f) \o h
    BY DEF ApplyNetwork
  <1>2. Ids(DOMAIN f)
    BY WiringAssumption
  <1>3. DOMAIN f = at /\ \A c \in DOMAIN f : f[c] = Connect(x, n, c)
    OBVIOUS
  <1>4. \A c \in at : c \in Containers(x)
    BY DEF Accepted, Validate, CrossCutting, Known
  <1>5. Good(D, {}, g) /\ \A d : None(d, g)
    BY GatewayGood
  <1> HIDE DEF g, f, at
  <1>6. \A c \in DOMAIN f : /\ Good(D, {}, f[c])
                            /\ \A d : Once(d, f[c])
                            /\ \A d : (OwnsDefault(x, n, c) => d # Cont(c)) => None(d, f[c])
    BY <1>3, <1>4, ConnectGood
  <1>7. Good(D, {}, InOrder(f))
    BY <1>2, <1>6, GoodInOrder
  <1>8. ASSUME NEW d PROVE Once(d, InOrder(f))
    <2> DEFINE k == CHOOSE c \in at : d = Cont(c)
    <2>1. \A c \in DOMAIN f : c # k => d # Cont(c)
      <3>1. ASSUME NEW c \in at, d = Cont(c) PROVE c = k
        <4>1. k \in at /\ d = Cont(k)
          BY <3>1
        <4> QED  BY <3>1, <4>1, Spaces
      <3> QED  BY <3>1, <1>3
    <2> HIDE DEF k
    <2>2. \A c \in DOMAIN f : Once(d, f[c]) /\ (c # k => None(d, f[c]))
      BY <2>1, <1>6
    <2> QED  BY <1>2, <2>2, OnceInOrder
  <1>9. ASSUME NEW d, \A c \in at : OwnsDefault(x, n, c) => d # Cont(c)
        PROVE  None(d, InOrder(f))
    <2>1. \A c \in DOMAIN f : None(d, f[c])
      BY <1>3, <1>6, <1>9
    <2> QED  BY <1>2, <2>1, NoneInOrder
  <1>10. b \in BOOLEAN
    OBVIOUS
  <1>11. /\ Good(D, {}, HostEdgeConnect(x, n))
         /\ \A d : Once(d, HostEdgeConnect(x, n))
         /\ \A d : d # Router(n) => None(d, HostEdgeConnect(x, n))
    BY HostEdgeGood
  <1> HIDE DEF b
  <1>12. Good(D, {}, h) /\ (\A d : Once(d, h)) /\ (\A d : d # Router(n) => None(d, h))
    BY <1>10, <1>11, IfAlso
  <1> HIDE DEF h
  <1>13. Good(D, {}, g \o InOrder(f) \o h)
    <2>1. Good(D, {}, g \o InOrder(f))
      BY <1>5, <1>7, GoodOnto
    <2> QED  BY <1>12, <2>1, GoodOnto
  <1>14. ASSUME NEW d PROVE Once(d, g \o InOrder(f) \o h)
    <2>1. CASE d = Router(n)
      <3>1. \A c \in at : OwnsDefault(x, n, c) => d # Cont(c)
        BY <2>1, Spaces
      <3>2. None(d, g \o InOrder(f))
        BY <1>5, <1>9, <3>1, NoneOnto
      <3> QED  BY <1>12, <3>2, OnceOnto
    <2>2. CASE d # Router(n)
      <3>1. Once(d, g \o InOrder(f))
        BY <1>5, <1>8, OnceOnto
      <3> QED  BY <1>12, <2>2, <3>1, OnceOnto
    <2> QED  BY <2>1, <2>2
  <1>15. ASSUME NEW d, d # Router(n), \A c \in at : OwnsDefault(x, n, c) => d # Cont(c)
         PROVE  None(d, g \o InOrder(f) \o h)
    <2>1. None(d, g \o InOrder(f))
      BY <1>5, <1>9, <1>15, NoneOnto
    <2> QED  BY <1>12, <1>15, <2>1, NoneOnto
  <1> QED  BY <1>1, <1>13, <1>14, <1>15 DEF at

(* ApplyContainer: a default for its container if one of its links is it. *)
LEMMA ContainerGood ==
  ASSUME NEW x \in Configs, Accepted(x), NEW c \in Containers(x)
  PROVE  /\ Good(Asked(x), {}, ApplyContainer(x, c))
         /\ \A d : Once(d, ApplyContainer(x, c))
         /\ \A d : d # Cont(c) \/ (\A i \in DOMAIN x.links[c] : ~x.links[c][i].default)
               => None(d, ApplyContainer(x, c))
  <1> DEFINE D  == Asked(x)
             ls == x.links[c]
             f  == [i \in DOMAIN ls |-> LinkConnect(x, c, i)]
  <1>1. ApplyContainer(x, c) = InOrder(f)
    BY DEF ApplyContainer
  <1>2. DOMAIN f = DOMAIN ls /\ \A i \in DOMAIN f : f[i] = LinkConnect(x, c, i)
    OBVIOUS
  <1>3. Ids(DOMAIN f)
    BY <1>2, LinksAre
  <1> HIDE DEF f
  <1>4. \A i \in DOMAIN f : /\ Good(D, {}, f[i])
                            /\ \A d : Once(d, f[i])
                            /\ \A d : (ls[i].default => d # Cont(c)) => None(d, f[i])
    BY <1>2, LinkGood
  <1>5. Good(D, {}, InOrder(f))
    BY <1>3, <1>4, GoodInOrder
  <1>6. ASSUME NEW d PROVE Once(d, InOrder(f))
    <2> DEFINE k == CHOOSE i \in DOMAIN f : ls[i].default
    <2>1. \A i \in DOMAIN f : i # k => ~ls[i].default
      <3>1. ASSUME NEW i \in DOMAIN f, ls[i].default PROVE i = k
        <4>1. k \in DOMAIN f /\ ls[k].default
          BY <3>1
        <4> HIDE DEF k
        <4> QED  BY <1>2, <3>1, <4>1, SoleDefault
      <3> QED  BY <3>1
    <2> HIDE DEF k
    <2>2. \A i \in DOMAIN f : Once(d, f[i]) /\ (i # k => None(d, f[i]))
      BY <2>1, <1>4
    <2> QED  BY <1>3, <2>2, OnceInOrder
  <1>7. ASSUME NEW d, d # Cont(c) \/ \A i \in DOMAIN ls : ~ls[i].default
        PROVE  None(d, InOrder(f))
    <2>1. \A i \in DOMAIN f : None(d, f[i])
      BY <1>2, <1>4, <1>7
    <2> QED  BY <1>3, <2>1, NoneInOrder
  <1> QED  BY <1>1, <1>5, <1>6, <1>7

(* Deletes first, then a good list. *)
Sound(D, s) ==
  /\ IsList(s)
  /\ \A i \in DOMAIN s :
       \/ s[i].op = "del" /\ s[i].ns \in D /\ \A j \in DOMAIN s : j < i => s[j].op = "del"
       \/ /\ Fine(D, s[i])
          /\ s[i].op = "route" => \E j \in DOMAIN s : j < i /\ Gives(s[j], End(s[i]))

(* Deletes stay in front when a list without any is joined behind. *)
LEMMA SoundOnto ==
  ASSUME NEW D, NEW s, NEW t, Sound(D, s), Good(D, {}, t)
  PROVE  Sound(D, s \o t)
  <1> DEFINE u == s \o t
  <1>1. Join(u, s, t)
    BY Joined DEF Sound, Good
  <1> HIDE DEF u
  <1>2. ASSUME NEW i \in DOMAIN s
        PROVE  \/ u[i].op = "del" /\ u[i].ns \in D /\ \A j \in DOMAIN u : j < i => u[j].op = "del"
               \/ /\ Fine(D, u[i])
                  /\ u[i].op = "route" => \E j \in DOMAIN u : j < i /\ Gives(u[j], End(u[i]))
    <2>1. u[i] = s[i] /\ i \in Nat
      BY <1>1 DEF Join
    <2>2. ASSUME NEW j \in DOMAIN u, j < i PROVE j \in DOMAIN s /\ u[j] = s[j]
      BY <1>1, <2>1, <2>2 DEF Join
    <2>3. \A j \in DOMAIN s : j \in DOMAIN u /\ u[j] = s[j]
      BY <1>1 DEF Join
    <2> QED  BY <2>1, <2>2, <2>3 DEF Sound
  <1>3. ASSUME NEW i \in DOMAIN t
        PROVE  /\ Fine(D, t[i])
               /\ t[i].op = "route" => \E j \in DOMAIN u : j < Len(s) + i /\ Gives(u[j], End(t[i]))
    <2>1. ASSUME NEW j \in DOMAIN t, j < i
          PROVE  Len(s) + j \in DOMAIN u /\ u[Len(s) + j] = t[j] /\ Len(s) + j < Len(s) + i
      BY <1>1, <2>1 DEF Join
    <2> QED  BY <2>1 DEF Good
  <1>4. \A i \in DOMAIN u : i \in DOMAIN s \/ \E k \in DOMAIN t : i = Len(s) + k /\ u[i] = t[k]
    BY <1>1 DEF Join
  <1>5. Sound(D, u)
    BY <1>1, <1>2, <1>3, <1>4 DEF Sound, Join
  <1> QED  BY <1>5 DEF u

(* ClearHostEdge deletes and adds nothing. *)
LEMMA ClearSound ==
  ASSUME NEW x \in Configs
  PROVE  Sound(Asked(x), ClearHostEdge(x)) /\ \A d : None(d, ClearHostEdge(x))
  <1> DEFINE f == [n \in Uplinked(x) |-> <<Del(Uplink(x, n).hostIf)>>]
             A == {Del(Uplink(x, n).hostIf) : n \in Uplinked(x)}
  <1>1. Ids(Uplinked(x))
    <2>1. Ids(Networks(x)) /\ Uplinked(x) \subseteq Networks(x)
      BY WiringAssumption DEF Uplinked
    <2> QED  BY <2>1, FS_Subset DEF Ids
  <1>2. ASSUME NEW n \in Uplinked(x) PROVE f[n] \in Seq(A)
    <2> DEFINE q == Del(Uplink(x, n).hostIf)
    <2>1. f[n] = <<q>> /\ q \in A
      OBVIOUS
    <2> HIDE DEF q, A, f
    <2> QED  BY <2>1, Short
  <1>3. ClearHostEdge(x) \in Seq(A)
    <2>1. ClearHostEdge(x) = InOrder(f) /\ DOMAIN f = Uplinked(x)
      BY DEF ClearHostEdge
    <2> HIDE DEF f, A
    <2> QED  BY <1>1, <1>2, <2>1, SeqInOrder
  <1>4. \A q \in A : q.op = "del" /\ q.ns \in Asked(x)
    BY DEF Del, Asked
  <1> HIDE DEF A
  <1> DEFINE s == ClearHostEdge(x)
  <1>5. IsList(s) /\ \A i \in DOMAIN s : s[i] \in A
    BY <1>3, SeqOfRange, LenProperties, ElementOfSeq DEF IsList
  <1> HIDE DEF s
  <1>6. Sound(Asked(x), s)
    BY <1>4, <1>5 DEF Sound
  <1>7. \A d : None(d, s)
    BY <1>4, <1>5 DEF None, Default
  <1> QED  BY <1>6, <1>7 DEF s

(* Loopbacks only brings them up. *)
LEMMA LoopbacksGood ==
  ASSUME NEW x \in Configs
  PROVE  Good(Asked(x), {}, Loopbacks(x)) /\ \A d : None(d, Loopbacks(x))
  <1> DEFINE f == [n \in Networks(x) |-> <<Up(Router(n), Lo)>>]
             g == [c \in Containers(x) |-> <<Up(Cont(c), Lo)>>]
             A == {Up(s, Lo) : s \in Specs(x)}
  <1>1. Ids(Networks(x)) /\ Ids(Containers(x))
    BY WiringAssumption
  <1>2. ASSUME NEW n \in Networks(x) PROVE f[n] \in Seq(A)
    <2> DEFINE q == Up(Router(n), Lo)
    <2>1. f[n] = <<q>> /\ q \in A
      BY DEF Specs
    <2> HIDE DEF q, A, f
    <2> QED  BY <2>1, Short
  <1>3. ASSUME NEW c \in Containers(x) PROVE g[c] \in Seq(A)
    <2> DEFINE q == Up(Cont(c), Lo)
    <2>1. g[c] = <<q>> /\ q \in A
      BY DEF Specs
    <2> HIDE DEF q, A, g
    <2> QED  BY <2>1, Short
  <1>4. Loopbacks(x) = InOrder(f) \o InOrder(g) /\ DOMAIN f = Networks(x) /\ DOMAIN g = Containers(x)
    BY DEF Loopbacks
  <1>5. \A q \in A : Fine(Asked(x), q) /\ q.op # "route"
    <2> SUFFICES ASSUME NEW s \in Specs(x) PROVE Fine(Asked(x), Up(s, Lo)) /\ Up(s, Lo).op # "route"
      OBVIOUS
    <2>1. Up(s, Lo).op = "up" /\ Up(s, Lo).ns = s
      BY Requests
    <2> QED  BY <2>1 DEF Fine, Asked
  <1> HIDE DEF f, g, A
  <1>6. InOrder(f) \in Seq(A) /\ InOrder(g) \in Seq(A)
    BY <1>1, <1>2, <1>3, <1>4, SeqInOrder
  <1>7. Loopbacks(x) \in Seq(A)
    BY <1>4, <1>6, ConcatProperties
  <1>8. Good(Asked(x), {}, Loopbacks(x))
    BY <1>5, <1>7, AllGood
  <1>9. \A d : None(d, Loopbacks(x))
    BY <1>5, <1>7, AllNone DEF Default
  <1> QED  BY <1>8, <1>9

(* The plan of an accepted configuration: deletes first, then lists that
   are good, with one default for a namespace at most. *)
LEMMA PlanSound ==
  ASSUME NEW x \in Configs, Accepted(x)
  PROVE  Sound(Asked(x), ApplyPlan(x)) /\ \A d : Once(d, ApplyPlan(x))
  <1> DEFINE D == Asked(x)
             p == ClearHostEdge(x) \o Loopbacks(x)
             f == [n \in Networks(x) |-> ApplyNetwork(x, n)]
             g == [c \in Containers(x) |-> ApplyContainer(x, c)]
  <1>1. ApplyPlan(x) = p \o InOrder(f) \o InOrder(g)
    BY DEF ApplyPlan
  <1>2. /\ DOMAIN f = Networks(x) /\ DOMAIN g = Containers(x)
        /\ \A n \in DOMAIN f : f[n] = ApplyNetwork(x, n)
        /\ \A c \in DOMAIN g : g[c] = ApplyContainer(x, c)
    OBVIOUS
  <1>3. Ids(DOMAIN f) /\ Ids(DOMAIN g)
    BY <1>2, WiringAssumption
  <1>4. Sound(D, p) /\ \A d : None(d, p)
    BY ClearSound, LoopbacksGood, SoundOnto, NoneOnto
  <1> HIDE DEF p, f, g
  <1>5. \A n \in DOMAIN f :
          /\ Good(D, {}, f[n])
          /\ \A d : Once(d, f[n])
          /\ \A d : d # Router(n) /\ (\A c \in DOMAIN x.nets[n].attach : OwnsDefault(x, n, c) => d # Cont(c))
                => None(d, f[n])
    BY <1>2, NetworkGood
  <1>6. \A c \in DOMAIN g :
          /\ Good(D, {}, g[c])
          /\ \A d : Once(d, g[c])
          /\ \A d : d # Cont(c) \/ (\A i \in DOMAIN x.links[c] : ~x.links[c][i].default) => None(d, g[c])
    BY <1>2, ContainerGood
  <1>7. Sound(D, p \o InOrder(f) \o InOrder(g))
    <2>1. Good(D, {}, InOrder(f)) /\ Good(D, {}, InOrder(g))
      BY <1>3, <1>5, <1>6, GoodInOrder
    <2>2. Sound(D, p \o InOrder(f))
      BY <1>4, <2>1, SoundOnto
    <2> QED  BY <2>1, <2>2, SoundOnto
  <1>8. ASSUME NEW d, NEW k, \A n \in DOMAIN f : n # k => None(d, f[n]), None(d, InOrder(g))
        PROVE  Once(d, p \o InOrder(f) \o InOrder(g))
    <2>1. Once(d, InOrder(f))
      BY <1>3, <1>5, <1>8, OnceInOrder
    <2>2. Once(d, p \o InOrder(f))
      BY <1>4, <2>1, OnceOnto
    <2> QED  BY <1>8, <2>2, OnceOnto
  <1>9. ASSUME NEW d PROVE Once(d, p \o InOrder(f) \o InOrder(g))
    <2>1. CASE \E n \in Networks(x) : d = Router(n)
      <3>1. PICK n \in Networks(x) : d = Router(n)
        BY <2>1
      <3>2. \A m \in DOMAIN f : m # n => None(d, f[m])
        BY <1>5, <3>1, Spaces
      <3>3. None(d, InOrder(g))
        <4>1. \A c \in DOMAIN g : None(d, g[c])
          BY <1>6, <3>1, Spaces
        <4> QED  BY <1>3, <4>1, NoneInOrder
      <3> QED  BY <1>8, <3>2, <3>3
    <2>2. CASE \E n \in Networks(x), c \in Containers(x) :
                 c \in DOMAIN x.nets[n].attach /\ OwnsDefault(x, n, c) /\ d = Cont(c)
      <3>1. PICK n \in Networks(x), c \in Containers(x) :
                   c \in DOMAIN x.nets[n].attach /\ OwnsDefault(x, n, c) /\ d = Cont(c)
        BY <2>2
      <3>2. n \in NetsOf(x, c)
        BY <3>1 DEF NetsOf
      <3>3. ASSUME NEW m \in DOMAIN f, m # n PROVE None(d, f[m])
        <4>1. ASSUME NEW e \in DOMAIN x.nets[m].attach, OwnsDefault(x, m, e), d = Cont(e) PROVE FALSE
          <5>1. e = c
            BY <3>1, <4>1, Spaces
          <5>2. m \in NetsOf(x, c) /\ OwnsDefault(x, m, c)
            BY <1>2, <4>1, <5>1 DEF NetsOf
          <5> QED  BY <3>1, <3>2, <3>3, <5>2, SoleDefault
        <4>2. d # Router(m)
          BY <3>1, Spaces
        <4> QED  BY <1>5, <4>1, <4>2
      <3>4. ASSUME NEW e \in DOMAIN g PROVE None(d, g[e])
        <4>1. CASE e = c
          <5>1. \A i \in DOMAIN x.links[c] : ~x.links[c][i].default
            BY <3>1, <3>2, SoleDefault
          <5> QED  BY <1>6, <4>1, <5>1
        <4>2. CASE e # c
          BY <1>6, <3>1, <4>2, Spaces
        <4> QED  BY <4>1, <4>2
      <3>5. None(d, InOrder(g))
        BY <1>3, <3>4, NoneInOrder
      <3> QED  BY <1>8, <3>3, <3>5
    <2>3. CASE /\ ~\E n \in Networks(x) : d = Router(n)
               /\ ~\E n \in Networks(x), c \in Containers(x) :
                     c \in DOMAIN x.nets[n].attach /\ OwnsDefault(x, n, c) /\ d = Cont(c)
      <3>1. \A n \in Networks(x) : \A c \in DOMAIN x.nets[n].attach : c \in Containers(x)
        BY DEF Accepted, Validate, CrossCutting, Known
      <3>2. \A n \in DOMAIN f : None(d, f[n])
        BY <1>2, <1>5, <2>3, <3>1
      <3>3. None(d, p \o InOrder(f))
        <4>1. None(d, InOrder(f))
          BY <1>3, <3>2, NoneInOrder
        <4> QED  BY <1>4, <4>1, NoneOnto
      <3> DEFINE k == CHOOSE c \in DOMAIN g : d = Cont(c)
      <3>4. ASSUME NEW c \in DOMAIN g, c # k PROVE None(d, g[c])
        <4>1. ASSUME d = Cont(c) PROVE c = k
          <5>1. k \in DOMAIN g /\ d = Cont(k)
            BY <4>1
          <5> HIDE DEF k
          <5> QED  BY <4>1, <5>1, Spaces
        <4>2. d # Cont(c)
          BY <3>4, <4>1
        <4> QED  BY <1>6, <4>2
      <3> HIDE DEF k
      <3>5. Once(d, InOrder(g))
        BY <1>3, <1>6, <3>4, OnceInOrder
      <3> QED  BY <3>3, <3>5, OnceOnto
    <2> QED  BY <2>1, <2>2, <2>3
  <1> QED  BY <1>1, <1>7, <1>9

------------------------------------------------------------------------------
(* Carrying it out *)

Asks(r)     == r.ns \in Asked(cfg) /\ (r.op = "add" => r.peer[1] \in Asked(cfg))
Leads(q, d) == q.ns = d /\ q.dst = Everything /\ q.via # NoAddr

Typed == /\ cfg \in Configs /\ refused \in BOOLEAN /\ (refused => todo # <<>>)
         /\ IsList(todo) /\ \A i \in DOMAIN todo : Asks(todo[i])

(* Deletes come before anything that they could undo. *)
ClearedFirst == \A i \in DOMAIN todo : todo[i].op = "del" =>
                  /\ routes = {}
                  /\ \A j \in DOMAIN todo : j < i => todo[j].op = "del"

(* A route's interface is there, or it is still to be added before it. *)
Grounded ==
  /\ \A r \in routes : There(r.ns, r.dev)
  /\ \A i \in DOMAIN todo : todo[i].op = "route" =>
       \/ There(todo[i].ns, todo[i].dev) /\ \A j \in DOMAIN todo : todo[j].op # "del"
       \/ \E j \in DOMAIN todo : j < i /\ Gives(todo[j], End(todo[i]))

(* One default route for a namespace, to come or added. *)
OneEach ==
  \A i \in DOMAIN todo : Default(todo[i]) =>
    /\ \A j \in DOMAIN todo : Default(todo[j]) /\ todo[j].ns = todo[i].ns => j = i
    /\ \A q \in routes : ~Leads(q, todo[i].ns)

IInv == Typed /\ ClearedFirst /\ Grounded /\ OneEach

(* The whole plan to come and nothing made: the invariant. *)
LEMMA InitIInv == Init => IInv
  <1> SUFFICES ASSUME Init PROVE IInv
    OBVIOUS
  <1>1. cfg \in Configs /\ Accepted(cfg) /\ todo = ApplyPlan(cfg) /\ routes = {} /\ refused = FALSE
    BY DEF Init
  <1>2. Sound(Asked(cfg), todo) /\ \A d : Once(d, todo)
    BY <1>1, PlanSound
  <1>3. Typed
    BY <1>1, <1>2 DEF Typed, Sound, Fine, Asks
  <1>4. ClearedFirst
    BY <1>1, <1>2 DEF ClearedFirst, Sound, Fine
  <1>5. Grounded
    BY <1>1, <1>2 DEF Grounded, Sound
  <1>6. OneEach
    BY <1>1, <1>2 DEF OneEach, Once
  <1> QED  BY <1>3, <1>4, <1>5, <1>6 DEF IInv

(* What is left to do after a request. *)
LEMMA Moves ==
  ASSUME NEW op, IInv, Request(op)
  PROVE  /\ 1 \in DOMAIN todo /\ Head(todo) = todo[1] /\ todo[1].op = op
         /\ IsList(todo')
         /\ \A i \in DOMAIN todo' : i \in Nat /\ i + 1 \in DOMAIN todo /\ todo'[i] = todo[i + 1]
         /\ \A i \in DOMAIN todo : i \in Nat /\ (i # 1 => i - 1 \in DOMAIN todo')
         /\ ~refused /\ refused' = refused /\ cfg' = cfg
  <1> DEFINE S == Range(todo)
  <1>1. todo \in Seq(S) /\ todo # <<>>
    BY DEF IInv, Typed, IsList, Request
  <1> HIDE DEF S
  <1>2. Len(todo) \in Nat \ {0} /\ DOMAIN todo = 1..Len(todo)
    BY <1>1, EmptySeq, LenProperties
  <1>3. /\ Tail(todo) \in Seq(S)
        /\ Len(Tail(todo)) = Len(todo) - 1
        /\ \A i \in 1..Len(Tail(todo)) : Tail(todo)[i] = todo[i + 1]
        /\ DOMAIN Tail(todo) = 1..Len(Tail(todo))
    BY <1>1, HeadTailProperties, LenProperties
  <1>4. todo' = Tail(todo) /\ Head(todo).op = op /\ ~refused /\ refused' = refused /\ cfg' = cfg
    BY DEF Request
  <1>5. Head(todo) = todo[1]
    BY <1>1
  <1>6. IsList(todo')
    BY <1>3, <1>4, SeqOfRange DEF IsList
  <1> QED  BY <1>2, <1>3, <1>4, <1>5, <1>6

ThereNext(ns, dev) == \E i \in ifs' : i.ns = ns /\ i.name = dev
Puts(r, q) == q.ns = r.ns /\ q.dst = r.dst /\ q.dev = r.dev /\ q.via = r.via

(* A request that is no delete leaves none; it may bring interfaces and may
   add the route at hand. *)
LEMMA Advances ==
  ASSUME NEW op, IInv, Request(op), op # "del", ifs \subseteq ifs',
         \A e : Gives(todo[1], e) => ThereNext(e[1], e[2]),
         \A q \in routes' : q \in routes \/ (op = "route" /\ Puts(todo[1], q))
  PROVE  IInv'
  <1>1. /\ 1 \in DOMAIN todo /\ todo[1].op = op
        /\ IsList(todo')
        /\ \A i \in DOMAIN todo' : i \in Nat /\ i + 1 \in DOMAIN todo /\ todo'[i] = todo[i + 1]
        /\ \A i \in DOMAIN todo : i \in Nat /\ (i # 1 => i - 1 \in DOMAIN todo')
        /\ ~refused /\ refused' = refused /\ cfg' = cfg
    BY Moves
  <1>2. \A ns, dev : There(ns, dev) => ThereNext(ns, dev)
    BY DEF There, ThereNext
  <1>3. \A i \in DOMAIN todo : todo[i].op # "del"
    <2> SUFFICES ASSUME NEW i \in DOMAIN todo, todo[i].op = "del" PROVE FALSE
      OBVIOUS
    <2>1. \A j \in DOMAIN todo : j < i => todo[j].op = "del"
      BY DEF IInv, ClearedFirst
    <2>2. i # 1
      BY <1>1
    <2>3. 1 < i
      <3>1. i \in DOMAIN todo /\ todo \in Seq(Range(todo))
        BY DEF IInv, Typed, IsList
      <3>2. i \in 1..Len(todo) /\ Len(todo) \in Nat
        BY <3>1, LenProperties
      <3> QED  BY <2>2, <3>2
    <2> QED  BY <1>1, <2>1, <2>3
  <1>4. Typed'
    <2>1. \A i \in DOMAIN todo' : Asks(todo[i + 1])
      BY <1>1 DEF IInv, Typed
    <2>2. \A i \in DOMAIN todo' : Asks(todo[i])'
      BY <1>1, <2>1 DEF Asks
    <2> QED  BY <1>1, <2>2 DEF IInv, Typed
  <1>5. ClearedFirst'
    BY <1>1, <1>3 DEF ClearedFirst
  <1>6. Grounded'
    <2>1. ASSUME NEW r \in routes' PROVE ThereNext(r.ns, r.dev)
      <3>1. CASE r \in routes
        BY <1>2, <3>1 DEF IInv, Grounded
      <3>2. CASE op = "route" /\ Puts(todo[1], r)
        <4>1. ~\E j \in DOMAIN todo : j < 1
          <5>1. todo \in Seq(Range(todo))
            BY DEF IInv, Typed, IsList
          <5>2. DOMAIN todo = 1..Len(todo) /\ Len(todo) \in Nat
            BY <5>1, LenProperties
          <5> QED  BY <5>2
        <4>2. There(todo[1].ns, todo[1].dev)
          BY <1>1, <3>2, <4>1 DEF IInv, Grounded
        <4> QED  BY <1>2, <3>2, <4>2 DEF Puts
      <3> QED  BY <3>1, <3>2
    <2>2. ASSUME NEW i \in DOMAIN todo', todo'[i].op = "route"
          PROVE  \/ ThereNext(todo'[i].ns, todo'[i].dev) /\ \A j \in DOMAIN todo' : todo'[j].op # "del"
                 \/ \E j \in DOMAIN todo' : j < i /\ Gives(todo'[j], End(todo'[i]))
      <3> DEFINE r == todo[i + 1]
      <3>1. i + 1 \in DOMAIN todo /\ todo'[i] = r /\ r.op = "route" /\ i \in Nat
        BY <1>1, <2>2
      <3>2. \A j \in DOMAIN todo' : todo'[j].op # "del"
        BY <1>1, <1>3
      <3> HIDE DEF r
      <3>3. CASE There(r.ns, r.dev)
        BY <1>2, <3>1, <3>2, <3>3
      <3>4. CASE \E j \in DOMAIN todo : j < i + 1 /\ Gives(todo[j], End(r))
        <4>1. PICK j \in DOMAIN todo : j < i + 1 /\ Gives(todo[j], End(r))
          BY <3>4
        <4>2. CASE j = 1
          <5>1. ThereNext(End(r)[1], End(r)[2])
            BY <4>1, <4>2
          <5>2. ThereNext(r.ns, r.dev)
            BY <5>1 DEF End
          <5> QED  BY <3>1, <3>2, <5>2
        <4>3. CASE j # 1
          <5>1. j \in Nat /\ j - 1 \in DOMAIN todo' /\ todo'[j - 1] = todo[(j - 1) + 1]
            BY <1>1, <4>3
          <5>2. (j - 1) + 1 = j /\ j - 1 < i
            BY <3>1, <4>1, <5>1
          <5> QED  BY <3>1, <4>1, <5>1, <5>2
        <4> QED  BY <4>2, <4>3
      <3>5. There(r.ns, r.dev) \/ \E j \in DOMAIN todo : j < i + 1 /\ Gives(todo[j], End(r))
        BY <3>1 DEF IInv, Grounded, r
      <3> QED  BY <3>3, <3>4, <3>5
    <2> QED  BY <2>1, <2>2 DEF Grounded, There, ThereNext
  <1>7. OneEach'
    <2> SUFFICES ASSUME NEW i \in DOMAIN todo', Default(todo'[i])
                 PROVE  /\ \A j \in DOMAIN todo' : Default(todo'[j]) /\ todo'[j].ns = todo'[i].ns => j = i
                        /\ \A q \in routes' : ~Leads(q, todo'[i].ns)
      BY DEF OneEach
    <2>1. i \in Nat /\ i + 1 \in DOMAIN todo /\ todo'[i] = todo[i + 1] /\ Default(todo[i + 1])
      BY <1>1
    <2>2. ASSUME NEW j \in DOMAIN todo', Default(todo'[j]), todo'[j].ns = todo'[i].ns PROVE j = i
      <3>1. j \in Nat /\ j + 1 \in DOMAIN todo /\ todo'[j] = todo[j + 1]
        BY <1>1
      <3>2. j + 1 = i + 1
        BY <2>1, <2>2, <3>1 DEF IInv, OneEach
      <3> QED  BY <2>1, <3>1, <3>2
    <2>3. ASSUME NEW q \in routes', Leads(q, todo'[i].ns) PROVE FALSE
      <3>1. CASE q \in routes
        BY <2>1, <2>3, <3>1 DEF IInv, OneEach
      <3>2. CASE op = "route" /\ Puts(todo[1], q)
        <4>1. Default(todo[1]) /\ todo[1].ns = todo[i + 1].ns
          BY <1>1, <2>1, <2>3, <3>2 DEF Default, Leads, Puts
        <4>2. 1 = i + 1
          BY <1>1, <2>1, <4>1 DEF IInv, OneEach
        <4>3. todo' \in Seq(Range(todo'))
          BY <1>1 DEF IsList
        <4>4. i \in 1..Len(todo') /\ Len(todo') \in Nat
          BY <4>3, LenProperties
        <4> QED  BY <4>2, <4>4
      <3> QED  BY <3>1, <3>2
    <2> QED  BY <2>2, <2>3
  <1> QED  BY <1>4, <1>5, <1>6, <1>7 DEF IInv

(* A delete comes before every route. *)
LEMMA DelNext ==
  ASSUME IInv, LinkDel
  PROVE  IInv'
  <1>1. /\ 1 \in DOMAIN todo /\ todo[1].op = "del"
        /\ IsList(todo')
        /\ \A i \in DOMAIN todo' : i \in Nat /\ i + 1 \in DOMAIN todo /\ todo'[i] = todo[i + 1]
        /\ \A i \in DOMAIN todo : i \in Nat /\ (i # 1 => i - 1 \in DOMAIN todo')
        /\ ~refused /\ refused' = refused /\ cfg' = cfg
    BY Moves DEF LinkDel
  <1>2. routes' = routes /\ routes = {}
    BY <1>1 DEF LinkDel, IInv, ClearedFirst
  <1>3. Typed'
    <2>1. \A i \in DOMAIN todo' : Asks(todo[i + 1])
      BY <1>1 DEF IInv, Typed
    <2>2. \A i \in DOMAIN todo' : Asks(todo[i])'
      BY <1>1, <2>1 DEF Asks
    <2> QED  BY <1>1, <2>2 DEF IInv, Typed
  <1>4. ClearedFirst'
    <2> SUFFICES ASSUME NEW i \in DOMAIN todo', todo'[i].op = "del", NEW j \in DOMAIN todo', j < i
                 PROVE  todo'[j].op = "del"
      BY <1>2 DEF ClearedFirst
    <2>1. i + 1 \in DOMAIN todo /\ todo[i + 1].op = "del" /\ j + 1 \in DOMAIN todo /\ j + 1 < i + 1
      BY <1>1
    <2> QED  BY <1>1, <2>1 DEF IInv, ClearedFirst
  <1>5. Grounded'
    <2> SUFFICES ASSUME NEW i \in DOMAIN todo', todo'[i].op = "route"
                 PROVE  \E j \in DOMAIN todo' : j < i /\ Gives(todo'[j], End(todo'[i]))
      BY <1>2 DEF Grounded
    <2>1. i + 1 \in DOMAIN todo /\ todo'[i] = todo[i + 1] /\ todo[i + 1].op = "route" /\ i \in Nat
      BY <1>1
    <2>2. PICK j \in DOMAIN todo : j < i + 1 /\ Gives(todo[j], End(todo[i + 1]))
      BY <1>1, <2>1 DEF IInv, Grounded
    <2>3. j # 1
      BY <1>1, <2>2 DEF Gives
    <2>4. j \in Nat /\ j - 1 \in DOMAIN todo' /\ todo'[j - 1] = todo[(j - 1) + 1]
      BY <1>1, <2>3
    <2>5. (j - 1) + 1 = j /\ j - 1 < i
      BY <2>1, <2>2, <2>4
    <2> QED  BY <2>1, <2>2, <2>4, <2>5
  <1>6. OneEach'
    <2> SUFFICES ASSUME NEW i \in DOMAIN todo', Default(todo'[i]),
                        NEW j \in DOMAIN todo', Default(todo'[j]), todo'[j].ns = todo'[i].ns
                 PROVE  j = i
      BY <1>2 DEF OneEach
    <2>1. /\ i \in Nat /\ i + 1 \in DOMAIN todo /\ todo'[i] = todo[i + 1]
          /\ j \in Nat /\ j + 1 \in DOMAIN todo /\ todo'[j] = todo[j + 1]
      BY <1>1
    <2>2. j + 1 = i + 1
      BY <2>1 DEF IInv, OneEach
    <2> QED  BY <2>1, <2>2
  <1> QED  BY <1>3, <1>4, <1>5, <1>6 DEF IInv

(* An interface added is there for the routes to come. *)
LEMMA AddNext ==
  ASSUME IInv, LinkAdd
  PROVE  IInv'
  <1> DEFINE r    == todo[1]
             near == [ns |-> r.ns, name |-> r.dev, peer |-> r.peer]
             far  == [ns |-> r.peer[1], name |-> r.peer[2], peer |-> <<r.ns, r.dev>>]
  <1>1. Request("add")
    BY DEF LinkAdd
  <1>2. r = Head(todo) /\ r.op = "add"
    BY <1>1, Moves
  <1>3. ifs' = ifs \cup {near} \cup (IF r.peer = NoEnd THEN {} ELSE {far}) /\ routes' = routes
    BY <1>2 DEF LinkAdd
  <1>4. near.ns = r.ns /\ near.name = r.dev /\ far.ns = r.peer[1] /\ far.name = r.peer[2]
    OBVIOUS
  <1> HIDE DEF near, far
  <1>5. ASSUME NEW e, Gives(r, e) PROVE ThereNext(e[1], e[2])
    <2>1. CASE e = End(r)
      <3>1. e[1] = r.ns /\ e[2] = r.dev
        BY <2>1 DEF End
      <3>2. near \in ifs'
        BY <1>3
      <3> QED  BY <1>4, <3>1, <3>2 DEF ThereNext
    <2>2. CASE r.peer # NoEnd /\ e = r.peer
      <3>1. far \in ifs'
        BY <1>3, <2>2
      <3> QED  BY <1>4, <2>2, <3>1 DEF ThereNext
    <2> QED  BY <1>5, <2>1, <2>2 DEF Gives
  <1>6. ifs \subseteq ifs' /\ \A q \in routes' : q \in routes
    BY <1>3
  <1> QED  BY <1>1, <1>5, <1>6, Advances

(* A route added is over an interface that is there. *)
LEMMA RouteNext ==
  ASSUME IInv, RouteAdd
  PROVE  IInv'
  <1> DEFINE r == todo[1]
             p == [ns |-> r.ns, dst |-> r.dst, dev |-> r.dev, via |-> r.via, scope |-> r.scope]
  <1>1. Request("route")
    BY DEF RouteAdd
  <1>2. r = Head(todo) /\ r.op = "route"
    BY <1>1, Moves
  <1>3. routes' = routes \cup {p} /\ ifs' = ifs
    BY <1>2 DEF RouteAdd
  <1>4. Puts(r, p)
    BY DEF Puts
  <1>5. \A e : ~Gives(r, e)
    BY <1>2 DEF Gives
  <1> HIDE DEF p
  <1>6. ifs \subseteq ifs' /\ \A q \in routes' : q \in routes \/ Puts(r, q)
    BY <1>3, <1>4
  <1> QED  BY <1>1, <1>5, <1>6, Advances

(* The other requests add neither. *)
LEMMA OtherNext ==
  ASSUME IInv, NEW op \in {"addr", "up", "master", "mac"}, Request(op), ifs' = ifs, routes' = routes
  PROVE  IInv'
  <1>1. todo[1].op = op
    BY Moves
  <1>2. \A e : ~Gives(todo[1], e)
    BY <1>1 DEF Gives
  <1>3. ifs \subseteq ifs' /\ \A q \in routes' : q \in routes
    OBVIOUS
  <1> QED  BY <1>2, <1>3, Advances

(* Every step keeps the invariant, one case per action. *)
LEMMA NextIInv == IInv /\ [Next]_vars => IInv'
  <1> SUFFICES ASSUME IInv, [Next]_vars PROVE IInv'
    OBVIOUS
  <1>1. CASE LinkDel
    BY <1>1, DelNext
  <1>2. CASE LinkAdd
    BY <1>2, AddNext
  <1>3. CASE AddrAdd
    BY <1>3, OtherNext DEF AddrAdd
  <1>4. CASE LinkSetUp
    BY <1>4, OtherNext DEF LinkSetUp
  <1>5. CASE RouteAdd
    BY <1>5, RouteNext
  <1>6. CASE LinkSetMaster
    BY <1>6, OtherNext DEF LinkSetMaster
  <1>7. CASE LinkSetHardwareAddr
    BY <1>7, OtherNext DEF LinkSetHardwareAddr
  <1>8. CASE Refuse
    BY <1>8 DEF Refuse, IInv, Typed, ClearedFirst, Grounded, OneEach, There, Asks
  <1>9. CASE UNCHANGED vars
    BY <1>9 DEF vars, IInv, Typed, ClearedFirst, Grounded, OneEach, There, Asks
  <1> QED  BY <1>1, <1>2, <1>3, <1>4, <1>5, <1>6, <1>7, <1>8, <1>9 DEF Next

(* The invariant the two below follow from: the requests to come are for
   namespaces there are, deletes come first, no route comes before its
   interface and no second default route comes. *)
THEOREM Inductive == Spec => []IInv
  BY InitIInv, NextIInv, PTL DEF Spec

(* Every request of every accepted configuration is for a namespace that
   Bootstrap was asked for, and every route added is over an interface that
   is there (plan.Specs against apply.go:54, 83, 125). *)
THEOREM TypeCorrect == Spec => []TypeOK
  <1>1. IInv => TypeOK
    BY DEF IInv, Typed, Grounded, Asks, Asked, TypeOK
  <1> QED  BY <1>1, Inductive, PTL

(* The rule of one default of crossCutting and the sole interface of
   ownsDefault never give a namespace two default routes, for any accepted
   configuration, with any number of networks, containers and links. *)
THEOREM OneDefaultRoute == Spec => []DefaultUncontested
  <1>1. ASSUME IInv PROVE DefaultUncontested
    <2> SUFFICES ASSUME refused, Default(Head(todo)), NEW q \in routes, Leads(q, Head(todo).ns)
                 PROVE  FALSE
      BY DEF DefaultUncontested, Default, Leads
    <2>1. todo \in Seq(Range(todo)) /\ todo # <<>>
      BY <1>1 DEF IInv, Typed, IsList
    <2>2. Head(todo) = todo[1] /\ 1 \in DOMAIN todo
      BY <2>1, LenProperties, EmptySeq
    <2> QED  BY <1>1, <2>2 DEF IInv, OneEach
  <1> QED  BY <1>1, Inductive, PTL

------------------------------------------------------------------------------
(* Addresses *)

IsPow(g, n) == g = [i \in 0..n |-> IF i = 0 THEN 1 ELSE 2 * g[i - 1]]

(* What the table of the powers below n + 1 says. *)
LEMMA PowIs ==
  ASSUME NEW g, NEW n \in Nat, IsPow(g, n)
  PROVE  g[0] = 1 /\ \A i \in Nat : i + 1 \in 0..n => g[i + 1] = 2 * g[i]
  <1> DEFINE h == [i \in 0..n |-> IF i = 0 THEN 1 ELSE 2 * g[i - 1]]
  <1>1. g = h
    BY DEF IsPow
  <1>2. h[0] = 1 /\ \A i \in Nat : i + 1 \in 0..n => h[i + 1] = 2 * g[i]
    OBVIOUS
  <1> HIDE DEF h
  <1> QED  BY <1>1, <1>2

(* There is such a table for every n, and two of them agree where both are
   defined. *)
LEMMA PowUpTo == \A n \in Nat : \E g : IsPow(g, n)
  <1> DEFINE S == {n \in Nat : \E g : IsPow(g, n)}
  <1>1. 0 \in S
    <2> DEFINE g == [i \in 0..0 |-> 1]
    <2>1. g = [i \in 0..0 |-> IF i = 0 THEN 1 ELSE 2 * g[i - 1]]
      OBVIOUS
    <2>2. IsPow(g, 0)
      BY <2>1 DEF IsPow
    <2> QED  BY <2>2
  <1>2. ASSUME NEW n \in Nat, n \in S PROVE n + 1 \in S
    <2>1. PICK g : IsPow(g, n)
      BY <1>2
    <2> DEFINE h == [i \in 0..(n + 1) |-> IF i = 0 THEN 1 ELSE 2 * g[i - 1]]
    <2>2. \A i \in 0..n : h[i] = g[i]
      <3> TAKE i \in 0..n
      <3>1. CASE i = 0
        BY <2>1, <3>1, PowIs
      <3>2. CASE i # 0
        <4>1. i - 1 \in Nat /\ (i - 1) + 1 = i
          BY <3>2
        <4>2. g[i] = 2 * g[i - 1]
          BY <2>1, <4>1, PowIs
        <4> QED  BY <3>2, <4>2
      <3> QED  BY <3>1, <3>2
    <2>3. h = [i \in 0..(n + 1) |-> IF i = 0 THEN 1 ELSE 2 * h[i - 1]]
      <3>1. \A i \in 0..(n + 1) : i # 0 => h[i - 1] = g[i - 1]
        <4> TAKE i \in 0..(n + 1)
        <4>1. i # 0 => i - 1 \in 0..n
          OBVIOUS
        <4> HIDE DEF h
        <4> QED  BY <2>2, <4>1
      <3>2. \A i \in 0..(n + 1) : (IF i = 0 THEN 1 ELSE 2 * g[i - 1]) = (IF i = 0 THEN 1 ELSE 2 * h[i - 1])
        <4> HIDE DEF h
        <4> QED  BY <3>1
      <3> QED  BY <3>2
    <2>4. IsPow(h, n + 1)
      <3> HIDE DEF h
      <3> QED  BY <2>3 DEF IsPow
    <2> QED  BY <2>4
  <1>3. Nat \subseteq S
    <2> HIDE DEF S
    <2> QED  BY <1>1, <1>2, Induction
  <1> QED  BY <1>3

(* Two tables agree where both are defined. *)
LEMMA PowAgree ==
  ASSUME NEW g, NEW h, NEW m \in Nat, NEW n \in Nat, IsPow(g, m), IsPow(h, n), m <= n
  PROVE  \A i \in 0..m : g[i] = h[i]
  <1> DEFINE S == {i \in Nat : i <= m => g[i] = h[i]}
  <1>1. 0 \in S
    BY PowIs
  <1>2. ASSUME NEW i \in Nat, i \in S PROVE i + 1 \in S
    <2>1. i + 1 \in 0..m => i + 1 \in 0..n
      OBVIOUS
    <2>2. i + 1 \in 0..m => g[i + 1] = 2 * g[i] /\ h[i + 1] = 2 * h[i]
      BY <2>1, PowIs
    <2> QED  BY <1>2, <2>2
  <1>3. Nat \subseteq S
    <2> HIDE DEF S
    <2> QED  BY <1>1, <1>2, Induction
  <1> QED  BY <1>3

(* Pow is the powers of two: no proof can use its definition before a function
   that satisfies it is there. *)
LEMMA Pows == /\ Pow[0] = 1 /\ Pow[1] = 2
              /\ \A n \in Nat : Pow[n] \in Nat \ {0} /\ Pow[n + 1] = 2 * Pow[n]
  <1> DEFINE G(n) == CHOOSE g : IsPow(g, n)
             F == [n \in Nat |-> G(n)[n]]
  <1>1. \A n \in Nat : IsPow(G(n), n)
    BY PowUpTo
  <1> HIDE DEF G
  <1>2. F[0] = 1
    BY <1>1, PowIs
  <1>3. ASSUME NEW n \in Nat PROVE F[n + 1] = 2 * F[n]
    <2>1. G(n + 1)[n + 1] = 2 * G(n + 1)[n]
      <3>1. IsPow(G(n + 1), n + 1) /\ n + 1 \in 0..(n + 1) /\ n + 1 \in Nat
        BY <1>1
      <3> QED  BY <3>1, PowIs
    <2>2. G(n)[n] = G(n + 1)[n]
      <3>1. n \in 0..n /\ n <= n + 1 /\ n + 1 \in Nat
        OBVIOUS
      <3> QED  BY <1>1, <3>1, PowAgree
    <2> QED  BY <2>1, <2>2
  <1>4. F = [i \in Nat |-> IF i = 0 THEN 1 ELSE 2 * F[i - 1]]
    <2>1. ASSUME NEW i \in Nat PROVE F[i] = IF i = 0 THEN 1 ELSE 2 * F[i - 1]
      <3>1. i # 0 => i - 1 \in Nat /\ (i - 1) + 1 = i
        OBVIOUS
      <3> HIDE DEF F
      <3> QED  BY <1>2, <1>3, <3>1
    <2>2. F = [i \in Nat |-> F[i]]
      OBVIOUS
    <2> HIDE DEF F
    <2> QED  BY <2>1, <2>2
  <1> HIDE DEF F
  <1>5. Pow = [i \in Nat |-> IF i = 0 THEN 1 ELSE 2 * Pow[i - 1]]
    BY <1>4 DEF Pow
  <1> DEFINE P == Pow
             Q == [i \in Nat |-> IF i = 0 THEN 1 ELSE 2 * P[i - 1]]
  <1> HIDE DEF P
  <1>6. P = Q
    BY <1>5 DEF P
  <1>7. Q[0] = 1 /\ \A n \in Nat : Q[n + 1] = 2 * P[n]
    OBVIOUS
  <1> HIDE DEF Q
  <1>8. P[0] = 1 /\ \A n \in Nat : P[n + 1] = 2 * P[n]
    BY <1>6, <1>7
  <1> DEFINE S == {n \in Nat : P[n] \in Nat \ {0}}
  <1>9. Nat \subseteq S
    <2>1. 0 \in S /\ \A n \in Nat : n \in S => n + 1 \in S
      BY <1>8
    <2> HIDE DEF S
    <2> QED  BY <2>1, Induction
  <1>10. P[1] = 2
    <2>1. P[0 + 1] = 2 * P[0] /\ 0 + 1 = 1
      BY <1>8
    <2> QED  BY <1>8, <2>1
  <1> QED  BY <1>8, <1>9, <1>10 DEF P

(* Prefixes of one address, of two, and of all. *)
LEMMA Ones ==
  ASSUME NEW a \in Int
  PROVE  /\ Slash32(a).bits = AddrBits /\ Slash32(a).base = a /\ Masked(Slash32(a)) = Slash32(a)
         /\ \A b \in Int : Covers(Slash32(a), b) <=> a = b
  <1> DEFINE p == Slash32(a)
  <1>1. p.bits = AddrBits /\ p.base = a /\ p = [base |-> a, bits |-> AddrBits]
    BY DEF Slash32, Prefix
  <1>2. Size(p) = 1
    <2>1. AddrBits - p.bits = 0
      BY <1>1, LoweringAssumption
    <2> QED  BY <2>1, Pows DEF Size
  <1>3. \A b \in Int : b \div 1 = b
    OBVIOUS
  <1>4. Masked(p) = p
    BY <1>1, <1>2, <1>3 DEF Masked
  <1>5. \A b \in Int : Covers(p, b) <=> a = b
    BY <1>1, <1>2, <1>3 DEF Covers
  <1> QED  BY <1>1, <1>4, <1>5

(* Everything is a prefix, of every address, and not of one. *)
LEMMA All ==
  /\ Everything.bits = 0 /\ Masked(Everything) = Everything
  /\ \A a \in Addresses : Covers(Everything, a)
  /\ \A a : Slash32(a) # Everything
  <1>1. Everything.bits = 0 /\ Everything.base = 0 /\ Everything = [base |-> 0, bits |-> 0]
    BY DEF Everything, Prefix
  <1> DEFINE s == Size(Everything)
  <1>2. s = Pow[AddrBits]
    BY <1>1, LoweringAssumption DEF Size
  <1>3. s \in Nat \ {0}
    BY <1>2, Pows, LoweringAssumption
  <1> HIDE DEF s
  <1>4. \A a \in 0..(s - 1) : a \div s = 0
    BY <1>3
  <1>5. 0 \div s = 0 /\ 0 * s = 0
    BY <1>3
  <1>6. Masked(Everything) = Everything
    BY <1>1, <1>5 DEF Masked, s
  <1>7. \A a \in Addresses : Covers(Everything, a)
    BY <1>1, <1>2, <1>4, <1>5 DEF Covers, Addresses, s
  <1> QED  BY <1>1, <1>6, <1>7, NotEverything

(* A prefix is of at least one address. *)
LEMMA Sizes ==
  ASSUME NEW p, p.bits \in 0..AddrBits
  PROVE  Size(p) \in Nat \ {0}
  <1>1. AddrBits - p.bits \in Nat
    BY LoweringAssumption
  <1> QED  BY <1>1, Pows DEF Size

(* To mask a prefix is to keep the addresses it covers. *)
LEMMA MaskCovers ==
  ASSUME NEW p \in Subnets
  PROVE  /\ Masked(p).bits = p.bits
         /\ Covers(p, p.base)
         /\ \A a \in Int : Covers(Masked(p), a) <=> Covers(p, a)
  <1>1. p = [base |-> p.base, bits |-> p.bits] /\ p.base \in Int /\ p.bits \in 0..AddrBits
    BY DEF Subnets, Addresses
  <1> DEFINE s == Size(p)  m == Masked(p)
  <1>2. s \in Nat \ {0}
    BY <1>1, Sizes
  <1>3. m.bits = p.bits /\ m.base = (p.base \div s) * s
    BY <1>1 DEF Masked
  <1>4. Size(m) = s
    BY <1>3 DEF Size
  <1>5. \A q \in Int : (q * s) \div s = q
    <2> HIDE DEF s
    <2> QED  BY <1>2
  <1>6. p.base \div s \in Int
    <2> HIDE DEF s
    <2> QED  BY <1>1, <1>2
  <1> HIDE DEF m, s
  <1>7. m.base \div s = p.base \div s
    BY <1>3, <1>5, <1>6
  <1> QED  BY <1>3, <1>4, <1>7 DEF Covers, m, s

(* The two addresses of an uplink are on one prefix, which each of them
   brings. *)
LEMMA Twos ==
  ASSUME NEW a \in Nat, a % 2 = 0
  PROVE  LET p == Prefix(a, AddrBits - 1)  q == Prefix(a + 1, AddrBits - 1)
         IN  /\ p.bits < AddrBits /\ q.bits < AddrBits
             /\ Masked(p).bits = AddrBits - 1 /\ Masked(q).bits = AddrBits - 1
             /\ Covers(Masked(p), a + 1) /\ Covers(Masked(q), a)
  <1> DEFINE p == Prefix(a, AddrBits - 1)  q == Prefix(a + 1, AddrBits - 1)
             m == Masked(p)  n == Masked(q)
  <1>1. /\ p = [base |-> a, bits |-> AddrBits - 1] /\ q = [base |-> a + 1, bits |-> AddrBits - 1]
        /\ AddrBits - (AddrBits - 1) = 1 /\ AddrBits - 1 < AddrBits
    BY LoweringAssumption DEF Prefix
  <1>2. Size(p) = 2 /\ Size(q) = 2
    BY <1>1, Pows DEF Size
  <1>3. a \div 2 = (a + 1) \div 2 /\ (a \div 2) * 2 = a
    OBVIOUS
  <1>4. m = [base |-> a, bits |-> AddrBits - 1] /\ n = [base |-> a, bits |-> AddrBits - 1]
    BY <1>1, <1>2, <1>3 DEF Masked
  <1> HIDE DEF m, n
  <1>5. Size(m) = 2 /\ Size(n) = 2
    BY <1>1, <1>4, Pows DEF Size
  <1>6. Covers(m, a + 1) /\ Covers(n, a)
    BY <1>3, <1>4, <1>5 DEF Covers
  <1> QED  BY <1>1, <1>4, <1>6 DEF m, n

------------------------------------------------------------------------------
(* What has been done: the state as the requests made so far leave it *)

With(S, op) == {r \in S : r.op = op}
First(S, k) == {S[i] : i \in 1..k}

FirstIfs(x) == {[ns |-> s, name |-> Lo, peer |-> NoEnd] : s \in Specs(x) \cup {Host}}
               \cup {[ns |-> Host, name |-> b, peer |-> NoEnd] : b \in Bridges}
HostIfs(x)  == {Uplink(x, n).hostIf : n \in Uplinked(x)}

Near(r)   == [ns |-> r.ns, name |-> r.dev, peer |-> r.peer]
Far(r)    == [ns |-> r.peer[1], name |-> r.peer[2], peer |-> <<r.ns, r.dev>>]
Bring(r)  == {Near(r)} \cup (IF r.peer = NoEnd THEN {} ELSE {Far(r)})
Given(r)  == [ns |-> r.ns, dev |-> r.dev, prefix |-> r.prefix]
Made(r)   == [ns |-> r.ns, dst |-> r.dst, dev |-> r.dev, via |-> r.via, scope |-> r.scope]
Gone(S)   == {<<Host, r.dev>> : r \in With(S, "del")}

IfsOf(x, S) == {i \in FirstIfs(x) : <<i.ns, i.name>> \notin Gone(S)} \cup UNION {Bring(r) : r \in With(S, "add")}
AddrsOf(S)  == {Given(r) : r \in With(S, "addr")}
UpOf(S)     == ({<<Host, b>> : b \in Bridges} \ Gone(S)) \cup {End(r) : r \in With(S, "up")}
RoutesOf(S) == {Made(r) : r \in With(S, "route")}

(* What a request brings that a later one may want for itself: interfaces,
   and routes, those of addresses with a network too. *)
Has(tag, r) ==
  CASE tag = "end" -> IF r.op = "add" THEN IF r.peer = NoEnd THEN {End(r)} ELSE {End(r), r.peer} ELSE {}
    [] tag = "net" -> IF r.op = "route" THEN {<<r.ns, r.dst>>}
                      ELSE IF r.op = "addr" /\ r.prefix.bits < AddrBits THEN {<<r.ns, Masked(r.prefix)>>} ELSE {}
Wants(tag, r) == IF r.op = "addr" THEN {} ELSE Has(tag, r)
Kinds == {"end", "net"}

(* A request that puts the next hop of a route on its link. *)
Serve(a, r) ==
  /\ a.ns = r.ns /\ a.dev = r.dev
  /\ \/ a.op = "route" /\ a.scope = "link" /\ Covers(a.dst, r.via)
     \/ a.op = "addr" /\ a.prefix.bits < AddrBits /\ Covers(Masked(a.prefix), r.via)

(* What the kernel asks of a request, whatever came before it. *)
Alone(x, r) ==
  /\ r.op = "del" => r.dev # Lo
  /\ r.op = "add" => \A e \in Has("end", r) :
       /\ Usable(e[2])
       /\ \A i \in FirstIfs(x) : e = <<i.ns, i.name>> => i.ns = Host /\ i.name \in HostIfs(x)
  /\ r.op = "master" => r.bridge \in Bridges \ HostIfs(x)
  /\ r.op = "mac" => r.mac # "bad"
  /\ r.op = "route" => Masked(r.dst) = r.dst

(* And of the j-th of a list. *)
Ok(x, s, j) ==
  /\ Alone(x, s[j])
  /\ \A tag \in Kinds, i \in 1..(j - 1) : Has(tag, s[i]) \cap Wants(tag, s[j]) = {}
  /\ s[j].op = "route" /\ s[j].via # NoAddr => \E i \in 1..(j - 1) : Serve(s[i], s[j])

Past == Len(ApplyPlan(cfg)) - Len(todo)
Done == First(ApplyPlan(cfg), Past)

History ==
  /\ Len(todo) <= Len(ApplyPlan(cfg))
  /\ \A i \in DOMAIN todo : todo[i] = ApplyPlan(cfg)[Past + i]
  /\ ifs = IfsOf(cfg, Done) /\ addrs = AddrsOf(Done) /\ up = UpOf(Done) /\ routes = RoutesOf(Done)

Passed == /\ \A j \in 1..Past : Ok(cfg, ApplyPlan(cfg), j)
          /\ refused => ~Ok(cfg, ApplyPlan(cfg), Past + 1)

(* What every plan is like: deletes of the uplinks' host ends come first, an
   interface of the host's is one of a pair, and an address is brought up
   before the next route. *)
Shape(x, s) ==
  /\ IsList(s)
  /\ \A i \in DOMAIN s : s[i].op = "del" => /\ s[i].ns = Host /\ s[i].dev \in HostIfs(x)
                                            /\ \A j \in DOMAIN s : j < i => s[j].op = "del"
  /\ \A h \in HostIfs(x) : \E i \in DOMAIN s : s[i].op = "del" /\ s[i].dev = h
  /\ \A i \in DOMAIN s : s[i].op = "add" =>
       /\ s[i].peer = <<s[i].peer[1], s[i].peer[2]>>
       /\ s[i].peer # NoEnd => s[i].peer[1] # Host
       /\ s[i].ns = Host => s[i].peer # NoEnd
  /\ \A i \in DOMAIN s : s[i].op = "master" => s[i].bridge \in Bridges
  /\ \A i \in DOMAIN s : s[i].op = "addr" =>
       \E m \in DOMAIN s : /\ m > i /\ s[m].op = "up" /\ End(s[m]) = End(s[i])
                           /\ \A j \in DOMAIN s : i <= j /\ j <= m => s[j].op # "route"

(* The requests so far, with one more. *)
LEMMA OneMore ==
  ASSUME NEW S, NEW r
  PROVE  \A op : With(S \cup {r}, op) = With(S, op) \cup (IF r.op = op THEN {r} ELSE {})
  BY DEF With

(* The first k + 1 are the first k and one more. *)
LEMMA FirstMore ==
  ASSUME NEW s, NEW k \in Nat
  PROVE  First(s, k + 1) = First(s, k) \cup {s[k + 1]}
  <1>1. 1..(k + 1) = 1..k \cup {k + 1}
    OBVIOUS
  <1> QED  BY <1>1 DEF First

(* Where the head of the requests to come is in the plan. *)
LEMMA AtHead ==
  ASSUME History, IsList(todo), IsList(ApplyPlan(cfg)), todo # <<>>
  PROVE  /\ Past \in Nat /\ Past + 1 \in DOMAIN ApplyPlan(cfg) /\ Head(todo) = ApplyPlan(cfg)[Past + 1]
         /\ DOMAIN ApplyPlan(cfg) = 1..Len(ApplyPlan(cfg)) /\ Len(ApplyPlan(cfg)) \in Nat
         /\ Len(Tail(todo)) = Len(todo) - 1 /\ Len(todo) \in Nat
         /\ \A i \in DOMAIN Tail(todo) : Tail(todo)[i] = ApplyPlan(cfg)[(Past + 1) + i]
  <1> DEFINE P == ApplyPlan(cfg)  A == Range(todo)  B == Range(P)
  <1>1. todo \in Seq(A) /\ P \in Seq(B)
    BY DEF IsList
  <1> HIDE DEF A, B, P
  <1>2. /\ Len(todo) \in Nat \ {0} /\ DOMAIN todo = 1..Len(todo)
        /\ Len(P) \in Nat /\ DOMAIN P = 1..Len(P)
    BY <1>1, LenProperties, EmptySeq
  <1>3. /\ Len(Tail(todo)) = Len(todo) - 1 /\ Head(todo) = todo[1]
        /\ DOMAIN Tail(todo) = 1..Len(Tail(todo))
        /\ \A i \in 1..Len(Tail(todo)) : Tail(todo)[i] = todo[i + 1]
    BY <1>1, HeadTailProperties, LenProperties
  <1>4. Len(todo) <= Len(P) /\ Past = Len(P) - Len(todo) /\ \A i \in DOMAIN todo : todo[i] = P[Past + i]
    BY DEF History, Past, P
  <1>5. Past \in Nat /\ Past + 1 \in 1..Len(P) /\ 1 \in DOMAIN todo
    BY <1>2, <1>4
  <1>6. ASSUME NEW i \in DOMAIN Tail(todo) PROVE Tail(todo)[i] = P[(Past + 1) + i]
    <2>1. i + 1 \in DOMAIN todo /\ i \in Nat /\ Past + (i + 1) = (Past + 1) + i
      BY <1>2, <1>3, <1>5
    <2> QED  BY <1>3, <1>4, <2>1
  <1> QED  BY <1>2, <1>3, <1>4, <1>5, <1>6 DEF P

(* The requests to come are fewer by one. *)
LEMMA HistoryMoves ==
  ASSUME NEW op, History, IsList(todo), IsList(ApplyPlan(cfg)), Request(op)
  PROVE  /\ todo # <<>> /\ Past \in Nat /\ Past' = Past + 1 /\ Past + 1 \in DOMAIN ApplyPlan(cfg)
         /\ Head(todo) = ApplyPlan(cfg)[Past + 1] /\ Head(todo).op = op
         /\ cfg' = cfg /\ refused' = refused /\ ~refused /\ Takes(Head(todo))
         /\ Done' = Done \cup {Head(todo)}
         /\ (Len(todo) <= Len(ApplyPlan(cfg)))'
         /\ (\A i \in DOMAIN todo : todo[i] = ApplyPlan(cfg)[Past + i])'
  <1>1. /\ todo # <<>> /\ todo' = Tail(todo) /\ cfg' = cfg /\ refused' = refused /\ ~refused
        /\ Head(todo).op = op /\ Takes(Head(todo))
    BY DEF Request
  <1>2. /\ Past \in Nat /\ Past + 1 \in DOMAIN ApplyPlan(cfg) /\ Head(todo) = ApplyPlan(cfg)[Past + 1]
        /\ DOMAIN ApplyPlan(cfg) = 1..Len(ApplyPlan(cfg)) /\ Len(ApplyPlan(cfg)) \in Nat
        /\ Len(Tail(todo)) = Len(todo) - 1 /\ Len(todo) \in Nat
        /\ \A i \in DOMAIN Tail(todo) : Tail(todo)[i] = ApplyPlan(cfg)[(Past + 1) + i]
    BY <1>1, AtHead
  <1>3. ApplyPlan(cfg)' = ApplyPlan(cfg)
    BY <1>1
  <1>4. Past' = Past + 1
    <2>1. Past' = Len(ApplyPlan(cfg)) - Len(Tail(todo))
      BY <1>1, <1>3 DEF Past
    <2>2. Past = Len(ApplyPlan(cfg)) - Len(todo)
      BY DEF Past
    <2>3. \A a, b \in Nat : a - (b - 1) = (a - b) + 1
      OBVIOUS
    <2>4. Len(ApplyPlan(cfg)) \in Nat /\ Len(todo) \in Nat /\ Len(Tail(todo)) = Len(todo) - 1
      BY <1>2
    <2> QED  BY <2>1, <2>2, <2>3, <2>4
  <1>5. Done' = Done \cup {Head(todo)}
    <2>1. Done' = First(ApplyPlan(cfg), Past + 1)
      BY <1>1, <1>4 DEF Done
    <2>2. First(ApplyPlan(cfg), Past + 1) = First(ApplyPlan(cfg), Past) \cup {ApplyPlan(cfg)[Past + 1]}
      BY <1>2, FirstMore
    <2>3. Done = First(ApplyPlan(cfg), Past) /\ Head(todo) = ApplyPlan(cfg)[Past + 1]
      BY <1>2 DEF Done
    <2> QED  BY <2>1, <2>2, <2>3
  <1>6. (Len(todo) <= Len(ApplyPlan(cfg)))'
    <2>1. Len(todo) <= Len(ApplyPlan(cfg))
      BY DEF History
    <2> QED  BY <1>1, <1>2, <1>3, <2>1
  <1>7. (\A i \in DOMAIN todo : todo[i] = ApplyPlan(cfg)[Past + i])'
    BY <1>1, <1>2, <1>4
  <1> QED  BY <1>1, <1>2, <1>4, <1>5, <1>6, <1>7

(* A request done is a request of the plan before the head. *)
LEMMA DoneAre ==
  ASSUME History, IsList(todo), Shape(cfg, ApplyPlan(cfg)), todo # <<>>
  PROVE  /\ \A q \in Done : \E i \in DOMAIN ApplyPlan(cfg) : i <= Past /\ q = ApplyPlan(cfg)[i]
         /\ \A i \in DOMAIN ApplyPlan(cfg) : i <= Past => ApplyPlan(cfg)[i] \in Done
         /\ Head(todo).op = "del" => \A q \in Done : q.op = "del"
         /\ Head(todo).op # "del" => Gone(Done) = {<<Host, h>> : h \in HostIfs(cfg)}
  <1> DEFINE P == ApplyPlan(cfg)
             k == Past
  <1>1. /\ k \in Nat /\ k + 1 \in DOMAIN P /\ Head(todo) = P[k + 1]
        /\ DOMAIN P = 1..Len(P) /\ Len(P) \in Nat
    BY AtHead DEF Shape
  <1>2. Done = {P[i] : i \in 1..k}
    BY DEF Done, First
  <1>s. /\ \A i \in DOMAIN P : P[i].op = "del" => /\ P[i].ns = Host /\ P[i].dev \in HostIfs(cfg)
                                                  /\ \A j \in DOMAIN P : j < i => P[j].op = "del"
        /\ \A h \in HostIfs(cfg) : \E i \in DOMAIN P : P[i].op = "del" /\ P[i].dev = h
    BY DEF Shape
  <1> HIDE DEF P, k
  <1>3. \A q \in Done : \E i \in DOMAIN P : i <= k /\ q = P[i]
    BY <1>1, <1>2
  <1>4. \A i \in DOMAIN P : i <= k => P[i] \in Done
    BY <1>1, <1>2
  <1>5. ASSUME Head(todo).op = "del", NEW q \in Done PROVE q.op = "del"
    <2>1. PICK i \in DOMAIN P : i <= k /\ q = P[i]
      BY <1>3
    <2>2. i < k + 1
      BY <1>1, <2>1
    <2> QED  BY <1>1, <1>5, <1>s, <2>1, <2>2
  <1>6. ASSUME Head(todo).op # "del" PROVE Gone(Done) = {<<Host, h>> : h \in HostIfs(cfg)}
    <2>1. ASSUME NEW q \in With(Done, "del") PROVE q.dev \in HostIfs(cfg)
      BY <1>3, <1>s DEF With
    <2>2. ASSUME NEW h \in HostIfs(cfg) PROVE \E q \in With(Done, "del") : q.dev = h
      <3>1. PICK i \in DOMAIN P : P[i].op = "del" /\ P[i].dev = h
        BY <1>s
      <3>2. ~(k + 1 < i) /\ i # k + 1
        BY <1>1, <1>6, <1>s, <3>1
      <3>3. i <= k
        BY <1>1, <3>2
      <3> QED  BY <1>4, <3>1, <3>3 DEF With
    <2> QED  BY <2>1, <2>2 DEF Gone
  <1> QED  BY <1>3, <1>4, <1>5, <1>6 DEF P, k

(* Nothing done, and the state of the start. *)
LEMMA InitHistory == Init => History
  <1> SUFFICES ASSUME Init PROVE History
    OBVIOUS
  <1>1. /\ cfg \in Configs /\ Accepted(cfg) /\ todo = ApplyPlan(cfg) /\ addrs = {} /\ routes = {}
        /\ ifs = FirstIfs(cfg) /\ up = {<<Host, b>> : b \in Bridges}
    BY DEF Init, FirstIfs
  <1>2. Len(todo) \in Nat /\ DOMAIN todo = 1..Len(todo)
    <2>1. todo \in Seq(Range(todo))
      BY <1>1, PlanSound DEF Sound, IsList
    <2> QED  BY <2>1, LenProperties
  <1>3. Past = 0 /\ Done = {}
    BY <1>1, <1>2 DEF Past, Done, First
  <1>4. \A op : With(Done, op) = {}
    BY <1>3 DEF With
  <1>5. ifs = IfsOf(cfg, Done) /\ addrs = AddrsOf(Done) /\ up = UpOf(Done) /\ routes = RoutesOf(Done)
    BY <1>1, <1>4 DEF IfsOf, AddrsOf, UpOf, RoutesOf, Gone
  <1>6. \A i \in DOMAIN todo : todo[i] = ApplyPlan(cfg)[Past + i]
    BY <1>1, <1>2, <1>3
  <1>7. Len(todo) <= Len(ApplyPlan(cfg))
    BY <1>1, <1>2
  <1> QED  BY <1>5, <1>6, <1>7 DEF History

(* Every action does to the state what its request says. *)
LEMMA NextHistory ==
  ASSUME History, IsList(todo), Shape(cfg, ApplyPlan(cfg)), [Next]_vars
  PROVE  History'
  <1>0. IsList(ApplyPlan(cfg))
    BY DEF Shape
  <1> DEFINE r == Head(todo)
             S == Done
             T == S \cup {r}
  <1>h. ifs = IfsOf(cfg, S) /\ addrs = AddrsOf(S) /\ up = UpOf(S) /\ routes = RoutesOf(S)
    BY DEF History
  <1>w. \A op : With(T, op) = With(S, op) \cup (IF r.op = op THEN {r} ELSE {})
    BY OneMore
  <1>m. ASSUME NEW op, Request(op),
               ifs' = IfsOf(cfg, T), addrs' = AddrsOf(T), up' = UpOf(T), routes' = RoutesOf(T)
        PROVE  History'
    <2>1. /\ cfg' = cfg /\ Done' = T
          /\ (Len(todo) <= Len(ApplyPlan(cfg)))'
          /\ (\A i \in DOMAIN todo : todo[i] = ApplyPlan(cfg)[Past + i])'
      BY <1>0, <1>m, HistoryMoves
    <2>2. (ifs = IfsOf(cfg, Done) /\ addrs = AddrsOf(Done) /\ up = UpOf(Done) /\ routes = RoutesOf(Done))'
      BY <1>m, <2>1
    <2> QED  BY <2>1, <2>2 DEF History
  <1>o. ASSUME NEW op, Request(op) PROVE r.op = op /\ todo # <<>>
    BY <1>o DEF Request
  <1> HIDE DEF S, T, r
  <1>1. CASE LinkDel
    <2>1. r.op = "del" /\ \A op : op # "del" => With(T, op) = With(S, op)
      BY <1>1, <1>o, <1>w DEF LinkDel
    <2>2. With(S, "add") = {} /\ With(S, "up") = {}
      <3>1. \A q \in S : q.op = "del"
        BY <1>1, <1>o, <2>1, DoneAre DEF LinkDel, S, r
      <3> QED  BY <3>1 DEF With
    <2>3. Gone(T) = Gone(S) \cup {<<Host, r.dev>>}
      BY <1>w, <2>1 DEF Gone
    <2>4. ifs' = {i \in ifs : i.ns # Host \/ i.name # r.dev} /\ up' = up \ {<<Host, r.dev>>}
          /\ addrs' = addrs /\ routes' = routes
      BY <1>1 DEF LinkDel, r
    <2>5. ifs' = IfsOf(cfg, T)
      BY <1>h, <2>1, <2>2, <2>3, <2>4 DEF IfsOf
    <2>6. up' = UpOf(T)
      BY <1>h, <2>1, <2>2, <2>3, <2>4 DEF UpOf
    <2>7. addrs' = AddrsOf(T) /\ routes' = RoutesOf(T)
      BY <1>h, <2>1, <2>4 DEF AddrsOf, RoutesOf
    <2> QED  BY <1>1, <1>m, <2>5, <2>6, <2>7 DEF LinkDel
  <1>2. ASSUME NEW op, Request(op), op # "del" PROVE Gone(T) = Gone(S)
    BY <1>2, <1>o, <1>w DEF Gone
  <1>3. CASE LinkAdd
    <2>1. r.op = "add" /\ With(T, "add") = With(S, "add") \cup {r} /\ \A op : op # "add" => With(T, op) = With(S, op)
      BY <1>3, <1>o, <1>w DEF LinkAdd
    <2>2. Gone(T) = Gone(S)
      BY <1>2, <1>3 DEF LinkAdd
    <2>3. ifs' = ifs \cup Bring(r) /\ up' = up /\ addrs' = addrs /\ routes' = routes
      BY <1>3 DEF LinkAdd, Bring, Near, Far, r
    <2>4. ifs' = IfsOf(cfg, T)
      BY <1>h, <2>1, <2>2, <2>3 DEF IfsOf
    <2>5. up' = UpOf(T) /\ addrs' = AddrsOf(T) /\ routes' = RoutesOf(T)
      BY <1>h, <2>1, <2>2, <2>3 DEF UpOf, AddrsOf, RoutesOf
    <2> QED  BY <1>3, <1>m, <2>4, <2>5 DEF LinkAdd
  <1>4. CASE AddrAdd
    <2>1. r.op = "addr" /\ With(T, "addr") = With(S, "addr") \cup {r} /\ \A op : op # "addr" => With(T, op) = With(S, op)
      BY <1>4, <1>o, <1>w DEF AddrAdd
    <2>2. Gone(T) = Gone(S)
      BY <1>2, <1>4 DEF AddrAdd
    <2>3. addrs' = addrs \cup {Given(r)} /\ ifs' = ifs /\ up' = up /\ routes' = routes
      BY <1>4 DEF AddrAdd, Given, r
    <2>4. addrs' = AddrsOf(T)
      BY <1>h, <2>1, <2>3 DEF AddrsOf
    <2>5. up' = UpOf(T) /\ ifs' = IfsOf(cfg, T) /\ routes' = RoutesOf(T)
      BY <1>h, <2>1, <2>2, <2>3 DEF UpOf, IfsOf, RoutesOf
    <2> QED  BY <1>4, <1>m, <2>4, <2>5 DEF AddrAdd
  <1>5. CASE LinkSetUp
    <2>1. r.op = "up" /\ With(T, "up") = With(S, "up") \cup {r} /\ \A op : op # "up" => With(T, op) = With(S, op)
      BY <1>5, <1>o, <1>w DEF LinkSetUp
    <2>2. Gone(T) = Gone(S)
      BY <1>2, <1>5 DEF LinkSetUp
    <2>3. up' = up \cup {End(r)} /\ ifs' = ifs /\ addrs' = addrs /\ routes' = routes
      BY <1>5 DEF LinkSetUp, End, r
    <2>4. up' = UpOf(T)
      BY <1>h, <2>1, <2>2, <2>3 DEF UpOf
    <2>5. addrs' = AddrsOf(T) /\ ifs' = IfsOf(cfg, T) /\ routes' = RoutesOf(T)
      BY <1>h, <2>1, <2>2, <2>3 DEF AddrsOf, IfsOf, RoutesOf
    <2> QED  BY <1>5, <1>m, <2>4, <2>5 DEF LinkSetUp
  <1>6. CASE RouteAdd
    <2>1. r.op = "route" /\ With(T, "route") = With(S, "route") \cup {r} /\ \A op : op # "route" => With(T, op) = With(S, op)
      BY <1>6, <1>o, <1>w DEF RouteAdd
    <2>2. Gone(T) = Gone(S)
      BY <1>2, <1>6 DEF RouteAdd
    <2>3. routes' = routes \cup {Made(r)} /\ ifs' = ifs /\ addrs' = addrs /\ up' = up
      BY <1>6 DEF RouteAdd, Made, r
    <2>4. routes' = RoutesOf(T)
      BY <1>h, <2>1, <2>3 DEF RoutesOf
    <2>5. addrs' = AddrsOf(T) /\ ifs' = IfsOf(cfg, T) /\ up' = UpOf(T)
      BY <1>h, <2>1, <2>2, <2>3 DEF AddrsOf, IfsOf, UpOf
    <2> QED  BY <1>6, <1>m, <2>4, <2>5 DEF RouteAdd
  <1>7. ASSUME NEW op \in {"master", "mac"}, Request(op), ifs' = ifs, addrs' = addrs, up' = up, routes' = routes
        PROVE  History'
    <2>1. r.op = op /\ \A o \in {"add", "addr", "up", "route"} : With(T, o) = With(S, o)
      BY <1>7, <1>o, <1>w
    <2>2. Gone(T) = Gone(S)
      BY <1>2, <1>7
    <2>3. ifs' = IfsOf(cfg, T) /\ addrs' = AddrsOf(T) /\ up' = UpOf(T) /\ routes' = RoutesOf(T)
      BY <1>h, <1>7, <2>1, <2>2 DEF IfsOf, AddrsOf, UpOf, RoutesOf
    <2> QED  BY <1>7, <1>m, <2>3
  <1>8. CASE LinkSetMaster
    BY <1>7, <1>8 DEF LinkSetMaster
  <1>9. CASE LinkSetHardwareAddr
    BY <1>7, <1>9 DEF LinkSetHardwareAddr
  <1>10. ASSUME UNCHANGED <<cfg, todo, ifs, addrs, up, routes>> PROVE History'
    BY <1>10 DEF History, Past, Done
  <1>11. CASE Refuse
    BY <1>10, <1>11 DEF Refuse
  <1>12. CASE UNCHANGED vars
    BY <1>10, <1>12 DEF vars
  <1> QED  BY <1>1, <1>3, <1>4, <1>5, <1>6, <1>8, <1>9, <1>11, <1>12 DEF Next

(* The interfaces there are, by who brought them. *)
LEMMA ThereIs ==
  ASSUME NEW x, NEW S, ifs = IfsOf(x, S),
         \A q \in With(S, "add") : q.peer = <<q.peer[1], q.peer[2]>>,
         NEW e, e = <<e[1], e[2]>>
  PROVE  There(e[1], e[2]) <=> \/ \E i \in FirstIfs(x) : e = <<i.ns, i.name>> /\ e \notin Gone(S)
                               \/ \E q \in With(S, "add") : e \in Has("end", q)
  <1>1. ASSUME NEW q \in With(S, "add")
        PROVE  (\E i \in Bring(q) : i.ns = e[1] /\ i.name = e[2]) <=> e \in Has("end", q)
    <2>1. Has("end", q) = IF q.peer = NoEnd THEN {<<q.ns, q.dev>>} ELSE {<<q.ns, q.dev>>, q.peer}
      BY DEF Has, With, End
    <2>2. /\ Near(q).ns = q.ns /\ Near(q).name = q.dev
          /\ Far(q).ns = q.peer[1] /\ Far(q).name = q.peer[2]
      BY DEF Near, Far
    <2>3. q.peer = <<q.peer[1], q.peer[2]>>
      OBVIOUS
    <2>4. e = <<q.ns, q.dev>> <=> e[1] = q.ns /\ e[2] = q.dev
      OBVIOUS
    <2>5. e = q.peer <=> e[1] = q.peer[1] /\ e[2] = q.peer[2]
      BY <2>3
    <2>6. (\E i \in Bring(q) : i.ns = e[1] /\ i.name = e[2])
          <=> \/ Near(q).ns = e[1] /\ Near(q).name = e[2]
              \/ q.peer # NoEnd /\ Far(q).ns = e[1] /\ Far(q).name = e[2]
      BY DEF Bring
    <2>7. e \in Has("end", q) <=> e = <<q.ns, q.dev>> \/ (q.peer # NoEnd /\ e = q.peer)
      BY <2>1
    <2> QED  BY <2>2, <2>4, <2>5, <2>6, <2>7
  <1>2. There(e[1], e[2]) <=> \/ \E i \in FirstIfs(x) : <<i.ns, i.name>> \notin Gone(S) /\ i.ns = e[1] /\ i.name = e[2]
                              \/ \E q \in With(S, "add") : \E i \in Bring(q) : i.ns = e[1] /\ i.name = e[2]
    BY DEF There, IfsOf
  <1>3. \A i \in FirstIfs(x) : (i.ns = e[1] /\ i.name = e[2]) <=> e = <<i.ns, i.name>>
    OBVIOUS
  <1> QED  BY <1>1, <1>2, <1>3

(* The kernel's answer is a matter of the plan alone: of the request, and of
   what the ones before it brought. *)
HeadAt == History /\ IsList(todo) /\ Shape(cfg, ApplyPlan(cfg)) /\ todo # <<>>

(* Only interfaces and routes are wanted for oneself. *)
LEMMA WantsNothing ==
  ASSUME NEW r, r.op \notin {"add", "route"}
  PROVE  \A tag \in Kinds : Wants(tag, r) = {}
  BY DEF Wants, Has, Kinds

(* Whether the request at the head is allowed, in terms of what has been
   done. *)
LEMMA OkAt ==
  ASSUME HeadAt
  PROVE  LET r == Head(todo)
         IN  Ok(cfg, ApplyPlan(cfg), Past + 1) <=>
               /\ Alone(cfg, r)
               /\ \A tag \in Kinds, q \in Done : Has(tag, q) \cap Wants(tag, r) = {}
               /\ r.op = "route" /\ r.via # NoAddr => \E q \in Done : Serve(q, r)
  <1>1. Past \in Nat /\ Head(todo) = ApplyPlan(cfg)[Past + 1] /\ (Past + 1) - 1 = Past
    BY AtHead DEF HeadAt, Shape
  <1>2. Done = {ApplyPlan(cfg)[i] : i \in 1..Past}
    BY DEF Done, First
  <1> QED  BY <1>1, <1>2 DEF Ok

(* An interface is added where its two names are free: the loopback's and
   those of the bridges are taken from the start, unless an uplink's delete
   took a bridge away. *)
LEMMA AddOk ==
  ASSUME HeadAt, Head(todo).op = "add"
  PROVE  Takes(Head(todo)) <=> Ok(cfg, ApplyPlan(cfg), Past + 1)
  <1> DEFINE r == Head(todo)
             P == ApplyPlan(cfg)
             E == Has("end", r)
  <1>1. /\ Past + 1 \in DOMAIN P /\ r = P[Past + 1]
    BY AtHead DEF HeadAt, Shape
  <1>2. /\ r.peer = <<r.peer[1], r.peer[2]>>
        /\ \A q \in With(Done, "add") : q.peer = <<q.peer[1], q.peer[2]>>
    <2>1. \A q \in Done : \E i \in DOMAIN P : i <= Past /\ q = P[i]
      BY DoneAre DEF HeadAt
    <2> QED  BY <1>1, <2>1 DEF HeadAt, Shape, With
  <1>3. Gone(Done) = {<<Host, h>> : h \in HostIfs(cfg)}
    BY DoneAre DEF HeadAt
  <1>4. E = IF r.peer = NoEnd THEN {<<r.ns, r.dev>>} ELSE {<<r.ns, r.dev>>, r.peer}
    BY DEF Has, End
  <1>5. Takes(r) <=> \A e \in E : Usable(e[2]) /\ ~There(e[1], e[2])
    <2>1. Takes(r) <=> Free(<<r.ns, r.dev>>) /\ (r.peer # NoEnd => Free(r.peer))
      BY DEF Takes
    <2> HIDE DEF E, r
    <2> QED  BY <1>4, <2>1 DEF Free
  <1>6. ASSUME NEW e \in E
        PROVE  There(e[1], e[2]) <=> \/ \E i \in FirstIfs(cfg) : e = <<i.ns, i.name>> /\ e \notin Gone(Done)
                                     \/ \E q \in With(Done, "add") : e \in Has("end", q)
    <2>1. e = <<e[1], e[2]>>
      BY <1>2, <1>4
    <2>2. ifs = IfsOf(cfg, Done)
      BY DEF HeadAt, History
    <2> QED  BY <1>2, <2>1, <2>2, ThereIs
  <1>7. \A q \in Done : q \notin With(Done, "add") => Has("end", q) = {}
    BY DEF Has, With
  <1>8. Wants("end", r) = E /\ Wants("net", r) = {}
    BY DEF Wants, Has
  <1>9. (\A tag \in Kinds, q \in Done : Has(tag, q) \cap Wants(tag, r) = {})
        <=> \A e \in E : ~\E q \in With(Done, "add") : e \in Has("end", q)
    <2>1. (\A tag \in Kinds, q \in Done : Has(tag, q) \cap Wants(tag, r) = {})
          <=> \A q \in Done : Has("end", q) \cap E = {}
      <3> HIDE DEF E
      <3> QED  BY <1>8 DEF Kinds
    <2>2. With(Done, "add") \subseteq Done
      BY DEF With
    <2> HIDE DEF E, r
    <2> QED  BY <1>7, <2>1, <2>2
  <1>10. Alone(cfg, r) <=> \A e \in E : /\ Usable(e[2])
                                        /\ \A i \in FirstIfs(cfg) : e = <<i.ns, i.name>> => e \in Gone(Done)
    <2>1. Alone(cfg, r) <=> \A e \in E :
             /\ Usable(e[2])
             /\ \A i \in FirstIfs(cfg) : e = <<i.ns, i.name>> => i.ns = Host /\ i.name \in HostIfs(cfg)
      BY DEF Alone
    <2>2. \A i \in FirstIfs(cfg) : \A e \in E : e = <<i.ns, i.name>> =>
             (e \in Gone(Done) <=> i.ns = Host /\ i.name \in HostIfs(cfg))
      BY <1>3
    <2> HIDE DEF E, r
    <2> QED  BY <2>1, <2>2
  <1> HIDE DEF E, r
  <1>11. Takes(r) <=> /\ Alone(cfg, r)
                      /\ \A tag \in Kinds, q \in Done : Has(tag, q) \cap Wants(tag, r) = {}
    BY <1>5, <1>6, <1>9, <1>10
  <1> QED  BY <1>11, OkAt DEF r

(* A bridge is there from the start, and an uplink's delete may have taken it
   away. *)
LEMMA MasterOk ==
  ASSUME HeadAt, Head(todo).op = "master"
  PROVE  Takes(Head(todo)) <=> Ok(cfg, ApplyPlan(cfg), Past + 1)
  <1> DEFINE r == Head(todo)
             P == ApplyPlan(cfg)
  <1>1. Past + 1 \in DOMAIN P /\ r = P[Past + 1]
    BY AtHead DEF HeadAt, Shape
  <1>2. r.bridge \in Bridges
    BY <1>1 DEF HeadAt, Shape
  <1>3. \A q \in With(Done, "add") : (q.peer # NoEnd => q.peer[1] # Host) /\ (q.ns = Host => q.peer # NoEnd)
    <2>1. \A q \in Done : \E i \in DOMAIN P : i <= Past /\ q = P[i]
      BY DoneAre DEF HeadAt
    <2> QED  BY <2>1 DEF HeadAt, Shape, With
  <1>4. Gone(Done) = {<<Host, h>> : h \in HostIfs(cfg)}
    BY DoneAre DEF HeadAt
  <1>5. Takes(r) <=> \E i \in ifs : i.ns = Host /\ i.name = r.bridge /\ i.peer = NoEnd
    BY DEF Takes
  <1>6. ASSUME NEW q \in With(Done, "add"), NEW i \in Bring(q), i.ns = Host PROVE i.peer # NoEnd
    <2>1. i = Near(q) \/ (q.peer # NoEnd /\ i = Far(q))
      BY DEF Bring
    <2>2. Near(q).ns = q.ns /\ Near(q).peer = q.peer /\ Far(q).ns = q.peer[1]
      BY DEF Near, Far
    <2> QED  BY <1>3, <1>6, <2>1, <2>2
  <1>7. ifs = IfsOf(cfg, Done)
    BY DEF HeadAt, History
  <1>8. ASSUME Takes(r) PROVE r.bridge \notin HostIfs(cfg)
    <2>1. PICK i \in ifs : i.ns = Host /\ i.name = r.bridge /\ i.peer = NoEnd
      BY <1>5, <1>8
    <2>2. <<i.ns, i.name>> \notin Gone(Done)
      BY <1>6, <1>7, <2>1 DEF IfsOf
    <2> QED  BY <1>4, <2>1, <2>2
  <1>9. ASSUME r.bridge \notin HostIfs(cfg) PROVE Takes(r)
    <2> DEFINE i == [ns |-> Host, name |-> r.bridge, peer |-> NoEnd]
    <2>1. i \in FirstIfs(cfg) /\ i.ns = Host /\ i.name = r.bridge /\ i.peer = NoEnd
      BY <1>2 DEF FirstIfs
    <2>2. <<i.ns, i.name>> \notin Gone(Done)
      BY <1>4, <1>9
    <2>3. i \in ifs
      BY <1>7, <2>1, <2>2 DEF IfsOf
    <2> HIDE DEF i
    <2> QED  BY <1>5, <2>1, <2>3
  <1>10. Alone(cfg, r) <=> r.bridge \notin HostIfs(cfg)
    BY <1>2 DEF Alone
  <1>11. \A tag \in Kinds : Wants(tag, r) = {}
    BY WantsNothing
  <1> QED  BY <1>8, <1>9, <1>10, <1>11, OkAt DEF r

(* The route that an address brings up. *)
Conn(r) == [ns |-> r.ns, dst |-> Masked(r.prefix), dev |-> r.dev, via |-> NoAddr, scope |-> "link"]
Wide(S) == {r \in With(S, "addr") : r.prefix.bits < AddrBits}

(* Before a route the addresses made are up, so their routes are there. *)
LEMMA FibIs ==
  ASSUME HeadAt, Head(todo).op = "route"
  PROVE  Fib = {Made(q) : q \in With(Done, "route")} \cup {Conn(q) : q \in Wide(Done)}
  <1> DEFINE P == ApplyPlan(cfg)
  <1>1. Past \in Nat /\ Past + 1 \in DOMAIN P /\ Head(todo) = P[Past + 1] /\ DOMAIN P = 1..Len(P) /\ Len(P) \in Nat
    BY AtHead DEF HeadAt, Shape
  <1>2. ASSUME NEW q \in With(Done, "addr") PROVE End(q) \in up
    <2>1. PICK i \in DOMAIN P : i <= Past /\ q = P[i] /\ P[i].op = "addr"
      BY DoneAre DEF HeadAt, With
    <2>2. PICK m \in DOMAIN P : /\ m > i /\ P[m].op = "up" /\ End(P[m]) = End(P[i])
                                /\ \A j \in DOMAIN P : i <= j /\ j <= m => P[j].op # "route"
      BY <2>1 DEF HeadAt, Shape
    <2>3. m <= Past
      <3>1. ~(i <= Past + 1 /\ Past + 1 <= m)
        BY <1>1, <2>2
      <3> HIDE DEF P
      <3> QED  BY <1>1, <2>1, <3>1
    <2>4. P[m] \in Done
      BY <2>3, DoneAre DEF HeadAt
    <2>5. P[m] \in With(Done, "up")
      BY <2>2, <2>4 DEF With
    <2>6. up = UpOf(Done)
      BY DEF HeadAt, History
    <2> HIDE DEF P
    <2> QED  BY <2>1, <2>2, <2>5, <2>6 DEF UpOf
  <1>3. addrs = {Given(q) : q \in With(Done, "addr")} /\ routes = {Made(q) : q \in With(Done, "route")}
    BY DEF HeadAt, History, AddrsOf, RoutesOf
  <1>4. \A q : Given(q).ns = q.ns /\ Given(q).dev = q.dev /\ Given(q).prefix = q.prefix
    BY DEF Given
  <1>5. {b \in addrs : b.prefix.bits < AddrBits /\ <<b.ns, b.dev>> \in up} = {Given(q) : q \in Wide(Done)}
    <2>1. \A q \in With(Done, "addr") : <<Given(q).ns, Given(q).dev>> \in up
      BY <1>2, <1>4 DEF End
    <2>2. \A q : q \in Wide(Done) <=> q \in With(Done, "addr") /\ Given(q).prefix.bits < AddrBits
      BY <1>4 DEF Wide
    <2> QED  BY <1>3, <2>1, <2>2
  <1>6. Connected = {[ns |-> a.ns, dst |-> Masked(a.prefix), dev |-> a.dev, via |-> NoAddr, scope |-> "link"] :
                      a \in {Given(q) : q \in Wide(Done)}}
    BY <1>5 DEF Connected
  <1>7. Connected = {Conn(q) : q \in Wide(Done)}
    <2>1. \A q : [ns |-> Given(q).ns, dst |-> Masked(Given(q).prefix), dev |-> Given(q).dev,
                  via |-> NoAddr, scope |-> "link"] = Conn(q)
      BY <1>4 DEF Conn
    <2> QED  BY <1>6, <2>1
  <1> QED  BY <1>3, <1>7 DEF Fib

(* A route is added if there is none to its prefix, and if its next hop is on
   the link. *)
LEMMA RouteOk ==
  ASSUME HeadAt, Head(todo).op = "route"
  PROVE  Takes(Head(todo)) <=> Ok(cfg, ApplyPlan(cfg), Past + 1)
  <1> DEFINE r == Head(todo)
             S == Done
  <1>1. Fib = {Made(q) : q \in With(S, "route")} \cup {Conn(q) : q \in Wide(S)}
    BY FibIs
  <1>2. Takes(r) <=> /\ Masked(r.dst) = r.dst
                     /\ \A f \in Fib : f.ns = r.ns => f.dst # r.dst
                     /\ r.via # NoAddr => OnLink(r.ns, r.dev, r.via)
    BY DEF Takes
  <1>3. /\ \A q : Made(q).ns = q.ns /\ Made(q).dst = q.dst /\ Made(q).dev = q.dev /\ Made(q).scope = q.scope
        /\ \A q : Conn(q).ns = q.ns /\ Conn(q).dst = Masked(q.prefix) /\ Conn(q).dev = q.dev /\ Conn(q).scope = "link"
    BY DEF Made, Conn
  <1>4. Wants("net", r) = {<<r.ns, r.dst>>} /\ Wants("end", r) = {}
    BY DEF Wants, Has
  <1>5. \A q \in S : /\ q.op = "route" => Has("net", q) = {<<q.ns, q.dst>>}
                     /\ q.op # "route" /\ q \in Wide(S) => Has("net", q) = {<<q.ns, Masked(q.prefix)>>}
                     /\ q.op # "route" /\ q \notin Wide(S) => Has("net", q) = {}
    BY DEF Has, Wide, With
  <1>6. \A q : q \in With(S, "route") <=> q \in S /\ q.op = "route"
    BY DEF With
  <1>7. \A q \in Wide(S) : q \in S /\ q.op = "addr" /\ q.prefix.bits < AddrBits
    BY DEF Wide, With
  <1> HIDE DEF S
  <1>8. (\A tag \in Kinds, q \in S : Has(tag, q) \cap Wants(tag, r) = {})
        <=> \A q \in S : <<r.ns, r.dst>> \notin Has("net", q)
    BY <1>4 DEF Kinds
  <1> HIDE DEF r
  <1>9. (\A f \in Fib : f.ns = r.ns => f.dst # r.dst)
        <=> /\ \A q \in With(S, "route") : q.ns = r.ns => q.dst # r.dst
            /\ \A q \in Wide(S) : q.ns = r.ns => Masked(q.prefix) # r.dst
    BY <1>1, <1>3
  <1>10. (\A q \in S : <<r.ns, r.dst>> \notin Has("net", q))
         <=> /\ \A q \in With(S, "route") : q.ns = r.ns => q.dst # r.dst
             /\ \A q \in Wide(S) : q.ns = r.ns => Masked(q.prefix) # r.dst
    <2>1. \A q \in With(S, "route") : <<r.ns, r.dst>> \notin Has("net", q) <=> (q.ns = r.ns => q.dst # r.dst)
      BY <1>5, <1>6
    <2>2. \A q \in Wide(S) : <<r.ns, r.dst>> \notin Has("net", q) <=> (q.ns = r.ns => Masked(q.prefix) # r.dst)
      BY <1>5, <1>7
    <2>3. \A q \in S : q \in With(S, "route") \/ q \in Wide(S) \/ Has("net", q) = {}
      BY <1>5, <1>6
    <2>4. With(S, "route") \subseteq S /\ Wide(S) \subseteq S
      BY <1>6, <1>7
    <2> QED  BY <2>1, <2>2, <2>3, <2>4
  <1>11. OnLink(r.ns, r.dev, r.via) <=> \E q \in S : Serve(q, r)
    <2>1. OnLink(r.ns, r.dev, r.via) <=>
            \/ \E q \in With(S, "route") : q.ns = r.ns /\ q.dev = r.dev /\ q.scope = "link" /\ Covers(q.dst, r.via)
            \/ \E q \in Wide(S) : q.ns = r.ns /\ q.dev = r.dev /\ Covers(Masked(q.prefix), r.via)
      BY <1>1, <1>3 DEF OnLink
    <2>2. \A q \in With(S, "route") : Serve(q, r) <=> q.ns = r.ns /\ q.dev = r.dev /\ q.scope = "link" /\ Covers(q.dst, r.via)
      BY <1>6 DEF Serve
    <2>3. \A q \in Wide(S) : Serve(q, r) <=> q.ns = r.ns /\ q.dev = r.dev /\ Covers(Masked(q.prefix), r.via)
      BY <1>7 DEF Serve
    <2>4. \A q \in S : Serve(q, r) => q \in With(S, "route") \/ q \in Wide(S)
      BY <1>6 DEF Serve, Wide, With
    <2>5. With(S, "route") \subseteq S /\ Wide(S) \subseteq S
      BY <1>6, <1>7
    <2> QED  BY <2>1, <2>2, <2>3, <2>4, <2>5
  <1>12. Alone(cfg, r) <=> Masked(r.dst) = r.dst
    BY DEF Alone, r
  <1>13. r.op = "route"
    BY DEF r
  <1> QED  BY <1>2, <1>8, <1>9, <1>10, <1>11, <1>12, <1>13, OkAt DEF r, S

(* What the kernel answers to the next request. *)
LEMMA HeadOk ==
  ASSUME HeadAt
  PROVE  Takes(Head(todo)) <=> Ok(cfg, ApplyPlan(cfg), Past + 1)
  <1> DEFINE r == Head(todo)
  <1>1. CASE r.op = "add"
    BY <1>1, AddOk
  <1>2. CASE r.op = "master"
    BY <1>2, MasterOk
  <1>3. CASE r.op = "route"
    BY <1>3, RouteOk
  <1>4. CASE r.op \notin {"add", "master", "route"}
    <2>1. Takes(r) <=> Alone(cfg, r)
      BY <1>4 DEF Takes, Alone
    <2>2. \A tag \in Kinds : Wants(tag, r) = {}
      BY <1>4, WantsNothing
    <2> HIDE DEF r
    <2>3. r.op # "route"
      BY <1>4
    <2> QED  BY <2>1, <2>2, <2>3, OkAt DEF r
  <1> QED  BY <1>1, <1>2, <1>3, <1>4

(* Every request so far was one the plan allows. *)
LEMMA NextPassed ==
  ASSUME History, Passed, refused \in BOOLEAN, IsList(todo), Shape(cfg, ApplyPlan(cfg)), [Next]_vars
  PROVE  Passed'
  <1>0. IsList(ApplyPlan(cfg))
    BY DEF Shape
  <1>1. ASSUME NEW op, Request(op) PROVE Passed'
    <2>1. /\ todo # <<>> /\ Past \in Nat /\ Past' = Past + 1
          /\ cfg' = cfg /\ refused' = refused /\ ~refused /\ Takes(Head(todo))
      BY <1>0, <1>1, HistoryMoves
    <2>2. Ok(cfg, ApplyPlan(cfg), Past + 1)
      BY <2>1, HeadOk DEF HeadAt
    <2>3. \A j \in 1..(Past + 1) : Ok(cfg, ApplyPlan(cfg), j)
      BY <2>1, <2>2 DEF Passed
    <2>4. Passed' <=> /\ \A j \in 1..(Past + 1) : Ok(cfg, ApplyPlan(cfg), j)
                      /\ refused' => ~Ok(cfg, ApplyPlan(cfg), Past' + 1)
      BY <2>1 DEF Passed
    <2> QED  BY <2>1, <2>3, <2>4
  <1>2. CASE Refuse
    <2>1. todo # <<>> /\ ~Takes(Head(todo)) /\ Past' = Past /\ cfg' = cfg
      BY <1>2 DEF Refuse, Past
    <2>2. ~Ok(cfg, ApplyPlan(cfg), Past + 1)
      BY <2>1, HeadOk DEF HeadAt
    <2> QED  BY <2>1, <2>2 DEF Passed
  <1>3. CASE UNCHANGED vars
    BY <1>3 DEF vars, Passed, Past
  <1> QED  BY <1>1, <1>2, <1>3 DEF Next, LinkDel, LinkAdd, AddrAdd, LinkSetUp, RouteAdd, LinkSetMaster, LinkSetHardwareAddr
==============================================================================
