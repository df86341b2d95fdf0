------------------------- MODULE WiringExactProofs -------------------------
(***************************************************************************)
(* Which plans the kernel takes, and where the routes of a wired one lead: *)
(* the proofs of Exact and Delivered.                                      *)
(*                                                                         *)
(* WiringProofs ends with the kernel's answer being a matter of the plan   *)
(* alone (Ok): the j-th request is taken if it is right by itself (Alone), *)
(* if nothing before it has what it wants (NoClash), and if its next hop   *)
(* is on the link by a request before it (ServedBy).  Here the plan is     *)
(* taken apart as apply takes it apart: each Connect, HostEdgeConnect and  *)
(* LinkConnect is a part, with the interfaces and the routes it has and    *)
(* wants, and what it asks of itself; a plan is right when its parts are   *)
(* and no two of them clash (PlanPart).  What is left of the clashes when  *)
(* validation and the names of the namespaces have ruled out the others is *)
(* NamesFit and RoutesFit (NamesTaken, RoutesTaken): Exact.                *)
(*                                                                         *)
(* In a plan that is wired all that was asked for is there, once: an       *)
(* interface name is the end of one pair (Neighbors), and a route to one   *)
(* address is the best there is (OneBest).  So each hop of a packet is     *)
(* that of one route: Delivered.                                           *)
(***************************************************************************)
EXTENDS WiringProofs

------------------------------------------------------------------------------
(* Pairs of requests in lists that are joined *)

(* No request of a list wants what an earlier one has; and none of one set
   what one of another has. *)
NoClash(tag, s)    == \A i, j \in DOMAIN s : i < j => Has(tag, s[i]) \cap Wants(tag, s[j]) = {}
Clear(tag, S, T) == \A p \in S, q \in T : Has(tag, p) \cap Wants(tag, q) = {}

(* Lists that are joined. *)
LEMMA RangeOnto ==
  ASSUME NEW s, NEW t, IsList(s), IsList(t)
  PROVE  IsList(s \o t) /\ Range(s \o t) = Range(s) \cup Range(t)
  <1> DEFINE u == s \o t
  <1>1. Join(u, s, t)
    BY Joined
  <1> HIDE DEF u
  <1>2. ASSUME NEW i \in DOMAIN u PROVE u[i] \in Range(s) \cup Range(t)
    BY <1>1 DEF Join, Range
  <1>3. \A i \in DOMAIN s : s[i] \in Range(u)
    BY <1>1 DEF Join, Range
  <1>4. ASSUME NEW i \in DOMAIN t PROVE t[i] \in Range(u)
    <2>1. Len(s) + i \in DOMAIN u /\ u[Len(s) + i] = t[i]
      BY <1>1 DEF Join
    <2> QED  BY <2>1 DEF Range
  <1>5. Range(u) = Range(s) \cup Range(t)
    BY <1>2, <1>3, <1>4 DEF Range
  <1> QED  BY <1>1, <1>5 DEF Join, u

(* A joined list has no clash if its parts have none, and the second none with
   the first. *)
LEMMA FreeOnto ==
  ASSUME NEW s, NEW t, IsList(s), IsList(t), NEW tag
  PROVE  NoClash(tag, s \o t) <=> NoClash(tag, s) /\ NoClash(tag, t) /\ Clear(tag, Range(s), Range(t))
  <1> DEFINE u == s \o t
  <1>1. Join(u, s, t)
    BY Joined
  <1> HIDE DEF u
  <1>2. /\ Len(s) \in Nat /\ Len(t) \in Nat
        /\ DOMAIN s = 1..Len(s) /\ DOMAIN t = 1..Len(t)
        /\ DOMAIN u = 1..(Len(s) + Len(t))
        /\ \A i \in DOMAIN s : u[i] = s[i]
        /\ \A i \in DOMAIN t : u[Len(s) + i] = t[i]
        /\ \A i \in DOMAIN u : i \in DOMAIN s \/ \E j \in DOMAIN t : i = Len(s) + j
    BY <1>1 DEF Join
  <1>3. ASSUME NoClash(tag, u) PROVE NoClash(tag, s) /\ NoClash(tag, t) /\ Clear(tag, Range(s), Range(t))
    <2>1. NoClash(tag, s)
      BY <1>2, <1>3 DEF NoClash
    <2>2. ASSUME NEW i \in DOMAIN t, NEW j \in DOMAIN t, i < j
          PROVE  Has(tag, t[i]) \cap Wants(tag, t[j]) = {}
      <3>1. Len(s) + i \in DOMAIN u /\ Len(s) + j \in DOMAIN u /\ Len(s) + i < Len(s) + j
        BY <1>2, <2>2
      <3> QED  BY <1>2, <1>3, <3>1 DEF NoClash
    <2>3. ASSUME NEW i \in DOMAIN s, NEW j \in DOMAIN t
          PROVE  Has(tag, s[i]) \cap Wants(tag, t[j]) = {}
      <3>1. i \in DOMAIN u /\ Len(s) + j \in DOMAIN u /\ i < Len(s) + j
        BY <1>2
      <3> QED  BY <1>2, <1>3, <3>1 DEF NoClash
    <2> QED  BY <2>1, <2>2, <2>3 DEF NoClash, Clear, Range
  <1>4. ASSUME NoClash(tag, s), NoClash(tag, t), Clear(tag, Range(s), Range(t)),
               NEW i \in DOMAIN u, NEW j \in DOMAIN u, i < j
        PROVE  Has(tag, u[i]) \cap Wants(tag, u[j]) = {}
    <2>1. CASE j \in DOMAIN s
      <3>1. i \in DOMAIN s
        BY <1>2, <1>4, <2>1
      <3> QED  BY <1>2, <1>4, <2>1, <3>1 DEF NoClash
    <2>2. CASE j \notin DOMAIN s
      <3>1. PICK l \in DOMAIN t : j = Len(s) + l
        BY <1>2, <2>2
      <3>2. CASE i \in DOMAIN s
        BY <1>2, <1>4, <3>1, <3>2 DEF Clear, Range
      <3>3. CASE i \notin DOMAIN s
        <4>1. PICK k \in DOMAIN t : i = Len(s) + k
          BY <1>2, <3>3
        <4>2. k < l
          BY <1>2, <1>4, <3>1, <4>1
        <4> QED  BY <1>2, <1>4, <3>1, <4>1, <4>2 DEF NoClash
      <3> QED  BY <3>2, <3>3
    <2> QED  BY <2>1, <2>2
  <1>5. NoClash(tag, u) <=> NoClash(tag, s) /\ NoClash(tag, t) /\ Clear(tag, Range(s), Range(t))
    BY <1>3, <1>4 DEF NoClash
  <1> QED  BY <1>5 DEF u

(* How a family is put in order: member after member. *)
Steps(f, g, L) ==
  /\ L \in Nat /\ \A i \in DOMAIN f : i \in 1..L
  /\ g[0] = <<>> /\ InOrder(f) = g[L]
  /\ \A k \in Nat : k + 1 <= L => g[k + 1] = IF k + 1 \in DOMAIN f THEN g[k] \o f[k + 1] ELSE g[k]

(* Every family of lists can be put in order. *)
LEMMA Built ==
  ASSUME NEW f, Ids(DOMAIN f), \A i \in DOMAIN f : IsList(f[i])
  PROVE  \E g, L : Steps(f, g, L)
  <1> DEFINE L == Latest(DOMAIN f)
             h == [i \in 1..L |-> If(i \in DOMAIN f, f[i])]
  <1>1. L \in Nat /\ \A i \in DOMAIN f : i \in 1..L
    BY LastOf
  <1>2. InOrder(f) = FlattenSeq(h)
    BY DEF InOrder, Latest
  <1>3. DOMAIN h = 1..L /\ Len(h) = L
    <2> HIDE DEF L
    <2> QED  BY <1>1
  <1>4. \A i \in 1..L : h[i] = IF i \in DOMAIN f THEN f[i] ELSE <<>>
    <2> HIDE DEF L
    <2> QED  BY DEF If
  <1>u. PICK U : \A i \in DOMAIN f : f[i] \in Seq(U)
    BY Common
  <1>5. h = [i \in 1..L |-> h[i]]
    <2> HIDE DEF L
    <2> QED  OBVIOUS
  <1> HIDE DEF h, L
  <1>6. CASE L = 0
    <2>1. h = <<>>
      <3>1. \A i \in 1..L : FALSE
        BY <1>6
      <3> QED  BY <1>5, <3>1
    <2>2. FlattenSeq(h) = h
      BY <1>3, <1>6 DEF FlattenSeq
    <2> DEFINE g == [k \in {0} |-> <<>>]
    <2>3. g[0] = <<>>
      OBVIOUS
    <2>4. \A k \in Nat : ~(k + 1 <= L)
      BY <1>6
    <2> HIDE DEF g
    <2>5. Steps(f, g, L)
      BY <1>1, <1>2, <1>6, <2>1, <2>2, <2>3, <2>4 DEF Steps
    <2> QED  BY <2>5
  <1>7. CASE L # 0
    <2>1. PICK e : IsFlat(e, h, L) /\ FlattenSeq(h) = e[L]
      BY <1>1, <1>3, <1>7, Flat
    <2>2. \A i \in 1..L : e[i] = IF i = 1 THEN h[i] ELSE e[i - 1] \o h[i]
      BY <2>1, FlatIs
    <2> DEFINE g == [k \in 0..L |-> IF k = 0 THEN <<>> ELSE e[k]]
    <2>3. g[0] = <<>> /\ \A k \in 1..L : g[k] = e[k]
      BY <1>1
    <2> HIDE DEF g
    <2>4. \A s \in Seq(U) : <<>> \o s = s /\ s \o <<>> = s
      OBVIOUS
    <2>5. <<>> \in Seq(U) /\ \A s, t \in Seq(U) : s \o t \in Seq(U)
      BY ConcatProperties
    <2>6. \A i \in 1..L : h[i] \in Seq(U)
      BY <1>4, <1>u, <2>5
    <2>7. ASSUME NEW k \in Nat, k + 1 <= L
          PROVE  g[k + 1] = g[k] \o h[k + 1]
      <3>1. k + 1 \in 1..L /\ (k + 1) - 1 = k /\ (k # 0 => k \in 1..L /\ k + 1 # 1)
        BY <1>1, <2>7
      <3>2. CASE k = 0
        <4>1. g[k + 1] = h[1] /\ h[1] \in Seq(U)
          BY <2>2, <2>3, <2>6, <3>1, <3>2
        <4>2. g[k] = <<>> /\ k + 1 = 1
          BY <2>3, <3>2
        <4>3. <<>> \o h[1] = h[1]
          BY <2>4, <4>1
        <4> QED  BY <4>1, <4>2, <4>3
      <3>3. CASE k # 0
        BY <2>2, <2>3, <3>1, <3>3
      <3> QED  BY <3>2, <3>3
    <2> DEFINE N == {k \in Nat : k <= L => g[k] \in Seq(U)}
    <2>8. 0 \in N
      BY <2>3, <2>5
    <2>9. ASSUME NEW k \in Nat, k \in N PROVE k + 1 \in N
      <3>1. k + 1 <= L => k <= L /\ k + 1 \in 1..L
        BY <1>1
      <3>2. ASSUME k + 1 <= L PROVE g[k + 1] \in Seq(U)
        <4>1. g[k] \in Seq(U) /\ h[k + 1] \in Seq(U)
          BY <2>6, <2>9, <3>1, <3>2
        <4>2. g[k] \o h[k + 1] \in Seq(U)
          BY <2>5, <4>1
        <4>3. g[k + 1] = g[k] \o h[k + 1]
          BY <2>7, <3>2
        <4> QED  BY <4>2, <4>3
      <3>3. k + 1 \in Nat
        OBVIOUS
      <3> QED  BY <3>2, <3>3
    <2>10. Nat \subseteq N
      <3> HIDE DEF N
      <3> QED  BY <2>8, <2>9, Induction
    <2>11. ASSUME NEW k \in Nat, k + 1 <= L
           PROVE  g[k + 1] = IF k + 1 \in DOMAIN f THEN g[k] \o f[k + 1] ELSE g[k]
      <3>1. k + 1 \in 1..L /\ k <= L
        BY <1>1, <2>11
      <3>2. g[k] \in Seq(U)
        BY <2>10, <3>1
      <3> QED  BY <1>4, <2>4, <2>7, <2>11, <3>1, <3>2
    <2>12. InOrder(f) = g[L]
      <3>1. L \in 1..L
        BY <1>1, <1>7
      <3> QED  BY <1>2, <2>1, <2>3, <3>1
    <2>13. Steps(f, g, L)
      BY <1>1, <2>3, <2>11, <2>12 DEF Steps
    <2> QED  BY <2>13
  <1> QED  BY <1>6, <1>7

(* The elements of a family in order, and when it is free. *)
LEMMA FamilyInOrder ==
  ASSUME NEW f, Ids(DOMAIN f), \A i \in DOMAIN f : IsList(f[i])
  PROVE  /\ IsList(InOrder(f))
         /\ Range(InOrder(f)) = UNION {Range(f[i]) : i \in DOMAIN f}
         /\ \A tag : NoClash(tag, InOrder(f)) <=>
              /\ \A i \in DOMAIN f : NoClash(tag, f[i])
              /\ \A i, j \in DOMAIN f : i < j => Clear(tag, Range(f[i]), Range(f[j]))
  <1>1. PICK g, L : Steps(f, g, L)
    BY Built
  <1>i. DOMAIN f \subseteq Nat \ {0}
    BY DEF Ids
  <1> DEFINE Upto(k)     == {i \in DOMAIN f : i <= k}
             Elems(k)    == UNION {Range(f[i]) : i \in Upto(k)}
             Fits(tag, k) == /\ \A i \in Upto(k) : NoClash(tag, f[i])
                             /\ \A i, j \in Upto(k) : i < j => Clear(tag, Range(f[i]), Range(f[j]))
             N == {k \in Nat : k <= L => /\ IsList(g[k]) /\ Range(g[k]) = Elems(k)
                                         /\ \A tag : NoClash(tag, g[k]) <=> Fits(tag, k)}
  <1>2. 0 \in N
    <2>1. g[0] = <<>> /\ Upto(0) = {}
      BY <1>1, <1>i DEF Steps
    <2>2. IsList(<<>>) /\ Range(<<>>) = {} /\ \A tag : NoClash(tag, <<>>)
      BY Nothing DEF Range, NoClash
    <2>3. Elems(0) = {} /\ \A tag : Fits(tag, 0)
      BY <2>1
    <2> HIDE DEF Elems, Fits
    <2> QED  BY <2>1, <2>2, <2>3
  <1>3. ASSUME NEW k \in Nat, k \in N PROVE k + 1 \in N
    <2> SUFFICES ASSUME k + 1 <= L
                 PROVE  /\ IsList(g[k + 1]) /\ Range(g[k + 1]) = Elems(k + 1)
                        /\ \A tag : NoClash(tag, g[k + 1]) <=> Fits(tag, k + 1)
      OBVIOUS
    <2>1. k <= L
      BY <1>1 DEF Steps
    <2>2. IsList(g[k]) /\ Range(g[k]) = Elems(k) /\ \A tag : NoClash(tag, g[k]) <=> Fits(tag, k)
      BY <1>3, <2>1
    <2>3. CASE k + 1 \notin DOMAIN f
      <3>1. g[k + 1] = g[k]
        BY <1>1, <2>3 DEF Steps
      <3>2. Upto(k + 1) = Upto(k)
        BY <1>i, <2>3
      <3> QED  BY <2>2, <3>1, <3>2
    <2>4. CASE k + 1 \in DOMAIN f
      <3> DEFINE t == f[k + 1]
      <3>1. g[k + 1] = g[k] \o t /\ IsList(t)
        BY <1>1, <2>4 DEF Steps
      <3>2. Upto(k + 1) = Upto(k) \cup {k + 1} /\ k + 1 \notin Upto(k)
        BY <1>i, <2>4
      <3>3. \A i \in Upto(k) : i < k + 1 /\ ~(k + 1 < i)
        BY <1>i
      <3>4. IsList(g[k + 1]) /\ Range(g[k + 1]) = Elems(k) \cup Range(t)
        BY <2>2, <3>1, RangeOnto
      <3>5. Elems(k + 1) = Elems(k) \cup Range(t)
        <4> HIDE DEF Upto
        <4> QED  BY <3>2
      <3>6. ASSUME NEW tag PROVE NoClash(tag, g[k + 1]) <=> Fits(tag, k + 1)
        <4>1. NoClash(tag, g[k + 1]) <=> Fits(tag, k) /\ NoClash(tag, t) /\ Clear(tag, Elems(k), Range(t))
          <5> HIDE DEF Fits, Elems, t
          <5>1. NoClash(tag, g[k] \o t) <=> NoClash(tag, g[k]) /\ NoClash(tag, t) /\ Clear(tag, Range(g[k]), Range(t))
            BY <2>2, <3>1, FreeOnto
          <5> QED  BY <2>2, <3>1, <5>1
        <4>2. Clear(tag, Elems(k), Range(t)) <=> \A i \in Upto(k) : Clear(tag, Range(f[i]), Range(t))
          <5> HIDE DEF Upto
          <5> QED  BY DEF Clear
        <4>3. Fits(tag, k + 1) <=> Fits(tag, k) /\ NoClash(tag, t) /\ \A i \in Upto(k) : Clear(tag, Range(f[i]), Range(t))
          <5>1. ~(k + 1 < k + 1)
            OBVIOUS
          <5> HIDE DEF Upto
          <5> QED  BY <3>2, <3>3, <5>1
        <4> QED  BY <4>1, <4>2, <4>3
      <3> QED  BY <3>4, <3>5, <3>6
    <2> QED  BY <2>3, <2>4
  <1>4. Nat \subseteq N
    <2> HIDE DEF N
    <2> QED  BY <1>2, <1>3, Induction
  <1>5. L \in N /\ InOrder(f) = g[L] /\ L \in Nat /\ \A i \in DOMAIN f : i <= L
    <2>1. L \in Nat /\ InOrder(f) = g[L] /\ \A i \in DOMAIN f : i \in 1..L
      BY <1>1 DEF Steps
    <2>2. \A i \in DOMAIN f : i <= L
      BY <2>1
    <2> HIDE DEF N
    <2> QED  BY <1>4, <2>1, <2>2
  <1>6. Upto(L) = DOMAIN f
    <2>1. \A i \in DOMAIN f : i <= L
      BY <1>5
    <2> QED  BY <2>1
  <1> HIDE DEF Upto
  <1> QED  BY <1>5, <1>6

(* Addresses are up before the next route; and a next hop is on its link by
   a request before, in the list or in a set. *)
Upped(s) ==
  /\ IsList(s)
  /\ \A i \in DOMAIN s : s[i].op = "addr" =>
       \E m \in DOMAIN s : /\ m > i /\ s[m].op = "up" /\ End(s[m]) = End(s[i])
                           /\ \A j \in DOMAIN s : i <= j /\ j <= m => s[j].op # "route"
Hopping(r)     == r.op = "route" /\ r.via # NoAddr
ServedBy(S, s) ==
  /\ IsList(s)
  /\ \A j \in DOMAIN s : Hopping(s[j]) => \/ \E i \in DOMAIN s : i < j /\ Serve(s[i], s[j])
                                          \/ \E q \in S : Serve(q, s[j])

(* A joined list brings up what its parts do. *)
LEMMA UppedOnto ==
  ASSUME NEW s, NEW t, Upped(s), Upped(t)
  PROVE  Upped(s \o t)
  <1> DEFINE u == s \o t
             Soon(i) == \E m \in DOMAIN u : /\ m > i /\ u[m].op = "up" /\ End(u[m]) = End(u[i])
                                            /\ \A j \in DOMAIN u : i <= j /\ j <= m => u[j].op # "route"
  <1>1. Join(u, s, t)
    BY Joined DEF Upped
  <1> HIDE DEF u
  <1>2. /\ Len(s) \in Nat /\ Len(t) \in Nat
        /\ DOMAIN s = 1..Len(s) /\ DOMAIN t = 1..Len(t)
        /\ DOMAIN u = 1..(Len(s) + Len(t))
        /\ \A i \in DOMAIN s : u[i] = s[i]
        /\ \A i \in DOMAIN t : u[Len(s) + i] = t[i]
        /\ \A i \in DOMAIN u : i \in DOMAIN s \/ \E j \in DOMAIN t : i = Len(s) + j
    BY <1>1 DEF Join
  <1>3. ASSUME NEW i \in DOMAIN s, s[i].op = "addr" PROVE Soon(i)
    <2>1. PICK m \in DOMAIN s : /\ m > i /\ s[m].op = "up" /\ End(s[m]) = End(s[i])
                                /\ \A j \in DOMAIN s : i <= j /\ j <= m => s[j].op # "route"
      BY <1>3 DEF Upped
    <2>2. \A j \in DOMAIN u : j <= m => j \in DOMAIN s
      BY <1>2
    <2>3. m \in DOMAIN u
      BY <1>2
    <2> QED  BY <1>2, <2>1, <2>2, <2>3
  <1>4. ASSUME NEW i \in DOMAIN t, t[i].op = "addr" PROVE Soon(Len(s) + i)
    <2>1. PICK m \in DOMAIN t : /\ m > i /\ t[m].op = "up" /\ End(t[m]) = End(t[i])
                                /\ \A j \in DOMAIN t : i <= j /\ j <= m => t[j].op # "route"
      BY <1>4 DEF Upped
    <2>2. Len(s) + m \in DOMAIN u /\ Len(s) + m > Len(s) + i
      BY <1>2, <2>1
    <2>3. ASSUME NEW j \in DOMAIN u, Len(s) + i <= j, j <= Len(s) + m PROVE u[j].op # "route"
      <3>1. PICK k \in DOMAIN t : j = Len(s) + k
        <4>1. j \notin DOMAIN s
          BY <1>2, <2>3
        <4> QED  BY <1>2, <4>1
      <3>2. i <= k /\ k <= m
        BY <1>2, <2>3, <3>1
      <3> QED  BY <1>2, <2>1, <3>1, <3>2
    <2>4. u[Len(s) + m] = t[m] /\ u[Len(s) + i] = t[i]
      BY <1>2
    <2> QED  BY <2>1, <2>2, <2>3, <2>4
  <1>5. ASSUME NEW i \in DOMAIN u, u[i].op = "addr" PROVE Soon(i)
    <2> HIDE DEF Soon
    <2> QED  BY <1>2, <1>3, <1>4, <1>5
  <1>6. IsList(u)
    BY <1>1 DEF Join
  <1> QED  BY <1>5, <1>6 DEF Upped, u

(* What the first list leaves behind may serve the second. *)
LEMMA ServedOnto ==
  ASSUME NEW s, NEW t, NEW S, NEW T, ServedBy(S, s), ServedBy(T, t), T \subseteq S \cup Range(s)
  PROVE  ServedBy(S, s \o t)
  <1> DEFINE u == s \o t
             By(j) == (\E i \in DOMAIN u : i < j /\ Serve(u[i], u[j])) \/ \E q \in S : Serve(q, u[j])
  <1>1. Join(u, s, t)
    BY Joined DEF ServedBy
  <1> HIDE DEF u
  <1>2. /\ Len(s) \in Nat /\ Len(t) \in Nat
        /\ DOMAIN s = 1..Len(s) /\ DOMAIN t = 1..Len(t)
        /\ DOMAIN u = 1..(Len(s) + Len(t))
        /\ \A i \in DOMAIN s : u[i] = s[i]
        /\ \A i \in DOMAIN t : u[Len(s) + i] = t[i]
        /\ \A i \in DOMAIN u : i \in DOMAIN s \/ \E j \in DOMAIN t : i = Len(s) + j
    BY <1>1 DEF Join
  <1>3. DOMAIN s \subseteq DOMAIN u
    BY <1>2
  <1>4. ASSUME NEW j \in DOMAIN s, Hopping(s[j]) PROVE By(j)
    BY <1>2, <1>3, <1>4 DEF ServedBy
  <1>5. ASSUME NEW j \in DOMAIN t, Hopping(t[j]) PROVE By(Len(s) + j)
    <2>1. CASE \E i \in DOMAIN t : i < j /\ Serve(t[i], t[j])
      <3>1. PICK i \in DOMAIN t : i < j /\ Serve(t[i], t[j])
        BY <2>1
      <3>2. Len(s) + i \in DOMAIN u /\ Len(s) + i < Len(s) + j
        BY <1>2, <3>1
      <3> QED  BY <1>2, <3>1, <3>2
    <2>2. CASE \E q \in T : Serve(q, t[j])
      <3>1. PICK q \in T : Serve(q, t[j])
        BY <2>2
      <3>2. CASE q \in S
        BY <1>2, <3>1, <3>2
      <3>3. CASE q \in Range(s)
        <4>1. PICK i \in DOMAIN s : q = s[i]
          BY <3>3 DEF Range
        <4>2. i < Len(s) + j
          BY <1>2
        <4> QED  BY <1>2, <1>3, <3>1, <4>1, <4>2
      <3> QED  BY <3>1, <3>2, <3>3
    <2> HIDE DEF By
    <2> QED  BY <1>5, <2>1, <2>2 DEF ServedBy
  <1>6. ASSUME NEW j \in DOMAIN u, Hopping(u[j]) PROVE By(j)
    <2> HIDE DEF By
    <2> QED  BY <1>2, <1>4, <1>5, <1>6
  <1>7. IsList(u)
    BY <1>1 DEF Join
  <1> QED  BY <1>6, <1>7 DEF ServedBy, u

(* The same for a family in order. *)
LEMMA ServedInOrder ==
  ASSUME NEW f, Ids(DOMAIN f)
  PROVE  /\ (\A i \in DOMAIN f : Upped(f[i])) => Upped(InOrder(f))
         /\ \A S : (\A i \in DOMAIN f : ServedBy(S, f[i])) => ServedBy(S, InOrder(f))
  <1>0. IsList(<<>>) /\ DOMAIN <<>> = {}
    BY Nothing
  <1>1. ASSUME \A i \in DOMAIN f : Upped(f[i]) PROVE Upped(InOrder(f))
    <2>1. PICK U : \A i \in DOMAIN f : f[i] \in Seq(U)
      BY <1>1, Common DEF Upped
    <2> DEFINE A == {s \in Seq(U) : Upped(s)}
    <2>2. <<>> \in A
      BY <1>0 DEF Upped
    <2>3. \A s, t \in A : s \o t \in A
      BY UppedOnto, ConcatProperties
    <2>4. \A i \in DOMAIN f : f[i] \in A
      BY <1>1, <2>1
    <2>5. InOrder(f) \in A
      <3> HIDE DEF A
      <3> QED  BY <2>2, <2>3, <2>4, Ordered
    <2> QED  BY <2>5
  <1>2. ASSUME NEW S, \A i \in DOMAIN f : ServedBy(S, f[i]) PROVE ServedBy(S, InOrder(f))
    <2>1. PICK U : \A i \in DOMAIN f : f[i] \in Seq(U)
      BY <1>2, Common DEF ServedBy
    <2> DEFINE A == {s \in Seq(U) : ServedBy(S, s)}
    <2>2. <<>> \in A
      BY <1>0 DEF ServedBy
    <2>3. ASSUME NEW s \in A, NEW t \in A PROVE s \o t \in A
      <3>1. ServedBy(S, s) /\ ServedBy(S, t) /\ S \subseteq S \cup Range(s)
        OBVIOUS
      <3>2. ServedBy(S, s \o t)
        BY <3>1, ServedOnto
      <3> QED  BY <3>2, ConcatProperties
    <2>4. \A i \in DOMAIN f : f[i] \in A
      BY <1>2, <2>1
    <2>5. InOrder(f) \in A
      <3> HIDE DEF A
      <3> QED  BY <2>2, <2>3, <2>4, Ordered
    <2> QED  BY <2>5
  <1> QED  BY <1>1, <1>2

(* Lists none of whose requests matters. *)
LEMMA AllServed ==
  ASSUME NEW A, NEW s \in Seq(A), NEW S
  PROVE  /\ IsList(s) /\ Range(s) \subseteq A
         /\ (\A r \in A : r.op # "addr") => Upped(s)
         /\ (\A r \in A : Hopping(r) => \E q \in S : Serve(q, r)) => ServedBy(S, s)
  <1>1. IsList(s) /\ \A i \in DOMAIN s : s[i] \in A
    BY SeqOfRange, LenProperties, ElementOfSeq DEF IsList
  <1>2. Range(s) \subseteq A
    BY <1>1 DEF Range
  <1> QED  BY <1>1, <1>2 DEF Upped, ServedBy

(* Lists written out. *)
LEMMA ListedOne ==
  ASSUME NEW a
  PROVE  IsList(<<a>>) /\ Range(<<a>>) = {a} /\ IsList(<<>>) /\ Range(<<>>) = {}
  <1>1. <<a>> \in Seq({a})
    OBVIOUS
  <1>2. IsList(<<a>>)
    BY <1>1, SeqOfRange DEF IsList
  <1>3. Range(<<a>>) = {a}
    BY DEF Range
  <1> QED  BY <1>2, <1>3, Nothing DEF Range

(* Short lists, by what is in them. *)
LEMMA ListedTwo ==
  ASSUME NEW a, NEW b
  PROVE  IsList(<<a, b>>) /\ Range(<<a, b>>) = {a, b}
  <1>1. <<a, b>> \in Seq({a, b})
    OBVIOUS
  <1>2. Range(<<a, b>>) = {a, b}
    BY DEF Range
  <1> QED  BY <1>1, <1>2, SeqOfRange DEF IsList

(* Short lists, by what is in them. *)
LEMMA ListedThree ==
  ASSUME NEW a, NEW b, NEW c
  PROVE  IsList(<<a, b, c>>) /\ Range(<<a, b, c>>) = {a, b, c}
  <1>1. <<a, b, c>> \in Seq({a, b, c})
    OBVIOUS
  <1>2. Range(<<a, b, c>>) = {a, b, c}
    BY DEF Range
  <1> QED  BY <1>1, <1>2, SeqOfRange DEF IsList

(* Short lists, by what is in them. *)
LEMMA ListedSix ==
  ASSUME NEW a, NEW b, NEW c, NEW d, NEW e, NEW g
  PROVE  IsList(<<a, b, c, d, e, g>>) /\ Range(<<a, b, c, d, e, g>>) = {a, b, c, d, e, g}
  <1>1. <<a, b, c, d, e, g>> \in Seq({a, b, c, d, e, g})
    OBVIOUS
  <1>2. Range(<<a, b, c, d, e, g>>) = {a, b, c, d, e, g}
    BY DEF Range
  <1> QED  BY <1>1, <1>2, SeqOfRange DEF IsList

------------------------------------------------------------------------------
(* What each part of a plan has and wants *)

(* All that a set of requests has, and all that it wants. *)
HasAll(tag, S)   == UNION {Has(tag, r) : r \in S}
WantsAll(tag, S) == UNION {Wants(tag, r) : r \in S}

(* A clash of two sets is one of what the one has and the other wants. *)
LEMMA ClearIs ==
  ASSUME NEW tag, NEW S, NEW T
  PROVE  /\ Clear(tag, S, T) <=> HasAll(tag, S) \cap WantsAll(tag, T) = {}
         /\ HasAll(tag, S \cup T) = HasAll(tag, S) \cup HasAll(tag, T)
         /\ WantsAll(tag, S \cup T) = WantsAll(tag, S) \cup WantsAll(tag, T)
         /\ \A r : HasAll(tag, {r}) = Has(tag, r) /\ WantsAll(tag, {r}) = Wants(tag, r)
         /\ HasAll(tag, {}) = {} /\ WantsAll(tag, {}) = {}
  <1>1. Clear(tag, S, T) <=> HasAll(tag, S) \cap WantsAll(tag, T) = {}
    BY DEF Clear, HasAll, WantsAll
  <1>2. /\ HasAll(tag, S \cup T) = HasAll(tag, S) \cup HasAll(tag, T)
        /\ WantsAll(tag, S \cup T) = WantsAll(tag, S) \cup WantsAll(tag, T)
    BY DEF HasAll, WantsAll
  <1>3. \A r : HasAll(tag, {r}) = Has(tag, r) /\ WantsAll(tag, {r}) = Wants(tag, r)
    BY DEF HasAll, WantsAll
  <1>4. HasAll(tag, {}) = {} /\ WantsAll(tag, {}) = {}
    BY DEF HasAll, WantsAll
  <1> QED  BY <1>1, <1>2, <1>3, <1>4

(* What a request has and wants, by its constructor. *)
LEMMA HasOf ==
  /\ \A ns, dev, peer :
       LET r == Add(ns, dev, peer)
           e == IF peer = NoEnd THEN {<<ns, dev>>} ELSE {<<ns, dev>>, peer}
       IN  Has("end", r) = e /\ Wants("end", r) = e /\ Has("net", r) = {} /\ Wants("net", r) = {}
  /\ \A ns, dev, p :
       LET r == Addr(ns, dev, p)
       IN  /\ Has("end", r) = {} /\ Wants("end", r) = {} /\ Wants("net", r) = {}
           /\ Has("net", r) = IF p.bits < AddrBits THEN {<<ns, Masked(p)>>} ELSE {}
  /\ \A ns, dst, dev, via, scope :
       LET r == Route(ns, dst, dev, via, scope)
       IN  /\ Has("end", r) = {} /\ Wants("end", r) = {}
           /\ Has("net", r) = {<<ns, dst>>} /\ Wants("net", r) = {<<ns, dst>>}
  /\ \A r : r.op \in {"del", "up", "master", "mac"} => \A tag \in Kinds : Has(tag, r) = {} /\ Wants(tag, r) = {}
  <1>1. ASSUME NEW ns, NEW dev, NEW peer
        PROVE  LET r == Add(ns, dev, peer)
                   e == IF peer = NoEnd THEN {<<ns, dev>>} ELSE {<<ns, dev>>, peer}
               IN  Has("end", r) = e /\ Wants("end", r) = e /\ Has("net", r) = {} /\ Wants("net", r) = {}
    <2> DEFINE r == Add(ns, dev, peer)
    <2>1. r.op = "add" /\ r.ns = ns /\ r.dev = dev /\ r.peer = peer
      BY Requests
    <2> HIDE DEF r
    <2> QED  BY <2>1 DEF Has, Wants, End, r
  <1>2. ASSUME NEW ns, NEW dev, NEW p
        PROVE  LET r == Addr(ns, dev, p)
               IN  /\ Has("end", r) = {} /\ Wants("end", r) = {} /\ Wants("net", r) = {}
                   /\ Has("net", r) = IF p.bits < AddrBits THEN {<<ns, Masked(p)>>} ELSE {}
    <2> DEFINE r == Addr(ns, dev, p)
    <2>1. r.op = "addr" /\ r.ns = ns /\ r.prefix = p
      BY DEF Addr
    <2> HIDE DEF r
    <2> QED  BY <2>1 DEF Has, Wants, r
  <1>3. ASSUME NEW ns, NEW dst, NEW dev, NEW via, NEW scope
        PROVE  LET r == Route(ns, dst, dev, via, scope)
               IN  /\ Has("end", r) = {} /\ Wants("end", r) = {}
                   /\ Has("net", r) = {<<ns, dst>>} /\ Wants("net", r) = {<<ns, dst>>}
    <2> DEFINE r == Route(ns, dst, dev, via, scope)
    <2>1. r.op = "route" /\ r.ns = ns /\ r.dst = dst
      BY Requests
    <2> HIDE DEF r
    <2> QED  BY <2>1 DEF Has, Wants, r
  <1>4. ASSUME NEW r, r.op \in {"del", "up", "master", "mac"}
        PROVE  \A tag \in Kinds : Has(tag, r) = {} /\ Wants(tag, r) = {}
    BY <1>4 DEF Has, Wants, Kinds
  <1> QED  BY <1>1, <1>2, <1>3, <1>4

(* The six requests of Connect and of HostEdgeConnect, of which three want
   nothing. *)
LEMMA FreeSix ==
  ASSUME NEW tag, NEW a, NEW b, NEW c, NEW d, NEW e, NEW g,
         Wants(tag, b) = {}, Wants(tag, d) = {}, Wants(tag, e) = {},
         \A r \in {a, b} : Has(tag, r) \cap Wants(tag, c) = {},
         \A r \in {a, b, c, d, e} : Has(tag, r) \cap Wants(tag, g) = {}
  PROVE  NoClash(tag, <<a, b, c, d, e, g>>)
  <1> DEFINE s == <<a, b, c, d, e, g>>
  <1>1. DOMAIN s = 1..6 /\ s[1] = a /\ s[2] = b /\ s[3] = c /\ s[4] = d /\ s[5] = e /\ s[6] = g
    OBVIOUS
  <1> HIDE DEF s
  <1>2. ASSUME NEW i \in DOMAIN s, NEW j \in DOMAIN s, i < j PROVE Has(tag, s[i]) \cap Wants(tag, s[j]) = {}
    <2>1. j \in {2, 3, 4, 5, 6}
      BY <1>1, <1>2
    <2>2. CASE j \in {2, 4, 5}
      BY <1>1, <2>2
    <2>3. CASE j = 3
      <3>1. i \in {1, 2}
        BY <1>1, <1>2, <2>3
      <3> QED  BY <1>1, <2>3, <3>1
    <2>4. CASE j = 6
      <3>1. i \in {1, 2, 3, 4, 5}
        BY <1>1, <1>2, <2>4
      <3> QED  BY <1>1, <2>4, <3>1
    <2> QED  BY <2>1, <2>2, <2>3, <2>4
  <1> QED  BY <1>2 DEF NoClash, s

(* The three requests of CreateGateway, of which two want nothing. *)
LEMMA FreeThree ==
  ASSUME NEW tag, NEW a, NEW b, NEW c, Wants(tag, b) = {}, Wants(tag, c) = {}
  PROVE  NoClash(tag, <<a, b, c>>)
  <1> DEFINE s == <<a, b, c>>
  <1>1. DOMAIN s = 1..3 /\ s[1] = a /\ s[2] = b /\ s[3] = c
    OBVIOUS
  <1> HIDE DEF s
  <1>2. \A i, j \in DOMAIN s : i < j => Wants(tag, s[j]) = {}
    BY <1>1
  <1> QED  BY <1>2 DEF NoClash, s

(* One request has no clash. *)
LEMMA FreeOne == ASSUME NEW tag, NEW a PROVE NoClash(tag, <<a>>) /\ NoClash(tag, <<>>)
  <1>1. DOMAIN <<a>> = {1} /\ DOMAIN <<>> = {} /\ ~(1 < 1)
    OBVIOUS
  <1> QED  BY <1>1 DEF NoClash

(* A part: a list, what it has and wants, and that it agrees with itself. *)
Part(s, A, endH, netH, netW) ==
  /\ IsList(s) /\ Range(s) = A /\ Upped(s)
  /\ NoClash("end", s)
  /\ HasAll("end", A) = endH /\ WantsAll("end", A) = endH
  /\ HasAll("net", A) = netH /\ WantsAll("net", A) = netW

(* CreateGateway brings one interface and no route. *)
LEMMA GatewayPart ==
  ASSUME NEW x, NEW n
  PROVE  LET r == Router(n)  dev == x.nets[n].gatewayIf
         IN  /\ Part(CreateGateway(x, n), {Add(r, dev, NoEnd), Addr(r, dev, Slash32(x.nets[n].gateway)), Up(r, dev)},
                     {<<r, dev>>}, {}, {})
             /\ NoClash("net", CreateGateway(x, n)) /\ ServedBy({}, CreateGateway(x, n))
  <1> DEFINE r == Router(n)
             dev == x.nets[n].gatewayIf
             p == Slash32(x.nets[n].gateway)
             a == Add(r, dev, NoEnd)
             b == Addr(r, dev, p)
             c == Up(r, dev)
             A == {a, b, c}
             s == <<a, b, c>>
  <1>1. CreateGateway(x, n) = s
    BY DEF CreateGateway
  <1>2. ~(p.bits < AddrBits)
    BY LoweringAssumption DEF Slash32, Prefix
  <1>3. a.op = "add" /\ b.op = "addr" /\ c.op = "up" /\ End(c) = End(b)
    BY DEF Add, Addr, Up, End
  <1>4. /\ Has("end", a) = {<<r, dev>>} /\ Wants("end", a) = {<<r, dev>>} /\ Has("net", a) = {} /\ Wants("net", a) = {}
        /\ Has("end", b) = {} /\ Wants("end", b) = {} /\ Wants("net", b) = {} /\ Has("net", b) = {}
        /\ Has("end", c) = {} /\ Wants("end", c) = {} /\ Wants("net", c) = {} /\ Has("net", c) = {}
    <2> HIDE DEF p, r, dev
    <2>1. \A tag \in Kinds : Has(tag, c) = {} /\ Wants(tag, c) = {}
      BY <1>3, HasOf
    <2>2. "end" \in Kinds /\ "net" \in Kinds
      BY DEF Kinds
    <2> QED  BY <1>2, <2>1, <2>2, HasOf
  <1> HIDE DEF a, b, c, p
  <1>5. IsList(s) /\ Range(s) = A
    BY ListedThree
  <1>6. DOMAIN s = {1, 2, 3} /\ s[1] = a /\ s[2] = b /\ s[3] = c
    OBVIOUS
  <1>7. NoClash("end", s) /\ NoClash("net", s)
    BY <1>4, FreeThree
  <1> HIDE DEF s
  <1>8. Upped(s)
    <2>1. ASSUME NEW i \in DOMAIN s, s[i].op = "addr" PROVE i = 2
      BY <1>3, <1>6, <2>1
    <2>2. \A j \in DOMAIN s : s[j].op # "route"
      BY <1>3, <1>6
    <2>3. 3 \in DOMAIN s /\ 3 > 2
      BY <1>6
    <2> QED  BY <1>3, <1>5, <1>6, <2>1, <2>2, <2>3 DEF Upped
  <1>9. ServedBy({}, s)
    <2>1. \A j \in DOMAIN s : ~Hopping(s[j])
      BY <1>3, <1>6 DEF Hopping
    <2> QED  BY <1>5, <2>1 DEF ServedBy
  <1>10. /\ HasAll("end", A) = {<<r, dev>>} /\ WantsAll("end", A) = {<<r, dev>>}
         /\ HasAll("net", A) = {} /\ WantsAll("net", A) = {}
    BY <1>4 DEF HasAll, WantsAll
  <1>11. Part(s, A, {<<r, dev>>}, {}, {})
    BY <1>5, <1>7, <1>8, <1>10 DEF Part
  <1> QED  BY <1>1, <1>7, <1>9, <1>11 DEF a, b, c, p

(* One request, made or not; and two, an address and its interface up. *)
LEMMA OnePart ==
  ASSUME NEW b \in BOOLEAN, NEW r
  PROVE  LET s == If(b, <<r>>)
         IN  /\ IsList(s) /\ Range(s) = IF b THEN {r} ELSE {}
             /\ \A tag : NoClash(tag, s)
             /\ r.op # "addr" => Upped(s)
             /\ \A S : (b /\ Hopping(r) => \E q \in S : Serve(q, r)) => ServedBy(S, s)
  <1>1. CASE b
    <2>1. If(b, <<r>>) = <<r>> /\ DOMAIN <<r>> = {1} /\ <<r>>[1] = r
      BY <1>1 DEF If
    <2>2. IsList(<<r>>) /\ Range(<<r>>) = {r} /\ \A tag : NoClash(tag, <<r>>)
      BY ListedOne, FreeOne
    <2>3. r.op # "addr" => Upped(<<r>>)
      BY <2>1, <2>2 DEF Upped
    <2>4. ASSUME NEW S, Hopping(r) => \E q \in S : Serve(q, r) PROVE ServedBy(S, <<r>>)
      BY <2>1, <2>2, <2>4 DEF ServedBy
    <2> QED  BY <1>1, <2>1, <2>2, <2>3, <2>4
  <1>2. CASE ~b
    <2>1. If(b, <<r>>) = <<>> /\ DOMAIN <<>> = {}
      BY <1>2 DEF If
    <2>2. IsList(<<>>) /\ Range(<<>>) = {} /\ \A tag : NoClash(tag, <<>>)
      BY ListedOne, FreeOne
    <2>3. Upped(<<>>) /\ \A S : ServedBy(S, <<>>)
      BY <2>1, <2>2 DEF Upped, ServedBy
    <2> QED  BY <1>2, <2>1, <2>2, <2>3
  <1> QED  BY <1>1, <1>2

(* The six requests of Connect and of HostEdgeConnect bring up their
   addresses. *)
LEMMA UppedSix ==
  ASSUME NEW a, NEW b, NEW c, NEW d, NEW e, NEW g,
         a.op # "addr", c.op # "addr", e.op # "addr", g.op # "addr",
         b.op = "addr" => c.op = "up" /\ End(c) = End(b),
         d.op = "addr" => e.op = "up" /\ End(e) = End(d)
  PROVE  Upped(<<a, b, c, d, e, g>>)
  <1> DEFINE s == <<a, b, c, d, e, g>>
  <1>1. DOMAIN s = 1..6 /\ s[1] = a /\ s[2] = b /\ s[3] = c /\ s[4] = d /\ s[5] = e /\ s[6] = g
    OBVIOUS
  <1>2. IsList(s)
    BY ListedSix
  <1> HIDE DEF s
  <1>3. ASSUME NEW i \in DOMAIN s, s[i].op = "addr"
        PROVE  \E m \in DOMAIN s : /\ m > i /\ s[m].op = "up" /\ End(s[m]) = End(s[i])
                                   /\ \A j \in DOMAIN s : i <= j /\ j <= m => s[j].op # "route"
    <2>1. i \in {2, 4}
      <3>1. i # 1 /\ i # 3 /\ i # 5 /\ i # 6
        BY <1>1, <1>3
      <3> QED  BY <1>1, <3>1
    <2> DEFINE m == i + 1
    <2>2. m \in DOMAIN s /\ m > i
      BY <1>1, <2>1
    <2>3. s[m].op = "up" /\ End(s[m]) = End(s[i])
      BY <1>1, <1>3, <2>1
    <2>4. \A j \in DOMAIN s : i <= j /\ j <= m => j = i \/ j = m
      BY <1>1, <2>1
    <2> HIDE DEF m
    <2> QED  BY <1>3, <2>2, <2>3, <2>4
  <1> QED  BY <1>2, <1>3 DEF Upped, s

(* An address and its interface, brought up at once. *)
LEMMA UppedTwo ==
  ASSUME NEW a, NEW b, a.op = "addr", b.op = "up", End(b) = End(a)
  PROVE  Upped(<<a, b>>)
  <1> DEFINE s == <<a, b>>
  <1>1. DOMAIN s = 1..2 /\ s[1] = a /\ s[2] = b
    OBVIOUS
  <1>2. IsList(s)
    BY ListedTwo
  <1> HIDE DEF s
  <1>3. \A i \in DOMAIN s : s[i].op = "addr" => i = 1
    BY <1>1
  <1>4. 2 \in DOMAIN s /\ 2 > 1 /\ \A j \in DOMAIN s : s[j].op # "route"
    BY <1>1
  <1>5. s[2].op = "up" /\ End(s[2]) = End(s[1])
    BY <1>1
  <1> QED  BY <1>2, <1>3, <1>4, <1>5 DEF Upped, s

(* Addresses are numbers. *)
LEMMA AddressesAre ==
  /\ Addresses \subseteq Nat /\ Addresses \subseteq Int
  /\ \A a, b : Slash32(a) = Slash32(b) <=> a = b
  /\ \A a : ~(Slash32(a).bits < AddrBits) /\ Slash32(a).bits = AddrBits
  /\ NoAddr \notin Addresses
  <1>1. Pow[AddrBits] \in Nat
    BY Pows, LoweringAssumption
  <1>2. Addresses \subseteq Nat /\ Addresses \subseteq Int
    BY <1>1 DEF Addresses
  <1>3. \A a, b : Slash32(a) = Slash32(b) <=> a = b
    BY DEF Slash32, Prefix
  <1>4. \A a : ~(Slash32(a).bits < AddrBits) /\ Slash32(a).bits = AddrBits
    BY LoweringAssumption DEF Slash32, Prefix
  <1>5. NoAddr \notin Addresses
    BY <1>2 DEF NoAddr
  <1> QED  BY <1>2, <1>3, <1>4, <1>5

(* Every request of a constructor, by its fields. *)
LEMMA Fields ==
  /\ \A dev : Del(dev).op = "del" /\ Del(dev).ns = Host /\ Del(dev).dev = dev
  /\ \A ns, dev, p : LET r == Addr(ns, dev, p) IN r.op = "addr" /\ r.ns = ns /\ r.dev = dev /\ r.prefix = p
  /\ \A ns, dev : LET r == Up(ns, dev) IN r.op = "up" /\ r.ns = ns /\ r.dev = dev
  /\ \A dev, br : LET r == Master(dev, br) IN r.op = "master" /\ r.bridge = br
  /\ \A ns, dev, m : LET r == Mac(ns, dev, m) IN r.op = "mac" /\ r.mac = m
  /\ \A ns, dst, dev, via, scope :
       LET r == Route(ns, dst, dev, via, scope)
       IN  r.op = "route" /\ r.ns = ns /\ r.dev = dev /\ r.dst = dst /\ r.via = via /\ r.scope = scope
  BY DEF Del, Addr, Up, Master, Mac, Route

(* The requests of Connect, and the routes they bring. *)
ConnectSet(x, n, c) ==
  LET r == Router(n)  k == Cont(c)  a == x.nets[n].attach[c]  gw == x.nets[n].gateway
  IN  {Add(r, RouterIf(c), <<k, a.interface>>), Up(r, RouterIf(c)),
       Route(r, Slash32(a.ip), RouterIf(c), NoAddr, "link"),
       Addr(k, a.interface, Slash32(a.ip)), Up(k, a.interface),
       Route(k, Slash32(gw), a.interface, NoAddr, "link")}
      \cup (IF OwnsDefault(x, n, c) THEN {Route(k, Everything, a.interface, gw, "universe")} ELSE {})
ConnectNets(x, n, c) ==
  {<<Router(n), Slash32(x.nets[n].attach[c].ip)>>, <<Cont(c), Slash32(x.nets[n].gateway)>>}
  \cup (IF OwnsDefault(x, n, c) THEN {<<Cont(c), Everything>>} ELSE {})

(* Connect brings a pair and the routes to its ends; the next hop of the
   default is on the link by the route before it. *)
LEMMA ConnectPart ==
  ASSUME NEW x \in Configs, NEW n \in Networks(x), NEW c
  PROVE  /\ Part(Connect(x, n, c), ConnectSet(x, n, c),
                 {<<Router(n), RouterIf(c)>>, <<Cont(c), x.nets[n].attach[c].interface>>},
                 ConnectNets(x, n, c), ConnectNets(x, n, c))
         /\ NoClash("net", Connect(x, n, c)) /\ ServedBy({}, Connect(x, n, c))
  <1> DEFINE r  == Router(n)
             k  == Cont(c)
             rd == RouterIf(c)
             kd == x.nets[n].attach[c].interface
             gw == x.nets[n].gateway
             p  == Slash32(x.nets[n].attach[c].ip)
             g  == Slash32(gw)
             a1 == Add(r, rd, <<k, kd>>)
             a2 == Up(r, rd)
             a3 == Route(r, p, rd, NoAddr, "link")
             a4 == Addr(k, kd, p)
             a5 == Up(k, kd)
             a6 == Route(k, g, kd, NoAddr, "link")
             a7 == Route(k, Everything, kd, gw, "universe")
             b  == OwnsDefault(x, n, c)
             s  == <<a1, a2, a3, a4, a5, a6>>
             z  == If(b, <<a7>>)
             A  == {a1, a2, a3, a4, a5, a6}
             Z  == IF b THEN {a7} ELSE {}
             N  == {<<r, p>>, <<k, g>>}
             M  == IF b THEN {<<k, Everything>>} ELSE {}
  <1>1. Connect(x, n, c) = s \o z /\ ConnectSet(x, n, c) = A \cup Z /\ ConnectNets(x, n, c) = N \cup M
    BY DEF Connect, ConnectSet, ConnectNets
  <1>2. /\ r # k /\ <<k, kd>> # NoEnd /\ g # Everything /\ ~(p.bits < AddrBits)
        /\ Covers(g, gw)
    <2>1. gw \in Int
      BY WiringAssumption, AddressesAre
    <2>2. Covers(g, gw)
      BY <2>1, Ones
    <2> QED  BY <2>2, Spaces, NotEverything, AddressesAre
  <1>b. b \in BOOLEAN
    BY DEF OwnsDefault
  <1> HIDE DEF r, k, rd, kd, gw, p, g, b
  <1>3. /\ a1.op = "add" /\ a2.op = "up" /\ a3.op = "route" /\ a4.op = "addr" /\ a5.op = "up" /\ a6.op = "route"
        /\ a7.op = "route" /\ End(a5) = End(a4)
        /\ ~Hopping(a3) /\ ~Hopping(a6) /\ Serve(a6, a7)
    <2>1. a1.op = "add" /\ a2.op = "up" /\ a4.op = "addr" /\ a5.op = "up" /\ End(a5) = End(a4)
      BY Requests, Fields DEF End
    <2>2. a3.op = "route" /\ a3.via = NoAddr
      BY Fields
    <2>3. a6.op = "route" /\ a6.ns = k /\ a6.dev = kd /\ a6.via = NoAddr /\ a6.scope = "link" /\ a6.dst = g
      BY Fields
    <2>4. a7.op = "route" /\ a7.ns = k /\ a7.dev = kd /\ a7.via = gw
      BY Fields
    <2> HIDE DEF a1, a2, a3, a4, a5, a6, a7
    <2> QED  BY <1>2, <2>1, <2>2, <2>3, <2>4 DEF Hopping, Serve
  <1>4. /\ Has("end", a1) = {<<r, rd>>, <<k, kd>>} /\ Wants("end", a1) = {<<r, rd>>, <<k, kd>>}
        /\ Has("net", a1) = {} /\ Wants("net", a1) = {}
        /\ Has("end", a3) = {} /\ Wants("end", a3) = {} /\ Has("net", a3) = {<<r, p>>} /\ Wants("net", a3) = {<<r, p>>}
        /\ Has("end", a4) = {} /\ Wants("end", a4) = {} /\ Has("net", a4) = {} /\ Wants("net", a4) = {}
        /\ Has("end", a6) = {} /\ Wants("end", a6) = {} /\ Has("net", a6) = {<<k, g>>} /\ Wants("net", a6) = {<<k, g>>}
        /\ Has("end", a7) = {} /\ Wants("end", a7) = {}
        /\ Has("net", a7) = {<<k, Everything>>} /\ Wants("net", a7) = {<<k, Everything>>}
    BY <1>2, HasOf
  <1>5. \A q \in {a2, a5} : Has("end", q) = {} /\ Wants("end", q) = {} /\ Has("net", q) = {} /\ Wants("net", q) = {}
    <2>1. a2.op = "up" /\ a5.op = "up" /\ "end" \in Kinds /\ "net" \in Kinds
      BY <1>3 DEF Kinds
    <2> HIDE DEF a2, a5
    <2> QED  BY <2>1, HasOf
  <1> HIDE DEF a1, a2, a3, a4, a5, a6, a7
  <1>6. IsList(s) /\ Range(s) = A
    BY ListedSix
  <1>7. NoClash("end", s)
    <2>1. \A q \in {a2, a3, a4, a5, a6} : Wants("end", q) = {}
      BY <1>4, <1>5
    <2> QED  BY <2>1, FreeSix
  <1>8. NoClash("net", s)
    <2>1. Wants("net", a2) = {} /\ Wants("net", a4) = {} /\ Wants("net", a5) = {}
      BY <1>4, <1>5
    <2>2. \A q \in {a1, a2} : Has("net", q) \cap Wants("net", a3) = {}
      BY <1>4, <1>5
    <2>3. \A q \in {a1, a2, a3, a4, a5} : Has("net", q) \cap Wants("net", a6) = {}
      BY <1>2, <1>4, <1>5
    <2> QED  BY <2>1, <2>2, <2>3, FreeSix
  <1>9. Upped(s)
    BY <1>3, UppedSix
  <1>10. ServedBy({}, s)
    <2>1. \A q \in A : ~Hopping(q)
      BY <1>3 DEF Hopping
    <2>2. \A i \in DOMAIN s : s[i] \in A
      <3> HIDE DEF s, A
      <3> QED  BY <1>6 DEF Range
    <2> HIDE DEF s, A
    <2> QED  BY <1>6, <2>1, <2>2 DEF ServedBy
  <1>11. /\ IsList(z) /\ Range(z) = Z /\ \A tag : NoClash(tag, z)
         /\ Upped(z) /\ ServedBy({a6}, z)
    <2>1. \E q \in {a6} : Serve(q, a7)
      BY <1>3
    <2> QED  BY <1>b, <1>3, <2>1, OnePart
  <1>12. /\ HasAll("end", A) = {<<r, rd>>, <<k, kd>>} /\ WantsAll("end", A) = {<<r, rd>>, <<k, kd>>}
         /\ HasAll("net", A) = N /\ WantsAll("net", A) = N
    BY <1>4, <1>5 DEF HasAll, WantsAll
  <1>13. /\ HasAll("end", Z) = {} /\ WantsAll("end", Z) = {}
         /\ HasAll("net", Z) = M /\ WantsAll("net", Z) = M
    BY <1>4 DEF HasAll, WantsAll
  <1> HIDE DEF s, z, A, Z
  <1>14. IsList(s \o z) /\ Range(s \o z) = A \cup Z
    BY <1>6, <1>11, RangeOnto
  <1>15. NoClash("end", s \o z)
    <2>1. Clear("end", A, Z)
      BY <1>13, ClearIs
    <2> QED  BY <1>6, <1>7, <1>11, <2>1, FreeOnto
  <1>16. NoClash("net", s \o z)
    <2>1. N \cap M = {}
      BY <1>2
    <2>2. Clear("net", A, Z)
      <3> HIDE DEF N, M
      <3> QED  BY <1>12, <1>13, <2>1, ClearIs
    <2> QED  BY <1>6, <1>8, <1>11, <2>2, FreeOnto
  <1>17. Upped(s \o z)
    BY <1>9, <1>11, UppedOnto
  <1>18. ServedBy({}, s \o z)
    <2>1. {a6} \subseteq {} \cup Range(s)
      BY <1>6 DEF A
    <2> QED  BY <1>10, <1>11, <2>1, ServedOnto
  <1> HIDE DEF N, M
  <1>19. /\ HasAll("end", A \cup Z) = {<<r, rd>>, <<k, kd>>} /\ WantsAll("end", A \cup Z) = {<<r, rd>>, <<k, kd>>}
         /\ HasAll("net", A \cup Z) = N \cup M /\ WantsAll("net", A \cup Z) = N \cup M
    <2>1. \A tag : HasAll(tag, A \cup Z) = HasAll(tag, A) \cup HasAll(tag, Z)
      BY DEF HasAll
    <2>2. \A tag : WantsAll(tag, A \cup Z) = WantsAll(tag, A) \cup WantsAll(tag, Z)
      BY DEF WantsAll
    <2>3. HasAll("end", A \cup Z) = {<<r, rd>>, <<k, kd>>} /\ WantsAll("end", A \cup Z) = {<<r, rd>>, <<k, kd>>}
      BY <1>12, <1>13, <2>1, <2>2
    <2>4. HasAll("net", A \cup Z) = N \cup M /\ WantsAll("net", A \cup Z) = N \cup M
      BY <1>12, <1>13, <2>1, <2>2
    <2> QED  BY <2>3, <2>4
  <1>20. Part(s \o z, A \cup Z, {<<r, rd>>, <<k, kd>>}, N \cup M, N \cup M)
    BY <1>14, <1>15, <1>17, <1>19 DEF Part
  <1> QED  BY <1>1, <1>16, <1>18, <1>20 DEF r, k, rd, kd

(* The routes of the host to the containers of an uplinked network. *)
EdgeRoute(x, n, c) ==
  Route(Host, Slash32(x.nets[n].attach[c].ip), Uplink(x, n).hostIf, Uplink(x, n).link + 1, "universe")
EdgeSet(x, n) ==
  LET r == Router(n)  u == Uplink(x, n)
  IN  {Add(Host, u.hostIf, <<r, u.routerIf>>),
       Addr(Host, u.hostIf, Prefix(u.link, AddrBits - 1)), Up(Host, u.hostIf),
       Addr(r, u.routerIf, Prefix(u.link + 1, AddrBits - 1)), Up(r, u.routerIf),
       Route(r, Everything, u.routerIf, u.link, "universe")}
      \cup {EdgeRoute(x, n, c) : c \in DOMAIN x.nets[n].attach}
EdgeOwn(x, n)  == {<<Router(n), Everything>>}
                  \cup {<<Host, Slash32(x.nets[n].attach[c].ip)>> : c \in DOMAIN x.nets[n].attach}
EdgeNets(x, n) == EdgeOwn(x, n) \cup {<<Host, Masked(Prefix(Uplink(x, n).link, AddrBits - 1))>>,
                                      <<Router(n), Masked(Prefix(Uplink(x, n).link + 1, AddrBits - 1))>>}

(* What Validate and the decoding say of an uplink. *)
LEMMA UplinkIs ==
  ASSUME NEW x \in Configs, Accepted(x), NEW n \in Uplinked(x)
  PROVE  LET u == Uplink(x, n)
         IN  /\ n \in Networks(x) /\ u \in x.nets[n].uplink /\ u.link \in Nat /\ u.link % 2 = 0
             /\ u.link \in Addresses
             /\ Len(u.hostIf) \in 1..NameMax /\ Len(u.routerIf) \in 1..NameMax
  <1> DEFINE u == Uplink(x, n)
  <1>1. n \in Networks(x) /\ u \in x.nets[n].uplink
    BY DEF Uplinked, Uplink
  <1>2. u.link \in Addresses
    BY <1>1, WiringAssumption
  <1>3. UplinkOK(u)
    BY <1>1 DEF Accepted, Validate, NetworkOK
  <1> QED  BY <1>1, <1>2, <1>3, AddressesAre DEF UplinkOK, IfNameOK

(* HostEdgeConnect brings a pair, the router's default and the host's routes,
   and its only clash is of the addresses of two attachments. *)
LEMMA EdgePart ==
  ASSUME NEW x \in Configs, Accepted(x), NEW n \in Uplinked(x)
  PROVE  /\ Part(HostEdgeConnect(x, n), EdgeSet(x, n),
                 {<<Host, Uplink(x, n).hostIf>>, <<Router(n), Uplink(x, n).routerIf>>},
                 EdgeNets(x, n), EdgeOwn(x, n))
         /\ ServedBy({}, HostEdgeConnect(x, n))
         /\ NoClash("net", HostEdgeConnect(x, n)) <=>
              Apart(DOMAIN x.nets[n].attach, LAMBDA c : x.nets[n].attach[c].ip)
  <1> DEFINE r  == Router(n)
             u  == Uplink(x, n)
             hd == u.hostIf
             rd == u.routerIf
             ln == u.link
             at == x.nets[n].attach
             p  == Prefix(ln, AddrBits - 1)
             q  == Prefix(ln + 1, AddrBits - 1)
             a1 == Add(Host, hd, <<r, rd>>)
             a2 == Addr(Host, hd, p)
             a3 == Up(Host, hd)
             a4 == Addr(r, rd, q)
             a5 == Up(r, rd)
             a6 == Route(r, Everything, rd, ln, "universe")
             R(c) == Route(Host, Slash32(at[c].ip), hd, ln + 1, "universe")
             s  == <<a1, a2, a3, a4, a5, a6>>
             A  == {a1, a2, a3, a4, a5, a6}
             C  == DOMAIN at
             B  == {R(c) : c \in C}
             f  == [c \in C |-> <<R(c)>>]
             t  == InOrder(f)
             N  == {<<Host, Masked(p)>>, <<r, Masked(q)>>, <<r, Everything>>}
             M  == {<<Host, Slash32(at[c].ip)>> : c \in C}
  <1>1. HostEdgeConnect(x, n) = s \o t /\ EdgeSet(x, n) = A \cup B
    BY DEF HostEdgeConnect, EdgeSet, EdgeRoute
  <1>2. EdgeOwn(x, n) = {<<r, Everything>>} \cup M /\ EdgeNets(x, n) = N \cup M
    BY DEF EdgeOwn, EdgeNets
  <1>3. n \in Networks(x) /\ ln \in Nat /\ ln % 2 = 0
    BY UplinkIs
  <1>4. Ids(C)
    BY <1>3, WiringAssumption
  <1>5. /\ r # Host /\ <<r, rd>> # NoEnd
        /\ p.bits < AddrBits /\ q.bits < AddrBits
        /\ Masked(p).bits = AddrBits - 1 /\ Masked(q).bits = AddrBits - 1
        /\ Covers(Masked(p), ln + 1) /\ Covers(Masked(q), ln)
    BY <1>3, Spaces, Twos
  <1>6. Masked(q) # Everything /\ \A a : Masked(p) # Slash32(a)
    BY <1>5, All, AddressesAre, LoweringAssumption
  <1> DEFINE P == Masked(p)
             Q == Masked(q)
  <1> HIDE DEF r, u, hd, rd, ln, at, C
  <1>7. /\ a1.op = "add" /\ a2.op = "addr" /\ a3.op = "up" /\ a4.op = "addr" /\ a5.op = "up" /\ a6.op = "route"
        /\ End(a3) = End(a2) /\ End(a5) = End(a4)
        /\ Serve(a4, a6)
    <2>1. /\ a1.op = "add" /\ a3.op = "up" /\ a5.op = "up"
          /\ End(a3) = End(a2) /\ End(a5) = End(a4)
      BY Requests, Fields DEF End
    <2>2. a2.op = "addr" /\ a4.op = "addr" /\ a4.ns = r /\ a4.dev = rd /\ a4.prefix = q
      BY Fields
    <2>3. a6.op = "route" /\ a6.ns = r /\ a6.dev = rd /\ a6.via = ln
      BY Fields
    <2> HIDE DEF a1, a2, a3, a4, a5, a6, p, q
    <2> QED  BY <1>5, <2>1, <2>2, <2>3 DEF Serve
  <1>8. ASSUME NEW c \in C PROVE R(c).op = "route" /\ Serve(a2, R(c))
    <2> DEFINE w == R(c)
    <2>1. w.op = "route" /\ w.ns = Host /\ w.dev = hd /\ w.via = ln + 1
      BY Fields
    <2>2. a2.op = "addr" /\ a2.ns = Host /\ a2.dev = hd /\ a2.prefix = p
      BY Fields
    <2> HIDE DEF w, a2, p, q
    <2>3. Serve(a2, w)
      BY <1>5, <2>1, <2>2 DEF Serve
    <2> QED  BY <2>1, <2>3 DEF w
  <1>9. /\ Has("end", a1) = {<<Host, hd>>, <<r, rd>>} /\ Wants("end", a1) = {<<Host, hd>>, <<r, rd>>}
        /\ Has("net", a1) = {} /\ Wants("net", a1) = {}
        /\ Has("end", a2) = {} /\ Wants("end", a2) = {} /\ Has("net", a2) = {<<Host, P>>} /\ Wants("net", a2) = {}
        /\ Has("end", a4) = {} /\ Wants("end", a4) = {} /\ Has("net", a4) = {<<r, Q>>} /\ Wants("net", a4) = {}
        /\ Has("end", a6) = {} /\ Wants("end", a6) = {}
        /\ Has("net", a6) = {<<r, Everything>>} /\ Wants("net", a6) = {<<r, Everything>>}
    <2> HIDE DEF p, q
    <2> QED  BY <1>5, HasOf
  <1>10. \A w \in {a3, a5} : Has("end", w) = {} /\ Wants("end", w) = {} /\ Has("net", w) = {} /\ Wants("net", w) = {}
    <2>1. a3.op = "up" /\ a5.op = "up" /\ "end" \in Kinds /\ "net" \in Kinds
      BY <1>7 DEF Kinds
    <2> HIDE DEF a3, a5
    <2> QED  BY <2>1, HasOf
  <1>11. ASSUME NEW c \in C
         PROVE  /\ Has("end", R(c)) = {} /\ Wants("end", R(c)) = {}
                /\ Has("net", R(c)) = {<<Host, Slash32(at[c].ip)>>} /\ Wants("net", R(c)) = {<<Host, Slash32(at[c].ip)>>}
    BY HasOf
  <1>12. N = {<<Host, P>>, <<r, Q>>, <<r, Everything>>} /\ Q # Everything /\ \A a : P # Slash32(a)
    BY <1>6
  <1> HIDE DEF a1, a2, a3, a4, a5, a6, p, q, R, P, Q, N
  <1>13. IsList(s) /\ Range(s) = A
    BY ListedSix
  <1>14. NoClash("end", s)
    <2>1. \A w \in {a2, a3, a4, a5, a6} : Wants("end", w) = {}
      BY <1>9, <1>10
    <2> QED  BY <2>1, FreeSix
  <1>15. NoClash("net", s)
    <2>1. \A w \in {a2, a3, a4, a5} : Wants("net", w) = {}
      BY <1>9, <1>10
    <2>2. \A w \in {a1, a2, a3, a4, a5} : Has("net", w) \cap Wants("net", a6) = {}
      BY <1>5, <1>9, <1>10, <1>12
    <2> QED  BY <2>1, <2>2, FreeSix
  <1>16. Upped(s)
    BY <1>7, UppedSix
  <1>17. ServedBy({}, s)
    <2>1. DOMAIN s = 1..6 /\ s[1] = a1 /\ s[2] = a2 /\ s[3] = a3 /\ s[4] = a4 /\ s[5] = a5 /\ s[6] = a6
      OBVIOUS
    <2> HIDE DEF s
    <2>2. \A j \in DOMAIN s : Hopping(s[j]) => j = 6
      BY <1>7, <2>1 DEF Hopping
    <2>3. 4 \in DOMAIN s /\ 4 < 6
      BY <2>1
    <2> QED  BY <1>7, <1>13, <2>1, <2>2, <2>3 DEF ServedBy
  <1>18. DOMAIN f = C /\ \A c \in C : f[c] = <<R(c)>> /\ IsList(f[c]) /\ Range(f[c]) = {R(c)} /\ \A tag : NoClash(tag, f[c])
    BY ListedOne, FreeOne
  <1> HIDE DEF s, f
  <1>19. /\ IsList(t) /\ Range(t) = B
         /\ \A tag : NoClash(tag, t) <=> \A c, d \in C : c < d => Has(tag, R(c)) \cap Wants(tag, R(d)) = {}
    <2>1. /\ IsList(t) /\ Range(t) = UNION {Range(f[i]) : i \in DOMAIN f}
          /\ \A tag : NoClash(tag, t) <=>
               /\ \A i \in DOMAIN f : NoClash(tag, f[i])
               /\ \A i, j \in DOMAIN f : i < j => Clear(tag, Range(f[i]), Range(f[j]))
      BY <1>4, <1>18, FamilyInOrder
    <2>2. Range(t) = B
      BY <1>18, <2>1
    <2>3. \A tag : \A c, d \in C : Clear(tag, Range(f[c]), Range(f[d])) <=> Has(tag, R(c)) \cap Wants(tag, R(d)) = {}
      BY <1>18 DEF Clear
    <2> HIDE DEF t
    <2> QED  BY <1>18, <2>1, <2>2, <2>3
  <1>20. Upped(t) /\ ServedBy({a2}, t)
    <2>1. \A c \in C : Upped(f[c]) /\ ServedBy({a2}, f[c])
      <3> SUFFICES ASSUME NEW c \in C PROVE Upped(f[c]) /\ ServedBy({a2}, f[c])
        OBVIOUS
      <3>1. f[c] = <<R(c)>> /\ IsList(f[c]) /\ DOMAIN <<R(c)>> = {1} /\ <<R(c)>>[1] = R(c)
        BY <1>18
      <3>2. R(c).op # "addr" /\ \E w \in {a2} : Serve(w, R(c))
        BY <1>8
      <3>3. \A i \in DOMAIN f[c] : f[c][i] = R(c)
        BY <3>1
      <3> QED  BY <3>1, <3>2, <3>3 DEF Upped, ServedBy
    <2> QED  BY <1>4, <1>18, <2>1, ServedInOrder
  <1>21. /\ HasAll("end", A) = {<<Host, hd>>, <<r, rd>>} /\ WantsAll("end", A) = {<<Host, hd>>, <<r, rd>>}
         /\ HasAll("net", A) = N /\ WantsAll("net", A) = {<<r, Everything>>}
    BY <1>9, <1>10, <1>12 DEF HasAll, WantsAll
  <1>22. /\ HasAll("end", B) = {} /\ WantsAll("end", B) = {}
         /\ HasAll("net", B) = M /\ WantsAll("net", B) = M
    BY <1>11 DEF HasAll, WantsAll
  <1> HIDE DEF t, A, B
  <1>23. IsList(s \o t) /\ Range(s \o t) = A \cup B
    BY <1>13, <1>19, RangeOnto
  <1>24. NoClash("end", s \o t)
    <2>1. Clear("end", A, B)
      BY <1>22, ClearIs
    <2>2. NoClash("end", t)
      BY <1>11, <1>19
    <2> QED  BY <1>13, <1>14, <1>19, <2>1, <2>2, FreeOnto
  <1>25. NoClash("net", s \o t) <=> \A c, d \in C : c < d => at[c].ip # at[d].ip
    <2>1. N \cap M = {}
      BY <1>5, <1>12
    <2>2. Clear("net", A, B)
      <3> HIDE DEF M
      <3> QED  BY <1>21, <1>22, <2>1, ClearIs
    <2>3. \A c, d \in C : Has("net", R(c)) \cap Wants("net", R(d)) = {} <=> at[c].ip # at[d].ip
      <3>1. \A c, d \in C : <<Host, Slash32(at[c].ip)>> = <<Host, Slash32(at[d].ip)>> <=> at[c].ip = at[d].ip
        BY AddressesAre
      <3> QED  BY <1>11, <3>1
    <2>4. NoClash("net", s \o t) <=> NoClash("net", t)
      BY <1>13, <1>15, <1>19, <2>2, FreeOnto
    <2>5. NoClash("net", t) <=> \A c, d \in C : c < d => Has("net", R(c)) \cap Wants("net", R(d)) = {}
      BY <1>19
    <2> QED  BY <2>3, <2>4, <2>5
  <1>26. (\A c, d \in C : c < d => at[c].ip # at[d].ip) <=> Apart(C, LAMBDA c : at[c].ip)
    <2>1. C \subseteq Nat /\ \A i, j \in Nat : i # j => i < j \/ j < i
      BY <1>4 DEF Ids
    <2>2. \A i, j \in Nat : i < j => i # j
      OBVIOUS
    <2> QED  BY <2>1, <2>2 DEF Apart
  <1>27. Upped(s \o t)
    BY <1>16, <1>20, UppedOnto
  <1>28. ServedBy({}, s \o t)
    <2>1. {a2} \subseteq {} \cup Range(s)
      BY <1>13 DEF A
    <2> QED  BY <1>17, <1>20, <2>1, ServedOnto
  <1> HIDE DEF M
  <1>29. /\ HasAll("end", A \cup B) = {<<Host, hd>>, <<r, rd>>} /\ WantsAll("end", A \cup B) = {<<Host, hd>>, <<r, rd>>}
         /\ HasAll("net", A \cup B) = N \cup M /\ WantsAll("net", A \cup B) = {<<r, Everything>>} \cup M
    <2>1. \A tag : HasAll(tag, A \cup B) = HasAll(tag, A) \cup HasAll(tag, B)
      BY DEF HasAll
    <2>2. \A tag : WantsAll(tag, A \cup B) = WantsAll(tag, A) \cup WantsAll(tag, B)
      BY DEF WantsAll
    <2> QED  BY <1>21, <1>22, <2>1, <2>2
  <1>30. Part(s \o t, A \cup B, {<<Host, hd>>, <<r, rd>>}, N \cup M, {<<r, Everything>>} \cup M)
    BY <1>23, <1>24, <1>27, <1>29 DEF Part
  <1> QED  BY <1>1, <1>2, <1>25, <1>26, <1>28, <1>30 DEF r, u, hd, rd, at, C

------------------------------------------------------------------------------
(* Requests that want nothing, behind a list. *)
LEMMA FreeBehind ==
  ASSUME NEW tag, NEW s, NEW t, IsList(s), IsList(t), NoClash(tag, s), \A r \in Range(t) : Wants(tag, r) = {}
  PROVE  NoClash(tag, s \o t)
  <1>1. NoClash(tag, t)
    BY DEF NoClash, Range
  <1>2. Clear(tag, Range(s), Range(t))
    BY DEF Clear
  <1> QED  BY <1>1, <1>2, FreeOnto

(* The requests of LinkConnect, the routes they bring, those of the link's own
   (LinkOwn) and that of its address (LinkWide), and what a link has to
   satisfy by itself: no clash of its routes (LinkFree), and a gateway on its
   network (LinkServes). *)
LinkDef(x, c, i) == x.links[c][i].default /\ x.links[c][i].gateway # NoAddr
LinkRoute(x, c, i, j) == Route(Cont(c), x.links[c][i].routes[j], x.links[c][i].name, NoAddr, "universe")
LinkSet(x, c, i) ==
  LET l == x.links[c][i]  h == LinkHostIf(c, l)  k == Cont(c)
  IN  {Add(Host, h, <<k, l.name>>), Up(Host, h), Addr(k, l.name, l.address), Up(k, l.name)}
      \cup (IF l.bridge # <<>> THEN {Master(h, l.bridge)} ELSE {})
      \cup (IF l.mac # "" THEN {Mac(k, l.name, l.mac)} ELSE {})
      \cup {LinkRoute(x, c, i, j) : j \in DOMAIN l.routes}
      \cup (IF LinkDef(x, c, i) THEN {Route(k, Everything, l.name, l.gateway, "universe")} ELSE {})
LinkOwn(x, c, i)  == {<<Cont(c), x.links[c][i].routes[j]>> : j \in DOMAIN x.links[c][i].routes}
                     \cup (IF LinkDef(x, c, i) THEN {<<Cont(c), Everything>>} ELSE {})
LinkWide(x, c, i) == IF x.links[c][i].address.bits < AddrBits
                     THEN {<<Cont(c), Masked(x.links[c][i].address)>>} ELSE {}
LinkFree(x, c, i) ==
  LET l == x.links[c][i]
  IN  /\ \A m, j \in DOMAIN l.routes : m < j => l.routes[m] # l.routes[j]
      /\ l.address.bits < AddrBits => \A j \in DOMAIN l.routes : Masked(l.address) # l.routes[j]
      /\ LinkDef(x, c, i) => /\ \A j \in DOMAIN l.routes : l.routes[j] # Everything
                             /\ l.address.bits < AddrBits => Masked(l.address) # Everything
LinkServes(x, c, i) ==
  LinkDef(x, c, i) => Covers(x.links[c][i].address, x.links[c][i].gateway) /\ x.links[c][i].address.bits < AddrBits

(* LinkConnect brings a pair, and its routes do not clash if the link is
   free. *)
LEMMA LinkPart ==
  ASSUME NEW x \in Configs, NEW c \in Containers(x), NEW i \in DOMAIN x.links[c]
  PROVE  /\ Part(LinkConnect(x, c, i), LinkSet(x, c, i),
                 {<<Host, LinkHostIf(c, x.links[c][i])>>, <<Cont(c), x.links[c][i].name>>},
                 LinkOwn(x, c, i) \cup LinkWide(x, c, i), LinkOwn(x, c, i))
         /\ LinkServes(x, c, i) => ServedBy({}, LinkConnect(x, c, i))
         /\ NoClash("net", LinkConnect(x, c, i)) <=> LinkFree(x, c, i)
  <1> DEFINE l  == x.links[c][i]
             h  == LinkHostIf(c, l)
             k  == Cont(c)
             nm == l.name
             p  == l.address
             rs == l.routes
             a1 == Add(Host, h, <<k, nm>>)
             a2 == Master(h, l.bridge)
             a3 == Up(Host, h)
             a4 == Mac(k, nm, l.mac)
             a5 == Addr(k, nm, p)
             a6 == Up(k, nm)
             a7 == Route(k, Everything, nm, l.gateway, "universe")
             b2 == l.bridge # <<>>
             b4 == l.mac # ""
             b  == LinkDef(x, c, i)
             R(j) == Route(k, rs[j], nm, NoAddr, "universe")
             t  == [j \in DOMAIN rs |-> R(j)]
             z2 == If(b2, <<a2>>)
             z4 == If(b4, <<a4>>)
             z  == If(b, <<a7>>)
             Z2 == IF b2 THEN {a2} ELSE {}
             Z4 == IF b4 THEN {a4} ELSE {}
             Z  == IF b THEN {a7} ELSE {}
             T  == {R(j) : j \in DOMAIN rs}
             s1 == <<a1>> \o z2
             s2 == s1 \o <<a3>>
             s3 == s2 \o z4
             s4 == s3 \o <<a5, a6>>
             s5 == s4 \o t
             s6 == s5 \o z
             S  == {a1, a3, a5, a6} \cup Z2 \cup Z4
             W  == IF p.bits < AddrBits THEN {<<k, Masked(p)>>} ELSE {}
             N  == {<<k, rs[j]>> : j \in DOMAIN rs}
             M  == IF b THEN {<<k, Everything>>} ELSE {}
             E  == {<<Host, h>>, <<k, nm>>}
  <1>1. LinkConnect(x, c, i) = s6 /\ LinkSet(x, c, i) = S \cup T \cup Z
    <2>1. LinkConnect(x, c, i) = s6
      BY DEF LinkConnect, LinkDef
    <2>2. LinkSet(x, c, i) = S \cup T \cup Z
      BY DEF LinkSet, LinkRoute
    <2> QED  BY <2>1, <2>2
  <1>2. LinkOwn(x, c, i) = N \cup M /\ LinkWide(x, c, i) = W
    BY DEF LinkOwn, LinkWide
  <1>3. LinkFree(x, c, i) <=>
          /\ \A m, j \in DOMAIN rs : m < j => rs[m] # rs[j]
          /\ p.bits < AddrBits => \A j \in DOMAIN rs : Masked(p) # rs[j]
          /\ b => /\ \A j \in DOMAIN rs : rs[j] # Everything
                  /\ p.bits < AddrBits => Masked(p) # Everything
    BY DEF LinkFree
  <1>4. /\ rs \in Seq(Subnets) /\ p \in Subnets /\ l.gateway \in Addresses \cup {NoAddr}
        /\ DOMAIN rs = 1..Len(rs) /\ Len(rs) \in Nat
    BY LinkDecoded
  <1>5. k # Host /\ <<k, nm>> # NoEnd /\ b \in BOOLEAN /\ b2 \in BOOLEAN /\ b4 \in BOOLEAN
    BY Spaces DEF LinkDef
  <1>6. LinkServes(x, c, i) => (b => Covers(p, l.gateway) /\ p.bits < AddrBits)
    BY DEF LinkServes
  <1>7. (b /\ Covers(p, l.gateway)) => Covers(Masked(p), l.gateway)
    <2>1. b => l.gateway \in Int
      BY <1>4, AddressesAre DEF LinkDef
    <2> QED  BY <1>4, <2>1, MaskCovers
  <1> HIDE DEF h, k, nm, p, rs, b, b2, b4
  <1>8. /\ a1.op = "add" /\ a2.op = "master" /\ a3.op = "up" /\ a4.op = "mac" /\ a5.op = "addr" /\ a6.op = "up"
        /\ a7.op = "route" /\ End(a6) = End(a5)
        /\ (b => Covers(p, l.gateway) /\ p.bits < AddrBits) => (b => Serve(a5, a7))
    <2>1. a1.op = "add" /\ a2.op = "master" /\ a3.op = "up" /\ a4.op = "mac" /\ a6.op = "up" /\ End(a6) = End(a5)
      BY Requests, Fields DEF End
    <2>2. a5.op = "addr" /\ a5.ns = k /\ a5.dev = nm /\ a5.prefix = p
      BY Fields
    <2>3. a7.op = "route" /\ a7.ns = k /\ a7.dev = nm /\ a7.via = l.gateway
      BY Fields
    <2> HIDE DEF a1, a2, a3, a4, a5, a6, a7
    <2> QED  BY <1>7, <2>1, <2>2, <2>3 DEF Serve
  <1>9. \A j \in DOMAIN rs : R(j).op = "route" /\ R(j).via = NoAddr
    BY Fields
  <1>10. /\ Has("end", a1) = E /\ Wants("end", a1) = E /\ Has("net", a1) = {} /\ Wants("net", a1) = {}
         /\ Has("end", a5) = {} /\ Wants("end", a5) = {} /\ Has("net", a5) = W /\ Wants("net", a5) = {}
         /\ Has("end", a7) = {} /\ Wants("end", a7) = {}
         /\ Has("net", a7) = {<<k, Everything>>} /\ Wants("net", a7) = {<<k, Everything>>}
    BY <1>5, HasOf
  <1>11. \A w \in {a2, a3, a4, a6} : Has("end", w) = {} /\ Wants("end", w) = {} /\ Has("net", w) = {} /\ Wants("net", w) = {}
    <2>1. a2.op = "master" /\ a3.op = "up" /\ a4.op = "mac" /\ a6.op = "up" /\ "end" \in Kinds /\ "net" \in Kinds
      BY <1>8 DEF Kinds
    <2> HIDE DEF a2, a3, a4, a6
    <2> QED  BY <2>1, HasOf
  <1>12. \A j \in DOMAIN rs : /\ Has("end", R(j)) = {} /\ Wants("end", R(j)) = {}
                              /\ Has("net", R(j)) = {<<k, rs[j]>>} /\ Wants("net", R(j)) = {<<k, rs[j]>>}
    BY HasOf
  <1> HIDE DEF a1, a2, a3, a4, a5, a6, a7, R, W, E
  <1>13. IsList(<<a1>>) /\ Range(<<a1>>) = {a1} /\ IsList(<<a3>>) /\ Range(<<a3>>) = {a3}
    BY ListedOne
  <1>14. IsList(<<a5, a6>>) /\ Range(<<a5, a6>>) = {a5, a6}
    BY ListedTwo
  <1>15. /\ IsList(z2) /\ Range(z2) = Z2 /\ Upped(z2) /\ ServedBy({}, z2)
         /\ IsList(z4) /\ Range(z4) = Z4 /\ Upped(z4) /\ ServedBy({}, z4)
    <2>1. a2.op # "addr" /\ a4.op # "addr" /\ ~Hopping(a2) /\ ~Hopping(a4)
      BY <1>8 DEF Hopping
    <2>2. IsList(z2) /\ Range(z2) = Z2 /\ Upped(z2) /\ ServedBy({}, z2)
      BY <1>5, <2>1, OnePart
    <2>3. IsList(z4) /\ Range(z4) = Z4 /\ Upped(z4) /\ ServedBy({}, z4)
      BY <1>5, <2>1, OnePart
    <2> QED  BY <2>2, <2>3
  <1>16. /\ Upped(<<a1>>) /\ ServedBy({}, <<a1>>) /\ Upped(<<a3>>) /\ ServedBy({}, <<a3>>)
    <2>1. a1.op # "addr" /\ a3.op # "addr" /\ ~Hopping(a1) /\ ~Hopping(a3)
      BY <1>8 DEF Hopping
    <2>2. \A w : DOMAIN <<w>> = {1} /\ <<w>>[1] = w
      OBVIOUS
    <2>3. ASSUME NEW w, w.op # "addr", ~Hopping(w), IsList(<<w>>) PROVE Upped(<<w>>) /\ ServedBy({}, <<w>>)
      BY <2>2, <2>3 DEF Upped, ServedBy
    <2> QED  BY <1>13, <2>1, <2>3
  <1>17. Upped(<<a5, a6>>) /\ ServedBy({}, <<a5, a6>>)
    <2>1. Upped(<<a5, a6>>)
      BY <1>8, UppedTwo
    <2>2. DOMAIN <<a5, a6>> = {1, 2} /\ <<a5, a6>>[1] = a5 /\ <<a5, a6>>[2] = a6
      OBVIOUS
    <2>3. \A j \in DOMAIN <<a5, a6>> : ~Hopping(<<a5, a6>>[j])
      BY <1>8, <2>2 DEF Hopping
    <2> QED  BY <1>14, <2>1, <2>3 DEF ServedBy
  <1>18. t \in Seq(T)
    BY <1>4
  <1>19. IsList(t) /\ Range(t) = T /\ Upped(t) /\ ServedBy({}, t)
    <2>1. \A r \in T : r.op # "addr" /\ ~Hopping(r)
      BY <1>9 DEF Hopping
    <2>2. T \subseteq Range(t)
      BY DEF Range
    <2> HIDE DEF t, T
    <2> QED  BY <1>18, <2>1, <2>2, AllServed
  <1>20. /\ IsList(z) /\ Range(z) = Z /\ Upped(z) /\ \A tag : NoClash(tag, z)
         /\ (b => Serve(a5, a7)) => ServedBy({a5}, z)
    <2>1. (b => Serve(a5, a7)) => (b /\ Hopping(a7) => \E q \in {a5} : Serve(q, a7))
      OBVIOUS
    <2> QED  BY <1>5, <1>8, <2>1, OnePart
  <1> HIDE DEF z2, z4, z, t
  <1>21. IsList(s1) /\ Range(s1) = {a1} \cup Z2
    BY <1>13, <1>15, RangeOnto
  <1>22. IsList(s2) /\ Range(s2) = {a1, a3} \cup Z2
    BY <1>13, <1>21, RangeOnto
  <1>23. IsList(s3) /\ Range(s3) = {a1, a3} \cup Z2 \cup Z4
    BY <1>15, <1>22, RangeOnto
  <1>24. IsList(s4) /\ Range(s4) = S
    BY <1>14, <1>23, RangeOnto
  <1>25. IsList(s5) /\ Range(s5) = S \cup T
    BY <1>19, <1>24, RangeOnto
  <1>26. IsList(s6) /\ Range(s6) = S \cup T \cup Z
    BY <1>20, <1>25, RangeOnto
  <1>27. Upped(s6)
    <2>1. Upped(s1)
      BY <1>15, <1>16, UppedOnto
    <2>2. Upped(s2)
      BY <1>16, <2>1, UppedOnto
    <2>3. Upped(s3)
      BY <1>15, <2>2, UppedOnto
    <2>4. Upped(s4)
      BY <1>17, <2>3, UppedOnto
    <2>5. Upped(s5)
      BY <1>19, <2>4, UppedOnto
    <2> QED  BY <1>20, <2>5, UppedOnto
  <1>28. LinkServes(x, c, i) => ServedBy({}, s6)
    <2>1. ServedBy({}, s1)
      BY <1>15, <1>16, ServedOnto
    <2>2. ServedBy({}, s2)
      BY <1>16, <2>1, ServedOnto
    <2>3. ServedBy({}, s3)
      BY <1>15, <2>2, ServedOnto
    <2>4. ServedBy({}, s4)
      BY <1>17, <2>3, ServedOnto
    <2>5. ServedBy({}, s5)
      BY <1>19, <2>4, ServedOnto
    <2>6. {a5} \subseteq {} \cup Range(s5)
      BY <1>25 DEF S
    <2>7. LinkServes(x, c, i) => ServedBy({a5}, z)
      BY <1>6, <1>8, <1>20
    <2> HIDE DEF s5
    <2> QED  BY <2>5, <2>6, <2>7, ServedOnto
  <1>29. NoClash("end", s6) /\ NoClash("net", s4)
    <2>1. \A tag : NoClash(tag, <<a1>>)
      BY FreeOne
    <2>2. \A tag \in Kinds : \A w \in {a3, a6} \cup Z2 \cup Z4 : Wants(tag, w) = {}
      BY <1>11 DEF Kinds
    <2>3. \A tag \in Kinds : Wants(tag, a5) = {}
      BY <1>10 DEF Kinds
    <2>4. ASSUME NEW tag \in Kinds PROVE NoClash(tag, s4)
      <3>1. NoClash(tag, s1)
        <4>1. \A r \in Range(z2) : Wants(tag, r) = {}
          BY <1>15, <2>2
        <4> QED  BY <1>13, <1>15, <2>1, <4>1, FreeBehind
      <3>2. NoClash(tag, s2)
        <4>1. \A r \in Range(<<a3>>) : Wants(tag, r) = {}
          BY <1>13, <2>2
        <4> QED  BY <1>13, <1>21, <3>1, <4>1, FreeBehind
      <3>3. NoClash(tag, s3)
        <4>1. \A r \in Range(z4) : Wants(tag, r) = {}
          BY <1>15, <2>2
        <4> QED  BY <1>15, <1>22, <3>2, <4>1, FreeBehind
      <3>4. \A r \in Range(<<a5, a6>>) : Wants(tag, r) = {}
        BY <1>14, <2>2, <2>3
      <3> QED  BY <1>14, <1>23, <3>3, <3>4, FreeBehind
    <2>5. NoClash("end", s4) /\ NoClash("net", s4)
      BY <2>4 DEF Kinds
    <2>6. NoClash("end", s5)
      <3>1. \A r \in Range(t) : Wants("end", r) = {}
        BY <1>12, <1>19
      <3> HIDE DEF s4
      <3> QED  BY <1>19, <1>24, <2>5, <3>1, FreeBehind
    <2>7. NoClash("end", s6)
      <3>1. \A r \in Range(z) : Wants("end", r) = {}
        BY <1>10, <1>20
      <3> HIDE DEF s5
      <3> QED  BY <1>20, <1>25, <2>6, <3>1, FreeBehind
    <2> QED  BY <2>5, <2>7
  <1>30. /\ HasAll("end", S) = E /\ WantsAll("end", S) = E
         /\ HasAll("net", S) = W /\ WantsAll("net", S) = {}
    <2>1. \A w \in Z2 \cup Z4 : Has("end", w) = {} /\ Wants("end", w) = {} /\ Has("net", w) = {} /\ Wants("net", w) = {}
      BY <1>11
    <2> HIDE DEF Z2, Z4
    <2> QED  BY <1>10, <1>11, <2>1 DEF HasAll, WantsAll
  <1>31. /\ HasAll("end", T) = {} /\ WantsAll("end", T) = {}
         /\ HasAll("net", T) = N /\ WantsAll("net", T) = N
    BY <1>12 DEF HasAll, WantsAll
  <1>32. /\ HasAll("end", Z) = {} /\ WantsAll("end", Z) = {}
         /\ HasAll("net", Z) = M /\ WantsAll("net", Z) = M
    BY <1>10 DEF HasAll, WantsAll
  <1>33. NoClash("net", t) <=> \A m, j \in DOMAIN rs : m < j => rs[m] # rs[j]
    <2>1. DOMAIN t = DOMAIN rs /\ \A j \in DOMAIN rs : t[j] = R(j)
      BY DEF t
    <2>2. \A m, j \in DOMAIN rs : Has("net", t[m]) \cap Wants("net", t[j]) = {} <=> rs[m] # rs[j]
      <3>1. \A e, g : {e} \cap {g} = {} <=> e # g
        OBVIOUS
      <3>2. \A m, j : <<k, rs[m]>> = <<k, rs[j]>> <=> rs[m] = rs[j]
        OBVIOUS
      <3> HIDE DEF t
      <3>3. \A m, j \in DOMAIN rs : Has("net", t[m]) = {<<k, rs[m]>>} /\ Wants("net", t[j]) = {<<k, rs[j]>>}
        BY <1>12, <2>1
      <3> QED  BY <3>1, <3>2, <3>3
    <2> QED  BY <2>1, <2>2 DEF NoClash
  <1> HIDE DEF S, T, Z, Z2, Z4, s4
  <1>34. NoClash("net", s5) <=> NoClash("net", t) /\ W \cap N = {}
    <2>1. Clear("net", S, T) <=> W \cap N = {}
      BY <1>30, <1>31, ClearIs
    <2> QED  BY <1>19, <1>24, <1>29, <2>1, FreeOnto
  <1>35. NoClash("net", s6) <=> NoClash("net", s5) /\ (W \cup N) \cap M = {}
    <2>1. HasAll("net", S \cup T) = W \cup N
      <3>1. HasAll("net", S \cup T) = HasAll("net", S) \cup HasAll("net", T)
        BY DEF HasAll
      <3> QED  BY <1>30, <1>31, <3>1
    <2>2. Clear("net", S \cup T, Z) <=> (W \cup N) \cap M = {}
      BY <1>32, <2>1, ClearIs
    <2> HIDE DEF s5
    <2> QED  BY <1>20, <1>25, <2>2, FreeOnto
  <1>36. /\ W \cap N = {} <=> (p.bits < AddrBits => \A j \in DOMAIN rs : Masked(p) # rs[j])
         /\ (W \cup N) \cap M = {} <=> (b => /\ \A j \in DOMAIN rs : rs[j] # Everything
                                             /\ p.bits < AddrBits => Masked(p) # Everything)
    <2>1. W \cap N = {} <=> (p.bits < AddrBits => \A j \in DOMAIN rs : Masked(p) # rs[j])
      <3>1. <<k, Masked(p)>> \in N <=> \E j \in DOMAIN rs : Masked(p) = rs[j]
        OBVIOUS
      <3> HIDE DEF N
      <3>2. p.bits < AddrBits => (W \cap N = {} <=> <<k, Masked(p)>> \notin N)
        BY DEF W
      <3>3. ~(p.bits < AddrBits) => W \cap N = {}
        BY DEF W
      <3> QED  BY <3>1, <3>2, <3>3
    <2>2. CASE b
      <3>1. M = {<<k, Everything>>}
        BY <2>2
      <3>2. (W \cup N) \cap M = {} <=> <<k, Everything>> \notin W \cup N
        BY <3>1
      <3>3. <<k, Everything>> \in W <=> p.bits < AddrBits /\ Masked(p) = Everything
        BY DEF W
      <3>5. (W \cup N) \cap M = {} <=> ~(<<k, Everything>> \in W) /\ ~(<<k, Everything>> \in N)
        BY <3>2
      <3>4. <<k, Everything>> \in N <=> \E j \in DOMAIN rs : rs[j] = Everything
        OBVIOUS
      <3> HIDE DEF N, M
      <3>6. (W \cup N) \cap M = {} <=> /\ \A j \in DOMAIN rs : rs[j] # Everything
                                       /\ p.bits < AddrBits => Masked(p) # Everything
        <4> DEFINE X == (W \cup N) \cap M = {}
        <4> HIDE DEF X
        <4> QED  BY <3>3, <3>4, <3>5 DEF X
      <3> QED  BY <2>1, <2>2, <3>6
    <2>3. CASE ~b
      BY <2>1, <2>3
    <2> QED  BY <2>2, <2>3
  <1> HIDE DEF N, M, s6
  <1>37. NoClash("net", s6) <=> LinkFree(x, c, i)
    <2>1. NoClash("net", s6) <=> NoClash("net", t) /\ W \cap N = {} /\ (W \cup N) \cap M = {}
      BY <1>34, <1>35
    <2> HIDE DEF LinkFree
    <2> QED  BY <1>3, <1>33, <1>36, <2>1
  <1>38. /\ HasAll("end", S \cup T \cup Z) = E /\ WantsAll("end", S \cup T \cup Z) = E
         /\ HasAll("net", S \cup T \cup Z) = (N \cup M) \cup W /\ WantsAll("net", S \cup T \cup Z) = N \cup M
    <2>1. \A tag : HasAll(tag, S \cup T \cup Z) = HasAll(tag, S) \cup HasAll(tag, T) \cup HasAll(tag, Z)
      BY DEF HasAll
    <2>2. \A tag : WantsAll(tag, S \cup T \cup Z) = WantsAll(tag, S) \cup WantsAll(tag, T) \cup WantsAll(tag, Z)
      BY DEF WantsAll
    <2>3. /\ HasAll("end", S \cup T \cup Z) = E \cup {} \cup {} /\ WantsAll("end", S \cup T \cup Z) = E \cup {} \cup {}
          /\ HasAll("net", S \cup T \cup Z) = W \cup N \cup M /\ WantsAll("net", S \cup T \cup Z) = {} \cup N \cup M
      BY <1>30, <1>31, <1>32, <2>1, <2>2
    <2> QED  BY <2>3
  <1>39. Part(s6, S \cup T \cup Z, E, (N \cup M) \cup W, N \cup M)
    BY <1>26, <1>27, <1>29, <1>38 DEF Part
  <1>40. E = {<<Host, h>>, <<k, nm>>}
    BY DEF E
  <1> QED  BY <1>1, <1>2, <1>28, <1>37, <1>39, <1>40 DEF h, k, nm

------------------------------------------------------------------------------
(* A network: its gateway, its attachments, its uplink *)

(* The requests of a network, the interfaces and the routes they bring, and
   that no two of its interfaces are one. *)
NetSet(x, n) == {Add(Router(n), x.nets[n].gatewayIf, NoEnd),
                 Addr(Router(n), x.nets[n].gatewayIf, Slash32(x.nets[n].gateway)),
                 Up(Router(n), x.nets[n].gatewayIf)}
                \cup (UNION {ConnectSet(x, n, c) : c \in DOMAIN x.nets[n].attach})
                \cup (IF n \in Uplinked(x) THEN EdgeSet(x, n) ELSE {})
NetEnds(x, n) ==
  {<<Router(n), x.nets[n].gatewayIf>>}
  \cup (UNION {{<<Router(n), RouterIf(c)>>, <<Cont(c), x.nets[n].attach[c].interface>>} : c \in DOMAIN x.nets[n].attach})
  \cup (IF n \in Uplinked(x) THEN {<<Host, Uplink(x, n).hostIf>>, <<Router(n), Uplink(x, n).routerIf>>} ELSE {})
NetHas(x, n)   == (UNION {ConnectNets(x, n, c) : c \in DOMAIN x.nets[n].attach})
                  \cup (IF n \in Uplinked(x) THEN EdgeNets(x, n) ELSE {})
NetWants(x, n) == (UNION {ConnectNets(x, n, c) : c \in DOMAIN x.nets[n].attach})
                  \cup (IF n \in Uplinked(x) THEN EdgeOwn(x, n) ELSE {})
EndsFree(x, n) ==
  LET w == x.nets[n]
  IN  /\ \A c \in DOMAIN w.attach : w.gatewayIf # RouterIf(c)
      /\ n \in Uplinked(x) => /\ Uplink(x, n).routerIf # w.gatewayIf
                              /\ \A c \in DOMAIN w.attach : Uplink(x, n).routerIf # RouterIf(c)

(* The ends of different containers in a router are different. *)
LEMMA SamePrefix ==
  ASSUME NEW S, NEW p \in Seq(S), NEW s \in Seq(S), NEW t \in Seq(S), p \o s = p \o t
  PROVE  s = t
  <1>1. /\ Len(s) \in Nat /\ Len(t) \in Nat /\ Len(p) \in Nat
        /\ Len(p \o s) = Len(p) + Len(s) /\ Len(p \o t) = Len(p) + Len(t)
    OBVIOUS
  <1>2. Len(s) = Len(t)
    BY <1>1
  <1>3. ASSUME NEW i \in 1..Len(s) PROVE s[i] = t[i]
    <2>1. (p \o s)[i + Len(p)] = s[i] /\ (p \o t)[i + Len(p)] = t[i]
      BY <1>1, <1>2
    <2> QED  BY <2>1
  <1> QED  BY <1>2, <1>3

(* Containers of different names have different router ends. *)
LEMMA RouterIfs ==
  ASSUME NEW c \in DOMAIN Name, NEW d \in DOMAIN Name, RouterIf(c) = RouterIf(d)
  PROVE  c = d
  <1>1. Name[c] \in Seq(STRING) /\ Name[d] \in Seq(STRING)
    BY LoweringAssumption
  <1> DEFINE S == STRING \cup {"vethR", "-"}
             p == <<"vethR", "-">>
  <1>2. p \in Seq(S) /\ Name[c] \in Seq(S) /\ Name[d] \in Seq(S)
    <2> DEFINE s == Name[c]
               t == Name[d]
               A == STRING
    <2>1. s \in Seq(A) /\ t \in Seq(A) /\ A \subseteq S
      BY <1>1
    <2>2. p \in Seq(S)
      OBVIOUS
    <2> HIDE DEF s, t, S, A
    <2>3. s \in Seq(S) /\ t \in Seq(S)
      BY <2>1
    <2> QED  BY <2>2, <2>3 DEF s, t
  <1>3. p \o Name[c] = p \o Name[d]
    BY DEF RouterIf
  <1> HIDE DEF S, p
  <1>4. Name[c] = Name[d]
    BY <1>2, <1>3, SamePrefix
  <1> QED  BY <1>4, LoweringAssumption

(* ApplyNetwork, of CreateGateway, every Connect and HostEdgeConnect. *)
LEMMA NetPart ==
  ASSUME NEW x \in Configs, Accepted(x), NEW n \in Networks(x)
  PROVE  LET s == ApplyNetwork(x, n)
         IN  /\ IsList(s) /\ Range(s) = NetSet(x, n) /\ Upped(s) /\ ServedBy({}, s)
             /\ HasAll("end", NetSet(x, n)) = NetEnds(x, n) /\ WantsAll("end", NetSet(x, n)) = NetEnds(x, n)
             /\ HasAll("net", NetSet(x, n)) = NetHas(x, n) /\ WantsAll("net", NetSet(x, n)) = NetWants(x, n)
             /\ NoClash("end", s) <=> EndsFree(x, n)
             /\ NoClash("net", s) <=> Apart(DOMAIN x.nets[n].attach, LAMBDA c : x.nets[n].attach[c].ip)
  <1> DEFINE C  == DOMAIN x.nets[n].attach
             r  == Router(n)
             gd == x.nets[n].gatewayIf
             ip(c) == x.nets[n].attach[c].ip
             if(c) == x.nets[n].attach[c].interface
             s1 == CreateGateway(x, n)
             f  == [c \in C |-> Connect(x, n, c)]
             t  == InOrder(f)
             b  == n \in Uplinked(x)
             z  == If(b, HostEdgeConnect(x, n))
             hd == Uplink(x, n).hostIf
             rd == Uplink(x, n).routerIf
             A  == {Add(r, gd, NoEnd), Addr(r, gd, Slash32(x.nets[n].gateway)), Up(r, gd)}
             T  == UNION {ConnectSet(x, n, c) : c \in C}
             Z  == IF b THEN EdgeSet(x, n) ELSE {}
             AE == {<<r, gd>>}
             CE(c) == {<<r, RouterIf(c)>>, <<Cont(c), if(c)>>}
             CN(c) == ConnectNets(x, n, c)
             TE == UNION {CE(c) : c \in C}
             TN == UNION {CN(c) : c \in C}
             ZE == IF b THEN {<<Host, hd>>, <<r, rd>>} ELSE {}
             ZH == IF b THEN EdgeNets(x, n) ELSE {}
             ZW == IF b THEN EdgeOwn(x, n) ELSE {}
             App == Apart(C, LAMBDA c : ip(c))
  <1>1. ApplyNetwork(x, n) = (s1 \o t) \o z
    BY DEF ApplyNetwork
  <1>2. NetSet(x, n) = A \cup T \cup Z /\ NetEnds(x, n) = AE \cup TE \cup ZE
    <2>1. NetSet(x, n) = A \cup T \cup Z
      BY DEF NetSet
    <2>2. NetEnds(x, n) = AE \cup TE \cup ZE
      BY DEF NetEnds
    <2> HIDE DEF A, T, Z, AE, TE, ZE
    <2> QED  BY <2>1, <2>2
  <1>3. NetHas(x, n) = TN \cup ZH /\ NetWants(x, n) = TN \cup ZW
    <2>1. NetHas(x, n) = TN \cup ZH
      BY DEF NetHas
    <2>2. NetWants(x, n) = TN \cup ZW
      BY DEF NetWants
    <2> HIDE DEF TN, ZH, ZW
    <2> QED  BY <2>1, <2>2
  <1>4. Ids(C) /\ C \subseteq DOMAIN Name /\ \A c \in C : c \in Nat
    <2>1. C \subseteq Containers(x)
      BY DEF Accepted, Validate, CrossCutting, Known
    <2> QED  BY <2>1, WiringAssumption DEF Ids
  <1>5. Part(s1, A, AE, {}, {}) /\ NoClash("net", s1) /\ ServedBy({}, s1)
    BY GatewayPart
  <1>6. \A c \in C : Part(f[c], ConnectSet(x, n, c), CE(c), CN(c), CN(c)) /\ NoClash("net", f[c]) /\ ServedBy({}, f[c])
    BY ConnectPart
  <1>7. b => /\ Part(z, Z, ZE, ZH, ZW) /\ ServedBy({}, z)
             /\ NoClash("net", z) <=> App
    BY EdgePart DEF If
  <1>8. ~b => /\ Part(z, Z, ZE, ZH, ZW) /\ ServedBy({}, z)
              /\ NoClash("net", z)
    <2> SUFFICES ASSUME ~b PROVE Part(z, Z, ZE, ZH, ZW) /\ ServedBy({}, z) /\ NoClash("net", z)
      OBVIOUS
    <2>1. z = <<>> /\ Z = {} /\ ZE = {} /\ ZH = {} /\ ZW = {} /\ DOMAIN <<>> = {}
      BY DEF If
    <2>2. IsList(<<>>) /\ Range(<<>>) = {} /\ \A tag : NoClash(tag, <<>>)
      BY ListedOne, FreeOne
    <2>3. \A tag : HasAll(tag, {}) = {} /\ WantsAll(tag, {}) = {}
      BY ClearIs
    <2>4. Upped(<<>>) /\ ServedBy({}, <<>>)
      BY <2>1, <2>2 DEF Upped, ServedBy
    <2> QED  BY <2>1, <2>2, <2>3, <2>4 DEF Part
  <1>9. \A c, d \in C : RouterIf(c) = RouterIf(d) => c = d
    BY <1>4, RouterIfs
  <1>10. EndsFree(x, n) <=> /\ \A c \in C : gd # RouterIf(c)
                            /\ b => rd # gd /\ \A c \in C : rd # RouterIf(c)
    BY DEF EndsFree
  <1>11. App <=> \A c, d \in C : c < d => ip(c) # ip(d)
    <2>1. \A i, j \in Nat : i # j => i < j \/ j < i
      OBVIOUS
    <2>2. \A i, j \in Nat : i < j => i # j
      OBVIOUS
    <2> QED  BY <1>4, <2>1, <2>2 DEF Apart
  <1>12. \A c \in C : CN(c) = {<<r, Slash32(ip(c))>>, <<Cont(c), Slash32(x.nets[n].gateway)>>}
                               \cup (IF OwnsDefault(x, n, c) THEN {<<Cont(c), Everything>>} ELSE {})
    BY DEF ConnectNets
  <1>13. /\ r # Host /\ \A c, d \in C : Cont(c) # r /\ Cont(c) # Host /\ (Cont(c) = Cont(d) => c = d)
         /\ \A a : Slash32(a) # Everything
         /\ \A a, e : Slash32(a) = Slash32(e) <=> a = e
    BY Spaces, NotEverything, AddressesAre
  <1>14. b => \A e \in ZW : (e[1] = Host \/ e = <<r, Everything>>)
    BY DEF EdgeOwn
  <1>15. DOMAIN f = C
    OBVIOUS
  <1> HIDE DEF s1, f, z, b, r, gd, ip, if, hd, rd, A, Z, CN, ZH, ZW, App, C
  <1>16. /\ IsList(t) /\ Range(t) = T
         /\ \A tag : NoClash(tag, t) <=>
              /\ \A c \in C : NoClash(tag, f[c])
              /\ \A c, d \in C : c < d => Clear(tag, ConnectSet(x, n, c), ConnectSet(x, n, d))
    <2>1. \A c \in C : IsList(f[c]) /\ Range(f[c]) = ConnectSet(x, n, c)
      BY <1>6 DEF Part
    <2>2. /\ IsList(t)
          /\ Range(t) = UNION {Range(f[i]) : i \in DOMAIN f}
          /\ \A tag : NoClash(tag, t) <=>
               /\ \A i \in DOMAIN f : NoClash(tag, f[i])
               /\ \A i, j \in DOMAIN f : i < j => Clear(tag, Range(f[i]), Range(f[j]))
      BY <1>4, <1>15, <2>1, FamilyInOrder
    <2> HIDE DEF t
    <2> QED  BY <1>15, <2>1, <2>2
  <1>17. Upped(t) /\ ServedBy({}, t)
    <2>1. \A c \in C : Upped(f[c]) /\ ServedBy({}, f[c])
      BY <1>6 DEF Part
    <2> QED  BY <1>4, <1>15, <2>1, ServedInOrder
  <1>18. /\ HasAll("end", T) = TE /\ WantsAll("end", T) = TE
         /\ HasAll("net", T) = TN /\ WantsAll("net", T) = TN
    <2>1. \A c \in C : /\ HasAll("end", ConnectSet(x, n, c)) = CE(c) /\ WantsAll("end", ConnectSet(x, n, c)) = CE(c)
                       /\ HasAll("net", ConnectSet(x, n, c)) = CN(c) /\ WantsAll("net", ConnectSet(x, n, c)) = CN(c)
      BY <1>6 DEF Part
    <2>2. \A tag : HasAll(tag, T) = UNION {HasAll(tag, ConnectSet(x, n, c)) : c \in C}
      BY DEF HasAll
    <2>3. \A tag : WantsAll(tag, T) = UNION {WantsAll(tag, ConnectSet(x, n, c)) : c \in C}
      BY DEF WantsAll
    <2> HIDE DEF T, CE
    <2> QED  BY <2>1, <2>2, <2>3
  <1>19. Part(z, Z, ZE, ZH, ZW) /\ ServedBy({}, z) /\ (NoClash("net", z) <=> (b => App))
    BY <1>7, <1>8
  <1> HIDE DEF t, T
  <1>20. IsList(s1 \o t) /\ Range(s1 \o t) = A \cup T
    BY <1>5, <1>16, RangeOnto DEF Part
  <1>21. IsList((s1 \o t) \o z) /\ Range((s1 \o t) \o z) = A \cup T \cup Z
    BY <1>19, <1>20, RangeOnto DEF Part
  <1>22. Upped((s1 \o t) \o z)
    <2>1. Upped(s1 \o t)
      BY <1>5, <1>17, UppedOnto DEF Part
    <2> QED  BY <1>19, <2>1, UppedOnto DEF Part
  <1>23. ServedBy({}, (s1 \o t) \o z)
    <2>1. ServedBy({}, s1 \o t)
      BY <1>5, <1>17, ServedOnto
    <2> QED  BY <1>19, <2>1, ServedOnto
  <1>24. \A tag : HasAll(tag, A \cup T) = HasAll(tag, A) \cup HasAll(tag, T)
    BY DEF HasAll
  <1>25. \A tag : HasAll(tag, A \cup T \cup Z) = HasAll(tag, A) \cup HasAll(tag, T) \cup HasAll(tag, Z)
    BY DEF HasAll
  <1>26. \A tag : WantsAll(tag, A \cup T \cup Z) = WantsAll(tag, A) \cup WantsAll(tag, T) \cup WantsAll(tag, Z)
    BY DEF WantsAll
  <1>27. \A tag : NoClash(tag, (s1 \o t) \o z) <=>
           /\ NoClash(tag, s1) /\ NoClash(tag, t) /\ NoClash(tag, z)
           /\ HasAll(tag, A) \cap WantsAll(tag, T) = {}
           /\ HasAll(tag, A \cup T) \cap WantsAll(tag, Z) = {}
    <2> TAKE tag
    <2>1. NoClash(tag, s1 \o t) <=> NoClash(tag, s1) /\ NoClash(tag, t) /\ Clear(tag, A, T)
      BY <1>5, <1>16, FreeOnto DEF Part
    <2>2. NoClash(tag, (s1 \o t) \o z) <=> NoClash(tag, s1 \o t) /\ NoClash(tag, z) /\ Clear(tag, A \cup T, Z)
      BY <1>19, <1>20, FreeOnto DEF Part
    <2>3. Clear(tag, A, T) <=> HasAll(tag, A) \cap WantsAll(tag, T) = {}
      BY ClearIs
    <2>4. Clear(tag, A \cup T, Z) <=> HasAll(tag, A \cup T) \cap WantsAll(tag, Z) = {}
      BY ClearIs
    <2> QED  BY <2>1, <2>2, <2>3, <2>4
  <1>28. /\ HasAll("end", A) = AE /\ WantsAll("end", A) = AE /\ HasAll("net", A) = {} /\ WantsAll("net", A) = {}
         /\ HasAll("end", Z) = ZE /\ WantsAll("end", Z) = ZE /\ HasAll("net", Z) = ZH /\ WantsAll("net", Z) = ZW
    BY <1>5, <1>19 DEF Part
  <1>29. NoClash("end", t) /\ (NoClash("net", t) <=> App)
    <2>1. \A c \in C : NoClash("end", f[c]) /\ NoClash("net", f[c])
      BY <1>6 DEF Part
    <2>2. \A c, d \in C : c < d => Clear("end", ConnectSet(x, n, c), ConnectSet(x, n, d))
      <3> SUFFICES ASSUME NEW c \in C, NEW d \in C, c < d PROVE Clear("end", ConnectSet(x, n, c), ConnectSet(x, n, d))
        OBVIOUS
      <3>1. HasAll("end", ConnectSet(x, n, c)) = CE(c) /\ WantsAll("end", ConnectSet(x, n, d)) = CE(d)
        BY <1>6 DEF Part
      <3>2. c # d
        BY <1>4
      <3>3. CE(c) \cap CE(d) = {}
        BY <1>9, <1>13, <3>2
      <3> HIDE DEF CE
      <3> QED  BY <3>1, <3>3, ClearIs
    <2>3. \A c, d \in C : c < d => (Clear("net", ConnectSet(x, n, c), ConnectSet(x, n, d)) <=> ip(c) # ip(d))
      <3> SUFFICES ASSUME NEW c \in C, NEW d \in C, c < d
                   PROVE Clear("net", ConnectSet(x, n, c), ConnectSet(x, n, d)) <=> ip(c) # ip(d)
        OBVIOUS
      <3>1. HasAll("net", ConnectSet(x, n, c)) = CN(c) /\ WantsAll("net", ConnectSet(x, n, d)) = CN(d)
        BY <1>6 DEF Part
      <3>2. c # d
        BY <1>4
      <3>3. CN(c) \cap CN(d) = {} <=> ip(c) # ip(d)
        <4>1. Cont(c) # r /\ Cont(d) # r /\ Cont(c) # Cont(d)
          BY <1>13, <3>2
        <4> DEFINE e == <<r, Slash32(ip(c))>>
                   g == <<r, Slash32(ip(d))>>
        <4>2. \A k \in CN(c) : k = e \/ k[1] = Cont(c)
          BY <1>12
        <4>3. \A k \in CN(d) : k = g \/ k[1] = Cont(d)
          BY <1>12
        <4>4. e \in CN(c) /\ g \in CN(d) /\ e[1] = r /\ g[1] = r
          BY <1>12
        <4>5. e = g <=> ip(c) = ip(d)
          BY <1>13
        <4> HIDE DEF e, g
        <4> QED  BY <4>1, <4>2, <4>3, <4>4, <4>5
      <3>4. Clear("net", ConnectSet(x, n, c), ConnectSet(x, n, d)) <=> CN(c) \cap CN(d) = {}
        <4>1. Clear("net", ConnectSet(x, n, c), ConnectSet(x, n, d)) <=>
                HasAll("net", ConnectSet(x, n, c)) \cap WantsAll("net", ConnectSet(x, n, d)) = {}
          BY ClearIs
        <4> QED  BY <3>1, <4>1
      <3> QED  BY <3>3, <3>4
    <2> QED  BY <1>11, <1>16, <2>1, <2>2, <2>3
  <1>30. NoClash("end", (s1 \o t) \o z) <=> EndsFree(x, n)
    <2>1. NoClash("end", s1) /\ NoClash("end", z)
      BY <1>5, <1>19 DEF Part
    <2>2. NoClash("end", (s1 \o t) \o z) <=> AE \cap TE = {} /\ (AE \cup TE) \cap ZE = {}
      BY <1>18, <1>24, <1>27, <1>28, <1>29, <2>1
    <2>3. AE \cap TE = {} <=> \A c \in C : gd # RouterIf(c)
      <3>1. <<r, gd>> \in TE <=> \E c \in C : gd = RouterIf(c)
        BY <1>13
      <3> HIDE DEF TE
      <3> QED  BY <3>1
    <2>4. CASE b
      <3>1. ZE = {<<Host, hd>>, <<r, rd>>}
        BY <2>4
      <3>2. <<Host, hd>> \notin AE \cup TE
        BY <1>13
      <3>3. <<r, rd>> \in AE \cup TE <=> (rd = gd \/ \E c \in C : rd = RouterIf(c))
        BY <1>13
      <3>4. (AE \cup TE) \cap ZE = {} <=> <<r, rd>> \notin AE \cup TE
        <4> HIDE DEF AE, TE, ZE
        <4> QED  BY <3>1, <3>2
      <3> HIDE DEF AE, TE, ZE, EndsFree
      <3> QED  BY <1>10, <2>2, <2>3, <2>4, <3>3, <3>4
    <2>5. CASE ~b
      <3>1. (AE \cup TE) \cap ZE = {}
        BY <2>5
      <3> HIDE DEF AE, TE, ZE, EndsFree
      <3> QED  BY <1>10, <2>2, <2>3, <2>5, <3>1
    <2> QED  BY <2>4, <2>5
  <1>31. NoClash("net", (s1 \o t) \o z) <=> App
    <2>1. HasAll("net", A \cup T) = TN
      <3>1. HasAll("net", A \cup T) = HasAll("net", A) \cup HasAll("net", T)
        BY <1>24
      <3>2. HasAll("net", A) = {} /\ HasAll("net", T) = TN
        BY <1>18, <1>28
      <3> QED  BY <3>1, <3>2
    <2>2. TN \cap ZW = {}
      <3>1. CASE b
        <4>1. ASSUME NEW c \in C, NEW e \in CN(c) PROVE e[1] # Host /\ e # <<r, Everything>>
          <5>1. e \in {<<r, Slash32(ip(c))>>, <<Cont(c), Slash32(x.nets[n].gateway)>>, <<Cont(c), Everything>>}
            BY <1>12, <4>1
          <5> QED  BY <1>13, <5>1
        <4> QED  BY <1>14, <3>1, <4>1
      <3>2. CASE ~b
        BY <3>2 DEF ZW
      <3> QED  BY <3>1, <3>2
    <2>3. NoClash("net", (s1 \o t) \o z) <=> NoClash("net", t) /\ NoClash("net", z)
      BY <1>5, <1>27, <1>28, <2>1, <2>2
    <2> QED  BY <1>19, <1>29, <2>3
  <1>32. /\ HasAll("end", A \cup T \cup Z) = AE \cup TE \cup ZE /\ WantsAll("end", A \cup T \cup Z) = AE \cup TE \cup ZE
         /\ HasAll("net", A \cup T \cup Z) = TN \cup ZH /\ WantsAll("net", A \cup T \cup Z) = TN \cup ZW
    <2> HIDE DEF AE, TE, ZE, TN
    <2>1. HasAll("end", A \cup T \cup Z) = AE \cup TE \cup ZE /\ WantsAll("end", A \cup T \cup Z) = AE \cup TE \cup ZE
      BY <1>18, <1>25, <1>26, <1>28
    <2>2. HasAll("net", A \cup T \cup Z) = {} \cup TN \cup ZH /\ WantsAll("net", A \cup T \cup Z) = {} \cup TN \cup ZW
      BY <1>18, <1>25, <1>26, <1>28
    <2> QED  BY <2>1, <2>2
  <1> HIDE DEF AE, TE, ZE, TN
  <1>33. App <=> Apart(DOMAIN x.nets[n].attach, LAMBDA c : x.nets[n].attach[c].ip)
    BY DEF App, C, ip
  <1> QED  BY <1>1, <1>2, <1>3, <1>21, <1>22, <1>23, <1>30, <1>31, <1>32, <1>33

------------------------------------------------------------------------------
(* The links of a container *)

(* The requests of the links of a container, likewise. *)
ContSet(x, c)   == UNION {LinkSet(x, c, i) : i \in DOMAIN x.links[c]}
LinkEnds(x, c, i) == {<<Host, LinkHostIf(c, x.links[c][i])>>, <<Cont(c), x.links[c][i].name>>}
LinkHas(x, c, i)  == LinkOwn(x, c, i) \cup LinkWide(x, c, i)
ContEnds(x, c)  == UNION {LinkEnds(x, c, i) : i \in DOMAIN x.links[c]}
ContHas(x, c)   == UNION {LinkHas(x, c, i) : i \in DOMAIN x.links[c]}
ContWants(x, c) == UNION {LinkOwn(x, c, i) : i \in DOMAIN x.links[c]}
ContEndsFree(x, c) ==
  \A i, k \in DOMAIN x.links[c] : i < k => LinkHostIf(c, x.links[c][i]) # LinkHostIf(c, x.links[c][k])
ContNetsFree(x, c) ==
  /\ \A i \in DOMAIN x.links[c] : LinkFree(x, c, i)
  /\ \A i, k \in DOMAIN x.links[c] : i < k => LinkHas(x, c, i) \cap LinkOwn(x, c, k) = {}

(* ApplyContainer, of every LinkConnect. *)
LEMMA ContPart ==
  ASSUME NEW x \in Configs, Accepted(x), NEW c \in Containers(x)
  PROVE  LET s == ApplyContainer(x, c)
         IN  /\ IsList(s) /\ Range(s) = ContSet(x, c) /\ Upped(s)
             /\ (\A i \in DOMAIN x.links[c] : LinkServes(x, c, i)) => ServedBy({}, s)
             /\ HasAll("end", ContSet(x, c)) = ContEnds(x, c) /\ WantsAll("end", ContSet(x, c)) = ContEnds(x, c)
             /\ HasAll("net", ContSet(x, c)) = ContHas(x, c) /\ WantsAll("net", ContSet(x, c)) = ContWants(x, c)
             /\ NoClash("end", s) <=> ContEndsFree(x, c)
             /\ NoClash("net", s) <=> ContNetsFree(x, c)
  <1> DEFINE D == DOMAIN x.links[c]
             f == [i \in D |-> LinkConnect(x, c, i)]
             t == InOrder(f)
             S(i) == LinkSet(x, c, i)
             T == UNION {S(i) : i \in D}
  <1>1. ApplyContainer(x, c) = t /\ ContSet(x, c) = T
    <2>1. ApplyContainer(x, c) = t
      BY DEF ApplyContainer
    <2>2. ContSet(x, c) = T
      BY DEF ContSet
    <2> QED  BY <2>1, <2>2
  <1>2. Ids(D) /\ \A i \in D : i \in Nat
    BY LinksAre DEF Ids
  <1>3. \A i \in D : /\ Part(f[i], S(i), LinkEnds(x, c, i), LinkHas(x, c, i), LinkOwn(x, c, i))
                     /\ LinkServes(x, c, i) => ServedBy({}, f[i])
                     /\ NoClash("net", f[i]) <=> LinkFree(x, c, i)
    BY LinkPart DEF LinkEnds, LinkHas
  <1>4. \A i, k \in D : i # k => x.links[c][i].name # x.links[c][k].name
    <2> SUFFICES ASSUME NEW i \in D, NEW k \in D, i # k PROVE x.links[c][i].name # x.links[c][k].name
      OBVIOUS
    <2>1. LinksOf(x, c) = x.links[c]
      BY DEF LinksOf
    <2>2. <<"link", i>> \in Ifaces(x, c) /\ <<"link", k>> \in Ifaces(x, c) /\ <<"link", i>> # <<"link", k>>
      BY <2>1 DEF Ifaces
    <2>3. IfaceName(x, c, <<"link", i>>) = x.links[c][i].name /\ IfaceName(x, c, <<"link", k>>) = x.links[c][k].name
      BY <2>1 DEF IfaceName
    <2>4. \A p, q \in Ifaces(x, c) : p # q => IfaceName(x, c, p) # IfaceName(x, c, q)
      BY DEF Accepted, Validate, CrossCutting
    <2> QED  BY <2>2, <2>3, <2>4
  <1>5. Cont(c) # Host /\ DOMAIN f = D
    BY Spaces
  <1> HIDE DEF f, S, D
  <1>6. /\ IsList(t) /\ Range(t) = T
        /\ \A tag : NoClash(tag, t) <=>
             /\ \A i \in D : NoClash(tag, f[i])
             /\ \A i, k \in D : i < k => Clear(tag, S(i), S(k))
    <2>1. \A i \in D : IsList(f[i]) /\ Range(f[i]) = S(i)
      BY <1>3 DEF Part
    <2>2. /\ IsList(t)
          /\ Range(t) = UNION {Range(f[i]) : i \in DOMAIN f}
          /\ \A tag : NoClash(tag, t) <=>
               /\ \A i \in DOMAIN f : NoClash(tag, f[i])
               /\ \A i, j \in DOMAIN f : i < j => Clear(tag, Range(f[i]), Range(f[j]))
      BY <1>2, <1>5, <2>1, FamilyInOrder
    <2> HIDE DEF t
    <2> QED  BY <1>5, <2>1, <2>2
  <1>7. Upped(t) /\ ((\A i \in D : LinkServes(x, c, i)) => ServedBy({}, t))
    <2>1. \A i \in D : Upped(f[i]) /\ (LinkServes(x, c, i) => ServedBy({}, f[i]))
      BY <1>3 DEF Part
    <2>2. /\ (\A i \in DOMAIN f : Upped(f[i])) => Upped(t)
          /\ (\A i \in DOMAIN f : ServedBy({}, f[i])) => ServedBy({}, t)
      BY <1>2, <1>5, ServedInOrder
    <2> HIDE DEF t
    <2> QED  BY <1>5, <2>1, <2>2
  <1>8. /\ HasAll("end", T) = ContEnds(x, c) /\ WantsAll("end", T) = ContEnds(x, c)
        /\ HasAll("net", T) = ContHas(x, c) /\ WantsAll("net", T) = ContWants(x, c)
    <2>1. \A i \in D : /\ HasAll("end", S(i)) = LinkEnds(x, c, i) /\ WantsAll("end", S(i)) = LinkEnds(x, c, i)
                       /\ HasAll("net", S(i)) = LinkHas(x, c, i) /\ WantsAll("net", S(i)) = LinkOwn(x, c, i)
      BY <1>3 DEF Part
    <2>2. \A tag : HasAll(tag, T) = UNION {HasAll(tag, S(i)) : i \in D}
      BY DEF HasAll
    <2>3. \A tag : WantsAll(tag, T) = UNION {WantsAll(tag, S(i)) : i \in D}
      BY DEF WantsAll
    <2> HIDE DEF T
    <2>4. HasAll("end", T) = ContEnds(x, c) /\ WantsAll("end", T) = ContEnds(x, c)
      BY <2>1, <2>2, <2>3 DEF ContEnds, D
    <2>5. HasAll("net", T) = ContHas(x, c) /\ WantsAll("net", T) = ContWants(x, c)
      BY <2>1, <2>2, <2>3 DEF ContHas, ContWants, D
    <2> QED  BY <2>4, <2>5
  <1> HIDE DEF t, T
  <1>9. NoClash("end", t) <=> ContEndsFree(x, c)
    <2>1. \A i \in D : NoClash("end", f[i])
      BY <1>3 DEF Part
    <2>2. ASSUME NEW i \in D, NEW k \in D, i < k
          PROVE  Clear("end", S(i), S(k)) <=> LinkHostIf(c, x.links[c][i]) # LinkHostIf(c, x.links[c][k])
      <3>1. Clear("end", S(i), S(k)) <=> HasAll("end", S(i)) \cap WantsAll("end", S(k)) = {}
        BY ClearIs
      <3>2. HasAll("end", S(i)) = LinkEnds(x, c, i) /\ WantsAll("end", S(k)) = LinkEnds(x, c, k)
        BY <1>3 DEF Part
      <3>3. i # k
        BY <1>2, <2>2
      <3>4. LinkEnds(x, c, i) \cap LinkEnds(x, c, k) = {} <=>
              LinkHostIf(c, x.links[c][i]) # LinkHostIf(c, x.links[c][k])
        <4>1. x.links[c][i].name # x.links[c][k].name
          BY <1>4, <3>3
        <4> DEFINE a == LinkHostIf(c, x.links[c][i])
                   b == LinkHostIf(c, x.links[c][k])
                   p == x.links[c][i].name
                   q == x.links[c][k].name
                   K == Cont(c)
        <4>2. LinkEnds(x, c, i) = {<<Host, a>>, <<K, p>>} /\ LinkEnds(x, c, k) = {<<Host, b>>, <<K, q>>}
          BY DEF LinkEnds
        <4>3. p # q /\ K # Host
          BY <1>5, <4>1
        <4> HIDE DEF a, b, p, q, K
        <4>4. {<<Host, a>>, <<K, p>>} \cap {<<Host, b>>, <<K, q>>} = {} <=> <<Host, a>> # <<Host, b>>
          <5> DEFINE e == <<Host, a>>
                     g == <<Host, b>>
                     u == <<K, p>>
                     v == <<K, q>>
          <5>1. e # v /\ u # g /\ u # v
            BY <4>3
          <5> HIDE DEF e, g, u, v
          <5>2. {e, u} \cap {g, v} = {} <=> e # g
            BY <5>1
          <5> QED  BY <5>2 DEF e, g, u, v
        <4>5. <<Host, a>> = <<Host, b>> <=> a = b
          OBVIOUS
        <4> QED  BY <4>2, <4>4, <4>5 DEF a, b
      <3> QED  BY <3>1, <3>2, <3>4
    <2> QED  BY <1>6, <2>1, <2>2 DEF ContEndsFree, D
  <1>10. NoClash("net", t) <=> ContNetsFree(x, c)
    <2>1. ASSUME NEW i \in D, NEW k \in D
          PROVE  Clear("net", S(i), S(k)) <=> LinkHas(x, c, i) \cap LinkOwn(x, c, k) = {}
      <3>1. Clear("net", S(i), S(k)) <=> HasAll("net", S(i)) \cap WantsAll("net", S(k)) = {}
        BY ClearIs
      <3>2. HasAll("net", S(i)) = LinkHas(x, c, i) /\ WantsAll("net", S(k)) = LinkOwn(x, c, k)
        BY <1>3 DEF Part
      <3> QED  BY <3>1, <3>2
    <2> QED  BY <1>3, <1>6, <2>1 DEF ContNetsFree, D
  <1> QED  BY <1>1, <1>6, <1>7, <1>8, <1>9, <1>10 DEF D

------------------------------------------------------------------------------
(* The plan *)

(* Requests for the host edge and the loopbacks take nothing and give nothing. *)
Quiet(s, A) == /\ IsList(s) /\ Range(s) = A /\ Upped(s) /\ ServedBy({}, s)
               /\ \A tag \in Kinds : NoClash(tag, s) /\ HasAll(tag, A) = {} /\ WantsAll(tag, A) = {}

(* Deletes and loopbacks, one for each network or container, in order. *)
LEMMA QuietFamily ==
  ASSUME NEW f, Ids(DOMAIN f), NEW A,
         \A i \in DOMAIN f : \E r \in A : f[i] = <<r>>,
         \A r \in A : r.op \in {"del", "up"} /\ \E i \in DOMAIN f : f[i] = <<r>>
  PROVE  Quiet(InOrder(f), A)
  <1> DEFINE t == InOrder(f)
  <1>1. \A r : IsList(<<r>>) /\ Range(<<r>>) = {r}
    BY ListedOne
  <1>2. \A r : (\A tag : NoClash(tag, <<r>>)) /\ DOMAIN <<r>> = {1} /\ <<r>>[1] = r
    <2>1. \A r, tag : NoClash(tag, <<r>>)
      BY FreeOne
    <2>2. \A r : DOMAIN <<r>> = {1} /\ <<r>>[1] = r
      OBVIOUS
    <2> QED  BY <2>1, <2>2
  <1>3. \A i \in DOMAIN f : IsList(f[i])
    BY <1>1
  <1>4. \A tag \in Kinds, r \in A : Has(tag, r) = {} /\ Wants(tag, r) = {}
    BY HasOf
  <1>5. /\ IsList(t) /\ Range(t) = UNION {Range(f[i]) : i \in DOMAIN f}
        /\ \A tag : NoClash(tag, t) <=>
             /\ \A i \in DOMAIN f : NoClash(tag, f[i])
             /\ \A i, j \in DOMAIN f : i < j => Clear(tag, Range(f[i]), Range(f[j]))
    BY <1>3, FamilyInOrder
  <1>6. \A i \in DOMAIN f : Upped(f[i]) /\ ServedBy({}, f[i])
    <2> SUFFICES ASSUME NEW i \in DOMAIN f PROVE Upped(f[i]) /\ ServedBy({}, f[i])
      OBVIOUS
    <2>1. PICK r \in A : f[i] = <<r>>
      OBVIOUS
    <2>2. r.op # "addr" /\ ~Hopping(r)
      BY DEF Hopping
    <2>3. \A j \in DOMAIN f[i] : f[i][j] = r
      BY <1>2, <2>1
    <2> QED  BY <1>3, <2>2, <2>3 DEF Upped, ServedBy
  <1>7. Upped(t) /\ ServedBy({}, t)
    BY <1>6, ServedInOrder
  <1> HIDE DEF t
  <1>8. Range(t) = A
    <2>1. \A i \in DOMAIN f : Range(f[i]) \subseteq A
      BY <1>1
    <2>2. \A r \in A : \E i \in DOMAIN f : r \in Range(f[i])
      BY <1>1
    <2> QED  BY <1>5, <2>1, <2>2
  <1>9. \A tag \in Kinds : NoClash(tag, t)
    <2> SUFFICES ASSUME NEW tag \in Kinds PROVE NoClash(tag, t)
      OBVIOUS
    <2>1. \A i \in DOMAIN f : NoClash(tag, f[i])
      BY <1>2
    <2>2. \A i, j \in DOMAIN f : Clear(tag, Range(f[i]), Range(f[j]))
      <3>1. \A i \in DOMAIN f : Range(f[i]) \subseteq A
        BY <1>1
      <3> QED  BY <1>4, <3>1 DEF Clear
    <2> QED  BY <1>5, <2>1, <2>2
  <1>10. \A tag \in Kinds : HasAll(tag, A) = {} /\ WantsAll(tag, A) = {}
    BY <1>4 DEF HasAll, WantsAll
  <1> QED  BY <1>5, <1>7, <1>8, <1>9, <1>10 DEF Quiet, t

(* Quiet lists joined are quiet. *)
LEMMA QuietOnto ==
  ASSUME NEW s, NEW t, NEW A, NEW B, Quiet(s, A), Quiet(t, B)
  PROVE  Quiet(s \o t, A \cup B)
  <1>1. IsList(s \o t) /\ Range(s \o t) = A \cup B
    BY RangeOnto DEF Quiet
  <1>2. Upped(s \o t)
    BY UppedOnto DEF Quiet
  <1>3. ServedBy({}, s \o t)
    BY ServedOnto DEF Quiet
  <1>4. ASSUME NEW tag \in Kinds
        PROVE  NoClash(tag, s \o t) /\ HasAll(tag, A \cup B) = {} /\ WantsAll(tag, A \cup B) = {}
    <2>1. HasAll(tag, A) = {} /\ HasAll(tag, B) = {} /\ WantsAll(tag, A) = {} /\ WantsAll(tag, B) = {}
      BY DEF Quiet
    <2>2. Clear(tag, A, B)
      BY <2>1, ClearIs
    <2>3. NoClash(tag, s \o t)
      BY <2>2, FreeOnto DEF Quiet
    <2>4. HasAll(tag, A \cup B) = HasAll(tag, A) \cup HasAll(tag, B)
      BY DEF HasAll
    <2>5. WantsAll(tag, A \cup B) = WantsAll(tag, A) \cup WantsAll(tag, B)
      BY DEF WantsAll
    <2> QED  BY <2>1, <2>3, <2>4, <2>5
  <1> QED  BY <1>1, <1>2, <1>3, <1>4 DEF Quiet

(* The requests of ClearHostEdge, and the loopbacks. *)
DelSet(x) == {Del(Uplink(x, n).hostIf) : n \in Uplinked(x)}
LoSet(x)  == {Up(Router(n), Lo) : n \in Networks(x)} \cup {Up(Cont(c), Lo) : c \in Containers(x)}

(* A plan begins with requests that neither have nor want anything. *)
LEMMA OpeningPart ==
  ASSUME NEW x \in Configs
  PROVE  Quiet(ClearHostEdge(x), DelSet(x)) /\ Quiet(ClearHostEdge(x) \o Loopbacks(x), DelSet(x) \cup LoSet(x))
  <1>1. Ids(Networks(x)) /\ Ids(Containers(x)) /\ Ids(Uplinked(x))
    <2>1. Ids(Networks(x)) /\ Ids(Containers(x)) /\ Uplinked(x) \subseteq Networks(x)
      BY WiringAssumption DEF Uplinked
    <2> QED  BY <2>1, FS_Subset DEF Ids
  <1> DEFINE f == [n \in Uplinked(x) |-> <<Del(Uplink(x, n).hostIf)>>]
             g == [n \in Networks(x) |-> <<Up(Router(n), Lo)>>]
             h == [c \in Containers(x) |-> <<Up(Cont(c), Lo)>>]
             G == {Up(Router(n), Lo) : n \in Networks(x)}
             H == {Up(Cont(c), Lo) : c \in Containers(x)}
  <1>2. Quiet(InOrder(f), DelSet(x))
    <2>1. DOMAIN f = Uplinked(x) /\ \A i \in DOMAIN f : \E r \in DelSet(x) : f[i] = <<r>>
      BY DEF DelSet
    <2>2. \A r \in DelSet(x) : r.op \in {"del", "up"} /\ \E i \in DOMAIN f : f[i] = <<r>>
      BY Fields DEF DelSet
    <2> HIDE DEF f
    <2> QED  BY <1>1, <2>1, <2>2, QuietFamily
  <1>3. Quiet(InOrder(g), G)
    <2>1. DOMAIN g = Networks(x) /\ \A i \in DOMAIN g : \E r \in G : g[i] = <<r>>
      OBVIOUS
    <2>2. \A r \in G : r.op \in {"del", "up"} /\ \E i \in DOMAIN g : g[i] = <<r>>
      BY Fields
    <2> HIDE DEF g, G
    <2> QED  BY <1>1, <2>1, <2>2, QuietFamily
  <1>4. Quiet(InOrder(h), H)
    <2>1. DOMAIN h = Containers(x) /\ \A i \in DOMAIN h : \E r \in H : h[i] = <<r>>
      OBVIOUS
    <2>2. \A r \in H : r.op \in {"del", "up"} /\ \E i \in DOMAIN h : h[i] = <<r>>
      BY Fields
    <2> HIDE DEF h, H
    <2> QED  BY <1>1, <2>1, <2>2, QuietFamily
  <1>5. ClearHostEdge(x) = InOrder(f) /\ Loopbacks(x) = InOrder(g) \o InOrder(h) /\ LoSet(x) = G \cup H
    BY DEF ClearHostEdge, Loopbacks, LoSet
  <1> HIDE DEF f, g, h, G, H
  <1>6. Quiet(Loopbacks(x), G \cup H)
    BY <1>3, <1>4, <1>5, QuietOnto
  <1> QED  BY <1>2, <1>5, <1>6, QuietOnto

(* The requests of a plan. *)
NetsSet(x)  == UNION {NetSet(x, n) : n \in Networks(x)}
ContsSet(x) == UNION {ContSet(x, c) : c \in Containers(x)}
PlanSet(x)  == (DelSet(x) \cup LoSet(x)) \cup NetsSet(x) \cup ContsSet(x)

(* No clash of interfaces in a plan, no clash of routes, and every gateway of
   a link on its network: within each network and container, and between any
   two of them. *)
EndsPlan(x) ==
  /\ \A n \in Networks(x) : EndsFree(x, n)
  /\ \A m, n \in Networks(x) : m < n => NetEnds(x, m) \cap NetEnds(x, n) = {}
  /\ \A c \in Containers(x) : ContEndsFree(x, c)
  /\ \A c, d \in Containers(x) : c < d => ContEnds(x, c) \cap ContEnds(x, d) = {}
  /\ \A n \in Networks(x), c \in Containers(x) : NetEnds(x, n) \cap ContEnds(x, c) = {}
NetsPlan(x) ==
  /\ \A n \in Networks(x) : Apart(DOMAIN x.nets[n].attach, LAMBDA c : x.nets[n].attach[c].ip)
  /\ \A m, n \in Networks(x) : m < n => NetHas(x, m) \cap NetWants(x, n) = {}
  /\ \A c \in Containers(x) : ContNetsFree(x, c)
  /\ \A c, d \in Containers(x) : c < d => ContHas(x, c) \cap ContWants(x, d) = {}
  /\ \A n \in Networks(x), c \in Containers(x) : NetHas(x, n) \cap ContWants(x, c) = {}
Serves(x) == \A c \in Containers(x) : \A i \in DOMAIN x.links[c] : LinkServes(x, c, i)

(* The requests of a plan, and when they do not clash. *)
LEMMA PlanPart ==
  ASSUME NEW x \in Configs, Accepted(x)
  PROVE  LET P == ApplyPlan(x)
         IN  /\ IsList(P) /\ Range(P) = PlanSet(x) /\ Upped(P)
             /\ Serves(x) => ServedBy({}, P)
             /\ NoClash("end", P) <=> EndsPlan(x)
             /\ NoClash("net", P) <=> NetsPlan(x)
  <1> DEFINE NN == Networks(x)
             CC == Containers(x)
             S(n) == NetSet(x, n)
             T(c) == ContSet(x, c)
             f == [n \in NN |-> ApplyNetwork(x, n)]
             g == [c \in CC |-> ApplyContainer(x, c)]
             o == ClearHostEdge(x) \o Loopbacks(x)
             s == InOrder(f)
             t == InOrder(g)
             O == DelSet(x) \cup LoSet(x)
             SS == UNION {S(n) : n \in NN}
             TT == UNION {T(c) : c \in CC}
  <1>1. ApplyPlan(x) = (o \o s) \o t /\ PlanSet(x) = O \cup SS \cup TT
    <2>1. ApplyPlan(x) = (o \o s) \o t
      BY DEF ApplyPlan
    <2>2. PlanSet(x) = O \cup SS \cup TT
      BY DEF PlanSet, NetsSet, ContsSet
    <2> QED  BY <2>1, <2>2
  <1>2. Ids(NN) /\ Ids(CC) /\ DOMAIN f = NN /\ DOMAIN g = CC
    BY WiringAssumption
  <1>3. Quiet(o, O)
    BY OpeningPart
  <1>4. \A n \in NN : /\ IsList(f[n]) /\ Range(f[n]) = S(n) /\ Upped(f[n]) /\ ServedBy({}, f[n])
                      /\ HasAll("end", S(n)) = NetEnds(x, n) /\ WantsAll("end", S(n)) = NetEnds(x, n)
                      /\ HasAll("net", S(n)) = NetHas(x, n) /\ WantsAll("net", S(n)) = NetWants(x, n)
                      /\ NoClash("end", f[n]) <=> EndsFree(x, n)
                      /\ NoClash("net", f[n]) <=> Apart(DOMAIN x.nets[n].attach, LAMBDA c : x.nets[n].attach[c].ip)
    BY NetPart
  <1>5. \A c \in CC : /\ IsList(g[c]) /\ Range(g[c]) = T(c) /\ Upped(g[c])
                      /\ (\A i \in DOMAIN x.links[c] : LinkServes(x, c, i)) => ServedBy({}, g[c])
                      /\ HasAll("end", T(c)) = ContEnds(x, c) /\ WantsAll("end", T(c)) = ContEnds(x, c)
                      /\ HasAll("net", T(c)) = ContHas(x, c) /\ WantsAll("net", T(c)) = ContWants(x, c)
                      /\ NoClash("end", g[c]) <=> ContEndsFree(x, c)
                      /\ NoClash("net", g[c]) <=> ContNetsFree(x, c)
    BY ContPart
  <1>6. Serves(x) <=> \A c \in CC : \A i \in DOMAIN x.links[c] : LinkServes(x, c, i)
    BY DEF Serves
  <1> HIDE DEF f, g, o, O, S, T, NN, CC
  <1>7. /\ IsList(s) /\ Range(s) = SS
        /\ \A tag : NoClash(tag, s) <=>
             /\ \A n \in NN : NoClash(tag, f[n])
             /\ \A m, n \in NN : m < n => Clear(tag, S(m), S(n))
    <2>1. /\ IsList(s)
          /\ Range(s) = UNION {Range(f[i]) : i \in DOMAIN f}
          /\ \A tag : NoClash(tag, s) <=>
               /\ \A i \in DOMAIN f : NoClash(tag, f[i])
               /\ \A i, j \in DOMAIN f : i < j => Clear(tag, Range(f[i]), Range(f[j]))
      BY <1>2, <1>4, FamilyInOrder
    <2>2. \A n \in NN : Range(f[n]) = S(n)
      BY <1>4
    <2> HIDE DEF s
    <2> QED  BY <1>2, <2>1, <2>2
  <1>8. /\ IsList(t) /\ Range(t) = TT
        /\ \A tag : NoClash(tag, t) <=>
             /\ \A c \in CC : NoClash(tag, g[c])
             /\ \A c, d \in CC : c < d => Clear(tag, T(c), T(d))
    <2>1. /\ IsList(t)
          /\ Range(t) = UNION {Range(g[i]) : i \in DOMAIN g}
          /\ \A tag : NoClash(tag, t) <=>
               /\ \A i \in DOMAIN g : NoClash(tag, g[i])
               /\ \A i, j \in DOMAIN g : i < j => Clear(tag, Range(g[i]), Range(g[j]))
      BY <1>2, <1>5, FamilyInOrder
    <2>2. \A c \in CC : Range(g[c]) = T(c)
      BY <1>5
    <2> HIDE DEF t
    <2> QED  BY <1>2, <2>1, <2>2
  <1>9. Upped(s) /\ ServedBy({}, s)
    <2>1. \A n \in DOMAIN f : Upped(f[n]) /\ ServedBy({}, f[n])
      BY <1>2, <1>4
    <2> QED  BY <1>2, <2>1, ServedInOrder
  <1>10. Upped(t) /\ (Serves(x) => ServedBy({}, t))
    <2>1. \A c \in DOMAIN g : Upped(g[c])
      BY <1>2, <1>5
    <2>2. Serves(x) => \A c \in DOMAIN g : ServedBy({}, g[c])
      <3> SUFFICES ASSUME Serves(x), NEW c \in DOMAIN g PROVE ServedBy({}, g[c])
        OBVIOUS
      <3>1. c \in CC /\ \A i \in DOMAIN x.links[c] : LinkServes(x, c, i)
        BY <1>2, <1>6
      <3> QED  BY <1>5, <3>1
    <2>3. /\ (\A i \in DOMAIN g : Upped(g[i])) => Upped(t)
          /\ (\A i \in DOMAIN g : ServedBy({}, g[i])) => ServedBy({}, t)
      BY <1>2, ServedInOrder
    <2> HIDE DEF t
    <2> QED  BY <2>1, <2>2, <2>3
  <1> HIDE DEF s, t, SS, TT
  <1>11. IsList(o \o s) /\ Range(o \o s) = O \cup SS
    BY <1>3, <1>7, RangeOnto DEF Quiet
  <1>12. IsList((o \o s) \o t) /\ Range((o \o s) \o t) = O \cup SS \cup TT
    BY <1>8, <1>11, RangeOnto
  <1>13. Upped((o \o s) \o t)
    <2>1. Upped(o \o s)
      BY <1>3, <1>9, UppedOnto DEF Quiet
    <2> QED  BY <1>10, <2>1, UppedOnto
  <1>14. Serves(x) => ServedBy({}, (o \o s) \o t)
    <2>1. ServedBy({}, o \o s)
      BY <1>3, <1>9, ServedOnto DEF Quiet
    <2> QED  BY <1>10, <2>1, ServedOnto
  <1>15. \A tag \in Kinds : NoClash(tag, (o \o s) \o t) <=>
           /\ \A n \in NN : NoClash(tag, f[n])
           /\ \A m, n \in NN : m < n => Clear(tag, S(m), S(n))
           /\ \A c \in CC : NoClash(tag, g[c])
           /\ \A c, d \in CC : c < d => Clear(tag, T(c), T(d))
           /\ \A n \in NN, c \in CC : Clear(tag, S(n), T(c))
    <2> SUFFICES ASSUME NEW tag \in Kinds
                 PROVE  NoClash(tag, (o \o s) \o t) <=>
           /\ \A n \in NN : NoClash(tag, f[n])
           /\ \A m, n \in NN : m < n => Clear(tag, S(m), S(n))
           /\ \A c \in CC : NoClash(tag, g[c])
           /\ \A c, d \in CC : c < d => Clear(tag, T(c), T(d))
           /\ \A n \in NN, c \in CC : Clear(tag, S(n), T(c))
      OBVIOUS
    <2>1. NoClash(tag, o) /\ HasAll(tag, O) = {}
      BY <1>3 DEF Quiet
    <2>2. Clear(tag, O, SS)
      BY <2>1, ClearIs
    <2>3. NoClash(tag, o \o s) <=> NoClash(tag, s)
      BY <1>3, <1>7, <2>1, <2>2, FreeOnto DEF Quiet
    <2>4. NoClash(tag, (o \o s) \o t) <=> NoClash(tag, o \o s) /\ NoClash(tag, t) /\ Clear(tag, O \cup SS, TT)
      BY <1>8, <1>11, FreeOnto
    <2>5. Clear(tag, O, TT)
      BY <2>1, ClearIs
    <2>6. Clear(tag, O \cup SS, TT) <=> Clear(tag, SS, TT)
      BY <2>5 DEF Clear
    <2>7. Clear(tag, SS, TT) <=> \A n \in NN, c \in CC : Clear(tag, S(n), T(c))
      BY DEF Clear, SS, TT
    <2> QED  BY <1>7, <1>8, <2>3, <2>4, <2>6, <2>7
  <1>16. \A tag, A, B : Clear(tag, A, B) <=> HasAll(tag, A) \cap WantsAll(tag, B) = {}
    BY ClearIs
  <1>17. NoClash("end", (o \o s) \o t) <=> EndsPlan(x)
    <2>1. /\ \A m, n \in NN : Clear("end", S(m), S(n)) <=> NetEnds(x, m) \cap NetEnds(x, n) = {}
          /\ \A c, d \in CC : Clear("end", T(c), T(d)) <=> ContEnds(x, c) \cap ContEnds(x, d) = {}
          /\ \A n \in NN, c \in CC : Clear("end", S(n), T(c)) <=> NetEnds(x, n) \cap ContEnds(x, c) = {}
      BY <1>4, <1>5, <1>16
    <2>2. EndsPlan(x) <=>
            /\ \A n \in NN : NoClash("end", f[n])
            /\ \A m, n \in NN : m < n => Clear("end", S(m), S(n))
            /\ \A c \in CC : NoClash("end", g[c])
            /\ \A c, d \in CC : c < d => Clear("end", T(c), T(d))
            /\ \A n \in NN, c \in CC : Clear("end", S(n), T(c))
      <3>1. (\A n \in NN : NoClash("end", f[n])) <=> \A n \in Networks(x) : EndsFree(x, n)
        BY <1>4 DEF NN
      <3>2. (\A c \in CC : NoClash("end", g[c])) <=> \A c \in Containers(x) : ContEndsFree(x, c)
        BY <1>5 DEF CC
      <3> QED  BY <2>1, <3>1, <3>2 DEF EndsPlan, NN, CC
    <2>3. "end" \in Kinds
      BY DEF Kinds
    <2> QED  BY <1>15, <2>2, <2>3
  <1>18. NoClash("net", (o \o s) \o t) <=> NetsPlan(x)
    <2>1. /\ \A m, n \in NN : Clear("net", S(m), S(n)) <=> NetHas(x, m) \cap NetWants(x, n) = {}
          /\ \A c, d \in CC : Clear("net", T(c), T(d)) <=> ContHas(x, c) \cap ContWants(x, d) = {}
          /\ \A n \in NN, c \in CC : Clear("net", S(n), T(c)) <=> NetHas(x, n) \cap ContWants(x, c) = {}
      BY <1>4, <1>5, <1>16
    <2>2. NetsPlan(x) <=>
            /\ \A n \in NN : NoClash("net", f[n])
            /\ \A m, n \in NN : m < n => Clear("net", S(m), S(n))
            /\ \A c \in CC : NoClash("net", g[c])
            /\ \A c, d \in CC : c < d => Clear("net", T(c), T(d))
            /\ \A n \in NN, c \in CC : Clear("net", S(n), T(c))
      <3>1. (\A n \in NN : NoClash("net", f[n])) <=>
              \A n \in Networks(x) : Apart(DOMAIN x.nets[n].attach, LAMBDA c : x.nets[n].attach[c].ip)
        BY <1>4 DEF NN
      <3>2. (\A c \in CC : NoClash("net", g[c])) <=> \A c \in Containers(x) : ContNetsFree(x, c)
        BY <1>5 DEF CC
      <3> QED  BY <2>1, <3>1, <3>2 DEF NetsPlan, NN, CC
    <2>3. "net" \in Kinds
      BY DEF Kinds
    <2> QED  BY <1>15, <2>2, <2>3
  <1> QED  BY <1>1, <1>12, <1>13, <1>14, <1>17, <1>18

------------------------------------------------------------------------------
(* The requests of a plan by what they ask for *)

(* The requests by name. *)
AddGateway(x, n)  == Add(Router(n), x.nets[n].gatewayIf, NoEnd)
AddPair(x, n, c)  == Add(Router(n), RouterIf(c), <<Cont(c), x.nets[n].attach[c].interface>>)
AddEdge(x, n)     == Add(Host, Uplink(x, n).hostIf, <<Router(n), Uplink(x, n).routerIf>>)
AddLink(x, c, i)  == Add(Host, LinkHostIf(c, x.links[c][i]), <<Cont(c), x.links[c][i].name>>)
AddrGateway(x, n) == Addr(Router(n), x.nets[n].gatewayIf, Slash32(x.nets[n].gateway))
AddrPair(x, n, c) == Addr(Cont(c), x.nets[n].attach[c].interface, Slash32(x.nets[n].attach[c].ip))
AddrEdge(x, n)    == Addr(Host, Uplink(x, n).hostIf, Prefix(Uplink(x, n).link, AddrBits - 1))
AddrUplink(x, n)  == Addr(Router(n), Uplink(x, n).routerIf, Prefix(Uplink(x, n).link + 1, AddrBits - 1))
AddrLink(x, c, i) == Addr(Cont(c), x.links[c][i].name, x.links[c][i].address)
RouteIn(x, n, c)  == Route(Router(n), Slash32(x.nets[n].attach[c].ip), RouterIf(c), NoAddr, "link")
RouteOut(x, n, c) == Route(Cont(c), Slash32(x.nets[n].gateway), x.nets[n].attach[c].interface, NoAddr, "link")
RouteDef(x, n, c) == Route(Cont(c), Everything, x.nets[n].attach[c].interface, x.nets[n].gateway, "universe")
RouteUplink(x, n) == Route(Router(n), Everything, Uplink(x, n).routerIf, Uplink(x, n).link, "universe")
RouteLink(x, c, i) == Route(Cont(c), Everything, x.links[c][i].name, x.links[c][i].gateway, "universe")

(* The requests of one kind in a plan. *)
PlanAdds(x, r) ==
  \/ \E n \in Networks(x) : \/ r = AddGateway(x, n)
                            \/ \E c \in DOMAIN x.nets[n].attach : r = AddPair(x, n, c)
                            \/ n \in Uplinked(x) /\ r = AddEdge(x, n)
  \/ \E c \in Containers(x) : \E i \in DOMAIN x.links[c] : r = AddLink(x, c, i)
PlanAddrs(x, r) ==
  \/ \E n \in Networks(x) : \/ r = AddrGateway(x, n)
                            \/ \E c \in DOMAIN x.nets[n].attach : r = AddrPair(x, n, c)
                            \/ n \in Uplinked(x) /\ (r = AddrEdge(x, n) \/ r = AddrUplink(x, n))
  \/ \E c \in Containers(x) : \E i \in DOMAIN x.links[c] : r = AddrLink(x, c, i)
NetRoutes(x, n, r) ==
  \/ \E c \in DOMAIN x.nets[n].attach : \/ r = RouteIn(x, n, c) \/ r = RouteOut(x, n, c)
                                        \/ OwnsDefault(x, n, c) /\ r = RouteDef(x, n, c)
  \/ n \in Uplinked(x) /\ \/ r = RouteUplink(x, n)
                          \/ \E c \in DOMAIN x.nets[n].attach : r = EdgeRoute(x, n, c)
ContRoutes(x, c, r) ==
  \E i \in DOMAIN x.links[c] : \/ \E j \in DOMAIN x.links[c][i].routes : r = LinkRoute(x, c, i, j)
                               \/ LinkDef(x, c, i) /\ r = RouteLink(x, c, i)
PlanRoutes(x, r) == \/ \E n \in Networks(x) : NetRoutes(x, n, r)
                    \/ \E c \in Containers(x) : ContRoutes(x, c, r)
PlanMasters(x, r) == \E c \in Containers(x) : \E i \in DOMAIN x.links[c] :
                       x.links[c][i].bridge # <<>> /\ r = Master(LinkHostIf(c, x.links[c][i]), x.links[c][i].bridge)
PlanMacs(x, r)    == \E c \in Containers(x) : \E i \in DOMAIN x.links[c] :
                       x.links[c][i].mac # "" /\ r = Mac(Cont(c), x.links[c][i].name, x.links[c][i].mac)

(* The requests of Connect by kind. *)
ConnectOps(x, n, c, r) ==
  LET In == r \in ConnectSet(x, n, c)
  IN  /\ In /\ r.op = "add" <=> r = AddPair(x, n, c)
      /\ In /\ r.op = "addr" <=> r = AddrPair(x, n, c)
      /\ In /\ r.op = "route" <=> \/ r = RouteIn(x, n, c) \/ r = RouteOut(x, n, c)
                                  \/ OwnsDefault(x, n, c) /\ r = RouteDef(x, n, c)
      /\ In => r.op \in {"add", "addr", "up", "route"}

(* Each request of Connect is one of those, and of its kind. *)
LEMMA ConnectByOp ==
  ASSUME NEW x, NEW n, NEW c, NEW r
  PROVE  ConnectOps(x, n, c, r)
  <1> DEFINE b  == OwnsDefault(x, n, c)
             a1 == AddPair(x, n, c)
             a2 == Up(Router(n), RouterIf(c))
             a3 == RouteIn(x, n, c)
             a4 == AddrPair(x, n, c)
             a5 == Up(Cont(c), x.nets[n].attach[c].interface)
             a6 == RouteOut(x, n, c)
             a7 == RouteDef(x, n, c)
  <1>1. ConnectSet(x, n, c) = {a1, a2, a3, a4, a5, a6} \cup (IF b THEN {a7} ELSE {})
    BY DEF ConnectSet, AddPair, RouteIn, AddrPair, RouteOut, RouteDef
  <1>2. /\ a1.op = "add" /\ a2.op = "up" /\ a3.op = "route" /\ a4.op = "addr" /\ a5.op = "up" /\ a6.op = "route"
        /\ a7.op = "route"
    BY Requests, Fields DEF AddPair, RouteIn, AddrPair, RouteOut, RouteDef
  <1>3. b \in BOOLEAN
    BY DEF OwnsDefault
  <1> HIDE DEF a1, a2, a3, a4, a5, a6, a7, b
  <1>4. r \in ConnectSet(x, n, c) <=> \/ r = a1 \/ r = a2 \/ r = a3 \/ r = a4 \/ r = a5 \/ r = a6
                                      \/ b /\ r = a7
    BY <1>1, <1>3
  <1>5. /\ r \in ConnectSet(x, n, c) /\ r.op = "add" <=> r = a1
        /\ r \in ConnectSet(x, n, c) /\ r.op = "addr" <=> r = a4
        /\ r \in ConnectSet(x, n, c) /\ r.op = "route" <=> r = a3 \/ r = a6 \/ (b /\ r = a7)
        /\ r \in ConnectSet(x, n, c) => r.op \in {"add", "addr", "up", "route"}
    BY <1>2, <1>4
  <1> QED  BY <1>5 DEF ConnectOps, a1, a3, a4, a6, a7, b

(* The requests of HostEdgeConnect by kind. *)
EdgeOps(x, n, r) ==
  LET In == r \in EdgeSet(x, n)
  IN  /\ In /\ r.op = "add" <=> r = AddEdge(x, n)
      /\ In /\ r.op = "addr" <=> r = AddrEdge(x, n) \/ r = AddrUplink(x, n)
      /\ In /\ r.op = "route" <=> \/ r = RouteUplink(x, n)
                                  \/ \E c \in DOMAIN x.nets[n].attach : r = EdgeRoute(x, n, c)
      /\ In => r.op \in {"add", "addr", "up", "route"}

(* Each request of HostEdgeConnect is one of those, and of its kind. *)
LEMMA EdgeByOp ==
  ASSUME NEW x, NEW n, NEW r
  PROVE  EdgeOps(x, n, r)
  <1> DEFINE a1 == AddEdge(x, n)
             a2 == AddrEdge(x, n)
             a3 == Up(Host, Uplink(x, n).hostIf)
             a4 == AddrUplink(x, n)
             a5 == Up(Router(n), Uplink(x, n).routerIf)
             a6 == RouteUplink(x, n)
             R(c) == EdgeRoute(x, n, c)
             C  == DOMAIN x.nets[n].attach
  <1>1. EdgeSet(x, n) = {a1, a2, a3, a4, a5, a6} \cup {R(c) : c \in C}
    BY DEF EdgeSet, AddEdge, AddrEdge, AddrUplink, RouteUplink
  <1>2. /\ a1.op = "add" /\ a2.op = "addr" /\ a3.op = "up" /\ a4.op = "addr" /\ a5.op = "up" /\ a6.op = "route"
        /\ \A c : R(c).op = "route"
    BY Requests, Fields DEF AddEdge, AddrEdge, AddrUplink, RouteUplink, EdgeRoute
  <1> HIDE DEF a1, a2, a3, a4, a5, a6, R, C
  <1>3. r \in EdgeSet(x, n) <=> \/ r = a1 \/ r = a2 \/ r = a3 \/ r = a4 \/ r = a5 \/ r = a6
                                \/ \E c \in C : r = R(c)
    BY <1>1
  <1>4. /\ r \in EdgeSet(x, n) /\ r.op = "add" <=> r = a1
        /\ r \in EdgeSet(x, n) /\ r.op = "addr" <=> r = a2 \/ r = a4
        /\ r \in EdgeSet(x, n) /\ r.op = "route" <=> r = a6 \/ \E c \in C : r = R(c)
        /\ r \in EdgeSet(x, n) => r.op \in {"add", "addr", "up", "route"}
    BY <1>2, <1>3
  <1> QED  BY <1>4 DEF EdgeOps, a1, a2, a4, a6, R, C

(* The requests of a network by kind. *)
NetOps(x, n, r) ==
  LET In == r \in NetSet(x, n)
  IN  /\ In /\ r.op = "add" <=> \/ r = AddGateway(x, n)
                                \/ \E c \in DOMAIN x.nets[n].attach : r = AddPair(x, n, c)
                                \/ n \in Uplinked(x) /\ r = AddEdge(x, n)
      /\ In /\ r.op = "addr" <=> \/ r = AddrGateway(x, n)
                                 \/ \E c \in DOMAIN x.nets[n].attach : r = AddrPair(x, n, c)
                                 \/ n \in Uplinked(x) /\ (r = AddrEdge(x, n) \/ r = AddrUplink(x, n))
      /\ In /\ r.op = "route" <=> NetRoutes(x, n, r)
      /\ In => r.op \in {"add", "addr", "up", "route"}

(* Each request of a network is one of those, and of its kind. *)
LEMMA NetByOp ==
  ASSUME NEW x, NEW n, NEW r
  PROVE  NetOps(x, n, r)
  <1> DEFINE a1 == AddGateway(x, n)
             a2 == AddrGateway(x, n)
             a3 == Up(Router(n), x.nets[n].gatewayIf)
             C  == DOMAIN x.nets[n].attach
             b  == n \in Uplinked(x)
             T  == UNION {ConnectSet(x, n, c) : c \in C}
             Z  == IF b THEN EdgeSet(x, n) ELSE {}
  <1>1. NetSet(x, n) = {a1, a2, a3} \cup T \cup Z
    BY DEF NetSet, AddGateway, AddrGateway
  <1>2. a1.op = "add" /\ a2.op = "addr" /\ a3.op = "up"
    BY Requests, Fields DEF AddGateway, AddrGateway
  <1>3. r \in NetSet(x, n) <=> \/ r = a1 \/ r = a2 \/ r = a3
                               \/ \E c \in C : r \in ConnectSet(x, n, c)
                               \/ b /\ r \in EdgeSet(x, n)
    <2> HIDE DEF a1, a2, a3, b
    <2>1. r \in T <=> \E c \in C : r \in ConnectSet(x, n, c)
      OBVIOUS
    <2> HIDE DEF T
    <2> QED  BY <1>1, <2>1
  <1> HIDE DEF a1, a2, a3, b, C
  <1>c. \A c : ConnectOps(x, n, c, r)
    BY ConnectByOp
  <1>e. EdgeOps(x, n, r)
    BY EdgeByOp
  <1>4. /\ r \in NetSet(x, n) /\ r.op = "add" <=>
             r = a1 \/ (\E c \in C : r = AddPair(x, n, c)) \/ (b /\ r = AddEdge(x, n))
        /\ r \in NetSet(x, n) /\ r.op = "addr" <=>
             r = a2 \/ (\E c \in C : r = AddrPair(x, n, c)) \/ (b /\ (r = AddrEdge(x, n) \/ r = AddrUplink(x, n)))
    BY <1>2, <1>3, <1>c, <1>e DEF ConnectOps, EdgeOps
  <1>5. r \in NetSet(x, n) /\ r.op = "route" <=> NetRoutes(x, n, r)
    <2>1. r \in NetSet(x, n) /\ r.op = "route" <=>
            \/ \E c \in C : r \in ConnectSet(x, n, c) /\ r.op = "route"
            \/ b /\ r \in EdgeSet(x, n) /\ r.op = "route"
      BY <1>2, <1>3
    <2>2. \A c : r \in ConnectSet(x, n, c) /\ r.op = "route" <=>
                   \/ r = RouteIn(x, n, c) \/ r = RouteOut(x, n, c)
                   \/ OwnsDefault(x, n, c) /\ r = RouteDef(x, n, c)
      BY <1>c DEF ConnectOps
    <2>3. r \in EdgeSet(x, n) /\ r.op = "route" <=>
            \/ r = RouteUplink(x, n)
            \/ \E c \in DOMAIN x.nets[n].attach : r = EdgeRoute(x, n, c)
      BY <1>e DEF EdgeOps
    <2> QED  BY <2>1, <2>2, <2>3 DEF NetRoutes, b, C
  <1>6. r \in NetSet(x, n) => r.op \in {"add", "addr", "up", "route"}
    BY <1>2, <1>3, <1>c, <1>e DEF ConnectOps, EdgeOps
  <1> QED  BY <1>4, <1>5, <1>6 DEF NetOps, a1, a2, b, C

(* The requests of a link by kind. *)
LinkOps(x, c, i, r) ==
  LET In == r \in LinkSet(x, c, i)
      l  == x.links[c][i]
  IN  /\ In /\ r.op = "add" <=> r = AddLink(x, c, i)
      /\ In /\ r.op = "addr" <=> r = AddrLink(x, c, i)
      /\ In /\ r.op = "route" <=> \/ \E j \in DOMAIN l.routes : r = LinkRoute(x, c, i, j)
                                  \/ LinkDef(x, c, i) /\ r = RouteLink(x, c, i)
      /\ In /\ r.op = "master" <=> l.bridge # <<>> /\ r = Master(LinkHostIf(c, l), l.bridge)
      /\ In /\ r.op = "mac" <=> l.mac # "" /\ r = Mac(Cont(c), l.name, l.mac)
      /\ In => r.op \in {"add", "addr", "up", "route", "master", "mac"}

(* Each request of a link is one of those, and of its kind. *)
LEMMA LinkByOp ==
  ASSUME NEW x, NEW c, NEW i, NEW r
  PROVE  LinkOps(x, c, i, r)
  <1> DEFINE l  == x.links[c][i]
             a1 == AddLink(x, c, i)
             a2 == Master(LinkHostIf(c, l), l.bridge)
             a3 == Up(Host, LinkHostIf(c, l))
             a4 == Mac(Cont(c), l.name, l.mac)
             a5 == AddrLink(x, c, i)
             a6 == Up(Cont(c), l.name)
             a7 == RouteLink(x, c, i)
             b2 == l.bridge # <<>>
             b4 == l.mac # ""
             b  == LinkDef(x, c, i)
             R(j) == LinkRoute(x, c, i, j)
             J  == DOMAIN l.routes
  <1>1. LinkSet(x, c, i) = {a1, a3, a5, a6} \cup (IF b2 THEN {a2} ELSE {}) \cup (IF b4 THEN {a4} ELSE {})
                           \cup {R(j) : j \in J} \cup (IF b THEN {a7} ELSE {})
    BY DEF LinkSet, AddLink, AddrLink, RouteLink
  <1>2. /\ a1.op = "add" /\ a2.op = "master" /\ a3.op = "up" /\ a4.op = "mac" /\ a5.op = "addr" /\ a6.op = "up"
        /\ a7.op = "route" /\ \A j : R(j).op = "route"
    BY Requests, Fields DEF AddLink, AddrLink, RouteLink, LinkRoute
  <1>3. b \in BOOLEAN /\ b2 \in BOOLEAN /\ b4 \in BOOLEAN
    BY DEF LinkDef
  <1> HIDE DEF a1, a2, a3, a4, a5, a6, a7, b, b2, b4, R, J
  <1>4. r \in LinkSet(x, c, i) <=> \/ r = a1 \/ r = a3 \/ r = a5 \/ r = a6
                                   \/ (b2 /\ r = a2) \/ (b4 /\ r = a4) \/ (b /\ r = a7)
                                   \/ \E j \in J : r = R(j)
    <2> DEFINE B2 == IF b2 THEN {a2} ELSE {}
               B4 == IF b4 THEN {a4} ELSE {}
               B  == IF b THEN {a7} ELSE {}
               T  == {R(j) : j \in J}
    <2>1. (r \in B2 <=> b2 /\ r = a2) /\ (r \in B4 <=> b4 /\ r = a4) /\ (r \in B <=> b /\ r = a7)
      BY <1>3
    <2>2. r \in T <=> \E j \in J : r = R(j)
      OBVIOUS
    <2>3. LinkSet(x, c, i) = {a1, a3, a5, a6} \cup B2 \cup B4 \cup T \cup B
      BY <1>1
    <2> HIDE DEF B2, B4, B, T
    <2> QED  BY <2>1, <2>2, <2>3
  <1>5. /\ r \in LinkSet(x, c, i) /\ r.op = "add" <=> r = a1
        /\ r \in LinkSet(x, c, i) /\ r.op = "addr" <=> r = a5
        /\ r \in LinkSet(x, c, i) /\ r.op = "route" <=> (\E j \in J : r = R(j)) \/ (b /\ r = a7)
        /\ r \in LinkSet(x, c, i) /\ r.op = "master" <=> b2 /\ r = a2
        /\ r \in LinkSet(x, c, i) /\ r.op = "mac" <=> b4 /\ r = a4
        /\ r \in LinkSet(x, c, i) => r.op \in {"add", "addr", "up", "route", "master", "mac"}
    BY <1>2, <1>4
  <1> QED  BY <1>5 DEF LinkOps, a1, a2, a4, a5, a7, b, b2, b4, R, J

(* The requests of a plan by kind. *)
PlanOps(x, r) ==
  LET In == r \in PlanSet(x)
  IN  /\ In /\ r.op = "add" <=> PlanAdds(x, r)
      /\ In /\ r.op = "addr" <=> PlanAddrs(x, r)
      /\ In /\ r.op = "route" <=> PlanRoutes(x, r)
      /\ In /\ r.op = "master" <=> PlanMasters(x, r)
      /\ In /\ r.op = "mac" <=> PlanMacs(x, r)
      /\ In /\ r.op = "del" <=> \E n \in Uplinked(x) : r = Del(Uplink(x, n).hostIf)

(* Each request of a plan is one of those, and of its kind. *)
LEMMA PlanByOp ==
  ASSUME NEW x, NEW r
  PROVE  PlanOps(x, r)
  <1>1. r \in PlanSet(x) <=> \/ r \in DelSet(x) \/ r \in LoSet(x)
                             \/ \E n \in Networks(x) : r \in NetSet(x, n)
                             \/ \E c \in Containers(x) : \E i \in DOMAIN x.links[c] : r \in LinkSet(x, c, i)
    <2>1. r \in NetsSet(x) <=> \E n \in Networks(x) : r \in NetSet(x, n)
      BY DEF NetsSet
    <2>2. r \in ContsSet(x) <=> \E c \in Containers(x) : \E i \in DOMAIN x.links[c] : r \in LinkSet(x, c, i)
      BY DEF ContsSet, ContSet
    <2> QED  BY <2>1, <2>2 DEF PlanSet
  <1>2. (r \in LoSet(x) => r.op = "up") /\ (r \in DelSet(x) => r.op = "del")
    BY Fields DEF LoSet, DelSet
  <1>n. \A n : NetOps(x, n, r)
    BY NetByOp
  <1>l. \A c, i : LinkOps(x, c, i, r)
    BY LinkByOp
  <1>3. /\ \A n : r \in NetSet(x, n) => r.op \in {"add", "addr", "up", "route"}
        /\ \A c, i : r \in LinkSet(x, c, i) => r.op \in {"add", "addr", "up", "route", "master", "mac"}
    BY <1>n, <1>l DEF NetOps, LinkOps
  <1>4. r \in PlanSet(x) /\ r.op = "add" <=> PlanAdds(x, r)
    <2>1. r \in PlanSet(x) /\ r.op = "add" <=>
            \/ \E n \in Networks(x) : r \in NetSet(x, n) /\ r.op = "add"
            \/ \E c \in Containers(x) : \E i \in DOMAIN x.links[c] : r \in LinkSet(x, c, i) /\ r.op = "add"
      BY <1>1, <1>2
    <2> QED  BY <2>1, <1>n, <1>l DEF PlanAdds, NetOps, LinkOps
  <1>5. r \in PlanSet(x) /\ r.op = "addr" <=> PlanAddrs(x, r)
    <2>1. r \in PlanSet(x) /\ r.op = "addr" <=>
            \/ \E n \in Networks(x) : r \in NetSet(x, n) /\ r.op = "addr"
            \/ \E c \in Containers(x) : \E i \in DOMAIN x.links[c] : r \in LinkSet(x, c, i) /\ r.op = "addr"
      BY <1>1, <1>2
    <2> QED  BY <2>1, <1>n, <1>l DEF PlanAddrs, NetOps, LinkOps
  <1>6. r \in PlanSet(x) /\ r.op = "route" <=> PlanRoutes(x, r)
    <2>1. r \in PlanSet(x) /\ r.op = "route" <=>
            \/ \E n \in Networks(x) : r \in NetSet(x, n) /\ r.op = "route"
            \/ \E c \in Containers(x) : \E i \in DOMAIN x.links[c] : r \in LinkSet(x, c, i) /\ r.op = "route"
      BY <1>1, <1>2
    <2>2. \A c, i : r \in LinkSet(x, c, i) /\ r.op = "route" <=>
                      \/ \E j \in DOMAIN x.links[c][i].routes : r = LinkRoute(x, c, i, j)
                      \/ LinkDef(x, c, i) /\ r = RouteLink(x, c, i)
      BY <1>l DEF LinkOps
    <2>3. \A n : r \in NetSet(x, n) /\ r.op = "route" <=> NetRoutes(x, n, r)
      BY <1>n DEF NetOps
    <2> QED  BY <2>1, <2>2, <2>3 DEF PlanRoutes, ContRoutes
  <1>7. r \in PlanSet(x) /\ r.op = "master" <=> PlanMasters(x, r)
    <2>1. r \in PlanSet(x) /\ r.op = "master" <=>
            \E c \in Containers(x) : \E i \in DOMAIN x.links[c] : r \in LinkSet(x, c, i) /\ r.op = "master"
      BY <1>1, <1>2, <1>3
    <2> QED  BY <2>1, <1>l DEF PlanMasters, LinkOps
  <1>8. r \in PlanSet(x) /\ r.op = "mac" <=> PlanMacs(x, r)
    <2>1. r \in PlanSet(x) /\ r.op = "mac" <=>
            \E c \in Containers(x) : \E i \in DOMAIN x.links[c] : r \in LinkSet(x, c, i) /\ r.op = "mac"
      BY <1>1, <1>2, <1>3
    <2> QED  BY <2>1, <1>l DEF PlanMacs, LinkOps
  <1>9. r \in PlanSet(x) /\ r.op = "del" <=> \E n \in Uplinked(x) : r = Del(Uplink(x, n).hostIf)
    <2>1. r \in PlanSet(x) /\ r.op = "del" <=> r \in DelSet(x)
      BY <1>1, <1>2, <1>3
    <2> QED  BY <2>1 DEF DelSet
  <1> QED  BY <1>4, <1>5, <1>6, <1>7, <1>8, <1>9 DEF PlanOps

(* Every plan has the shape that the invariant needs. *)
LEMMA PlanShape ==
  ASSUME NEW x \in Configs, Accepted(x)
  PROVE  Shape(x, ApplyPlan(x))
  <1> DEFINE P == ApplyPlan(x)
  <1>1. IsList(P) /\ Range(P) = PlanSet(x) /\ Upped(P)
    BY PlanPart
  <1>2. Sound(Asked(x), P)
    BY PlanSound
  <1> HIDE DEF P
  <1>3. \A i \in DOMAIN P : P[i] \in PlanSet(x) /\ PlanOps(x, P[i])
    BY <1>1, PlanByOp DEF Range
  <1>4. ASSUME NEW i \in DOMAIN P, P[i].op = "del"
        PROVE  P[i].ns = Host /\ P[i].dev \in HostIfs(x) /\ \A j \in DOMAIN P : j < i => P[j].op = "del"
    <2>1. PICK n \in Uplinked(x) : P[i] = Del(Uplink(x, n).hostIf)
      BY <1>3, <1>4 DEF PlanOps
    <2>2. P[i].ns = Host /\ P[i].dev \in HostIfs(x)
      BY <2>1, Fields DEF HostIfs
    <2>3. ~Fine(Asked(x), P[i])
      BY <1>4 DEF Fine
    <2> QED  BY <1>2, <2>2, <2>3 DEF Sound
  <1>5. ASSUME NEW h \in HostIfs(x) PROVE \E i \in DOMAIN P : P[i].op = "del" /\ P[i].dev = h
    <2>1. PICK n \in Uplinked(x) : h = Uplink(x, n).hostIf
      BY DEF HostIfs
    <2>2. PlanOps(x, Del(h))
      BY PlanByOp
    <2>3. Del(h) \in Range(P)
      BY <1>1, <2>1, <2>2 DEF PlanOps
    <2>4. PICK i \in DOMAIN P : P[i] = Del(h)
      BY <2>3 DEF Range
    <2> QED  BY <2>4, Fields
  <1>6. ASSUME NEW i \in DOMAIN P, P[i].op = "add"
        PROVE  /\ P[i].peer = <<P[i].peer[1], P[i].peer[2]>>
               /\ P[i].peer # NoEnd => P[i].peer[1] # Host
               /\ P[i].ns = Host => P[i].peer # NoEnd
    <2> DEFINE r == P[i]
    <2>1. PlanAdds(x, r)
      BY <1>3, <1>6 DEF PlanOps
    <2> HIDE DEF r
    <2>2. CASE \E n \in Networks(x) : r = AddGateway(x, n)
      <3>1. PICK n \in Networks(x) : r = AddGateway(x, n)
        BY <2>2
      <3>2. r.ns = Router(n) /\ r.peer = NoEnd /\ NoEnd = <<Host, <<>>>>
        BY <3>1, Requests DEF AddGateway, NoEnd
      <3> QED  BY <3>2, Spaces DEF r
    <2>3. CASE \E d, p, e : p # Host /\ <<p, e>> # NoEnd /\ r.peer = <<p, e>>
      BY <2>3 DEF r
    <2>4. \A n, c : AddPair(x, n, c).peer = <<Cont(c), x.nets[n].attach[c].interface>> /\ Cont(c) # Host
                    /\ <<Cont(c), x.nets[n].attach[c].interface>> # NoEnd
      BY Requests, Spaces DEF AddPair
    <2>5. \A n : AddEdge(x, n).peer = <<Router(n), Uplink(x, n).routerIf>> /\ Router(n) # Host
                 /\ <<Router(n), Uplink(x, n).routerIf>> # NoEnd
      BY Requests, Spaces DEF AddEdge
    <2>6. \A c, k : AddLink(x, c, k).peer = <<Cont(c), x.links[c][k].name>> /\ Cont(c) # Host
                    /\ <<Cont(c), x.links[c][k].name>> # NoEnd
      BY Requests, Spaces DEF AddLink
    <2>7. ASSUME NEW n, NEW c, r = AddPair(x, n, c) PROVE \E d, p, e : p # Host /\ <<p, e>> # NoEnd /\ r.peer = <<p, e>>
      BY <2>4, <2>7
    <2>8. ASSUME NEW n, r = AddEdge(x, n) PROVE \E d, p, e : p # Host /\ <<p, e>> # NoEnd /\ r.peer = <<p, e>>
      BY <2>5, <2>8
    <2>9. ASSUME NEW c, NEW k, r = AddLink(x, c, k) PROVE \E d, p, e : p # Host /\ <<p, e>> # NoEnd /\ r.peer = <<p, e>>
      BY <2>6, <2>9
    <2> QED  BY <2>1, <2>2, <2>3, <2>7, <2>8, <2>9 DEF PlanAdds
  <1>7. ASSUME NEW i \in DOMAIN P, P[i].op = "master" PROVE P[i].bridge \in Bridges
    <2>0. PlanMasters(x, P[i])
      BY <1>3, <1>7 DEF PlanOps
    <2>1. PICK c \in Containers(x) : \E k \in DOMAIN x.links[c] :
            x.links[c][k].bridge # <<>> /\ P[i] = Master(LinkHostIf(c, x.links[c][k]), x.links[c][k].bridge)
      BY <2>0 DEF PlanMasters
    <2>3. PICK k \in DOMAIN x.links[c] :
            x.links[c][k].bridge # <<>> /\ P[i] = Master(LinkHostIf(c, x.links[c][k]), x.links[c][k].bridge)
      BY <2>1
    <2>2. P[i].bridge = x.links[c][k].bridge
      BY <2>3, Fields
    <2> QED  BY <2>3, <2>2 DEF Accepted, Preflight
  <1>8. \A i \in DOMAIN P : P[i].op = "addr" =>
          \E m \in DOMAIN P : /\ m > i /\ P[m].op = "up" /\ End(P[m]) = End(P[i])
                              /\ \A j \in DOMAIN P : i <= j /\ j <= m => P[j].op # "route"
    BY <1>1 DEF Upped
  <1> QED  BY <1>1, <1>4, <1>5, <1>6, <1>7, <1>8 DEF Shape, P

(* All that the kernel asks, request after request, in one sentence. *)
LEMMA AllOkIs ==
  ASSUME NEW x, NEW s, IsList(s)
  PROVE  (\A j \in DOMAIN s : Ok(x, s, j)) <=>
           /\ \A r \in Range(s) : Alone(x, r)
           /\ NoClash("end", s) /\ NoClash("net", s) /\ ServedBy({}, s)
  <1>1. DOMAIN s = 1..Len(s) /\ Len(s) \in Nat
    BY DEF IsList
  <1>2. ASSUME NEW j \in DOMAIN s PROVE \A i : i \in 1..(j - 1) <=> i \in DOMAIN s /\ i < j
    BY <1>1
  <1>3. \A j \in DOMAIN s : Ok(x, s, j) <=>
          /\ Alone(x, s[j])
          /\ \A tag \in Kinds, i \in DOMAIN s : i < j => Has(tag, s[i]) \cap Wants(tag, s[j]) = {}
          /\ Hopping(s[j]) => \E i \in DOMAIN s : i < j /\ Serve(s[i], s[j])
    BY <1>2 DEF Ok, Hopping
  <1>4. (\A r \in Range(s) : Alone(x, r)) <=> \A j \in DOMAIN s : Alone(x, s[j])
    BY DEF Range
  <1>5. NoClash("end", s) /\ NoClash("net", s) <=>
          \A j \in DOMAIN s : \A tag \in Kinds, i \in DOMAIN s : i < j => Has(tag, s[i]) \cap Wants(tag, s[j]) = {}
    BY DEF NoClash, Kinds
  <1>6. ServedBy({}, s) <=> \A j \in DOMAIN s : Hopping(s[j]) => \E i \in DOMAIN s : i < j /\ Serve(s[i], s[j])
    BY DEF ServedBy
  <1> QED  BY <1>3, <1>4, <1>5, <1>6

(* The interfaces of a container have names of their own. *)
LEMMA OwnNames ==
  ASSUME NEW x \in Configs, Accepted(x), NEW c \in Containers(x)
  PROVE  /\ \A i, k \in DOMAIN x.links[c] : i # k => x.links[c][i].name # x.links[c][k].name
         /\ \A i \in DOMAIN x.links[c], n \in NetsOf(x, c) : x.links[c][i].name # x.nets[n].attach[c].interface
         /\ \A m, n \in NetsOf(x, c) : m # n => x.nets[m].attach[c].interface # x.nets[n].attach[c].interface
  <1>1. LinksOf(x, c) = x.links[c]
    BY DEF LinksOf
  <1>2. \A p, q \in Ifaces(x, c) : p # q => IfaceName(x, c, p) # IfaceName(x, c, q)
    BY DEF Accepted, Validate, CrossCutting
  <1>3. /\ \A i \in DOMAIN x.links[c] : <<"link", i>> \in Ifaces(x, c) /\ IfaceName(x, c, <<"link", i>>) = x.links[c][i].name
        /\ \A n \in NetsOf(x, c) : <<"net", n>> \in Ifaces(x, c) /\ IfaceName(x, c, <<"net", n>>) = x.nets[n].attach[c].interface
    BY <1>1 DEF Ifaces, IfaceName
  <1>4. \A i, k, n, m : /\ <<"link", i>> # <<"net", n>>
                        /\ i # k => <<"link", i>> # <<"link", k>>
                        /\ m # n => <<"net", m>> # <<"net", n>>
    OBVIOUS
  <1> QED  BY <1>2, <1>3, <1>4

(* An attachment is to a declared container, and it is one of its networks. *)
LEMMA Attached ==
  ASSUME NEW x \in Configs, Accepted(x)
  PROVE  \A n \in Networks(x) : \A c \in DOMAIN x.nets[n].attach :
           c \in Containers(x) /\ n \in NetsOf(x, c) /\ c \in Nat /\ n \in Nat
  <1>1. \A n \in Networks(x) : DOMAIN x.nets[n].attach \subseteq Containers(x)
    BY DEF Accepted, Validate, CrossCutting, Known
  <1>2. Containers(x) \subseteq Nat /\ Networks(x) \subseteq Nat
    BY WiringAssumption DEF Ids
  <1> QED  BY <1>1, <1>2 DEF NetsOf

(* A hop of a link's is on the link by the link's own address, or not at all. *)
LEMMA ServesIs ==
  ASSUME NEW x \in Configs, Accepted(x), ServedBy({}, ApplyPlan(x))
  PROVE  Serves(x)
  <1> SUFFICES ASSUME NEW c \in Containers(x), NEW i \in DOMAIN x.links[c], LinkDef(x, c, i)
               PROVE  Covers(x.links[c][i].address, x.links[c][i].gateway) /\ x.links[c][i].address.bits < AddrBits
    BY DEF Serves, LinkServes
  <1> DEFINE P == ApplyPlan(x)
             r == RouteLink(x, c, i)
             l == x.links[c][i]
  <1>1. IsList(P) /\ Range(P) = PlanSet(x)
    BY PlanPart
  <1>2. r.op = "route" /\ r.ns = Cont(c) /\ r.dev = l.name /\ r.via = l.gateway
    BY Fields DEF RouteLink
  <1>3. r \in PlanSet(x)
    <2>1. PlanOps(x, r)
      BY PlanByOp
    <2>2. PlanRoutes(x, r)
      BY DEF PlanRoutes, ContRoutes
    <2> QED  BY <2>1, <2>2 DEF PlanOps
  <1>4. Hopping(r) /\ l.gateway \in Int /\ l.address \in Subnets
    <2>1. l.gateway # NoAddr
      BY DEF LinkDef
    <2>2. l.gateway \in Addresses \cup {NoAddr} /\ l.address \in Subnets
      BY LinkDecoded
    <2> QED  BY <1>2, <2>1, <2>2, AddressesAre DEF Hopping
  <1> HIDE DEF P
  <1>5. PICK q \in PlanSet(x) : Serve(q, r)
    <2> HIDE DEF r
    <2>1. PICK j \in DOMAIN P : P[j] = r
      BY <1>1, <1>3 DEF Range
    <2>2. PICK k \in DOMAIN P : Serve(P[k], r)
      BY <1>4, <2>1 DEF ServedBy, P
    <2> QED  BY <1>1, <2>2 DEF Range
  <1>6. q.ns = Cont(c) /\ q.dev = l.name
    BY <1>2, <1>5 DEF Serve
  <1>7. PlanOps(x, q)
    BY PlanByOp
  <1>8. ~(q.op = "route" /\ q.scope = "link")
    <2> SUFFICES ASSUME q.op = "route", q.scope = "link" PROVE FALSE
      OBVIOUS
    <2>1. PlanRoutes(x, q)
      BY <1>7 DEF PlanOps
    <2>2. ASSUME NEW n \in Networks(x), NetRoutes(x, n, q) PROVE FALSE
      <3>1. \A d \in DOMAIN x.nets[n].attach : q # RouteIn(x, n, d)
        <4>1. \A d : RouteIn(x, n, d).ns = Router(n)
          BY Fields DEF RouteIn
        <4> QED  BY <1>6, <4>1, Spaces
      <3>2. \A d \in DOMAIN x.nets[n].attach : q # RouteOut(x, n, d)
        <4> SUFFICES ASSUME NEW d \in DOMAIN x.nets[n].attach, q = RouteOut(x, n, d) PROVE FALSE
          OBVIOUS
        <4>1. q.ns = Cont(d) /\ q.dev = x.nets[n].attach[d].interface
          BY Fields DEF RouteOut
        <4>2. d = c /\ n \in NetsOf(x, c)
          BY <1>6, <4>1, Spaces, Attached
        <4> QED  BY <1>6, <4>1, <4>2, OwnNames
      <3>3. \A d : RouteDef(x, n, d).scope = "universe" /\ EdgeRoute(x, n, d).scope = "universe"
                   /\ RouteUplink(x, n).scope = "universe"
        BY Fields DEF RouteDef, EdgeRoute, RouteUplink
      <3> QED  BY <2>2, <3>1, <3>2, <3>3 DEF NetRoutes
    <2>3. ASSUME NEW d \in Containers(x), ContRoutes(x, d, q) PROVE FALSE
      <3>1. \A k, j : LinkRoute(x, d, k, j).scope = "universe" /\ RouteLink(x, d, k).scope = "universe"
        BY Fields DEF LinkRoute, RouteLink
      <3> QED  BY <2>3, <3>1 DEF ContRoutes
    <2> QED  BY <2>1, <2>2, <2>3 DEF PlanRoutes
  <1>9. q.op = "addr" /\ q.prefix.bits < AddrBits /\ Covers(Masked(q.prefix), l.gateway)
    BY <1>2, <1>5, <1>8 DEF Serve
  <1>10. PlanAddrs(x, q)
    BY <1>7, <1>9 DEF PlanOps
  <1>11. q = AddrLink(x, c, i)
    <2>1. ASSUME NEW n \in Networks(x), q = AddrGateway(x, n) \/ q = AddrEdge(x, n) \/ q = AddrUplink(x, n) PROVE FALSE
      <3>1. AddrGateway(x, n).ns = Router(n) /\ AddrEdge(x, n).ns = Host /\ AddrUplink(x, n).ns = Router(n)
        BY Fields DEF AddrGateway, AddrEdge, AddrUplink
      <3> QED  BY <1>6, <2>1, <3>1, Spaces
    <2>2. ASSUME NEW n \in Networks(x), NEW d \in DOMAIN x.nets[n].attach, q = AddrPair(x, n, d) PROVE FALSE
      <3>1. q.prefix = Slash32(x.nets[n].attach[d].ip)
        BY <2>2, Fields DEF AddrPair
      <3> QED  BY <1>9, <3>1, AddressesAre
    <2>3. ASSUME NEW d \in Containers(x), NEW k \in DOMAIN x.links[d], q = AddrLink(x, d, k) PROVE d = c /\ k = i
      <3>1. q.ns = Cont(d) /\ q.dev = x.links[d][k].name
        BY <2>3, Fields DEF AddrLink
      <3>2. d = c
        BY <1>6, <3>1, Spaces
      <3> QED  BY <1>6, <3>1, <3>2, OwnNames
    <2> QED  BY <1>10, <2>1, <2>2, <2>3 DEF PlanAddrs
  <1>12. q.prefix = l.address
    BY <1>11, Fields DEF AddrLink
  <1> QED  BY <1>4, <1>9, <1>12, MaskCovers

------------------------------------------------------------------------------
(* The names *)

HName(x, c, i) == LinkHostIf(c, x.links[c][i])

(* What NamesFit says, link after link and network after network. *)
LinkNames(x, c, i) ==
  /\ \A d \in Containers(x) : \A k \in DOMAIN x.links[d] : <<c, i>> # <<d, k>> => HName(x, c, i) # HName(x, d, k)
  /\ \A n \in Uplinked(x) : Uplink(x, n).hostIf # HName(x, c, i)
  /\ HName(x, c, i) \notin Bridges \ HostIfs(x)
  /\ x.links[c][i].bridge \notin HostIfs(x)
  /\ x.links[c][i].name # Lo /\ Clean(x.links[c][i].name) /\ Clean(HName(x, c, i))
NetNames(x, n) ==
  LET w == x.nets[n]
  IN  /\ w.gatewayIf # Lo /\ Clean(w.gatewayIf) /\ EndsFree(x, n)
      /\ \A c \in DOMAIN w.attach : /\ Clean(RouterIf(c))
                                    /\ w.attach[c].interface # Lo /\ Clean(w.attach[c].interface)
      /\ n \in Uplinked(x) => /\ Uplink(x, n).routerIf # Lo /\ Clean(Uplink(x, n).routerIf)
                              /\ Clean(Uplink(x, n).hostIf) /\ Uplink(x, n).hostIf # Lo
NamesAsked(x) ==
  /\ \A m, n \in Uplinked(x) : m # n => Uplink(x, m).hostIf # Uplink(x, n).hostIf
  /\ \A c \in Containers(x) : \A i \in DOMAIN x.links[c] : LinkNames(x, c, i)
  /\ \A n \in Networks(x) : NetNames(x, n)

(* A network's uplink, or none. *)
LEMMA OneUplink ==
  ASSUME NEW x \in Configs, NEW n \in Networks(x)
  PROVE  x.nets[n].uplink = IF n \in Uplinked(x) THEN {Uplink(x, n)} ELSE {}
  <1>1. \A u, v \in x.nets[n].uplink : u = v
    BY WiringAssumption
  <1>2. n \in Uplinked(x) => Uplink(x, n) \in x.nets[n].uplink
    BY DEF Uplinked, Uplink
  <1>3. n \notin Uplinked(x) => x.nets[n].uplink = {}
    BY DEF Uplinked
  <1> QED  BY <1>1, <1>2, <1>3

(* The names of one network, counted as NamesFit counts them and one by
   one. *)
LEMMA OwnNetNames ==
  ASSUME NEW x \in Configs, NEW n \in Networks(x)
  PROVE  LET ends == {RouterIf(c) : c \in DOMAIN x.nets[n].attach}
             own  == {x.nets[n].gatewayIf} \cup {u.routerIf : u \in x.nets[n].uplink}
         IN  (/\ own \cap (ends \cup {Lo}) = {}
              /\ Cardinality(own) = 1 + Cardinality(x.nets[n].uplink)
              /\ \A s \in own \cup ends \cup {u.hostIf : u \in x.nets[n].uplink} : Clean(s)
              /\ \A c \in DOMAIN x.nets[n].attach : LET s == x.nets[n].attach[c].interface
                                                   IN  s # Lo /\ Clean(s))
             /\ (n \in Uplinked(x) => Uplink(x, n).hostIf # Lo)
             <=> NetNames(x, n)
  <1> DEFINE w  == x.nets[n]
             b  == n \in Uplinked(x)
             gd == w.gatewayIf
             rd == Uplink(x, n).routerIf
             hd == Uplink(x, n).hostIf
             C  == DOMAIN w.attach
             R(c) == RouterIf(c)
             F(c) == w.attach[c].interface
             U  == w.uplink
             ends == {R(c) : c \in C}
             own  == {gd} \cup {u.routerIf : u \in U}
             hs   == {u.hostIf : u \in U}
             good == \A s \in own \cup ends \cup hs : Clean(s)
             fine == \A c \in C : F(c) # Lo /\ Clean(F(c))
  <1>1. U = IF b THEN {Uplink(x, n)} ELSE {}
    BY OneUplink
  <1>2. NetNames(x, n) <=> /\ gd # Lo /\ Clean(gd)
                           /\ \A c \in C : gd # R(c)
                           /\ b => rd # gd /\ \A c \in C : rd # R(c)
                           /\ \A c \in C : Clean(R(c))
                           /\ fine
                           /\ b => rd # Lo /\ Clean(rd) /\ Clean(hd) /\ hd # Lo
    BY DEF NetNames, EndsFree
  <1>3. CASE b
    <2>1. own = {gd, rd} /\ hs = {hd} /\ Cardinality(U) = 1
      <3>1. U = {Uplink(x, n)}
        BY <1>1, <1>3
      <3>2. Cardinality(U) = 1
        BY <3>1, FS_Singleton
      <3> HIDE DEF U
      <3> QED  BY <3>1, <3>2
    <2>2. Cardinality({gd, rd}) = 2 <=> gd # rd
      <3>1. CASE gd = rd
        <4>1. {gd, rd} = {gd}
          BY <3>1
        <4>2. Cardinality({gd}) = 1
          BY FS_Singleton
        <4> HIDE DEF gd, rd
        <4> QED  BY <3>1, <4>1, <4>2
      <3>2. CASE gd # rd
        <4>1. IsFiniteSet({gd}) /\ Cardinality({gd}) = 1
          BY FS_Singleton
        <4>2. Cardinality({gd} \cup {rd}) = Cardinality({gd}) + 1
          BY <3>2, <4>1, FS_AddElement
        <4>3. {gd} \cup {rd} = {gd, rd}
          OBVIOUS
        <4> HIDE DEF gd, rd
        <4> QED  BY <3>2, <4>1, <4>2, <4>3
      <3> QED  BY <3>1, <3>2
    <2> HIDE DEF U, gd, rd, hd, R, F, C, b
    <2>3. own \cap (ends \cup {Lo}) = {} <=> /\ gd # Lo /\ rd # Lo
                                              /\ \A c \in C : gd # R(c) /\ rd # R(c)
      <3>1. own \cap (ends \cup {Lo}) = {} <=> gd \notin ends \cup {Lo} /\ rd \notin ends \cup {Lo}
        BY <2>1
      <3> QED  BY <3>1
    <2>4. good <=> Clean(gd) /\ Clean(rd) /\ Clean(hd) /\ \A c \in C : Clean(R(c))
      BY <2>1
    <2>5. Cardinality(own) = 1 + Cardinality(U) <=> gd # rd
      BY <2>1, <2>2
    <2>6. NetNames(x, n) <=> (/\ own \cap (ends \cup {Lo}) = {} /\ Cardinality(own) = 1 + Cardinality(U)
                              /\ good /\ fine) /\ (b => hd # Lo)
      <3> HIDE DEF own, ends, good, fine, NetNames
      <3> QED  BY <1>2, <1>3, <2>3, <2>4, <2>5
    <2> QED  BY <2>6 DEF U, gd, rd, hd, R, F, C, b
  <1>4. CASE ~b
    <2>1. own = {gd} /\ hs = {} /\ Cardinality(U) = 0 /\ Cardinality({gd}) = 1
      <3>1. U = {}
        BY <1>1, <1>4
      <3>2. Cardinality(U) = 0 /\ Cardinality({gd}) = 1
        BY <3>1, FS_EmptySet, FS_Singleton
      <3> HIDE DEF U
      <3> QED  BY <3>1, <3>2
    <2> HIDE DEF U, gd, rd, hd, R, F, C, b
    <2>3. own \cap (ends \cup {Lo}) = {} <=> gd # Lo /\ \A c \in C : gd # R(c)
      <3>1. own \cap (ends \cup {Lo}) = {} <=> gd \notin ends \cup {Lo}
        BY <2>1
      <3> QED  BY <3>1
    <2>4. good <=> Clean(gd) /\ \A c \in C : Clean(R(c))
      BY <2>1
    <2>5. Cardinality(own) = 1 + Cardinality(U)
      <3> HIDE DEF own, hs
      <3>1. Cardinality(own) = 1 /\ Cardinality(U) = 0
        BY <2>1
      <3> QED  BY <3>1
    <2>6. NetNames(x, n) <=> (/\ own \cap (ends \cup {Lo}) = {} /\ Cardinality(own) = 1 + Cardinality(U)
                              /\ good /\ fine) /\ (b => hd # Lo)
      <3> HIDE DEF own, ends, good, fine, NetNames
      <3> QED  BY <1>2, <1>4, <2>3, <2>4, <2>5
    <2> QED  BY <2>6 DEF U, gd, rd, hd, R, F, C, b
  <1> QED  BY <1>3, <1>4

(* NamesFit, one name at a time. *)
LEMMA NamesAskedIs ==
  ASSUME NEW x \in Configs
  PROVE  NamesFit(x) <=> NamesAsked(x)
  <1> DEFINE Links == UNION {{c} \X DOMAIN x.links[c] : c \in Containers(x)}
             L(p)  == x.links[p[1]][p[2]]
             N(p)  == LinkHostIf(p[1], L(p))
             H     == HostIfs(x)
             J(n)  == LET ends == {RouterIf(c) : c \in DOMAIN x.nets[n].attach}
                          own  == {x.nets[n].gatewayIf} \cup {u.routerIf : u \in x.nets[n].uplink}
                      IN  /\ own \cap (ends \cup {Lo}) = {}
                          /\ Cardinality(own) = 1 + Cardinality(x.nets[n].uplink)
                          /\ \A s \in own \cup ends \cup {u.hostIf : u \in x.nets[n].uplink} : Clean(s)
                          /\ \A c \in DOMAIN x.nets[n].attach : LET s == x.nets[n].attach[c].interface
                                                               IN  s # Lo /\ Clean(s)
             E     == \A m, n \in Uplinked(x) : m # n => Uplink(x, m).hostIf # Uplink(x, n).hostIf
             Q(p)  == /\ N(p) \notin Bridges \ H /\ L(p).bridge \notin H
                      /\ L(p).name # Lo /\ Clean(L(p).name) /\ Clean(N(p))
  <1>1. NamesFit(x) <=> /\ E
                        /\ \A p, q \in Links : p # q => N(p) # N(q)
                        /\ H \cap ({N(p) : p \in Links} \cup {Lo}) = {}
                        /\ \A p \in Links : Q(p)
                        /\ \A n \in Networks(x) : J(n)
    BY DEF NamesFit, Apart, HostIfs
  <1>2. /\ \A c \in Containers(x) : \A i \in DOMAIN x.links[c] : <<c, i>> \in Links
        /\ \A p \in Links : p[1] \in Containers(x) /\ p[2] \in DOMAIN x.links[p[1]] /\ p = <<p[1], p[2]>>
    OBVIOUS
  <1>3. \A c, i : N(<<c, i>>) = HName(x, c, i) /\ L(<<c, i>>) = x.links[c][i]
    BY DEF HName
  <1>4. \A n \in Networks(x) : J(n) /\ (n \in Uplinked(x) => Uplink(x, n).hostIf # Lo) <=> NetNames(x, n)
    BY OwnNetNames
  <1>5. H = {Uplink(x, n).hostIf : n \in Uplinked(x)} /\ Uplinked(x) \subseteq Networks(x)
    BY DEF HostIfs, Uplinked
  <1>6. NamesAsked(x) <=> /\ E
                          /\ \A c \in Containers(x) : \A i \in DOMAIN x.links[c] : LinkNames(x, c, i)
                          /\ \A n \in Networks(x) : NetNames(x, n)
    BY DEF NamesAsked
  <1>7. \A c, i : LinkNames(x, c, i) <=>
          /\ \A d \in Containers(x) : \A k \in DOMAIN x.links[d] : <<c, i>> # <<d, k>> => N(<<c, i>>) # N(<<d, k>>)
          /\ \A n \in Uplinked(x) : Uplink(x, n).hostIf # N(<<c, i>>)
          /\ Q(<<c, i>>)
    BY <1>3 DEF LinkNames
  <1> HIDE DEF Links, N, L, J, E, Q, H
  <1>8. H \cap ({N(p) : p \in Links} \cup {Lo}) = {} <=>
          \A n \in Uplinked(x) : Uplink(x, n).hostIf # Lo /\ \A p \in Links : Uplink(x, n).hostIf # N(p)
    <2> DEFINE M == {N(p) : p \in Links} \cup {Lo}
    <2>1. \A s : s \in M <=> s = Lo \/ \E p \in Links : s = N(p)
      OBVIOUS
    <2>2. \A s : s \in H <=> \E n \in Uplinked(x) : s = Uplink(x, n).hostIf
      BY <1>5
    <2> HIDE DEF M
    <2>3. H \cap M = {} <=> \A n \in Uplinked(x) : Uplink(x, n).hostIf \notin M
      BY <2>2
    <2> QED  BY <2>1, <2>3 DEF M
  <1>9. ASSUME NamesFit(x) PROVE NamesAsked(x)
    <2>1. ASSUME NEW c \in Containers(x), NEW i \in DOMAIN x.links[c] PROVE LinkNames(x, c, i)
      <3>1. <<c, i>> \in Links
        BY <1>2
      <3>2. \A d \in Containers(x) : \A k \in DOMAIN x.links[d] : <<c, i>> # <<d, k>> => N(<<c, i>>) # N(<<d, k>>)
        BY <1>1, <1>2, <1>9, <3>1
      <3>3. \A n \in Uplinked(x) : Uplink(x, n).hostIf # N(<<c, i>>)
        BY <1>1, <1>8, <1>9, <3>1
      <3>4. Q(<<c, i>>)
        BY <1>1, <1>9, <3>1
      <3> QED  BY <1>7, <3>2, <3>3, <3>4
    <2>2. ASSUME NEW n \in Networks(x) PROVE NetNames(x, n)
      BY <1>1, <1>4, <1>8, <1>9
    <2> QED  BY <1>1, <1>6, <1>9, <2>1, <2>2
  <1>10. ASSUME NamesAsked(x) PROVE NamesFit(x)
    <2>1. ASSUME NEW p \in Links
          PROVE  /\ \A q \in Links : p # q => N(p) # N(q)
                 /\ \A n \in Uplinked(x) : Uplink(x, n).hostIf # N(p)
                 /\ Q(p)
      <3>1. p[1] \in Containers(x) /\ p[2] \in DOMAIN x.links[p[1]] /\ p = <<p[1], p[2]>>
        BY <1>2
      <3>2. LinkNames(x, p[1], p[2])
        BY <1>6, <1>10, <3>1
      <3>3. /\ \A d \in Containers(x) : \A k \in DOMAIN x.links[d] : p # <<d, k>> => N(p) # N(<<d, k>>)
            /\ \A n \in Uplinked(x) : Uplink(x, n).hostIf # N(p)
            /\ Q(p)
        BY <1>7, <3>1, <3>2
      <3>4. ASSUME NEW q \in Links, p # q PROVE N(p) # N(q)
        <4>1. q[1] \in Containers(x) /\ q[2] \in DOMAIN x.links[q[1]] /\ q = <<q[1], q[2]>>
          BY <1>2
        <4> QED  BY <3>3, <3>4, <4>1
      <3> QED  BY <3>3, <3>4
    <2>2. \A n \in Networks(x) : J(n) /\ (n \in Uplinked(x) => Uplink(x, n).hostIf # Lo)
      BY <1>4, <1>6, <1>10
    <2>3. H \cap ({N(p) : p \in Links} \cup {Lo}) = {}
      BY <1>5, <1>8, <2>1, <2>2
    <2> QED  BY <1>1, <1>6, <1>10, <2>1, <2>2, <2>3
  <1> QED  BY <1>9, <1>10

(* An end that a link may take: its name can be used, and no interface that
   is there from the start, and stays, has it. *)
Fits(x, e) == /\ Usable(e[2])
              /\ \A i \in FirstIfs(x) : e = <<i.ns, i.name>> => i.ns = Host /\ i.name \in HostIfs(x)
NetFits(x, n) ==
  /\ Fits(x, <<Router(n), x.nets[n].gatewayIf>>)
  /\ \A c \in DOMAIN x.nets[n].attach : /\ Fits(x, <<Router(n), RouterIf(c)>>)
                                        /\ Fits(x, <<Cont(c), x.nets[n].attach[c].interface>>)
  /\ n \in Uplinked(x) => /\ Fits(x, <<Host, Uplink(x, n).hostIf>>)
                          /\ Fits(x, <<Router(n), Uplink(x, n).routerIf>>)
                          /\ Uplink(x, n).hostIf # Lo
LinkFits(x, c, i) ==
  /\ Fits(x, <<Host, HName(x, c, i)>>)
  /\ Fits(x, <<Cont(c), x.links[c][i].name>>)
  /\ x.links[c][i].bridge # <<>> => x.links[c][i].bridge \in Bridges \ HostIfs(x)

(* The requests about names, each for itself. *)
LEMMA FitsIs ==
  ASSUME NEW x \in Configs
  PROVE  /\ \A n \in Networks(x) : \A s : Fits(x, <<Router(n), s>>) <=> Usable(s) /\ s # Lo
         /\ \A c \in Containers(x) : \A s : Fits(x, <<Cont(c), s>>) <=> Usable(s) /\ s # Lo
         /\ \A s : Fits(x, <<Host, s>>) <=> Usable(s) /\ (s = Lo \/ s \in Bridges => s \in HostIfs(x))
  <1>1. ASSUME NEW ns \in Specs(x), ns # Host, NEW s
        PROVE  Fits(x, <<ns, s>>) <=> Usable(s) /\ s # Lo
    <2>1. \A i \in FirstIfs(x) : i.ns = ns => i.name = Lo
      BY <1>1 DEF FirstIfs
    <2>2. [ns |-> ns, name |-> Lo, peer |-> NoEnd] \in FirstIfs(x)
      BY DEF FirstIfs
    <2>3. \A i : <<ns, s>> = <<i.ns, i.name>> <=> i.ns = ns /\ i.name = s
      OBVIOUS
    <2>4. (\A i \in FirstIfs(x) : <<ns, s>> = <<i.ns, i.name>> => i.ns = Host /\ i.name \in HostIfs(x)) <=> s # Lo
      <3> DEFINE o == [ns |-> ns, name |-> Lo, peer |-> NoEnd]
      <3>1. o.ns = ns /\ o.name = Lo
        OBVIOUS
      <3> HIDE DEF o
      <3> QED  BY <1>1, <2>1, <2>2, <2>3, <3>1 DEF o
    <2>5. <<ns, s>>[2] = s
      OBVIOUS
    <2> QED  BY <2>4, <2>5 DEF Fits
  <1>2. \A n \in Networks(x) : Router(n) \in Specs(x) /\ Router(n) # Host
    BY Spaces DEF Specs
  <1>3. \A c \in Containers(x) : Cont(c) \in Specs(x) /\ Cont(c) # Host
    BY Spaces DEF Specs
  <1>4. ASSUME NEW s PROVE Fits(x, <<Host, s>>) <=> Usable(s) /\ (s = Lo \/ s \in Bridges => s \in HostIfs(x))
    <2>1. /\ \A i \in FirstIfs(x) : i.ns = Host => i.name = Lo \/ i.name \in Bridges
          /\ \A b : b = Lo \/ b \in Bridges => [ns |-> Host, name |-> b, peer |-> NoEnd] \in FirstIfs(x)
      BY DEF FirstIfs
    <2>2. \A b : LET o == [ns |-> Host, name |-> b, peer |-> NoEnd] IN o.ns = Host /\ o.name = b
      OBVIOUS
    <2>3. \A i : <<Host, s>> = <<i.ns, i.name>> <=> i.ns = Host /\ i.name = s
      OBVIOUS
    <2>4. (\A i \in FirstIfs(x) : <<Host, s>> = <<i.ns, i.name>> => i.ns = Host /\ i.name \in HostIfs(x))
            <=> (s = Lo \/ s \in Bridges => s \in HostIfs(x))
      BY <2>1, <2>2, <2>3
    <2>5. <<Host, s>>[2] = s
      OBVIOUS
    <2> QED  BY <2>4, <2>5 DEF Fits
  <1> QED  BY <1>1, <1>2, <1>3, <1>4

(* What the kernel asks of the two names of a pair. *)
LEMMA AddFits ==
  ASSUME NEW x, NEW ns, NEW dev, NEW peer
  PROVE  Alone(x, Add(ns, dev, peer)) <=> Fits(x, <<ns, dev>>) /\ (peer # NoEnd => Fits(x, peer))
  <1> DEFINE r == Add(ns, dev, peer)
  <1>1. r.op = "add"
    BY Requests
  <1>2. Has("end", r) = IF peer = NoEnd THEN {<<ns, dev>>} ELSE {<<ns, dev>>, peer}
    BY HasOf
  <1> HIDE DEF r
  <1>3. Alone(x, r) <=> \A e \in Has("end", r) : Fits(x, e)
    BY <1>1 DEF Alone, Fits
  <1>4. (\A e \in Has("end", r) : Fits(x, e)) <=> Fits(x, <<ns, dev>>) /\ (peer # NoEnd => Fits(x, peer))
    BY <1>2
  <1> QED  BY <1>3, <1>4 DEF r

(* Requests that are about names. *)
Naming == {"del", "add", "master"}

(* Names that no plan can get, whatever else it asks for. *)
LEMMA NamingIs ==
  ASSUME NEW x \in Configs, Accepted(x)
  PROVE  (\A r \in PlanSet(x) : r.op \in Naming => Alone(x, r)) <=>
           /\ \A n \in Networks(x) : NetFits(x, n)
           /\ \A c \in Containers(x) : \A i \in DOMAIN x.links[c] : LinkFits(x, c, i)
  <1>1. \A n : Alone(x, AddGateway(x, n)) <=> Fits(x, <<Router(n), x.nets[n].gatewayIf>>)
    BY AddFits DEF AddGateway
  <1>2. \A n, c : Alone(x, AddPair(x, n, c)) <=> /\ Fits(x, <<Router(n), RouterIf(c)>>)
                                                 /\ Fits(x, <<Cont(c), x.nets[n].attach[c].interface>>)
    <2>1. \A n, c : <<Cont(c), x.nets[n].attach[c].interface>> # NoEnd
      BY Spaces
    <2> QED  BY <2>1, AddFits DEF AddPair
  <1>3. \A n : Alone(x, AddEdge(x, n)) <=> /\ Fits(x, <<Host, Uplink(x, n).hostIf>>)
                                           /\ Fits(x, <<Router(n), Uplink(x, n).routerIf>>)
    <2>1. \A n : <<Router(n), Uplink(x, n).routerIf>> # NoEnd
      BY Spaces
    <2> QED  BY <2>1, AddFits DEF AddEdge
  <1>4. \A c, i : Alone(x, AddLink(x, c, i)) <=> /\ Fits(x, <<Host, HName(x, c, i)>>)
                                                 /\ Fits(x, <<Cont(c), x.links[c][i].name>>)
    <2>1. \A c, i : <<Cont(c), x.links[c][i].name>> # NoEnd
      BY Spaces
    <2> QED  BY <2>1, AddFits DEF AddLink, HName
  <1>5. \A n : Alone(x, Del(Uplink(x, n).hostIf)) <=> Uplink(x, n).hostIf # Lo
    <2> TAKE n
    <2> DEFINE r == Del(Uplink(x, n).hostIf)
    <2>1. r.op = "del" /\ r.dev = Uplink(x, n).hostIf
      BY Fields
    <2> HIDE DEF r
    <2> QED  BY <2>1 DEF Alone, r
  <1>6. \A h, b : Alone(x, Master(h, b)) <=> b \in Bridges \ HostIfs(x)
    <2> TAKE h, b
    <2> DEFINE r == Master(h, b)
    <2>1. r.op = "master" /\ r.bridge = b
      BY Fields
    <2> HIDE DEF r
    <2> QED  BY <2>1 DEF Alone, r
  <1>0. \A r : PlanOps(x, r)
    BY PlanByOp
  <1>7. (\A r \in PlanSet(x) : r.op = "del" => Alone(x, r)) <=> \A n \in Uplinked(x) : Uplink(x, n).hostIf # Lo
    <2>1. \A r : r \in PlanSet(x) /\ r.op = "del" <=> \E n \in Uplinked(x) : r = Del(Uplink(x, n).hostIf)
      BY <1>0 DEF PlanOps
    <2> QED  BY <1>5, <2>1
  <1>8. (\A r \in PlanSet(x) : r.op = "master" => Alone(x, r)) <=>
          \A c \in Containers(x) : \A i \in DOMAIN x.links[c] :
             x.links[c][i].bridge # <<>> => x.links[c][i].bridge \in Bridges \ HostIfs(x)
    <2>1. \A r : r \in PlanSet(x) /\ r.op = "master" <=>
            \E c \in Containers(x) : \E i \in DOMAIN x.links[c] :
               x.links[c][i].bridge # <<>> /\ r = Master(LinkHostIf(c, x.links[c][i]), x.links[c][i].bridge)
      BY <1>0 DEF PlanOps, PlanMasters
    <2> QED  BY <1>6, <2>1
  <1>9. (\A r \in PlanSet(x) : r.op = "add" => Alone(x, r)) <=>
          /\ \A n \in Networks(x) : /\ Alone(x, AddGateway(x, n))
                                    /\ \A c \in DOMAIN x.nets[n].attach : Alone(x, AddPair(x, n, c))
                                    /\ n \in Uplinked(x) => Alone(x, AddEdge(x, n))
          /\ \A c \in Containers(x) : \A i \in DOMAIN x.links[c] : Alone(x, AddLink(x, c, i))
    <2>1. \A r : r \in PlanSet(x) /\ r.op = "add" <=>
            \/ \E n \in Networks(x) : \/ r = AddGateway(x, n)
                                      \/ \E c \in DOMAIN x.nets[n].attach : r = AddPair(x, n, c)
                                      \/ n \in Uplinked(x) /\ r = AddEdge(x, n)
            \/ \E c \in Containers(x) : \E i \in DOMAIN x.links[c] : r = AddLink(x, c, i)
      BY <1>0 DEF PlanOps, PlanAdds
    <2> QED  BY <2>1
  <1>10. \A n \in Networks(x) : NetFits(x, n) <=>
           /\ Alone(x, AddGateway(x, n))
           /\ \A c \in DOMAIN x.nets[n].attach : Alone(x, AddPair(x, n, c))
           /\ n \in Uplinked(x) => Alone(x, AddEdge(x, n))
           /\ n \in Uplinked(x) => Uplink(x, n).hostIf # Lo
    BY <1>1, <1>2, <1>3 DEF NetFits
  <1>11. \A c, i : LinkFits(x, c, i) <=>
           /\ Alone(x, AddLink(x, c, i))
           /\ x.links[c][i].bridge # <<>> => x.links[c][i].bridge \in Bridges \ HostIfs(x)
    BY <1>4 DEF LinkFits
  <1>12. Uplinked(x) \subseteq Networks(x)
    BY DEF Uplinked
  <1>13. (\A r \in PlanSet(x) : r.op \in Naming => Alone(x, r)) <=>
           /\ \A r \in PlanSet(x) : r.op = "del" => Alone(x, r)
           /\ \A r \in PlanSet(x) : r.op = "add" => Alone(x, r)
           /\ \A r \in PlanSet(x) : r.op = "master" => Alone(x, r)
    BY DEF Naming
  <1> QED  BY <1>7, <1>8, <1>9, <1>10, <1>11, <1>12, <1>13

(* A list has one length. *)
LEMMA Ranges ==
  ASSUME NEW m \in Nat, NEW n \in Nat, 1..m = 1..n
  PROVE  m = n
  <1>1. CASE m < n
    <2>1. n \in 1..n /\ n \notin 1..m
      BY <1>1
    <2> QED  BY <2>1
  <1>2. CASE n < m
    <2>1. m \in 1..m /\ m \notin 1..n
      BY <1>2
    <2> QED  BY <2>1
  <1> QED  BY <1>1, <1>2

(* The length of a joined list. *)
LEMMA Lengths ==
  ASSUME NEW s, NEW t, IsList(s), IsList(t)
  PROVE  IsList(s \o t) /\ Len(s \o t) = Len(s) + Len(t) /\ Len(s) \in Nat /\ Len(t) \in Nat
  <1>1. Join(s \o t, s, t)
    BY Joined
  <1>2. IsList(s \o t) /\ Len(s) \in Nat /\ Len(t) \in Nat /\ DOMAIN (s \o t) = 1..(Len(s) + Len(t))
    BY <1>1 DEF Join
  <1>3. Len(s \o t) \in Nat /\ DOMAIN (s \o t) = 1..Len(s \o t)
    BY <1>2, LenProperties DEF IsList
  <1>4. \A m, n \in Nat : 1..m = 1..n => m = n
    BY Ranges
  <1> QED  BY <1>2, <1>3, <1>4

(* A name is a list of characters. *)
LEMMA StringLists ==
  /\ \A s : s \in Seq(STRING) => IsList(s)
  /\ IsList(<<"vethR", "-">>) /\ IsList(<<"vethL", "-">>) /\ IsList(<<"-">>)
  <1>1. ASSUME NEW S, NEW s \in Seq(S) PROVE IsList(s)
    BY SeqOfRange DEF IsList
  <1>2. <<"vethR", "-">> \in Seq({"vethR", "-"}) /\ <<"vethL", "-">> \in Seq({"vethL", "-"}) /\ <<"-">> \in Seq({"-"})
    OBVIOUS
  <1> QED  BY <1>1, <1>2

(* What Validate and buildPlan see to: no name is too long. *)
LEMMA NamesShort ==
  ASSUME NEW x \in Configs, Accepted(x)
  PROVE  /\ \A n \in Networks(x) : /\ Clean(x.nets[n].gatewayIf) => Usable(x.nets[n].gatewayIf)
                                   /\ \A c \in DOMAIN x.nets[n].attach :
                                        /\ Len(RouterIf(c)) <= NameMax /\ RouterIf(c) # Lo
                                        /\ Len(x.nets[n].attach[c].interface) <= NameMax
         /\ \A n \in Uplinked(x) : /\ Len(Uplink(x, n).hostIf) <= NameMax /\ Len(Uplink(x, n).routerIf) <= NameMax
                                   /\ Uplink(x, n).hostIf # <<>>
         /\ \A c \in Containers(x) : \A i \in DOMAIN x.links[c] :
              /\ Len(HName(x, c, i)) <= NameMax /\ HName(x, c, i) # Lo
              /\ Len(x.links[c][i].name) <= NameMax
              /\ x.links[c][i].bridge \in Bridges \cup {<<>>}
  <1>0. NameMax \in Nat
    BY LoweringAssumption
  <1>1. ASSUME NEW n \in Networks(x)
        PROVE  /\ Clean(x.nets[n].gatewayIf) => Usable(x.nets[n].gatewayIf)
               /\ \A c \in DOMAIN x.nets[n].attach : /\ Len(RouterIf(c)) <= NameMax /\ RouterIf(c) # Lo
                                                     /\ Len(x.nets[n].attach[c].interface) <= NameMax
    <2>1. NetworkOK(x.nets[n]) /\ \A c \in DOMAIN x.nets[n].attach : RouterIfFits(c)
      BY DEF Accepted, Validate, Lowers
    <2>2. x.nets[n].gatewayIf # <<>> => IfNameOK(x.nets[n].gatewayIf)
      BY <2>1 DEF NetworkOK
    <2>3. Clean(x.nets[n].gatewayIf) => Usable(x.nets[n].gatewayIf)
      BY <1>0, <2>2 DEF Clean, Usable, IfNameOK
    <2>4. ASSUME NEW c \in DOMAIN x.nets[n].attach
          PROVE  Len(RouterIf(c)) <= NameMax /\ RouterIf(c) # Lo /\ Len(x.nets[n].attach[c].interface) <= NameMax
      <3>1. IfNameOK(x.nets[n].attach[c].interface)
        BY <2>1 DEF NetworkOK
      <3>2. Name[c] \in Seq(STRING)
        BY Attached, WiringAssumption, LoweringAssumption
      <3>3. RouterIf(c) # Lo
        <4> DEFINE p == <<"vethR", "-">>
                   t == Name[c]
        <4>1. IsList(p) /\ IsList(t)
          BY <3>2, StringLists DEF p, t
        <4>2. Len(p) = 2 /\ Len(Lo) = 1
          BY DEF Lo
        <4> HIDE DEF p, t
        <4>3. Len(p \o t) = Len(p) + Len(t) /\ Len(t) \in Nat
          BY <4>1, Lengths
        <4>4. Len(p \o t) # Len(Lo)
          BY <4>2, <4>3
        <4> QED  BY <4>4 DEF RouterIf, p, t
      <3> QED  BY <1>0, <2>1, <3>1, <3>3 DEF RouterIfFits, IfNameOK
    <2> QED  BY <2>3, <2>4
  <1>2. ASSUME NEW n \in Uplinked(x)
        PROVE  /\ Len(Uplink(x, n).hostIf) <= NameMax /\ Len(Uplink(x, n).routerIf) <= NameMax
               /\ Uplink(x, n).hostIf # <<>>
    <2>1. Len(Uplink(x, n).hostIf) \in 1..NameMax /\ Len(Uplink(x, n).routerIf) \in 1..NameMax
      BY UplinkIs
    <2>2. Len(<<>>) = 0
      OBVIOUS
    <2>3. \A a, b : a \in 1..NameMax /\ b \in 1..NameMax => a <= NameMax /\ b <= NameMax /\ a # 0
      BY <1>0
    <2>4. Len(Uplink(x, n).hostIf) <= NameMax /\ Len(Uplink(x, n).routerIf) <= NameMax /\ Len(Uplink(x, n).hostIf) # 0
      BY <2>1, <2>3
    <2> QED  BY <2>2, <2>4
  <1>3. ASSUME NEW c \in Containers(x), NEW i \in DOMAIN x.links[c]
        PROVE  /\ Len(HName(x, c, i)) <= NameMax /\ HName(x, c, i) # Lo
               /\ Len(x.links[c][i].name) <= NameMax
               /\ x.links[c][i].bridge \in Bridges \cup {<<>>}
    <2>1. LinksOf(x, c) = x.links[c]
      BY DEF LinksOf
    <2>2. LinkOK(x.links[c][i]) /\ LinkIfFits(c, x.links[c][i]) /\ x.links[c][i].bridge \in Bridges \cup {<<>>}
      BY <2>1 DEF Accepted, Validate, Lowers, Preflight
    <2>3. HName(x, c, i) # Lo
      <3> DEFINE p == <<"vethL", "-">>
                 q == <<"-">>
                 t == Name[c]
                 u == x.links[c][i].name
      <3>0. t \in Seq(STRING) /\ u \in Seq(STRING)
        <4>1. c \in DOMAIN Name
          BY WiringAssumption
        <4> QED  BY <4>1, LinkDecoded, LoweringAssumption
      <3>1. IsList(t) /\ IsList(u) /\ IsList(p) /\ IsList(q)
        BY <3>0, StringLists
      <3>2. Len(p) = 2 /\ Len(Lo) = 1
        BY DEF Lo
      <3> HIDE DEF p, q, t, u
      <3>3. Len(p \o t \o q \o u) = Len(p) + Len(t) + Len(q) + Len(u)
        <4>1. IsList(p \o t) /\ Len(p \o t) = Len(p) + Len(t)
          BY <3>1, Lengths
        <4>2. IsList(p \o t \o q) /\ Len(p \o t \o q) = Len(p) + Len(t) + Len(q)
          BY <3>1, <4>1, Lengths
        <4> QED  BY <3>1, <4>2, Lengths
      <3>4. Len(t) \in Nat /\ Len(q) \in Nat /\ Len(u) \in Nat
        BY <3>1, Lengths
      <3>5. Len(p \o t \o q \o u) # Len(Lo)
        BY <3>2, <3>3, <3>4
      <3> QED  BY <3>5 DEF HName, LinkHostIf, p, q, t, u
    <2>4. Len(HName(x, c, i)) <= NameMax
      BY <2>2 DEF LinkIfFits, HName
    <2>5. Len(x.links[c][i].name) <= NameMax
      <3>1. Len(x.links[c][i].name) \in 1..NameMax
        BY <2>2 DEF LinkOK, IfNameOK
      <3>2. \A a : a \in 1..NameMax => a <= NameMax
        BY <1>0
      <3> QED  BY <3>1, <3>2
    <2> QED  BY <2>2, <2>3, <2>4, <2>5
  <1> QED  BY <1>1, <1>2, <1>3

(* The clashes of interfaces that are left, when the names of one container
   and the router ends of one network differ by themselves: those of the host,
   and of a gateway or an uplink with the others of its network. *)
EndsAsked(x) ==
  /\ \A n \in Networks(x) : EndsFree(x, n)
  /\ \A m, n \in Uplinked(x) : m # n => Uplink(x, m).hostIf # Uplink(x, n).hostIf
  /\ \A n \in Uplinked(x) : \A c \in Containers(x) : \A i \in DOMAIN x.links[c] :
        Uplink(x, n).hostIf # HName(x, c, i)
  /\ \A c, d \in Containers(x) : \A i \in DOMAIN x.links[c] : \A k \in DOMAIN x.links[d] :
        <<c, i>> # <<d, k>> => HName(x, c, i) # HName(x, d, k)

(* A network's interfaces, by namespace. *)
LEMMA NetEndsAre ==
  ASSUME NEW x, NEW n, NEW e
  PROVE  /\ e \in NetEnds(x, n) => \/ e[1] = Router(n)
                                   \/ \E c \in DOMAIN x.nets[n].attach : e = <<Cont(c), x.nets[n].attach[c].interface>>
                                   \/ n \in Uplinked(x) /\ e = <<Host, Uplink(x, n).hostIf>>
         /\ n \in Uplinked(x) => <<Host, Uplink(x, n).hostIf>> \in NetEnds(x, n)
  <1> DEFINE A == {<<Router(n), x.nets[n].gatewayIf>>}
             R(c) == <<Router(n), RouterIf(c)>>
             K(c) == <<Cont(c), x.nets[n].attach[c].interface>>
             C == DOMAIN x.nets[n].attach
             T == UNION {{R(c), K(c)} : c \in C}
             h == <<Host, Uplink(x, n).hostIf>>
             w == <<Router(n), Uplink(x, n).routerIf>>
             b == n \in Uplinked(x)
             Z == IF b THEN {h, w} ELSE {}
  <1>1. NetEnds(x, n) = A \cup T \cup Z
    BY DEF NetEnds
  <1>2. (\A a \in A : a[1] = Router(n)) /\ (\A c : R(c)[1] = Router(n)) /\ w[1] = Router(n)
    OBVIOUS
  <1> HIDE DEF A, R, K, C, h, w, b
  <1>3. e \in T => \E c \in C : e = R(c) \/ e = K(c)
    OBVIOUS
  <1>4. e \in Z => b /\ (e = h \/ e = w)
    OBVIOUS
  <1>5. b => h \in Z
    OBVIOUS
  <1> HIDE DEF T, Z
  <1>6. e \in NetEnds(x, n) => e[1] = Router(n) \/ (\E c \in C : e = K(c)) \/ (b /\ e = h)
    BY <1>1, <1>2, <1>3, <1>4
  <1>7. b => h \in NetEnds(x, n)
    BY <1>1, <1>5
  <1> QED  BY <1>6, <1>7 DEF C, K, b, h

(* A container's links, by namespace. *)
LEMMA ContEndsAre ==
  ASSUME NEW x, NEW c, NEW e
  PROVE  e \in ContEnds(x, c) <=> \E i \in DOMAIN x.links[c] : \/ e = <<Host, HName(x, c, i)>>
                                                              \/ e = <<Cont(c), x.links[c][i].name>>
  BY DEF ContEnds, LinkEnds, HName

(* Those are all the clashes of interfaces. *)
LEMMA EndsAskedIs ==
  ASSUME NEW x \in Configs, Accepted(x)
  PROVE  EndsPlan(x) <=> EndsAsked(x)
  <1> DEFINE NN == Networks(x)
             CC == Containers(x)
             U  == Uplinked(x)
             H(n) == Uplink(x, n).hostIf
             L(c, i) == HName(x, c, i)
             D(c) == DOMAIN x.links[c]
             C(n) == DOMAIN x.nets[n].attach
             F(n, c) == x.nets[n].attach[c].interface
             G(c, i) == x.links[c][i].name
  <1>1. /\ \A n \in NN : n \in Nat
        /\ \A c \in CC : c \in Nat
        /\ \A c \in CC : \A i \in D(c) : i \in Nat
        /\ U \subseteq NN
    <2>1. NN \subseteq Nat /\ CC \subseteq Nat
      BY WiringAssumption DEF Ids
    <2>2. \A c \in CC : D(c) \subseteq Nat
      BY LinksAre DEF Ids
    <2>3. U \subseteq NN
      BY DEF Uplinked
    <2> QED  BY <2>1, <2>2, <2>3
  <1>0. \A i, j \in Nat : i # j => i < j \/ j < i
    OBVIOUS
  <1>00. \A i, j \in Nat : i < j => i # j
    OBVIOUS
  <1>2. \A n, e : /\ e \in NetEnds(x, n) => \/ e[1] = Router(n)
                                            \/ \E c \in C(n) : e = <<Cont(c), F(n, c)>>
                                            \/ n \in U /\ e = <<Host, H(n)>>
                  /\ n \in U => <<Host, H(n)>> \in NetEnds(x, n)
    BY NetEndsAre
  <1>3. \A c, e : e \in ContEnds(x, c) <=> \E i \in D(c) : e = <<Host, L(c, i)>> \/ e = <<Cont(c), G(c, i)>>
    BY ContEndsAre
  <1>4. \A n \in NN : \A c \in C(n) : c \in CC /\ n \in NetsOf(x, c)
    BY Attached
  <1>5. \A c \in CC : /\ \A i \in D(c), n \in NetsOf(x, c) : G(c, i) # F(n, c)
                      /\ \A m, n \in NetsOf(x, c) : m # n => F(m, c) # F(n, c)
    BY OwnNames
  <1>6. EndsPlan(x) <=>
          /\ \A n \in NN : EndsFree(x, n)
          /\ \A m, n \in NN : m < n => NetEnds(x, m) \cap NetEnds(x, n) = {}
          /\ \A c \in CC : \A i, k \in D(c) : i < k => L(c, i) # L(c, k)
          /\ \A c, d \in CC : c < d => ContEnds(x, c) \cap ContEnds(x, d) = {}
          /\ \A n \in NN, c \in CC : NetEnds(x, n) \cap ContEnds(x, c) = {}
    BY DEF EndsPlan, ContEndsFree, HName
  <1>7. EndsAsked(x) <=>
          /\ \A n \in NN : EndsFree(x, n)
          /\ \A m, n \in U : m # n => H(m) # H(n)
          /\ \A n \in U : \A c \in CC : \A i \in D(c) : H(n) # L(c, i)
          /\ \A c, d \in CC : \A i \in D(c) : \A k \in D(d) : <<c, i>> # <<d, k>> => L(c, i) # L(d, k)
    BY DEF EndsAsked
  <1> HIDE DEF NN, CC, U, H, L, D, C, F, G
  <1>a. ASSUME NEW n, NEW e, e \in NetEnds(x, n)
        PROVE  /\ \A m : e[1] = Router(m) => m = n
               /\ e[1] = Host => n \in U /\ e = <<Host, H(n)>>
               /\ \A c : e[1] = Cont(c) => c \in C(n) /\ e = <<Cont(c), F(n, c)>>
    <2>1. /\ \A s : <<Host, s>>[1] = Host
          /\ \A c, s : <<Cont(c), s>>[1] = Cont(c)
      OBVIOUS
    <2>2. CASE e[1] = Router(n)
      BY <2>2, Spaces
    <2>3. CASE \E c \in C(n) : e = <<Cont(c), F(n, c)>>
      <3>1. PICK c \in C(n) : e = <<Cont(c), F(n, c)>>
        BY <2>3
      <3>2. e[1] = Cont(c)
        BY <2>1, <3>1
      <3> QED  BY <3>1, <3>2, Spaces
    <2>4. CASE n \in U /\ e = <<Host, H(n)>>
      <3>1. e[1] = Host
        BY <2>1, <2>4
      <3> QED  BY <2>4, <3>1, Spaces
    <2> QED  BY <1>2, <1>a, <2>2, <2>3, <2>4
  <1>8. ASSUME NEW m \in NN, NEW n \in NN, m # n
        PROVE  NetEnds(x, m) \cap NetEnds(x, n) = {} <=> (m \in U /\ n \in U => H(m) # H(n))
    <2>1. ASSUME NEW e, e \in NetEnds(x, m), e \in NetEnds(x, n), m \in U /\ n \in U => H(m) # H(n) PROVE FALSE
      <3>1. CASE e[1] = Router(m)
        BY <1>a, <1>8, <2>1, <3>1
      <3>2. CASE \E c \in C(m) : e = <<Cont(c), F(m, c)>>
        <4>1. PICK c \in C(m) : e = <<Cont(c), F(m, c)>>
          BY <3>2
        <4>2. e[1] = Cont(c)
          BY <4>1
        <4>3. c \in C(n) /\ e = <<Cont(c), F(n, c)>>
          BY <1>a, <2>1, <4>2
        <4>4. F(m, c) = F(n, c)
          BY <4>1, <4>3
        <4> QED  BY <1>4, <1>5, <1>8, <4>3, <4>4
      <3>3. CASE m \in U /\ e = <<Host, H(m)>>
        <4>1. e[1] = Host
          BY <3>3
        <4>2. n \in U /\ e = <<Host, H(n)>>
          BY <1>a, <2>1, <4>1
        <4> QED  BY <2>1, <3>3, <4>2
      <3> QED  BY <1>2, <2>1, <3>1, <3>2, <3>3
    <2>2. ASSUME m \in U, n \in U, H(m) = H(n) PROVE \E e : e \in NetEnds(x, m) /\ e \in NetEnds(x, n)
      BY <1>2, <2>2
    <2> QED  BY <2>1, <2>2
  <1>9. ASSUME NEW c \in CC, NEW d \in CC, c # d
        PROVE  ContEnds(x, c) \cap ContEnds(x, d) = {} <=> \A i \in D(c) : \A k \in D(d) : L(c, i) # L(d, k)
    <2>1. ASSUME NEW e, e \in ContEnds(x, c), e \in ContEnds(x, d),
                 \A i \in D(c) : \A k \in D(d) : L(c, i) # L(d, k) PROVE FALSE
      <3>1. PICK i \in D(c) : e = <<Host, L(c, i)>> \/ e = <<Cont(c), G(c, i)>>
        BY <1>3, <2>1
      <3>2. PICK k \in D(d) : e = <<Host, L(d, k)>> \/ e = <<Cont(d), G(d, k)>>
        BY <1>3, <2>1
      <3> QED  BY <1>9, <2>1, <3>1, <3>2, Spaces
    <2>2. ASSUME NEW i \in D(c), NEW k \in D(d), L(c, i) = L(d, k)
          PROVE  \E e : e \in ContEnds(x, c) /\ e \in ContEnds(x, d)
      <3>1. <<Host, L(c, i)>> \in ContEnds(x, c) /\ <<Host, L(d, k)>> \in ContEnds(x, d)
        BY <1>3
      <3> QED  BY <2>2, <3>1
    <2> QED  BY <2>1, <2>2
  <1>10. ASSUME NEW n \in NN, NEW c \in CC
         PROVE  NetEnds(x, n) \cap ContEnds(x, c) = {} <=> (n \in U => \A i \in D(c) : H(n) # L(c, i))
    <2>1. ASSUME NEW e, e \in NetEnds(x, n), e \in ContEnds(x, c), n \in U => \A i \in D(c) : H(n) # L(c, i)
          PROVE  FALSE
      <3>1. PICK i \in D(c) : e = <<Host, L(c, i)>> \/ e = <<Cont(c), G(c, i)>>
        BY <1>3, <2>1
      <3>2. CASE e = <<Host, L(c, i)>>
        <4>1. e[1] = Host
          BY <3>2
        <4>2. n \in U /\ e = <<Host, H(n)>>
          BY <1>a, <2>1, <4>1
        <4> QED  BY <2>1, <3>2, <4>2
      <3>3. CASE e = <<Cont(c), G(c, i)>>
        <4>1. e[1] = Cont(c)
          BY <3>3
        <4>2. c \in C(n) /\ e = <<Cont(c), F(n, c)>>
          BY <1>a, <2>1, <4>1
        <4>3. G(c, i) = F(n, c)
          BY <3>3, <4>2
        <4> QED  BY <1>4, <1>5, <4>2, <4>3
      <3> QED  BY <3>1, <3>2, <3>3
    <2>2. ASSUME n \in U, NEW i \in D(c), H(n) = L(c, i) PROVE \E e : e \in NetEnds(x, n) /\ e \in ContEnds(x, c)
      <3>1. <<Host, H(n)>> \in NetEnds(x, n) /\ <<Host, L(c, i)>> \in ContEnds(x, c)
        BY <1>2, <1>3, <2>2
      <3> QED  BY <2>2, <3>1
    <2> QED  BY <2>1, <2>2
  <1>11. (\A m, n \in NN : m < n => NetEnds(x, m) \cap NetEnds(x, n) = {}) <=> \A m, n \in U : m # n => H(m) # H(n)
    <2>1. (\A m, n \in NN : m < n => NetEnds(x, m) \cap NetEnds(x, n) = {}) <=>
            \A m, n \in NN : m < n => (m \in U /\ n \in U => H(m) # H(n))
      BY <1>1, <1>00, <1>8
    <2> QED  BY <2>1, <1>1, <1>0, <1>00
  <1>12. /\ \A c \in CC : \A i, k \in D(c) : i < k => L(c, i) # L(c, k)
         /\ \A c, d \in CC : c < d => ContEnds(x, c) \cap ContEnds(x, d) = {}
         <=> \A c, d \in CC : \A i \in D(c) : \A k \in D(d) : <<c, i>> # <<d, k>> => L(c, i) # L(d, k)
    <2>1. (\A c, d \in CC : c < d => ContEnds(x, c) \cap ContEnds(x, d) = {}) <=>
            \A c, d \in CC : c < d => \A i \in D(c) : \A k \in D(d) : L(c, i) # L(d, k)
      BY <1>1, <1>00, <1>9
    <2>2. \A c, d, i, k : <<c, i>> # <<d, k>> <=> c # d \/ i # k
      OBVIOUS
    <2>3. ASSUME \A c \in CC : \A i, k \in D(c) : i < k => L(c, i) # L(c, k),
                 \A c, d \in CC : c < d => \A i \in D(c) : \A k \in D(d) : L(c, i) # L(d, k),
                 NEW c \in CC, NEW d \in CC, NEW i \in D(c), NEW k \in D(d), <<c, i>> # <<d, k>>
          PROVE  L(c, i) # L(d, k)
      <3>1. CASE c = d
        BY <1>0, <1>1, <2>2, <2>3, <3>1
      <3>2. CASE c # d
        BY <1>0, <1>1, <2>3, <3>2
      <3> QED  BY <3>1, <3>2
    <2>4. ASSUME \A c, d \in CC : \A i \in D(c) : \A k \in D(d) : <<c, i>> # <<d, k>> => L(c, i) # L(d, k)
          PROVE  /\ \A c \in CC : \A i, k \in D(c) : i < k => L(c, i) # L(c, k)
                 /\ \A c, d \in CC : c < d => \A i \in D(c) : \A k \in D(d) : L(c, i) # L(d, k)
      BY <1>00, <1>1, <2>2, <2>4
    <2> QED  BY <2>1, <2>3, <2>4
  <1>13. (\A n \in NN, c \in CC : NetEnds(x, n) \cap ContEnds(x, c) = {}) <=>
           \A n \in U : \A c \in CC : \A i \in D(c) : H(n) # L(c, i)
    BY <1>1, <1>10
  <1> QED  BY <1>6, <1>7, <1>11, <1>12, <1>13

(* The names fit exactly when no request for one is refused. *)
LEMMA NamesTaken ==
  ASSUME NEW x \in Configs, Accepted(x)
  PROVE  NamesFit(x) <=> EndsPlan(x) /\ \A r \in PlanSet(x) : r.op \in Naming => Alone(x, r)
  <1> DEFINE NN == Networks(x)
             CC == Containers(x)
             U  == Uplinked(x)
             H(n) == Uplink(x, n).hostIf
             L(c, i) == HName(x, c, i)
             D(c) == DOMAIN x.links[c]
  <1>1. \A s : Usable(s) <=> Clean(s) /\ Len(s) <= NameMax
    BY DEF Usable
  <1>2. \A s : s \in HostIfs(x) <=> \E n \in U : s = H(n)
    BY DEF HostIfs
  <1>3. U \subseteq NN
    BY DEF Uplinked
  <1>4. \A n \in NN : NetFits(x, n) <=>
          LET w == x.nets[n]
          IN  /\ Clean(w.gatewayIf) /\ w.gatewayIf # Lo
              /\ \A c \in DOMAIN w.attach : /\ Clean(RouterIf(c))
                                            /\ Clean(w.attach[c].interface) /\ w.attach[c].interface # Lo
              /\ n \in U => /\ Clean(H(n)) /\ H(n) # Lo
                            /\ Clean(Uplink(x, n).routerIf) /\ Uplink(x, n).routerIf # Lo
    <2> SUFFICES ASSUME NEW n \in NN
                 PROVE  NetFits(x, n) <=>
          LET w == x.nets[n]
          IN  /\ Clean(w.gatewayIf) /\ w.gatewayIf # Lo
              /\ \A c \in DOMAIN w.attach : /\ Clean(RouterIf(c))
                                            /\ Clean(w.attach[c].interface) /\ w.attach[c].interface # Lo
              /\ n \in U => /\ Clean(H(n)) /\ H(n) # Lo
                            /\ Clean(Uplink(x, n).routerIf) /\ Uplink(x, n).routerIf # Lo
      OBVIOUS
    <2>1. Fits(x, <<Router(n), x.nets[n].gatewayIf>>) <=> Clean(x.nets[n].gatewayIf) /\ x.nets[n].gatewayIf # Lo
      BY <1>1, FitsIs, NamesShort
    <2>2. \A c \in DOMAIN x.nets[n].attach : Fits(x, <<Router(n), RouterIf(c)>>) <=> Clean(RouterIf(c))
      BY <1>1, FitsIs, NamesShort
    <2>3. \A c \in DOMAIN x.nets[n].attach :
            LET s == x.nets[n].attach[c].interface IN Fits(x, <<Cont(c), s>>) <=> Clean(s) /\ s # Lo
      BY <1>1, FitsIs, NamesShort, Attached
    <2>4. n \in U => (Fits(x, <<Host, H(n)>>) <=> Clean(H(n)))
      <3>1. n \in U => H(n) \in HostIfs(x) /\ Len(H(n)) <= NameMax
        BY <1>2, NamesShort
      <3> QED  BY <1>1, <3>1, FitsIs
    <2>5. n \in U => LET s == Uplink(x, n).routerIf IN Fits(x, <<Router(n), s>>) <=> Clean(s) /\ s # Lo
      BY <1>1, FitsIs, NamesShort
    <2> QED  BY <2>1, <2>2, <2>3, <2>4, <2>5 DEF NetFits
  <1>5. \A n \in NN : NetNames(x, n) <=> EndsFree(x, n) /\ NetFits(x, n)
    BY <1>4 DEF NetNames
  <1>6. \A c \in CC : \A i \in D(c) : LinkFits(x, c, i) <=>
          /\ Clean(L(c, i)) /\ (L(c, i) \in Bridges => L(c, i) \in HostIfs(x))
          /\ Clean(x.links[c][i].name) /\ x.links[c][i].name # Lo
          /\ x.links[c][i].bridge \notin HostIfs(x)
    <2> SUFFICES ASSUME NEW c \in CC, NEW i \in D(c)
                 PROVE LinkFits(x, c, i) <=>
          /\ Clean(L(c, i)) /\ (L(c, i) \in Bridges => L(c, i) \in HostIfs(x))
          /\ Clean(x.links[c][i].name) /\ x.links[c][i].name # Lo
          /\ x.links[c][i].bridge \notin HostIfs(x)
      OBVIOUS
    <2> DEFINE s == L(c, i)
               t == x.links[c][i].name
               b == x.links[c][i].bridge
    <2>1. Len(s) <= NameMax /\ s # Lo /\ Len(t) <= NameMax /\ b \in Bridges \cup {<<>>}
      BY NamesShort
    <2>2. <<>> \notin HostIfs(x)
      BY <1>2, NamesShort
    <2>3. Fits(x, <<Host, s>>) <=> Usable(s) /\ (s = Lo \/ s \in Bridges => s \in HostIfs(x))
      BY FitsIs
    <2>4. Fits(x, <<Cont(c), t>>) <=> Usable(t) /\ t # Lo
      BY FitsIs
    <2>5. LinkFits(x, c, i) <=> Fits(x, <<Host, s>>) /\ Fits(x, <<Cont(c), t>>) /\ (b # <<>> => b \in Bridges \ HostIfs(x))
      BY DEF LinkFits
    <2> HIDE DEF s, t, b
    <2>6. LinkFits(x, c, i) <=> Clean(s) /\ (s \in Bridges => s \in HostIfs(x)) /\ Clean(t) /\ t # Lo /\ b \notin HostIfs(x)
      BY <1>1, <2>1, <2>2, <2>3, <2>4, <2>5
    <2> QED  BY <2>6 DEF s, t, b
  <1>7. \A c \in CC : \A i \in D(c) : LinkNames(x, c, i) <=>
          /\ LinkFits(x, c, i)
          /\ \A d \in CC : \A k \in D(d) : <<c, i>> # <<d, k>> => L(c, i) # L(d, k)
          /\ \A n \in U : H(n) # L(c, i)
    BY <1>6 DEF LinkNames
  <1>8. NamesFit(x) <=> NamesAsked(x)
    BY NamesAskedIs
  <1>9. NamesAsked(x) <=> /\ EndsAsked(x)
                          /\ \A n \in NN : NetFits(x, n)
                          /\ \A c \in CC : \A i \in D(c) : LinkFits(x, c, i)
    BY <1>5, <1>7 DEF NamesAsked, EndsAsked
  <1>10. EndsAsked(x) <=> EndsPlan(x)
    BY EndsAskedIs
  <1>11. (\A r \in PlanSet(x) : r.op \in Naming => Alone(x, r)) <=>
           /\ \A n \in NN : NetFits(x, n)
           /\ \A c \in CC : \A i \in D(c) : LinkFits(x, c, i)
    BY NamingIs
  <1> QED  BY <1>8, <1>9, <1>10, <1>11

------------------------------------------------------------------------------
(* The routes *)

(* What a network has and wants in a namespace. *)
NetsAt(x, n, ns, p) ==
  LET w == x.nets[n]
      own == n \in Uplinked(x) /\ \E c \in DOMAIN w.attach : p = Slash32(w.attach[c].ip)
      to(c) == /\ c \in DOMAIN w.attach
               /\ p = Slash32(w.gateway) \/ (OwnsDefault(x, n, c) /\ p = Everything)
  IN  /\ \A c : ns = Cont(c) => /\ <<ns, p>> \in NetHas(x, n) <=> to(c)
                                /\ <<ns, p>> \in NetWants(x, n) <=> to(c)
      /\ ns = Host => /\ <<ns, p>> \in NetWants(x, n) <=> own
                      /\ <<ns, p>> \in NetHas(x, n) <=>
                           own \/ (n \in Uplinked(x) /\ p = Masked(Prefix(Uplink(x, n).link, AddrBits - 1)))
      /\ \A m : ns = Router(m) /\ <<ns, p>> \in NetHas(x, n) \cup NetWants(x, n) => m = n
      /\ <<ns, p>> \in NetHas(x, n) \cup NetWants(x, n) => ns = Router(n) \/ ns = Host \/ \E c : ns = Cont(c)

(* A network's routes, by namespace. *)
LEMMA NetsByPlace ==
  ASSUME NEW x, NEW n, NEW ns, NEW p
  PROVE  NetsAt(x, n, ns, p)
  <1> DEFINE C == DOMAIN x.nets[n].attach
             U == n \in Uplinked(x)
             I(c) == Slash32(x.nets[n].attach[c].ip)
             O(c) == OwnsDefault(x, n, c)
             g == Slash32(x.nets[n].gateway)
             m1 == Masked(Prefix(Uplink(x, n).link, AddrBits - 1))
             m2 == Masked(Prefix(Uplink(x, n).link + 1, AddrBits - 1))
             e == <<ns, p>>
             T == UNION {ConnectNets(x, n, c) : c \in C}
             H == IF U THEN EdgeNets(x, n) ELSE {}
             W == IF U THEN EdgeOwn(x, n) ELSE {}
             R == Router(n)
             K(c) == Cont(c)
             E == Everything
  <1>1. NetHas(x, n) = T \cup H /\ NetWants(x, n) = T \cup W
    <2>1. NetHas(x, n) = T \cup H
      BY DEF NetHas
    <2>2. NetWants(x, n) = T \cup W
      BY DEF NetWants
    <2> QED  BY <2>1, <2>2
  <1>0. \A a, b : e = <<a, b>> <=> ns = a /\ p = b
    OBVIOUS
  <1>2. \A c : e \in ConnectNets(x, n, c) <=> \/ ns = R /\ p = I(c)
                                              \/ ns = K(c) /\ (p = g \/ (O(c) /\ p = E))
    <2> TAKE c
    <2>1. ConnectNets(x, n, c) = {<<R, I(c)>>, <<K(c), g>>} \cup (IF O(c) THEN {<<K(c), E>>} ELSE {})
      BY DEF ConnectNets
    <2>2. O(c) \in BOOLEAN
      BY DEF OwnsDefault
    <2> HIDE DEF R, I, K, g, E, O, e
    <2>3. e \in ConnectNets(x, n, c) <=> e = <<R, I(c)>> \/ e = <<K(c), g>> \/ (O(c) /\ e = <<K(c), E>>)
      BY <2>1, <2>2
    <2> QED  BY <1>0, <2>3
  <1>3. e \in EdgeOwn(x, n) <=> \/ ns = R /\ p = E
                                \/ ns = Host /\ \E c \in C : p = I(c)
    <2>1. EdgeOwn(x, n) = {<<R, E>>} \cup {<<Host, I(c)>> : c \in C}
      BY DEF EdgeOwn
    <2> HIDE DEF R, I, E, C, e
    <2>3. e \in EdgeOwn(x, n) <=> e = <<R, E>> \/ \E c \in C : e = <<Host, I(c)>>
      BY <2>1
    <2> QED  BY <1>0, <2>3
  <1>4. e \in EdgeNets(x, n) <=> \/ e \in EdgeOwn(x, n) \/ (ns = Host /\ p = m1) \/ (ns = R /\ p = m2)
    <2>1. EdgeNets(x, n) = EdgeOwn(x, n) \cup {<<Host, m1>>, <<R, m2>>}
      BY DEF EdgeNets
    <2> HIDE DEF R, m1, m2, e
    <2>3. e \in EdgeNets(x, n) <=> e \in EdgeOwn(x, n) \/ e = <<Host, m1>> \/ e = <<R, m2>>
      BY <2>1
    <2> QED  BY <1>0, <2>3
  <1>5. /\ R # Host /\ \A c : R # K(c)
        /\ \A c : K(c) # Host
        /\ \A c, d : K(c) = K(d) => c = d
        /\ \A m : Router(m) = R => m = n
        /\ \A m : Router(m) # Host
        /\ \A m, c : Router(m) # K(c)
    BY Spaces
  <1> HIDE DEF R, K, I, E, C, e, g, O, U, m1, m2
  <1>6. /\ e \in T <=> \E c \in C : \/ ns = R /\ p = I(c)
                                    \/ ns = K(c) /\ (p = g \/ (O(c) /\ p = E))
        /\ e \in W <=> U /\ ((ns = R /\ p = E) \/ (ns = Host /\ \E c \in C : p = I(c)))
        /\ e \in H <=> U /\ \/ (ns = R /\ p = E) \/ (ns = Host /\ \E c \in C : p = I(c))
                            \/ (ns = Host /\ p = m1) \/ (ns = R /\ p = m2)
    BY <1>2, <1>3, <1>4
  <1> HIDE DEF T, W, H
  <1>7. /\ e \in NetHas(x, n) <=> e \in T \/ e \in H
        /\ e \in NetWants(x, n) <=> e \in T \/ e \in W
    BY <1>1
  <1>8. ASSUME NEW c, ns = K(c)
        PROVE  /\ e \in NetHas(x, n) <=> c \in C /\ (p = g \/ (O(c) /\ p = E))
               /\ e \in NetWants(x, n) <=> c \in C /\ (p = g \/ (O(c) /\ p = E))
    BY <1>5, <1>6, <1>7, <1>8
  <1>9. ASSUME ns = Host
        PROVE  /\ e \in NetWants(x, n) <=> U /\ \E c \in C : p = I(c)
               /\ e \in NetHas(x, n) <=> (U /\ \E c \in C : p = I(c)) \/ (U /\ p = m1)
    BY <1>5, <1>6, <1>7, <1>9
  <1>10. e \in NetHas(x, n) \/ e \in NetWants(x, n) => ns = R \/ ns = Host \/ \E c : ns = K(c)
    BY <1>6, <1>7
  <1>11. ASSUME NEW m, ns = Router(m), e \in NetHas(x, n) \/ e \in NetWants(x, n) PROVE m = n
    BY <1>5, <1>10, <1>11
  <1> QED  BY <1>8, <1>9, <1>10, <1>11 DEF NetsAt, R, K, I, E, C, e, g, O, U, m1

(* What NetHas and NetWants are sets of. *)
LEMMA NetsPairs ==
  ASSUME NEW x, NEW n, NEW e
  PROVE  e \in NetHas(x, n) \cup NetWants(x, n) => e = <<e[1], e[2]>>
  <1> DEFINE P(s) == \A f \in s : f = <<f[1], f[2]>>
  <1>0. \A a, b : <<a, b>>[1] = a /\ <<a, b>>[2] = b
    OBVIOUS
  <1>1. \A c : P(ConnectNets(x, n, c))
    BY <1>0 DEF ConnectNets
  <1>2. P(EdgeOwn(x, n))
    BY <1>0 DEF EdgeOwn
  <1>3. P(EdgeNets(x, n))
    BY <1>0, <1>2 DEF EdgeNets
  <1> QED  BY <1>1, <1>2, <1>3 DEF NetHas, NetWants

(* A container's routes by the link that brings them. *)
LEMMA ContNetsAre ==
  ASSUME NEW x, NEW c
  PROVE  /\ \A e : e \in ContWants(x, c) <=> \E i \in DOMAIN x.links[c] : e \in LinkOwn(x, c, i)
         /\ \A e : e \in ContHas(x, c) <=>
              \E i \in DOMAIN x.links[c] : e \in LinkOwn(x, c, i) \/ e \in LinkWide(x, c, i)
  <1>1. \A e : e \in ContWants(x, c) <=> \E i \in DOMAIN x.links[c] : e \in LinkOwn(x, c, i)
    BY DEF ContWants
  <1>2. \A e : e \in ContHas(x, c) <=>
          \E i \in DOMAIN x.links[c] : e \in LinkOwn(x, c, i) \/ e \in LinkWide(x, c, i)
    BY DEF ContHas, LinkHas
  <1> QED  BY <1>1, <1>2

(* A link's routes, one by one. *)
LEMMA LinkNetsAre ==
  ASSUME NEW x, NEW c, NEW i, NEW e
  PROVE  /\ e \in LinkOwn(x, c, i) <=>
              \/ \E j \in DOMAIN x.links[c][i].routes : e = <<Cont(c), x.links[c][i].routes[j]>>
              \/ LinkDef(x, c, i) /\ e = <<Cont(c), Everything>>
         /\ e \in LinkWide(x, c, i) <=>
              x.links[c][i].address.bits < AddrBits /\ e = <<Cont(c), Masked(x.links[c][i].address)>>
  <1>1. e \in LinkOwn(x, c, i) <=>
          \/ \E j \in DOMAIN x.links[c][i].routes : e = <<Cont(c), x.links[c][i].routes[j]>>
          \/ LinkDef(x, c, i) /\ e = <<Cont(c), Everything>>
    BY DEF LinkOwn, LinkDef
  <1>2. e \in LinkWide(x, c, i) <=>
          x.links[c][i].address.bits < AddrBits /\ e = <<Cont(c), Masked(x.links[c][i].address)>>
    BY DEF LinkWide
  <1> QED  BY <1>1, <1>2

(* The clashes of routes that are left: of attachments that have one address,
   on one network or, by the host, on two with uplinks; of gateways; and of
   links with the routes of the networks and with each other. *)
NetsAsked(x) ==
  /\ \A n \in Networks(x) : Apart(DOMAIN x.nets[n].attach, LAMBDA c : x.nets[n].attach[c].ip)
  /\ \A m, n \in Uplinked(x) : m # n =>
        \A c \in DOMAIN x.nets[m].attach, d \in DOMAIN x.nets[n].attach :
           x.nets[m].attach[c].ip # x.nets[n].attach[d].ip
  /\ \A c \in Containers(x) :
        /\ \A m, n \in NetsOf(x, c) : m # n => x.nets[m].gateway # x.nets[n].gateway
        /\ ContNetsFree(x, c)
        /\ \A n \in NetsOf(x, c) : \A i \in DOMAIN x.links[c] : \A j \in DOMAIN x.links[c][i].routes :
             LET p == x.links[c][i].routes[j]
             IN  p # Slash32(x.nets[n].gateway) /\ (OwnsDefault(x, n, c) => p # Everything)

(* Those are all the clashes of routes. *)
LEMMA NetsAskedIs ==
  ASSUME NEW x \in Configs, Accepted(x)
  PROVE  NetsPlan(x) <=> NetsAsked(x)
  <1> DEFINE NN == Networks(x)
             CC == Containers(x)
             U  == Uplinked(x)
             C(n) == DOMAIN x.nets[n].attach
             I(n, c) == x.nets[n].attach[c].ip
             G(n) == x.nets[n].gateway
             O(n, c) == OwnsDefault(x, n, c)
             D(c) == DOMAIN x.links[c]
             J(c, i) == DOMAIN x.links[c][i].routes
             R(c, i, j) == x.links[c][i].routes[j]
             ApartAll == \A n \in NN : Apart(C(n), LAMBDA c : I(n, c))
             M(n) == Masked(Prefix(Uplink(x, n).link, AddrBits - 1))
  <1>1. /\ \A n \in NN : n \in Nat
        /\ \A c \in CC : c \in Nat
        /\ U \subseteq NN
    <2>1. NN \subseteq Nat /\ CC \subseteq Nat
      BY WiringAssumption DEF Ids
    <2>2. U \subseteq NN
      BY DEF Uplinked
    <2> QED  BY <2>1, <2>2
  <1>2. /\ \A i, j \in Nat : i # j => i < j \/ j < i
        /\ \A i, j \in Nat : i < j => i # j
    OBVIOUS
  <1>3. \A n \in NN : \A c : c \in C(n) => c \in CC
    BY Attached
  <1>4. \A c : \A n : n \in NetsOf(x, c) <=> n \in NN /\ c \in C(n)
    BY DEF NetsOf
  <1>5. \A n \in NN : \A c, p : /\ <<Cont(c), p>> \in NetHas(x, n) <=>
                                     c \in C(n) /\ (p = Slash32(G(n)) \/ (O(n, c) /\ p = Everything))
                                /\ <<Cont(c), p>> \in NetWants(x, n) <=>
                                     c \in C(n) /\ (p = Slash32(G(n)) \/ (O(n, c) /\ p = Everything))
    <2> SUFFICES ASSUME NEW n \in NN, NEW c, NEW p
                 PROVE  /\ <<Cont(c), p>> \in NetHas(x, n) <=>
                             c \in C(n) /\ (p = Slash32(G(n)) \/ (O(n, c) /\ p = Everything))
                        /\ <<Cont(c), p>> \in NetWants(x, n) <=>
                             c \in C(n) /\ (p = Slash32(G(n)) \/ (O(n, c) /\ p = Everything))
      OBVIOUS
    <2>1. NetsAt(x, n, Cont(c), p)
      BY NetsByPlace
    <2> QED  BY <2>1 DEF NetsAt
  <1>6. \A n \in NN : \A p : /\ <<Host, p>> \in NetWants(x, n) <=> n \in U /\ \E c \in C(n) : p = Slash32(I(n, c))
                             /\ <<Host, p>> \in NetHas(x, n) <=>
                                  (n \in U /\ \E c \in C(n) : p = Slash32(I(n, c))) \/ (n \in U /\ p = M(n))
    <2> SUFFICES ASSUME NEW n \in NN, NEW p
                 PROVE /\ <<Host, p>> \in NetWants(x, n) <=> n \in U /\ \E c \in C(n) : p = Slash32(I(n, c))
                       /\ <<Host, p>> \in NetHas(x, n) <=>
                            (n \in U /\ \E c \in C(n) : p = Slash32(I(n, c))) \/ (n \in U /\ p = M(n))
      OBVIOUS
    <2>1. NetsAt(x, n, Host, p)
      BY NetsByPlace
    <2> QED  BY <2>1 DEF NetsAt
  <1>7. \A n, ns, p : <<ns, p>> \in NetHas(x, n) \cup NetWants(x, n) =>
          /\ \A m : ns = Router(m) => m = n
          /\ ns = Router(n) \/ ns = Host \/ \E c : ns = Cont(c)
    <2>1. \A n, ns, p : NetsAt(x, n, ns, p)
      BY NetsByPlace
    <2> QED  BY <2>1 DEF NetsAt
  <1>8. \A n, e : e \in NetHas(x, n) \/ e \in NetWants(x, n) => e = <<e[1], e[2]>>
    BY NetsPairs
  <1>9. \A c, e : /\ e \in ContWants(x, c) <=> \E i \in D(c) : e \in LinkOwn(x, c, i)
                  /\ e \in ContHas(x, c) <=> \E i \in D(c) : e \in LinkOwn(x, c, i) \/ e \in LinkWide(x, c, i)
    BY ContNetsAre
  <1>10. \A c, i, e : /\ e \in LinkOwn(x, c, i) <=> \/ \E j \in J(c, i) : e = <<Cont(c), R(c, i, j)>>
                                                    \/ LinkDef(x, c, i) /\ e = <<Cont(c), Everything>>
                      /\ e \in LinkWide(x, c, i) => e[1] = Cont(c)
    <2> TAKE c, i, e
    <2>1. e \in LinkOwn(x, c, i) <=>
            (\E j \in J(c, i) : e = <<Cont(c), R(c, i, j)>>) \/ (LinkDef(x, c, i) /\ e = <<Cont(c), Everything>>)
      BY LinkNetsAre
    <2>2. e \in LinkWide(x, c, i) => e = <<Cont(c), Masked(x.links[c][i].address)>>
      BY LinkNetsAre
    <2>3. \A s : <<Cont(c), s>>[1] = Cont(c)
      OBVIOUS
    <2>4. e \in LinkWide(x, c, i) => e[1] = Cont(c)
      BY <2>2, <2>3
    <2> QED  BY <2>1, <2>4
  <1>11. \A m \in NN : \A c : c \in C(m) /\ O(m, c) =>
           /\ \A n \in NN : c \in C(n) /\ O(n, c) => m = n
           /\ \A i \in D(c) : ~LinkDef(x, c, i)
    <2> SUFFICES ASSUME NEW m \in NN, NEW c, c \in C(m), O(m, c)
                 PROVE  /\ \A n \in NN : c \in C(n) /\ O(n, c) => m = n
                        /\ \A i \in D(c) : ~LinkDef(x, c, i)
      OBVIOUS
    <2>1. c \in CC /\ m \in NetsOf(x, c)
      BY <1>3, <1>4
    <2>2. /\ \A k, n \in NetsOf(x, c) : OwnsDefault(x, k, c) /\ OwnsDefault(x, n, c) => k = n
          /\ \A n \in NetsOf(x, c) : OwnsDefault(x, n, c) => \A i \in DOMAIN x.links[c] : ~x.links[c][i].default
      BY <2>1, SoleDefault
    <2> QED  BY <1>4, <2>1, <2>2 DEF LinkDef
  <1>12. /\ \A a, b : Slash32(a) = Slash32(b) <=> a = b
         /\ \A a : Slash32(a) # Everything
         /\ \A n \in U : \A a : M(n) # Slash32(a)
    <2>1. \A n \in U : \A a : M(n) # Slash32(a)
      <3> SUFFICES ASSUME NEW n \in U, NEW a PROVE M(n) # Slash32(a)
        OBVIOUS
      <3>1. Uplink(x, n).link \in Nat /\ Uplink(x, n).link % 2 = 0
        BY UplinkIs
      <3>2. M(n).bits = AddrBits - 1
        BY <3>1, Twos
      <3>3. Slash32(a).bits = AddrBits /\ AddrBits \in Nat
        BY AddressesAre, LoweringAssumption
      <3> HIDE DEF M
      <3> QED  BY <3>2, <3>3
    <2> QED  BY <2>1, AddressesAre, All
  <1>13. NetsPlan(x) <=>
           /\ ApartAll
           /\ \A m, n \in NN : m < n => NetHas(x, m) \cap NetWants(x, n) = {}
           /\ \A c \in CC : ContNetsFree(x, c)
           /\ \A c, d \in CC : c < d => ContHas(x, c) \cap ContWants(x, d) = {}
           /\ \A n \in NN, c \in CC : NetHas(x, n) \cap ContWants(x, c) = {}
    BY DEF NetsPlan
  <1>14. NetsAsked(x) <=>
           /\ ApartAll
           /\ \A m, n \in U : m # n => \A c \in C(m), d \in C(n) : I(m, c) # I(n, d)
           /\ \A c \in CC :
                /\ \A m, n \in NetsOf(x, c) : m # n => G(m) # G(n)
                /\ ContNetsFree(x, c)
                /\ \A n \in NetsOf(x, c) : \A i \in D(c) : \A j \in J(c, i) :
                     R(c, i, j) # Slash32(G(n)) /\ (O(n, c) => R(c, i, j) # Everything)
    BY DEF NetsAsked
  <1>e. \A c, p, d, q : <<Cont(c), p>> = <<Cont(d), q>> => c = d /\ p = q
    BY Spaces
  <1>f. \A ns, p : <<ns, p>>[1] = ns /\ <<ns, p>>[2] = p
    OBVIOUS
  <1> HIDE DEF NN, CC, U, C, I, G, O, D, J, R, ApartAll, M
  <1>15. ASSUME NEW m \in NN, NEW n \in NN, m # n
         PROVE  NetHas(x, m) \cap NetWants(x, n) = {} <=>
                  /\ m \in U /\ n \in U => \A c \in C(m), d \in C(n) : I(m, c) # I(n, d)
                  /\ \A c \in CC : m \in NetsOf(x, c) /\ n \in NetsOf(x, c) => G(m) # G(n)
    <2>1. ASSUME NEW e, e \in NetHas(x, m), e \in NetWants(x, n),
                 m \in U /\ n \in U => \A c \in C(m), d \in C(n) : I(m, c) # I(n, d),
                 \A c \in CC : m \in NetsOf(x, c) /\ n \in NetsOf(x, c) => G(m) # G(n)
          PROVE  FALSE
      <3>1. PICK ns, p : e = <<ns, p>>
        BY <1>8, <2>1
      <3>2. CASE ns = Router(m)
        BY <1>7, <1>15, <2>1, <3>1, <3>2
      <3>3. CASE ns = Host
        <4>1. n \in U /\ \E c \in C(n) : p = Slash32(I(n, c))
          BY <1>6, <2>1, <3>1, <3>3
        <4>2. (m \in U /\ \E c \in C(m) : p = Slash32(I(m, c))) \/ (m \in U /\ p = M(m))
          BY <1>6, <2>1, <3>1, <3>3
        <4> QED  BY <1>12, <2>1, <4>1, <4>2
      <3>4. CASE \E c : ns = Cont(c)
        <4>1. PICK c : ns = Cont(c)
          BY <3>4
        <4>2. /\ c \in C(m) /\ (p = Slash32(G(m)) \/ (O(m, c) /\ p = Everything))
              /\ c \in C(n) /\ (p = Slash32(G(n)) \/ (O(n, c) /\ p = Everything))
          BY <1>5, <2>1, <3>1, <4>1
        <4>3. G(m) # G(n)
          BY <1>3, <1>4, <2>1, <4>2
        <4> QED  BY <1>11, <1>12, <1>15, <4>2, <4>3
      <3> QED  BY <1>7, <2>1, <3>1, <3>2, <3>3, <3>4
    <2>2. ASSUME NetHas(x, m) \cap NetWants(x, n) = {}, m \in U, n \in U,
                 NEW c \in C(m), NEW d \in C(n), I(m, c) = I(n, d) PROVE FALSE
      <3>1. <<Host, Slash32(I(m, c))>> \in NetHas(x, m) /\ <<Host, Slash32(I(n, d))>> \in NetWants(x, n)
        BY <1>6, <2>2
      <3> QED  BY <2>2, <3>1
    <2>3. ASSUME NetHas(x, m) \cap NetWants(x, n) = {}, NEW c \in CC, m \in NetsOf(x, c), n \in NetsOf(x, c),
                 G(m) = G(n) PROVE FALSE
      <3>1. <<Cont(c), Slash32(G(m))>> \in NetHas(x, m) /\ <<Cont(c), Slash32(G(n))>> \in NetWants(x, n)
        BY <1>4, <1>5, <2>3
      <3> QED  BY <2>3, <3>1
    <2> QED  BY <2>1, <2>2, <2>3
  <1>16. ASSUME NEW c \in CC, NEW d \in CC, c < d PROVE ContHas(x, c) \cap ContWants(x, d) = {}
    <2> SUFFICES ASSUME NEW e, e \in ContHas(x, c), e \in ContWants(x, d) PROVE FALSE
      OBVIOUS
    <2>1. e[1] = Cont(c) /\ e[1] = Cont(d)
      BY <1>9, <1>10, <1>f
    <2> QED  BY <1>1, <1>2, <1>16, <2>1, Spaces
  <1>17. ASSUME NEW n \in NN, NEW c \in CC
         PROVE  NetHas(x, n) \cap ContWants(x, c) = {} <=>
                  (n \in NetsOf(x, c) => \A i \in D(c) : \A j \in J(c, i) :
                     R(c, i, j) # Slash32(G(n)) /\ (O(n, c) => R(c, i, j) # Everything))
    <2>1. ASSUME NEW e, e \in NetHas(x, n), e \in ContWants(x, c),
                 n \in NetsOf(x, c) => \A i \in D(c) : \A j \in J(c, i) :
                     R(c, i, j) # Slash32(G(n)) /\ (O(n, c) => R(c, i, j) # Everything)
          PROVE  FALSE
      <3>1. PICK i \in D(c) : \/ \E j \in J(c, i) : e = <<Cont(c), R(c, i, j)>>
                              \/ LinkDef(x, c, i) /\ e = <<Cont(c), Everything>>
        BY <1>9, <1>10, <2>1
      <3>2. CASE \E j \in J(c, i) : e = <<Cont(c), R(c, i, j)>>
        <4>1. PICK j \in J(c, i) : e = <<Cont(c), R(c, i, j)>>
          BY <3>2
        <4>2. c \in C(n) /\ (R(c, i, j) = Slash32(G(n)) \/ (O(n, c) /\ R(c, i, j) = Everything))
          BY <1>5, <2>1, <4>1
        <4> QED  BY <1>4, <2>1, <4>2
      <3>3. CASE LinkDef(x, c, i) /\ e = <<Cont(c), Everything>>
        <4>1. c \in C(n) /\ (Everything = Slash32(G(n)) \/ O(n, c))
          BY <1>5, <2>1, <3>3
        <4> QED  BY <1>11, <1>12, <3>3, <4>1
      <3> QED  BY <3>1, <3>2, <3>3
    <2>2. ASSUME NetHas(x, n) \cap ContWants(x, c) = {}, n \in NetsOf(x, c), NEW i \in D(c), NEW j \in J(c, i)
          PROVE  R(c, i, j) # Slash32(G(n)) /\ (O(n, c) => R(c, i, j) # Everything)
      <3>1. <<Cont(c), R(c, i, j)>> \in ContWants(x, c)
        BY <1>9, <1>10
      <3>2. <<Cont(c), R(c, i, j)>> \notin NetHas(x, n)
        BY <2>2, <3>1
      <3> QED  BY <1>4, <1>5, <2>2, <3>2
    <2> QED  BY <2>1, <2>2
  <1>18. (\A m, n \in NN : m < n => NetHas(x, m) \cap NetWants(x, n) = {}) <=>
           /\ \A m, n \in U : m # n => \A c \in C(m), d \in C(n) : I(m, c) # I(n, d)
           /\ \A c \in CC : \A m, n \in NetsOf(x, c) : m # n => G(m) # G(n)
    <2>1. ASSUME \A m, n \in NN : m < n => NetHas(x, m) \cap NetWants(x, n) = {}
          PROVE  /\ \A m, n \in U : m # n => \A c \in C(m), d \in C(n) : I(m, c) # I(n, d)
                 /\ \A c \in CC : \A m, n \in NetsOf(x, c) : m # n => G(m) # G(n)
      <3>1. \A m, n \in NN : m < n =>
              /\ m \in U /\ n \in U => \A c \in C(m), d \in C(n) : I(m, c) # I(n, d)
              /\ \A c \in CC : m \in NetsOf(x, c) /\ n \in NetsOf(x, c) => G(m) # G(n)
        BY <1>1, <1>2, <1>15, <2>1
      <3>2. \A m, n \in U : m # n => \A c \in C(m), d \in C(n) : I(m, c) # I(n, d)
        <4> SUFFICES ASSUME NEW m \in U, NEW n \in U, m # n, NEW c \in C(m), NEW d \in C(n)
                     PROVE  I(m, c) # I(n, d)
          OBVIOUS
        <4>1. m \in NN /\ n \in NN /\ (m < n \/ n < m)
          BY <1>1, <1>2
        <4> QED  BY <3>1, <4>1
      <3>3. \A c \in CC : \A m, n \in NetsOf(x, c) : m # n => G(m) # G(n)
        <4> SUFFICES ASSUME NEW c \in CC, NEW m \in NetsOf(x, c), NEW n \in NetsOf(x, c), m # n
                     PROVE  G(m) # G(n)
          OBVIOUS
        <4>1. m \in NN /\ n \in NN /\ (m < n \/ n < m)
          BY <1>1, <1>2, <1>4
        <4> QED  BY <3>1, <4>1
      <3> QED  BY <3>2, <3>3
    <2>2. ASSUME \A m, n \in U : m # n => \A c \in C(m), d \in C(n) : I(m, c) # I(n, d),
                 \A c \in CC : \A m, n \in NetsOf(x, c) : m # n => G(m) # G(n),
                 NEW m \in NN, NEW n \in NN, m < n
          PROVE  NetHas(x, m) \cap NetWants(x, n) = {}
      <3>1. m # n
        BY <1>1, <1>2, <2>2
      <3>2. m \in U /\ n \in U => \A c \in C(m), d \in C(n) : I(m, c) # I(n, d)
        BY <2>2, <3>1
      <3>3. \A c \in CC : m \in NetsOf(x, c) /\ n \in NetsOf(x, c) => G(m) # G(n)
        BY <2>2, <3>1
      <3> QED  BY <1>15, <3>1, <3>2, <3>3
    <2> QED  BY <2>1, <2>2
  <1>19. (\A n \in NN, c \in CC : NetHas(x, n) \cap ContWants(x, c) = {}) <=>
           \A c \in CC : \A n \in NetsOf(x, c) : \A i \in D(c) : \A j \in J(c, i) :
             R(c, i, j) # Slash32(G(n)) /\ (O(n, c) => R(c, i, j) # Everything)
    BY <1>4, <1>17
  <1>20. \A c, d \in CC : c < d => ContHas(x, c) \cap ContWants(x, d) = {}
    BY <1>16
  <1> QED  BY <1>13, <1>14, <1>18, <1>19, <1>20

(* The routes a link finds in its container, RoutesFit's before. *)
Before(x, c, i, j) ==
  LET ls  == x.links[c]
      gws == {Slash32(x.nets[n].gateway) : n \in NetsOf(x, c)}
      def == {Everything : n \in {m \in NetsOf(x, c) : OwnsDefault(x, m, c)}}
  IN  gws \cup def \cup {Masked(ls[k].address) : k \in {q \in 1..i : ls[q].address.bits < AddrBits}}
          \cup (UNION {{ls[k].routes[m] : m \in {q \in DOMAIN ls[k].routes : k < i \/ q < j}} : k \in 1..i})
          \cup {Everything : k \in {q \in 1..(i - 1) : ls[q].default /\ ls[q].gateway # NoAddr}}
LinkRoutesFit(x, c, i) ==
  LET l == x.links[c][i]
  IN  /\ l.mac # "bad"
      /\ \A j \in DOMAIN l.routes : Masked(l.routes[j]) = l.routes[j] /\ l.routes[j] \notin Before(x, c, i, j)
      /\ LinkDef(x, c, i) => /\ Covers(l.address, l.gateway) /\ l.address.bits < AddrBits
                             /\ Everything \notin Before(x, c, i, Len(l.routes) + 1)

(* RoutesFit, one link at a time. *)
LEMMA RoutesFitIs ==
  ASSUME NEW x
  PROVE  RoutesFit(x) <=>
           /\ \A n \in Networks(x) : Apart(DOMAIN x.nets[n].attach, LAMBDA c : x.nets[n].attach[c].ip)
           /\ \A m, n \in Uplinked(x) : m # n =>
                \A c \in DOMAIN x.nets[m].attach, d \in DOMAIN x.nets[n].attach :
                   x.nets[m].attach[c].ip # x.nets[n].attach[d].ip
           /\ \A c \in Containers(x) :
                /\ \A m, n \in NetsOf(x, c) : m # n => x.nets[m].gateway # x.nets[n].gateway
                /\ \A i \in DOMAIN x.links[c] : LinkRoutesFit(x, c, i)
  <1> DEFINE b(c, i, j) ==
               LET ls  == x.links[c]
                   gws == {Slash32(x.nets[n].gateway) : n \in NetsOf(x, c)}
                   def == {Everything : n \in {m \in NetsOf(x, c) : OwnsDefault(x, m, c)}}
               IN  gws \cup def \cup {Masked(ls[k].address) : k \in {q \in 1..i : ls[q].address.bits < AddrBits}}
                       \cup (UNION {{ls[k].routes[m] : m \in {q \in DOMAIN ls[k].routes : k < i \/ q < j}} : k \in 1..i})
                       \cup {Everything : k \in {q \in 1..(i - 1) : ls[q].default /\ ls[q].gateway # NoAddr}}
             Own(c) == /\ Apart(NetsOf(x, c), LAMBDA n : x.nets[n].gateway)
                       /\ \A i \in DOMAIN x.links[c] :
                            /\ x.links[c][i].mac # "bad"
                            /\ \A j \in DOMAIN x.links[c][i].routes :
                                 /\ Masked(x.links[c][i].routes[j]) = x.links[c][i].routes[j]
                                 /\ x.links[c][i].routes[j] \notin b(c, i, j)
                            /\ x.links[c][i].default /\ x.links[c][i].gateway # NoAddr =>
                                 /\ Covers(x.links[c][i].address, x.links[c][i].gateway)
                                 /\ x.links[c][i].address.bits < AddrBits
                                 /\ Everything \notin b(c, i, Len(x.links[c][i].routes) + 1)
             A1 == \A n \in Networks(x) : Apart(DOMAIN x.nets[n].attach, LAMBDA c : x.nets[n].attach[c].ip)
             A2 == \A m, n \in Uplinked(x) : m # n =>
                     \A c \in DOMAIN x.nets[m].attach, d \in DOMAIN x.nets[n].attach :
                        x.nets[m].attach[c].ip # x.nets[n].attach[d].ip
  <1>1. RoutesFit(x) <=> A1 /\ A2 /\ \A c \in Containers(x) : Own(c)
    BY DEF RoutesFit
  <1>2. \A c, i, j : b(c, i, j) = Before(x, c, i, j)
    BY DEF Before
  <1>3. \A c : Own(c) <=> /\ \A m, n \in NetsOf(x, c) : m # n => x.nets[m].gateway # x.nets[n].gateway
                          /\ \A i \in DOMAIN x.links[c] : LinkRoutesFit(x, c, i)
    <2> HIDE DEF b
    <2> QED  BY <1>2 DEF Apart, LinkRoutesFit, LinkDef
  <1> HIDE DEF Own, A1, A2
  <1>4. RoutesFit(x) <=> /\ A1 /\ A2
                         /\ \A c \in Containers(x) :
                              /\ \A m, n \in NetsOf(x, c) : m # n => x.nets[m].gateway # x.nets[n].gateway
                              /\ \A i \in DOMAIN x.links[c] : LinkRoutesFit(x, c, i)
    BY <1>1, <1>3
  <1> QED  BY <1>4 DEF A1, A2

(* The routes a link finds when it adds its own, one by one. *)
LEMMA BeforeIs ==
  ASSUME NEW x, NEW c, NEW i, NEW j, NEW p
  PROVE  p \in Before(x, c, i, j) <=>
           \/ \E n \in NetsOf(x, c) : p = Slash32(x.nets[n].gateway)
           \/ p = Everything /\ \E n \in NetsOf(x, c) : OwnsDefault(x, n, c)
           \/ \E k \in 1..i : x.links[c][k].address.bits < AddrBits /\ p = Masked(x.links[c][k].address)
           \/ \E k \in 1..i : \E m \in DOMAIN x.links[c][k].routes : (k < i \/ m < j) /\ p = x.links[c][k].routes[m]
           \/ p = Everything /\ \E k \in 1..(i - 1) : LinkDef(x, c, k)
  <1> DEFINE N == NetsOf(x, c)
             G(n) == Slash32(x.nets[n].gateway)
             O(n) == OwnsDefault(x, n, c)
             W(k) == x.links[c][k].address.bits < AddrBits
             M(k) == Masked(x.links[c][k].address)
             J(k) == DOMAIN x.links[c][k].routes
             R(k, m) == x.links[c][k].routes[m]
             L(k) == LinkDef(x, c, k)
             A == {G(n) : n \in N}
             B == {Everything : n \in {m \in N : O(m)}}
             C == {M(k) : k \in {q \in 1..i : W(q)}}
             D == UNION {{R(k, m) : m \in {q \in J(k) : k < i \/ q < j}} : k \in 1..i}
             E == {Everything : k \in {q \in 1..(i - 1) : L(q)}}
  <1>1. Before(x, c, i, j) = A \cup B \cup C \cup D \cup E
    BY DEF Before, LinkDef
  <1> HIDE DEF N, G, O, W, M, J, R, L
  <1>2. p \in A <=> \E n \in N : p = G(n)
    OBVIOUS
  <1>3. p \in B <=> p = Everything /\ \E n \in N : O(n)
    OBVIOUS
  <1>4. p \in C <=> \E k \in 1..i : W(k) /\ p = M(k)
    OBVIOUS
  <1>5. p \in D <=> \E k \in 1..i : \E m \in J(k) : (k < i \/ m < j) /\ p = R(k, m)
    OBVIOUS
  <1>6. p \in E <=> p = Everything /\ \E k \in 1..(i - 1) : L(k)
    OBVIOUS
  <1> HIDE DEF A, B, C, D, E
  <1>7. p \in Before(x, c, i, j) <=> p \in A \/ p \in B \/ p \in C \/ p \in D \/ p \in E
    BY <1>1
  <1> QED  BY <1>2, <1>3, <1>4, <1>5, <1>6, <1>7 DEF N, G, O, W, M, J, R, L

(* The requests about routes and hardware addresses, each for itself. *)
LEMMA RoutingIs ==
  ASSUME NEW x \in Configs, Accepted(x)
  PROVE  (\A r \in PlanSet(x) : r.op \in {"mac", "route"} => Alone(x, r)) <=>
           \A c \in Containers(x) : \A i \in DOMAIN x.links[c] :
             /\ x.links[c][i].mac # "bad"
             /\ \A j \in DOMAIN x.links[c][i].routes : Masked(x.links[c][i].routes[j]) = x.links[c][i].routes[j]
  <1>0. \A r : PlanOps(x, r)
    BY PlanByOp
  <1>1. (\A r \in PlanSet(x) : r.op = "mac" => Alone(x, r)) <=>
          \A c \in Containers(x) : \A i \in DOMAIN x.links[c] : x.links[c][i].mac # "bad"
    <2>1. \A r : r \in PlanSet(x) /\ r.op = "mac" <=>
            \E c \in Containers(x) : \E i \in DOMAIN x.links[c] :
              x.links[c][i].mac # "" /\ r = Mac(Cont(c), x.links[c][i].name, x.links[c][i].mac)
      BY <1>0 DEF PlanOps, PlanMacs
    <2>2. \A ns, dev, m : Alone(x, Mac(ns, dev, m)) <=> m # "bad"
      <3> TAKE ns, dev, m
      <3> DEFINE r == Mac(ns, dev, m)
      <3>1. r.op = "mac" /\ r.mac = m
        BY Fields
      <3> HIDE DEF r
      <3> QED  BY <3>1 DEF Alone, r
    <2> DEFINE m(c, i) == x.links[c][i].mac
               K(c, i) == Mac(Cont(c), x.links[c][i].name, m(c, i))
    <2>3. \A c, i : Alone(x, K(c, i)) <=> m(c, i) # "bad"
      BY <2>2
    <2>4. \A r : r \in PlanSet(x) /\ r.op = "mac" <=>
            \E c \in Containers(x) : \E i \in DOMAIN x.links[c] : m(c, i) # "" /\ r = K(c, i)
      BY <2>1
    <2> HIDE DEF m, K
    <2>5. (\A r \in PlanSet(x) : r.op = "mac" => Alone(x, r)) <=>
            \A c \in Containers(x) : \A i \in DOMAIN x.links[c] : m(c, i) # "" => Alone(x, K(c, i))
      <3>1. ASSUME \A r \in PlanSet(x) : r.op = "mac" => Alone(x, r),
                   NEW c \in Containers(x), NEW i \in DOMAIN x.links[c], m(c, i) # ""
            PROVE  Alone(x, K(c, i))
        <4>1. K(c, i) \in PlanSet(x) /\ K(c, i).op = "mac"
          BY <2>4, <3>1
        <4> QED  BY <3>1, <4>1
      <3>2. ASSUME \A c \in Containers(x) : \A i \in DOMAIN x.links[c] : m(c, i) # "" => Alone(x, K(c, i)),
                   NEW r \in PlanSet(x), r.op = "mac"
            PROVE  Alone(x, r)
        <4>1. PICK c \in Containers(x) : \E i \in DOMAIN x.links[c] : m(c, i) # "" /\ r = K(c, i)
          BY <2>4, <3>2
        <4>2. PICK i \in DOMAIN x.links[c] : m(c, i) # "" /\ r = K(c, i)
          BY <4>1
        <4> QED  BY <3>2, <4>2
      <3> QED  BY <3>1, <3>2
    <2>6. (\A c \in Containers(x) : \A i \in DOMAIN x.links[c] : m(c, i) # "" => Alone(x, K(c, i))) <=>
            \A c \in Containers(x) : \A i \in DOMAIN x.links[c] : m(c, i) # "bad"
      BY <2>3
    <2> QED  BY <2>5, <2>6 DEF m
  <1>2. \A ns, dst, dev, via, scope : Alone(x, Route(ns, dst, dev, via, scope)) <=> Masked(dst) = dst
    <2> TAKE ns, dst, dev, via, scope
    <2> DEFINE r == Route(ns, dst, dev, via, scope)
    <2>1. r.op = "route" /\ r.dst = dst
      BY Fields
    <2> HIDE DEF r
    <2> QED  BY <2>1 DEF Alone, r
  <1>3. /\ Masked(Everything) = Everything
        /\ \A n \in Networks(x) : /\ Masked(Slash32(x.nets[n].gateway)) = Slash32(x.nets[n].gateway)
                                  /\ \A c \in DOMAIN x.nets[n].attach :
                                       Masked(Slash32(x.nets[n].attach[c].ip)) = Slash32(x.nets[n].attach[c].ip)
    <2>1. \A n \in Networks(x) : x.nets[n].gateway \in Int /\ \A c \in DOMAIN x.nets[n].attach : x.nets[n].attach[c].ip \in Int
      BY WiringAssumption, AddressesAre
    <2>2. \A a \in Int : Masked(Slash32(a)) = Slash32(a)
      BY Ones
    <2> QED  BY <2>1, <2>2, All
  <1>4. ASSUME NEW n \in Networks(x), NEW r, NetRoutes(x, n, r) PROVE Alone(x, r)
    <2>1. \A c \in DOMAIN x.nets[n].attach : /\ Alone(x, RouteIn(x, n, c)) /\ Alone(x, RouteOut(x, n, c))
                                             /\ Alone(x, RouteDef(x, n, c)) /\ Alone(x, EdgeRoute(x, n, c))
      BY <1>2, <1>3 DEF RouteIn, RouteOut, RouteDef, EdgeRoute
    <2>2. Alone(x, RouteUplink(x, n))
      BY <1>2, <1>3 DEF RouteUplink
    <2> QED  BY <1>4, <2>1, <2>2 DEF NetRoutes
  <1>5. \A c, i : Alone(x, RouteLink(x, c, i))
    BY <1>2, <1>3 DEF RouteLink
  <1>6. \A c, i, j : Alone(x, LinkRoute(x, c, i, j)) <=> Masked(x.links[c][i].routes[j]) = x.links[c][i].routes[j]
    BY <1>2 DEF LinkRoute
  <1>7. (\A r \in PlanSet(x) : r.op = "route" => Alone(x, r)) <=>
          \A c \in Containers(x) : \A i \in DOMAIN x.links[c] :
            \A j \in DOMAIN x.links[c][i].routes : Masked(x.links[c][i].routes[j]) = x.links[c][i].routes[j]
    <2>1. \A r : r \in PlanSet(x) /\ r.op = "route" <=>
            \/ \E n \in Networks(x) : NetRoutes(x, n, r)
            \/ \E c \in Containers(x) : \E i \in DOMAIN x.links[c] :
                 \/ \E j \in DOMAIN x.links[c][i].routes : r = LinkRoute(x, c, i, j)
                 \/ LinkDef(x, c, i) /\ r = RouteLink(x, c, i)
      BY <1>0 DEF PlanOps, PlanRoutes, ContRoutes
    <2> QED  BY <2>1, <1>4, <1>5, <1>6
  <1> QED  BY <1>1, <1>7

(* Two links of a container get in each other's way. *)
LinksApart(x, c, k, i) ==
  LET R(q) == x.links[c][q].routes
      W(q) == x.links[c][q].address.bits < AddrBits
      M(q) == Masked(x.links[c][q].address)
  IN  /\ \A j \in DOMAIN R(i) : /\ \A m \in DOMAIN R(k) : R(k)[m] # R(i)[j]
                                /\ W(k) => M(k) # R(i)[j]
                                /\ LinkDef(x, c, k) => R(i)[j] # Everything
      /\ LinkDef(x, c, i) => /\ \A m \in DOMAIN R(k) : R(k)[m] # Everything
                             /\ W(k) => M(k) # Everything
                             /\ ~LinkDef(x, c, k)

(* Two links clash by their routes, their networks and their defaults. *)
LEMMA LinksApartIs ==
  ASSUME NEW x, NEW c, NEW k, NEW i
  PROVE  LinkHas(x, c, k) \cap LinkOwn(x, c, i) = {} <=> LinksApart(x, c, k, i)
  <1> DEFINE J(q) == DOMAIN x.links[c][q].routes
             R(q, j) == x.links[c][q].routes[j]
             W(q) == x.links[c][q].address.bits < AddrBits
             M(q) == Masked(x.links[c][q].address)
             L(q) == LinkDef(x, c, q)
             K == Cont(c)
             E == Everything
             Own(q, p) == (\E j \in J(q) : p = R(q, j)) \/ (L(q) /\ p = E)
  <1>1. \A q, e : /\ e \in LinkOwn(x, c, q) <=> (\E j \in J(q) : e = <<K, R(q, j)>>) \/ (L(q) /\ e = <<K, E>>)
                  /\ e \in LinkWide(x, c, q) <=> W(q) /\ e = <<K, M(q)>>
    BY LinkNetsAre
  <1>2. \A e : e \in LinkHas(x, c, k) <=> e \in LinkOwn(x, c, k) \/ e \in LinkWide(x, c, k)
    BY DEF LinkHas
  <1>3. LinksApart(x, c, k, i) <=>
          /\ \A j \in J(i) : /\ \A m \in J(k) : R(k, m) # R(i, j)
                             /\ W(k) => M(k) # R(i, j)
                             /\ L(k) => R(i, j) # E
          /\ L(i) => /\ \A m \in J(k) : R(k, m) # E
                     /\ W(k) => M(k) # E
                     /\ ~L(k)
    BY DEF LinksApart
  <1>e. \A p, q : <<K, p>> = <<K, q>> <=> p = q
    OBVIOUS
  <1> HIDE DEF J, R, W, M, L, K, E
  <1>4. \A q, e : e \in LinkOwn(x, c, q) => \E p : e = <<K, p>>
    BY <1>1
  <1>5. \A q, p : <<K, p>> \in LinkOwn(x, c, q) <=> Own(q, p)
    BY <1>1, <1>e
  <1>6. \A p : <<K, p>> \in LinkHas(x, c, k) <=> Own(k, p) \/ (W(k) /\ p = M(k))
    BY <1>1, <1>2, <1>5, <1>e
  <1>7. LinkHas(x, c, k) \cap LinkOwn(x, c, i) = {} <=> \A p : ~(Own(i, p) /\ (Own(k, p) \/ (W(k) /\ p = M(k))))
    <2>1. ASSUME NEW e, e \in LinkHas(x, c, k), e \in LinkOwn(x, c, i)
          PROVE  \E p : Own(i, p) /\ (Own(k, p) \/ (W(k) /\ p = M(k)))
      BY <1>4, <1>5, <1>6, <2>1
    <2>2. ASSUME NEW p, Own(i, p), Own(k, p) \/ (W(k) /\ p = M(k))
          PROVE  \E e : e \in LinkHas(x, c, k) /\ e \in LinkOwn(x, c, i)
      BY <1>5, <1>6, <2>2
    <2> HIDE DEF Own
    <2> QED  BY <2>1, <2>2
  <1>8. (\A p : ~(Own(i, p) /\ (Own(k, p) \/ (W(k) /\ p = M(k))))) <=> LinksApart(x, c, k, i)
    <2>1. ASSUME \A p : ~(Own(i, p) /\ (Own(k, p) \/ (W(k) /\ p = M(k)))) PROVE LinksApart(x, c, k, i)
      <3>1. ASSUME NEW j \in J(i) PROVE /\ \A m \in J(k) : R(k, m) # R(i, j)
                                        /\ W(k) => M(k) # R(i, j)
                                        /\ L(k) => R(i, j) # E
        <4>1. Own(i, R(i, j))
          OBVIOUS
        <4>2. ~(Own(k, R(i, j)) \/ (W(k) /\ R(i, j) = M(k)))
          BY <2>1, <4>1
        <4> QED  BY <4>2
      <3>2. ASSUME L(i) PROVE /\ \A m \in J(k) : R(k, m) # E
                              /\ W(k) => M(k) # E
                              /\ ~L(k)
        <4>1. Own(i, E)
          BY <3>2
        <4>2. ~(Own(k, E) \/ (W(k) /\ E = M(k)))
          BY <2>1, <4>1
        <4> QED  BY <4>2
      <3> QED  BY <1>3, <3>1, <3>2
    <2>2. ASSUME LinksApart(x, c, k, i), NEW p, Own(i, p), Own(k, p) \/ (W(k) /\ p = M(k)) PROVE FALSE
      <3>1. CASE L(i) /\ p = E
        BY <1>3, <2>2, <3>1
      <3>2. CASE \E j \in J(i) : p = R(i, j)
        BY <1>3, <2>2, <3>2
      <3> QED  BY <2>2, <3>1, <3>2
    <2> QED  BY <2>1, <2>2
  <1> QED  BY <1>7, <1>8

(* What a link asks of its routes is what its requests ask. *)
LEMMA LinkTaken ==
  ASSUME NEW x \in Configs, Accepted(x), NEW c \in Containers(x), NEW i \in DOMAIN x.links[c]
  PROVE  LinkRoutesFit(x, c, i) <=>
           /\ x.links[c][i].mac # "bad"
           /\ \A j \in DOMAIN x.links[c][i].routes : Masked(x.links[c][i].routes[j]) = x.links[c][i].routes[j]
           /\ LinkServes(x, c, i) /\ LinkFree(x, c, i)
           /\ \A n \in NetsOf(x, c) : \A j \in DOMAIN x.links[c][i].routes :
                LET p == x.links[c][i].routes[j]
                IN  p # Slash32(x.nets[n].gateway) /\ (OwnsDefault(x, n, c) => p # Everything)
           /\ \A k \in DOMAIN x.links[c] : k < i => LinksApart(x, c, k, i)
  <1> DEFINE N == NetsOf(x, c)
             G(n) == Slash32(x.nets[n].gateway)
             O(n) == OwnsDefault(x, n, c)
             D == DOMAIN x.links[c]
             J(k) == DOMAIN x.links[c][k].routes
             R(k, m) == x.links[c][k].routes[m]
             W(k) == x.links[c][k].address.bits < AddrBits
             M(k) == Masked(x.links[c][k].address)
             L(k) == LinkDef(x, c, k)
             E == Everything
             top == Len(x.links[c][i].routes) + 1
             mac == x.links[c][i].mac # "bad"
             masked == \A j \in J(i) : Masked(R(i, j)) = R(i, j)
             V == Covers(x.links[c][i].address, x.links[c][i].gateway)
             B(j) == Before(x, c, i, j)
             nets == \A n \in N : \A j \in J(i) : R(i, j) # G(n) /\ (O(n) => R(i, j) # E)
             serves == L(i) => V /\ W(i)
             free == /\ \A m, j \in J(i) : m < j => R(i, m) # R(i, j)
                     /\ W(i) => \A j \in J(i) : M(i) # R(i, j)
                     /\ L(i) => (\A j \in J(i) : R(i, j) # E) /\ (W(i) => M(i) # E)
             apart(k) == /\ \A j \in J(i) : /\ \A m \in J(k) : R(k, m) # R(i, j)
                                            /\ W(k) => M(k) # R(i, j)
                                            /\ L(k) => R(i, j) # E
                         /\ L(i) => /\ \A m \in J(k) : R(k, m) # E
                                    /\ W(k) => M(k) # E
                                    /\ ~L(k)
  <1>1. LinkRoutesFit(x, c, i) <=> /\ mac
                                   /\ \A j \in J(i) : Masked(R(i, j)) = R(i, j) /\ R(i, j) \notin B(j)
                                   /\ L(i) => V /\ W(i) /\ E \notin B(top)
    BY DEF LinkRoutesFit
  <1>2. LinkServes(x, c, i) <=> serves
    BY DEF LinkServes
  <1>3. LinkFree(x, c, i) <=> free
    BY DEF LinkFree
  <1>4. \A k : LinksApart(x, c, k, i) <=> apart(k)
    BY DEF LinksApart
  <1>5. \A j, p : p \in B(j) <=>
          \/ \E n \in N : p = G(n)
          \/ p = E /\ \E n \in N : O(n)
          \/ \E k \in 1..i : W(k) /\ p = M(k)
          \/ \E k \in 1..i : \E m \in J(k) : (k < i \/ m < j) /\ p = R(k, m)
          \/ p = E /\ \E k \in 1..(i - 1) : L(k)
    BY BeforeIs
  <1>6. /\ i \in Nat
        /\ \A k : k \in 1..i <=> (k \in D /\ k < i) \/ k = i
        /\ \A k : k \in 1..(i - 1) <=> k \in D /\ k < i
        /\ ~(i < i)
    <2> DEFINE len == Len(x.links[c])
    <2>1. len \in Nat /\ D = 1..len /\ i \in 1..len
      BY LinksAre
    <2> HIDE DEF len, D
    <2> QED  BY <2>1
  <1>7. \A m \in J(i) : m \in Nat /\ m < top
    <2>1. x.links[c][i].routes \in Seq(Subnets)
      BY LinkDecoded
    <2>2. J(i) = 1..Len(x.links[c][i].routes) /\ Len(x.links[c][i].routes) \in Nat
      BY <2>1, LenProperties
    <2> HIDE DEF J
    <2> QED  BY <2>2
  <1>8. L(i) => \A n \in N : ~O(n)
    <2>1. \A n \in N : O(n) => \A k \in D : ~x.links[c][k].default
      BY SoleDefault
    <2> QED  BY <2>1 DEF LinkDef
  <1>9. \A n : E # G(n)
    BY All
  <1> HIDE DEF N, G, O, D, J, R, W, M, L, E, top, mac, V, B
  <1>10. ASSUME mac, masked, serves, free, nets, \A k \in D : k < i => apart(k)
         PROVE  /\ \A j \in J(i) : Masked(R(i, j)) = R(i, j) /\ R(i, j) \notin B(j)
                /\ L(i) => V /\ W(i) /\ E \notin B(top)
    <2>1. ASSUME NEW j \in J(i), R(i, j) \in B(j) PROVE FALSE
      <3> DEFINE p == R(i, j)
      <3>1. CASE \E n \in N : p = G(n)
        BY <1>10, <3>1
      <3>2. CASE p = E /\ \E n \in N : O(n)
        BY <1>10, <3>2
      <3>3. CASE \E k \in 1..i : W(k) /\ p = M(k)
        <4>1. PICK k \in 1..i : W(k) /\ p = M(k)
          BY <3>3
        <4> QED  BY <1>6, <1>10, <4>1
      <3>4. CASE \E k \in 1..i : \E m \in J(k) : (k < i \/ m < j) /\ p = R(k, m)
        <4>1. PICK k \in 1..i : \E m \in J(k) : (k < i \/ m < j) /\ p = R(k, m)
          BY <3>4
        <4>2. PICK m \in J(k) : (k < i \/ m < j) /\ p = R(k, m)
          BY <4>1
        <4> QED  BY <1>6, <1>10, <4>2
      <3>5. CASE p = E /\ \E k \in 1..(i - 1) : L(k)
        <4>1. PICK k \in 1..(i - 1) : L(k)
          BY <3>5
        <4> QED  BY <1>6, <1>10, <3>5, <4>1
      <3> HIDE DEF p
      <3> QED  BY <1>5, <2>1, <3>1, <3>2, <3>3, <3>4, <3>5 DEF p
    <2>2. ASSUME L(i), E \in B(top) PROVE FALSE
      <3>1. CASE \E k \in 1..i : W(k) /\ E = M(k)
        <4>1. PICK k \in 1..i : W(k) /\ E = M(k)
          BY <3>1
        <4> QED  BY <1>6, <1>10, <2>2, <4>1
      <3>2. CASE \E k \in 1..i : \E m \in J(k) : (k < i \/ m < top) /\ E = R(k, m)
        <4>1. PICK k \in 1..i : \E m \in J(k) : (k < i \/ m < top) /\ E = R(k, m)
          BY <3>2
        <4>2. PICK m \in J(k) : E = R(k, m)
          BY <4>1
        <4> QED  BY <1>6, <1>10, <2>2, <4>2
      <3>3. CASE \E k \in 1..(i - 1) : L(k)
        <4>1. PICK k \in 1..(i - 1) : L(k)
          BY <3>3
        <4> QED  BY <1>6, <1>10, <2>2, <4>1
      <3> QED  BY <1>5, <1>8, <1>9, <2>2, <3>1, <3>2, <3>3
    <2> QED  BY <1>10, <2>1, <2>2
  <1>11. ASSUME \A j \in J(i) : Masked(R(i, j)) = R(i, j) /\ R(i, j) \notin B(j),
                L(i) => V /\ W(i) /\ E \notin B(top)
         PROVE  masked /\ serves /\ free /\ nets /\ \A k \in D : k < i => apart(k)
    <2>1. masked /\ serves
      BY <1>11
    <2>2. nets
      BY <1>5, <1>11
    <2>3. free
      <3>1. i \in 1..i
        BY <1>6
      <3>2. \A m, j \in J(i) : m < j => R(i, m) # R(i, j)
        BY <1>5, <1>11, <3>1
      <3>3. W(i) => \A j \in J(i) : M(i) # R(i, j)
        BY <1>5, <1>11, <3>1
      <3>4. L(i) => (\A j \in J(i) : R(i, j) # E) /\ (W(i) => M(i) # E)
        BY <1>5, <1>7, <1>11, <3>1
      <3> QED  BY <3>2, <3>3, <3>4
    <2>4. ASSUME NEW k \in D, k < i PROVE apart(k)
      <3>1. k \in 1..i /\ k \in 1..(i - 1)
        BY <1>6, <2>4
      <3>2. ASSUME NEW j \in J(i) PROVE /\ \A m \in J(k) : R(k, m) # R(i, j)
                                        /\ W(k) => M(k) # R(i, j)
                                        /\ L(k) => R(i, j) # E
        BY <1>5, <1>11, <2>4, <3>1
      <3>3. ASSUME L(i) PROVE /\ \A m \in J(k) : R(k, m) # E
                              /\ W(k) => M(k) # E
                              /\ ~L(k)
        BY <1>5, <1>11, <2>4, <3>1, <3>3
      <3> QED  BY <3>2, <3>3
    <2> QED  BY <2>1, <2>2, <2>3, <2>4
  <1> HIDE DEF masked, serves, free, nets, apart
  <1>12. LinkRoutesFit(x, c, i) <=> mac /\ masked /\ serves /\ free /\ nets /\ \A k \in D : k < i => apart(k)
    <2>1. masked <=> \A j \in J(i) : Masked(R(i, j)) = R(i, j)
      BY DEF masked
    <2> QED  BY <1>1, <1>10, <1>11
  <1>13. LinkRoutesFit(x, c, i) <=>
           /\ mac /\ masked /\ LinkServes(x, c, i) /\ LinkFree(x, c, i) /\ nets
           /\ \A k \in D : k < i => LinksApart(x, c, k, i)
    BY <1>2, <1>3, <1>4, <1>12
  <1> QED  BY <1>13 DEF mac, masked, nets, D, J, R, N, G, O, E

(* The kernel takes the routes of a plan exactly when they fit. *)
LEMMA RoutesTaken ==
  ASSUME NEW x \in Configs, Accepted(x)
  PROVE  RoutesFit(x) <=> /\ NetsPlan(x) /\ Serves(x)
                          /\ \A r \in PlanSet(x) : r.op \in {"mac", "route"} => Alone(x, r)
  <1> DEFINE A1 == \A n \in Networks(x) : Apart(DOMAIN x.nets[n].attach, LAMBDA c : x.nets[n].attach[c].ip)
             A2 == \A m, n \in Uplinked(x) : m # n =>
                     \A c \in DOMAIN x.nets[m].attach, d \in DOMAIN x.nets[n].attach :
                        x.nets[m].attach[c].ip # x.nets[n].attach[d].ip
             CC == Containers(x)
             D(c) == DOMAIN x.links[c]
             gws(c) == \A m, n \in NetsOf(x, c) : m # n => x.nets[m].gateway # x.nets[n].gateway
             alone(c, i) == /\ x.links[c][i].mac # "bad"
                            /\ \A j \in DOMAIN x.links[c][i].routes :
                                 Masked(x.links[c][i].routes[j]) = x.links[c][i].routes[j]
             nets(c, i, n) == \A j \in DOMAIN x.links[c][i].routes :
                                LET p == x.links[c][i].routes[j]
                                IN  p # Slash32(x.nets[n].gateway) /\ (OwnsDefault(x, n, c) => p # Everything)
             routing == \A r \in PlanSet(x) : r.op \in {"mac", "route"} => Alone(x, r)
  <1>1. RoutesFit(x) <=> A1 /\ A2 /\ \A c \in CC : gws(c) /\ \A i \in D(c) : LinkRoutesFit(x, c, i)
    BY RoutesFitIs
  <1>2. NetsPlan(x) <=> A1 /\ A2 /\ \A c \in CC : /\ gws(c) /\ ContNetsFree(x, c)
                                                  /\ \A n \in NetsOf(x, c) : \A i \in D(c) : nets(c, i, n)
    <2>1. NetsAsked(x) <=> A1 /\ A2 /\ \A c \in CC : /\ gws(c) /\ ContNetsFree(x, c)
                                                     /\ \A n \in NetsOf(x, c) : \A i \in D(c) : nets(c, i, n)
      BY DEF NetsAsked
    <2> QED  BY <2>1, NetsAskedIs
  <1>3. routing <=> \A c \in CC : \A i \in D(c) : alone(c, i)
    BY RoutingIs
  <1>4. \A c \in CC : \A i \in D(c) : LinkRoutesFit(x, c, i) <=>
          /\ alone(c, i) /\ LinkServes(x, c, i) /\ LinkFree(x, c, i)
          /\ \A n \in NetsOf(x, c) : nets(c, i, n)
          /\ \A k \in D(c) : k < i => LinksApart(x, c, k, i)
    BY LinkTaken
  <1>5. \A c : ContNetsFree(x, c) <=> /\ \A i \in D(c) : LinkFree(x, c, i)
                                      /\ \A k, i \in D(c) : k < i => LinksApart(x, c, k, i)
    BY LinksApartIs DEF ContNetsFree
  <1>6. Serves(x) <=> \A c \in CC : \A i \in D(c) : LinkServes(x, c, i)
    BY DEF Serves
  <1> HIDE DEF A1, A2, CC, D, gws, alone, nets, routing
  <1>7. ASSUME NEW c \in CC
        PROVE  (\A i \in D(c) : LinkRoutesFit(x, c, i)) <=>
                 /\ \A i \in D(c) : alone(c, i) /\ LinkServes(x, c, i)
                 /\ ContNetsFree(x, c)
                 /\ \A n \in NetsOf(x, c) : \A i \in D(c) : nets(c, i, n)
    BY <1>4, <1>5
  <1>8. RoutesFit(x) <=> NetsPlan(x) /\ Serves(x) /\ routing
    BY <1>1, <1>2, <1>3, <1>6, <1>7
  <1> QED  BY <1>8 DEF routing

(* The kernel takes every request of a plan exactly when its names and its
   routes fit. *)
LEMMA FitExactly ==
  ASSUME NEW x \in Configs, Accepted(x)
  PROVE  (\A j \in DOMAIN ApplyPlan(x) : Ok(x, ApplyPlan(x), j)) <=> NamesFit(x) /\ RoutesFit(x)
  <1> DEFINE P == ApplyPlan(x)
  <1>1. /\ IsList(P) /\ Range(P) = PlanSet(x)
        /\ Serves(x) => ServedBy({}, P)
        /\ NoClash("end", P) <=> EndsPlan(x)
        /\ NoClash("net", P) <=> NetsPlan(x)
    BY PlanPart
  <1>2. ServedBy({}, P) => Serves(x)
    BY ServesIs
  <1> HIDE DEF P
  <1>3. (\A j \in DOMAIN P : Ok(x, P, j)) <=>
          /\ \A r \in Range(P) : Alone(x, r)
          /\ NoClash("end", P) /\ NoClash("net", P) /\ ServedBy({}, P)
    BY <1>1, AllOkIs
  <1>4. \A r : r.op \notin Naming \cup {"mac", "route"} => Alone(x, r)
    BY DEF Alone, Naming
  <1>5. (\A r \in PlanSet(x) : Alone(x, r)) <=>
          /\ \A r \in PlanSet(x) : r.op \in Naming => Alone(x, r)
          /\ \A r \in PlanSet(x) : r.op \in {"mac", "route"} => Alone(x, r)
    BY <1>4
  <1>6. NamesFit(x) <=> EndsPlan(x) /\ \A r \in PlanSet(x) : r.op \in Naming => Alone(x, r)
    BY NamesTaken
  <1>7. RoutesFit(x) <=> /\ NetsPlan(x) /\ Serves(x)
                         /\ \A r \in PlanSet(x) : r.op \in {"mac", "route"} => Alone(x, r)
    BY RoutesTaken
  <1>8. (\A j \in DOMAIN P : Ok(x, P, j)) <=> NamesFit(x) /\ RoutesFit(x)
    BY <1>1, <1>2, <1>3, <1>5, <1>6, <1>7
  <1> QED  BY <1>8 DEF P

------------------------------------------------------------------------------
(* A plan is wired exactly when it fits *)

(* The state is what the requests so far made it, and they were all allowed. *)
Answered == History /\ Passed /\ Accepted(cfg)

(* Nothing done, and nothing refused: the invariant at the start. *)
LEMMA InitAnswered == Init => Answered
  <1> SUFFICES ASSUME Init PROVE Answered
    OBVIOUS
  <1>1. Accepted(cfg) /\ todo = ApplyPlan(cfg) /\ refused = FALSE /\ cfg \in Configs
    BY DEF Init
  <1>2. History
    BY InitHistory
  <1>3. Len(ApplyPlan(cfg)) \in Nat
    <2>1. ApplyPlan(cfg) \in Seq(Range(ApplyPlan(cfg)))
      BY <1>1, PlanShape DEF Shape, IsList
    <2> QED  BY <2>1, LenProperties
  <1>4. Past = 0
    <2>1. Past = Len(ApplyPlan(cfg)) - Len(ApplyPlan(cfg))
      BY <1>1 DEF Past
    <2> QED  BY <1>3, <2>1
  <1>5. Passed
    BY <1>1, <1>4 DEF Passed
  <1> QED  BY <1>1, <1>2, <1>5 DEF Answered

(* And after every step. *)
LEMMA NextAnswered == IInv /\ Answered /\ [Next]_vars => Answered'
  <1> SUFFICES ASSUME IInv, Answered, [Next]_vars PROVE Answered'
    OBVIOUS
  <1>1. /\ History /\ Passed /\ Accepted(cfg)
        /\ refused \in BOOLEAN /\ IsList(todo) /\ cfg \in Configs
    BY DEF Answered, IInv, Typed
  <1>2. Shape(cfg, ApplyPlan(cfg))
    BY <1>1, PlanShape
  <1>3. History'
    BY <1>1, <1>2, NextHistory
  <1>4. Passed'
    BY <1>1, <1>2, NextPassed
  <1>5. cfg' = cfg
    BY DEF Next, LinkDel, LinkAdd, AddrAdd, LinkSetUp, RouteAdd, LinkSetMaster, LinkSetHardwareAddr,
           Refuse, Request, vars
  <1>6. Accepted(cfg)'
    BY <1>1, <1>5
  <1> QED  BY <1>3, <1>4, <1>6 DEF Answered

(* The state of the kernel is always what the requests made so far have
   brought, and it took them because the plan allows them (apply.go:32-139):
   nothing depends on more of the history than that. *)
THEOREM AlwaysAnswered == Spec => [](IInv /\ Answered)
  <1>1. IInv /\ Answered /\ [Next]_vars => (IInv /\ Answered)'
    BY NextIInv, NextAnswered
  <1> QED  BY <1>1, InitIInv, InitAnswered, PTL DEF Spec

(* At the end of a plan all its requests have been made. *)
LEMMA AtEnd ==
  ASSUME IInv, Answered, Wired
  PROVE  /\ \A j \in DOMAIN ApplyPlan(cfg) : Ok(cfg, ApplyPlan(cfg), j)
         /\ Done = Range(ApplyPlan(cfg))
  <1> DEFINE P == ApplyPlan(cfg)
  <1>1. P \in Seq(Range(P))
    BY PlanShape DEF Answered, IInv, Typed, Shape, IsList
  <1>2. Past = Len(P) - 0
    BY EmptySeq DEF Past, Wired
  <1> HIDE DEF P
  <1>3. Len(P) \in Nat /\ DOMAIN P = 1..Len(P)
    BY <1>1, LenProperties
  <1>4. Past = Len(P)
    BY <1>2, <1>3
  <1>5. \A j \in DOMAIN P : Ok(cfg, P, j)
    BY <1>3, <1>4 DEF Answered, Passed, P
  <1>6. Done = Range(P)
    BY <1>3, <1>4 DEF Done, First, Range, P
  <1> QED  BY <1>5, <1>6 DEF P

(* The kernel wires a plan to the end only when its names and its routes fit,
   and refuses a request of it only when they do not, whatever the
   configuration: NamesFit and RoutesFit are what Validate would have to ask
   for (validate.go:27-43 against apply.go:32-139). *)
THEOREM WiredExactly == Spec => []Exact
  <1>1. ASSUME IInv, Answered PROVE Exact
    <2>1. cfg \in Configs /\ Accepted(cfg) /\ IsList(todo) /\ (refused => todo # <<>>)
      BY <1>1 DEF IInv, Typed, Answered
    <2>2. (\A j \in DOMAIN ApplyPlan(cfg) : Ok(cfg, ApplyPlan(cfg), j)) <=> NamesFit(cfg) /\ RoutesFit(cfg)
      BY <2>1, FitExactly
    <2>3. Wired => NamesFit(cfg) /\ RoutesFit(cfg)
      BY <1>1, <2>2, AtEnd
    <2>4. ASSUME refused PROVE ~(NamesFit(cfg) /\ RoutesFit(cfg))
      <3>1. Past + 1 \in DOMAIN ApplyPlan(cfg)
        BY <1>1, <2>1, <2>4, AtHead, PlanShape DEF Answered, Shape
      <3>2. ~Ok(cfg, ApplyPlan(cfg), Past + 1)
        BY <1>1, <2>4 DEF Answered, Passed
      <3> QED  BY <2>2, <3>1, <3>2
    <2> QED  BY <2>3, <2>4 DEF Exact
  <1> QED  BY <1>1, AlwaysAnswered, PTL

------------------------------------------------------------------------------
(* A wired plan: every request of it has done its part *)

AtWired == IInv /\ Answered /\ Wired

(* The state at the end is what the whole plan brings, and no two requests
   clash. *)
LEMMA WiredIs ==
  ASSUME AtWired
  PROVE  /\ cfg \in Configs /\ Accepted(cfg)
         /\ ifs = IfsOf(cfg, PlanSet(cfg)) /\ addrs = AddrsOf(PlanSet(cfg))
         /\ up = UpOf(PlanSet(cfg)) /\ routes = RoutesOf(PlanSet(cfg))
         /\ \A r \in PlanSet(cfg) : Alone(cfg, r)
         /\ NoClash("end", ApplyPlan(cfg)) /\ NoClash("net", ApplyPlan(cfg))
         /\ Range(ApplyPlan(cfg)) = PlanSet(cfg)
  <1>1. cfg \in Configs /\ Accepted(cfg) /\ History
    BY DEF AtWired, IInv, Typed, Answered
  <1>2. IsList(ApplyPlan(cfg)) /\ Range(ApplyPlan(cfg)) = PlanSet(cfg)
    BY <1>1, PlanPart
  <1>3. (\A j \in DOMAIN ApplyPlan(cfg) : Ok(cfg, ApplyPlan(cfg), j)) /\ Done = Range(ApplyPlan(cfg))
    BY AtEnd DEF AtWired
  <1>4. /\ \A r \in Range(ApplyPlan(cfg)) : Alone(cfg, r)
        /\ NoClash("end", ApplyPlan(cfg)) /\ NoClash("net", ApplyPlan(cfg))
    BY <1>2, <1>3, AllOkIs
  <1> QED  BY <1>1, <1>2, <1>3, <1>4 DEF History

(* No two requests bring the same interface or the same route. *)
LEMMA Unlike ==
  ASSUME AtWired, NEW q \in PlanSet(cfg), NEW r \in PlanSet(cfg)
  PROVE  /\ q.op = "add" /\ r.op = "add" /\ Has("end", q) \cap Has("end", r) # {} => q = r
         /\ q.op = "route" /\ r.op = "route" /\ q.ns = r.ns /\ q.dst = r.dst => q = r
  <1> DEFINE P == ApplyPlan(cfg)
  <1>1. /\ IsList(P) /\ Range(P) = PlanSet(cfg)
        /\ NoClash("end", P) /\ NoClash("net", P)
    BY WiredIs, PlanPart
  <1> HIDE DEF P
  <1>2. PICK i \in DOMAIN P : P[i] = q
    BY <1>1 DEF Range
  <1>3. PICK j \in DOMAIN P : P[j] = r
    BY <1>1 DEF Range
  <1>4. i < j \/ j < i \/ i = j
    BY <1>1 DEF IsList
  <1>5. ASSUME NEW tag \in Kinds, Wants(tag, q) = Has(tag, q), Wants(tag, r) = Has(tag, r),
               Has(tag, q) \cap Has(tag, r) # {}
        PROVE  q = r
    <2>1. NoClash(tag, P)
      BY <1>1, <1>5 DEF Kinds
    <2>2. ~(i < j) /\ ~(j < i)
      BY <1>2, <1>3, <1>5, <2>1 DEF NoClash
    <2> QED  BY <1>2, <1>3, <1>4, <2>2
  <1>6. ASSUME q.op = "add", r.op = "add", Has("end", q) \cap Has("end", r) # {} PROVE q = r
    <2>1. Wants("end", q) = Has("end", q) /\ Wants("end", r) = Has("end", r) /\ "end" \in Kinds
      BY <1>6 DEF Wants, Kinds
    <2> QED  BY <1>5, <1>6, <2>1
  <1>7. ASSUME q.op = "route", r.op = "route", q.ns = r.ns, q.dst = r.dst PROVE q = r
    <2>1. Wants("net", q) = Has("net", q) /\ Wants("net", r) = Has("net", r) /\ "net" \in Kinds
      BY <1>7 DEF Wants, Kinds
    <2>2. Has("net", q) = {<<q.ns, q.dst>>} /\ Has("net", r) = {<<r.ns, r.dst>>}
      BY <1>7 DEF Has
    <2>3. Has("net", q) \cap Has("net", r) # {}
      BY <1>7, <2>2
    <2> QED  BY <1>5, <2>1, <2>3
  <1> QED  BY <1>6, <1>7

(* The namespaces at the other end of the interfaces of a name. *)
Across(ns, dev) == {i.peer[1] : i \in {j \in ifs : j.ns = ns /\ j.name = dev}}

(* The interface of one name is the end of one pair. *)
LEMMA Neighbors ==
  ASSUME AtWired, NEW r \in PlanSet(cfg), r.op = "add", r.peer # NoEnd, r.ns # r.peer[1],
         r.peer = <<r.peer[1], r.peer[2]>>
  PROVE  Across(r.ns, r.dev) = {r.peer[1]} /\ Across(r.peer[1], r.peer[2]) = {r.ns}
  <1> DEFINE S == PlanSet(cfg)
  <1>1. /\ ifs = IfsOf(cfg, S) /\ Alone(cfg, r)
        /\ \A q \in S : q.op = "add" /\ Has("end", q) \cap Has("end", r) # {} => q = r
    BY WiredIs, Unlike
  <1>2. Has("end", r) = {<<r.ns, r.dev>>, r.peer}
    BY DEF Has, End
  <1>g. \A h \in HostIfs(cfg) : <<Host, h>> \in Gone(S)
    <2>1. \A n \in Uplinked(cfg) : Del(Uplink(cfg, n).hostIf) \in S
      BY PlanByOp DEF PlanOps
    <2>2. \A h : Del(h).op = "del" /\ Del(h).dev = h
      BY Fields
    <2> HIDE DEF S
    <2> QED  BY <2>1, <2>2 DEF Gone, With, HostIfs
  <1>3. ASSUME NEW j \in ifs, <<j.ns, j.name>> \in Has("end", r)
        PROVE  j \in Bring(r)
    <2>1. CASE j \in FirstIfs(cfg) /\ <<j.ns, j.name>> \notin Gone(S)
      <3>1. j.ns = Host /\ j.name \in HostIfs(cfg)
        BY <1>1, <1>3, <2>1 DEF Alone
      <3>2. <<j.ns, j.name>> \in Gone(S)
        BY <1>g, <3>1
      <3> QED  BY <2>1, <3>2
    <2>2. ASSUME NEW q \in With(S, "add"), j \in Bring(q) PROVE j \in Bring(r)
      <3>1. q \in S /\ q.op = "add"
        BY DEF With
      <3>2. <<j.ns, j.name>> \in Has("end", q)
        <4>1. Has("end", q) = IF q.peer = NoEnd THEN {<<q.ns, q.dev>>} ELSE {<<q.ns, q.dev>>, q.peer}
          BY <3>1 DEF Has, End
        <4>2. Near(q).ns = q.ns /\ Near(q).name = q.dev /\ Far(q).ns = q.peer[1] /\ Far(q).name = q.peer[2]
          BY DEF Near, Far
        <4>3. q.peer # NoEnd => q.peer = <<q.peer[1], q.peer[2]>>
          <5>0. cfg \in Configs /\ Accepted(cfg)
            BY WiredIs
          <5>1. Shape(cfg, ApplyPlan(cfg)) /\ Range(ApplyPlan(cfg)) = S
            BY <5>0, WiredIs, PlanShape
          <5>2. PICK k \in DOMAIN ApplyPlan(cfg) : ApplyPlan(cfg)[k] = q
            BY <3>1, <5>1 DEF Range
          <5> QED  BY <3>1, <5>1, <5>2 DEF Shape
        <4> QED  BY <2>2, <4>1, <4>2, <4>3 DEF Bring
      <3>3. q = r
        BY <1>1, <1>3, <3>1, <3>2
      <3> QED  BY <2>2, <3>3
    <2>3. \/ j \in FirstIfs(cfg) /\ <<j.ns, j.name>> \notin Gone(S)
          \/ \E q \in With(S, "add") : j \in Bring(q)
      BY <1>1 DEF IfsOf
    <2> QED  BY <2>1, <2>2, <2>3
  <1>4. Bring(r) = {Near(r), Far(r)} /\ Bring(r) \subseteq ifs
    <2>1. r \in With(S, "add")
      BY DEF With
    <2> QED  BY <1>1, <2>1 DEF Bring, IfsOf
  <1>5. /\ Near(r).ns = r.ns /\ Near(r).name = r.dev /\ Near(r).peer[1] = r.peer[1]
        /\ Far(r).ns = r.peer[1] /\ Far(r).name = r.peer[2] /\ Far(r).peer[1] = r.ns
    BY DEF Near, Far
  <1> HIDE DEF S
  <1>6. {j \in ifs : j.ns = r.ns /\ j.name = r.dev} = {Near(r)}
    <2>1. ASSUME NEW j \in ifs, j.ns = r.ns, j.name = r.dev PROVE j = Near(r)
      <3>1. <<j.ns, j.name>> \in Has("end", r)
        BY <1>2, <2>1
      <3> QED  BY <1>3, <1>4, <1>5, <2>1, <3>1
    <2> QED  BY <1>4, <1>5, <2>1
  <1>7. {j \in ifs : j.ns = r.peer[1] /\ j.name = r.peer[2]} = {Far(r)}
    <2>1. ASSUME NEW j \in ifs, j.ns = r.peer[1], j.name = r.peer[2] PROVE j = Far(r)
      <3>1. <<j.ns, j.name>> \in Has("end", r)
        BY <1>2, <2>1
      <3> QED  BY <1>3, <1>4, <1>5, <2>1, <3>1
    <2> QED  BY <1>4, <1>5, <2>1
  <1> QED  BY <1>5, <1>6, <1>7 DEF Across

(* All the addresses are up, so all the routes they bring are there. *)
LEMMA WiredFib ==
  ASSUME AtWired
  PROVE  Fib = {Made(q) : q \in With(PlanSet(cfg), "route")} \cup {Conn(q) : q \in Wide(PlanSet(cfg))}
  <1> DEFINE P == ApplyPlan(cfg)  S == PlanSet(cfg)
  <1>1. Shape(cfg, P) /\ Range(P) = S /\ addrs = AddrsOf(S) /\ up = UpOf(S) /\ routes = RoutesOf(S)
    BY WiredIs, PlanShape
  <1> HIDE DEF P, S
  <1>2. ASSUME NEW q \in With(S, "addr") PROVE End(q) \in up
    <2>1. PICK i \in DOMAIN P : q = P[i] /\ P[i].op = "addr"
      BY <1>1 DEF With, Range
    <2>2. PICK m \in DOMAIN P : P[m].op = "up" /\ End(P[m]) = End(P[i])
      BY <1>1, <2>1 DEF Shape
    <2>3. P[m] \in With(S, "up")
      BY <1>1, <2>2 DEF With, Range
    <2> QED  BY <1>1, <2>1, <2>2, <2>3 DEF UpOf
  <1>3. addrs = {Given(q) : q \in With(S, "addr")} /\ routes = {Made(q) : q \in With(S, "route")}
    BY <1>1 DEF AddrsOf, RoutesOf
  <1>4. \A q : Given(q).ns = q.ns /\ Given(q).dev = q.dev /\ Given(q).prefix = q.prefix
    BY DEF Given
  <1>5. {b \in addrs : b.prefix.bits < AddrBits /\ <<b.ns, b.dev>> \in up} = {Given(q) : q \in Wide(S)}
    <2>1. \A q \in With(S, "addr") : <<Given(q).ns, Given(q).dev>> \in up
      BY <1>2, <1>4 DEF End
    <2>2. \A q : q \in Wide(S) <=> q \in With(S, "addr") /\ Given(q).prefix.bits < AddrBits
      BY <1>4 DEF Wide
    <2> QED  BY <1>3, <2>1, <2>2
  <1>6. Connected = {[ns |-> a.ns, dst |-> Masked(a.prefix), dev |-> a.dev, via |-> NoAddr, scope |-> "link"] :
                      a \in {Given(q) : q \in Wide(S)}}
    BY <1>5 DEF Connected
  <1>7. Connected = {Conn(q) : q \in Wide(S)}
    <2>1. \A q : [ns |-> Given(q).ns, dst |-> Masked(Given(q).prefix), dev |-> Given(q).dev,
                  via |-> NoAddr, scope |-> "link"] = Conn(q)
      BY <1>4 DEF Conn
    <2> QED  BY <1>6, <2>1
  <1> QED  BY <1>3, <1>7 DEF Fib, S

(* An address is local where a request put it. *)
LEMMA LocalIs ==
  ASSUME AtWired, NEW ns, NEW a
  PROVE  Local(ns, a) <=> \E q \in PlanSet(cfg) : q.op = "addr" /\ q.ns = ns /\ q.prefix.base = a
  <1>1. addrs = {Given(q) : q \in With(PlanSet(cfg), "addr")}
    BY WiredIs DEF AddrsOf
  <1>2. \A q : Given(q).ns = q.ns /\ Given(q).prefix = q.prefix
    BY DEF Given
  <1> QED  BY <1>1, <1>2 DEF Local, With

(* What a plan routes to, and what the networks of its addresses are. *)
LEMMA RouteDsts ==
  ASSUME NEW x \in Configs, Accepted(x), NEW r \in PlanSet(x), r.op = "route"
  PROVE  r.dst \in Subnets
  <1>1. PlanRoutes(x, r)
    BY PlanByOp DEF PlanOps
  <1>2. \A a \in Addresses : Slash32(a) \in Subnets
    BY LoweringAssumption DEF Slash32, Prefix, Subnets
  <1>3. Everything \in Subnets
    <2>1. Pow[AddrBits] \in Nat \ {0} /\ AddrBits \in Nat
      BY Pows, LoweringAssumption
    <2>2. 0 \in Addresses /\ 0 \in 0..AddrBits
      BY <2>1 DEF Addresses
    <2> QED  BY <2>2 DEF Everything, Prefix, Subnets
  <1>4. \A n \in Networks(x) : x.nets[n].gateway \in Addresses
                               /\ \A c \in DOMAIN x.nets[n].attach : x.nets[n].attach[c].ip \in Addresses
    BY WiringAssumption
  <1>5. ASSUME NEW n \in Networks(x), NetRoutes(x, n, r) PROVE r.dst \in Subnets
    <2>1. \A c : /\ RouteIn(x, n, c).dst = Slash32(x.nets[n].attach[c].ip)
                 /\ RouteOut(x, n, c).dst = Slash32(x.nets[n].gateway)
                 /\ RouteDef(x, n, c).dst = Everything
                 /\ EdgeRoute(x, n, c).dst = Slash32(x.nets[n].attach[c].ip)
      BY Fields DEF RouteIn, RouteOut, RouteDef, EdgeRoute
    <2>2. RouteUplink(x, n).dst = Everything
      BY Fields DEF RouteUplink
    <2> QED  BY <1>2, <1>3, <1>4, <1>5, <2>1, <2>2 DEF NetRoutes
  <1>6. ASSUME NEW c \in Containers(x), ContRoutes(x, c, r) PROVE r.dst \in Subnets
    <2>1. \A i, j : LinkRoute(x, c, i, j).dst = x.links[c][i].routes[j] /\ RouteLink(x, c, i).dst = Everything
      BY Fields DEF LinkRoute, RouteLink
    <2>2. \A i \in DOMAIN x.links[c] : \A j \in DOMAIN x.links[c][i].routes : x.links[c][i].routes[j] \in Subnets
      <3> TAKE i \in DOMAIN x.links[c]
      <3>1. x.links[c][i].routes \in Seq(Subnets)
        BY LinkDecoded
      <3> QED  BY <3>1, LenProperties
    <2> QED  BY <1>3, <1>6, <2>1, <2>2 DEF ContRoutes
  <1> QED  BY <1>1, <1>5, <1>6 DEF PlanRoutes

(* The prefix of an address keeps its length when it is masked. *)
LEMMA ConnBits ==
  ASSUME NEW x \in Configs, Accepted(x), NEW q \in PlanSet(x), q.op = "addr"
  PROVE  q.prefix.bits \in Int /\ Conn(q).dst.bits = q.prefix.bits
  <1> DEFINE p == q.prefix
             Plain(s) == s = [base |-> s.base, bits |-> s.bits] /\ s.bits \in Int
  <1>1. \A a, b \in Int : Plain(Prefix(a, b))
    BY DEF Prefix
  <1>2. \A a \in Addresses, b \in Int : Plain(Prefix(a, b)) /\ Plain(Prefix(a + 1, b))
    BY <1>1 DEF Addresses
  <1>3. AddrBits \in Int /\ AddrBits - 1 \in Int
    BY LoweringAssumption
  <1>4. \A n \in Networks(x) : Plain(AddrGateway(x, n).prefix)
    <2> TAKE n \in Networks(x)
    <2>1. x.nets[n].gateway \in Addresses
      BY WiringAssumption
    <2> HIDE DEF Plain
    <2> QED  BY <1>2, <1>3, <2>1, Fields DEF AddrGateway, Slash32
  <1>5. \A n \in Networks(x) : \A c \in DOMAIN x.nets[n].attach : Plain(AddrPair(x, n, c).prefix)
    <2> TAKE n \in Networks(x)
    <2> TAKE c \in DOMAIN x.nets[n].attach
    <2>1. x.nets[n].attach[c].ip \in Addresses
      BY WiringAssumption
    <2> HIDE DEF Plain
    <2> QED  BY <1>2, <1>3, <2>1, Fields DEF AddrPair, Slash32
  <1>6. \A n \in Uplinked(x) : Plain(AddrEdge(x, n).prefix) /\ Plain(AddrUplink(x, n).prefix)
    <2> TAKE n \in Uplinked(x)
    <2>1. Uplink(x, n).link \in Addresses
      BY WiringAssumption DEF Uplinked, Uplink
    <2> HIDE DEF Plain
    <2> QED  BY <1>2, <1>3, <2>1, Fields DEF AddrEdge, AddrUplink
  <1>7. \A c \in Containers(x) : \A i \in DOMAIN x.links[c] : Plain(AddrLink(x, c, i).prefix)
    <2> TAKE c \in Containers(x)
    <2> TAKE i \in DOMAIN x.links[c]
    <2>1. x.links[c][i].address \in Subnets
      BY LinkDecoded
    <2>2. Plain(x.links[c][i].address)
      BY <2>1 DEF Subnets
    <2> HIDE DEF Plain
    <2> QED  BY <2>2, Fields DEF AddrLink
  <1>8. PlanAddrs(x, q)
    BY PlanByOp DEF PlanOps
  <1>9. Plain(p)
    <2> HIDE DEF Plain
    <2> QED  BY <1>4, <1>5, <1>6, <1>7, <1>8 DEF PlanAddrs
  <1>10. Masked(p).bits = p.bits
    BY <1>9 DEF Masked
  <1> QED  BY <1>9, <1>10 DEF Conn

(* The route to one address is the best there is for it. *)
LEMMA OneBest ==
  ASSUME AtWired, NEW r \in PlanSet(cfg), r.op = "route", NEW a \in Addresses, r.dst = Slash32(a)
  PROVE  Best(r.ns, a) = {Made(r)}
  <1> DEFINE S == PlanSet(cfg)
  <1>0. cfg \in Configs /\ Accepted(cfg) /\ a \in Int /\ AddrBits \in Nat
    BY WiredIs, LoweringAssumption DEF Addresses
  <1>1. Slash32(a).bits = AddrBits /\ Covers(Slash32(a), a)
    BY <1>0, Ones
  <1>2. Made(r).ns = r.ns /\ Made(r).dst = r.dst
    BY DEF Made
  <1>3. Made(r) \in Matching(r.ns, a)
    <2>1. Made(r) \in Fib
      BY WiredFib DEF With
    <2> QED  BY <1>1, <1>2, <2>1 DEF Matching
  <1>4. ASSUME NEW q \in Matching(r.ns, a), q # Made(r)
        PROVE  q.dst.bits < AddrBits
    <2>1. q \in Fib /\ q.ns = r.ns /\ Covers(q.dst, a)
      BY DEF Matching
    <2>2. CASE \E t \in With(S, "route") : q = Made(t)
      <3>1. PICK t \in S : t.op = "route" /\ q = Made(t)
        BY <2>2 DEF With
      <3>2. q.dst = t.dst /\ q.ns = t.ns /\ t.dst \in Subnets
        BY <1>0, <3>1, RouteDsts DEF Made
      <3>3. q.dst.bits \in 0..AddrBits /\ q.dst.base \in Int /\ q.dst = [base |-> q.dst.base, bits |-> q.dst.bits]
        BY <3>2 DEF Subnets, Addresses
      <3>4. ASSUME q.dst.bits = AddrBits PROVE FALSE
        <4>1. q.dst = Slash32(q.dst.base)
          BY <3>3, <3>4 DEF Slash32, Prefix
        <4>2. q.dst.base = a
          BY <1>0, <2>1, <3>3, <4>1, Ones
        <4>3. t = r
          BY <2>1, <3>1, <3>2, <4>1, <4>2, Unlike
        <4> QED  BY <1>4, <3>1, <4>3
      <3> QED  BY <1>0, <3>3, <3>4
    <2>3. CASE \E t \in Wide(S) : q = Conn(t)
      <3>1. PICK t \in Wide(S) : q = Conn(t)
        BY <2>3
      <3>2. t \in S /\ t.op = "addr" /\ t.prefix.bits < AddrBits
        BY DEF Wide, With
      <3> QED  BY <1>0, <3>1, <3>2, ConnBits
    <2> QED  BY <2>1, <2>2, <2>3, WiredFib
  <1>5. \A q \in Matching(r.ns, a) : q.dst.bits \in Int /\ q.dst.bits <= AddrBits
    <2>1. \A q \in Fib : q.dst.bits \in Int
      <3>1. ASSUME NEW t \in With(S, "route") PROVE Made(t).dst.bits \in Int
        <4>1. t.dst \in Subnets /\ Made(t).dst = t.dst
          BY <1>0, RouteDsts DEF With, Made
        <4> QED  BY <4>1 DEF Subnets
      <3>2. ASSUME NEW t \in Wide(S) PROVE Conn(t).dst.bits \in Int
        <4>1. t \in S /\ t.op = "addr"
          BY DEF Wide, With
        <4> QED  BY <1>0, <4>1, ConnBits
      <3> QED  BY <3>1, <3>2, WiredFib
    <2> QED  BY <1>0, <1>1, <1>2, <1>4, <2>1 DEF Matching
  <1> QED  BY <1>0, <1>1, <1>2, <1>3, <1>4, <1>5 DEF Best

(* Where the best route goes. *)
LEMMA HopsVia ==
  ASSUME NEW ns, NEW a, NEW q, ~Local(ns, a), Best(ns, a) = {q}
  PROVE  Hops(ns, a) = Across(ns, q.dev)
  BY DEF Hops, Across

(* Whose addresses there are. *)
LEMMA LocalsAre ==
  ASSUME AtWired, NEW a \in Addresses, ~Taken(a)
  PROVE  /\ ~Local(Host, a)
         /\ \A n : ~Local(Router(n), a)
         /\ \A c \in Containers(cfg) : ~Captured(c, a) => ~Local(Cont(c), a)
  <1>0. cfg \in Configs /\ Accepted(cfg)
    BY WiredIs
  <1>1. ASSUME NEW q \in PlanSet(cfg), q.op = "addr", q.prefix.base = a
        PROVE  \/ \E n \in Networks(cfg) : \E c \in DOMAIN cfg.nets[n].attach :
                    q.ns = Cont(c) /\ cfg.nets[n].attach[c].ip = a
               \/ \E c \in Containers(cfg) : \E i \in DOMAIN cfg.links[c] :
                    q.ns = Cont(c) /\ cfg.links[c][i].address.base = a
    <2>1. PlanAddrs(cfg, q)
      BY <1>1, PlanByOp DEF PlanOps
    <2>2. \A n, c : /\ AddrGateway(cfg, n).prefix.base = cfg.nets[n].gateway
                    /\ AddrPair(cfg, n, c).ns = Cont(c)
                    /\ AddrPair(cfg, n, c).prefix.base = cfg.nets[n].attach[c].ip
                    /\ AddrEdge(cfg, n).prefix.base = Uplink(cfg, n).link
                    /\ AddrUplink(cfg, n).prefix.base = Uplink(cfg, n).link + 1
      BY Fields DEF AddrGateway, AddrPair, AddrEdge, AddrUplink, Slash32, Prefix
    <2>3. \A c, i : AddrLink(cfg, c, i).ns = Cont(c) /\ AddrLink(cfg, c, i).prefix = cfg.links[c][i].address
      BY Fields DEF AddrLink
    <2>4. \A n \in Networks(cfg) : /\ a # cfg.nets[n].gateway
                                   /\ n \in Uplinked(cfg) => a # Uplink(cfg, n).link /\ a # Uplink(cfg, n).link + 1
      <3>1. \A n \in Uplinked(cfg) : Uplink(cfg, n) \in cfg.nets[n].uplink
        BY DEF Uplinked, Uplink
      <3> QED  BY <3>1 DEF Taken
    <2> QED  BY <1>1, <2>1, <2>2, <2>3, <2>4 DEF PlanAddrs
  <1>2. ~Local(Host, a) /\ \A n : ~Local(Router(n), a)
    BY <1>1, LocalIs, Spaces
  <1>3. ASSUME NEW c \in Containers(cfg), ~Captured(c, a) PROVE ~Local(Cont(c), a)
    <2> SUFFICES ASSUME Local(Cont(c), a) PROVE FALSE
      OBVIOUS
    <2>1. PICK q \in PlanSet(cfg) : q.op = "addr" /\ q.ns = Cont(c) /\ q.prefix.base = a
      BY LocalIs
    <2>2. CASE \E n \in Networks(cfg) : \E d \in DOMAIN cfg.nets[n].attach :
                 q.ns = Cont(d) /\ cfg.nets[n].attach[d].ip = a
      BY <1>3, <2>1, <2>2, Spaces DEF Captured, NetsOf
    <2>3. CASE \E d \in Containers(cfg) : \E i \in DOMAIN cfg.links[d] :
                 q.ns = Cont(d) /\ cfg.links[d][i].address.base = a
      <3>1. PICK i \in DOMAIN cfg.links[c] : cfg.links[c][i].address.base = a
        BY <2>1, <2>3, Spaces
      <3>2. Covers(cfg.links[c][i].address, a)
        <4>1. cfg.links[c][i].address \in Subnets
          BY <1>0, LinkDecoded
        <4> QED  BY <3>1, <4>1, MaskCovers
      <3> QED  BY <1>3, <3>2 DEF Captured
    <2> QED  BY <1>1, <2>1, <2>2, <2>3
  <1> QED  BY <1>2, <1>3

------------------------------------------------------------------------------
(* The hops of a packet in a wired plan *)

(* A router hands a packet for an attached container to it: no other route of
   the router is as long as the one to the container, and the address is not
   its own. *)
LEMMA RouterHop ==
  ASSUME AtWired, NEW n \in Networks(cfg), NEW c \in DOMAIN cfg.nets[n].attach,
         ~Taken(cfg.nets[n].attach[c].ip)
  PROVE  Hops(Router(n), cfg.nets[n].attach[c].ip) = {Cont(c)}
  <1> DEFINE a == cfg.nets[n].attach[c].ip
             r == RouteIn(cfg, n, c)
             p == AddPair(cfg, n, c)
  <1>1. cfg \in Configs /\ Accepted(cfg) /\ a \in Addresses
    BY WiredIs, WiringAssumption
  <1>2. r.op = "route" /\ r.ns = Router(n) /\ r.dst = Slash32(a) /\ r.dev = RouterIf(c)
    BY Fields DEF RouteIn
  <1>3. p.op = "add" /\ p.ns = Router(n) /\ p.dev = RouterIf(c) /\ p.peer = <<Cont(c), cfg.nets[n].attach[c].interface>>
    BY Requests DEF AddPair
  <1>4. r \in PlanSet(cfg) /\ p \in PlanSet(cfg)
    <2>1. PlanRoutes(cfg, r) /\ PlanAdds(cfg, p)
      BY DEF PlanRoutes, NetRoutes, PlanAdds
    <2> QED  BY <2>1, PlanByOp DEF PlanOps
  <1> HIDE DEF a, r, p
  <1>5. Best(Router(n), a) = {Made(r)}
    BY <1>1, <1>2, <1>4, OneBest
  <1>6. ~Local(Router(n), a)
    BY <1>1, LocalsAre DEF a
  <1>7. Across(Router(n), RouterIf(c)) = {Cont(c)}
    BY <1>3, <1>4, Neighbors, Spaces
  <1>8. Made(r).dev = RouterIf(c)
    BY <1>2 DEF Made
  <1> QED  BY <1>5, <1>6, <1>7, <1>8, HopsVia DEF a

(* The host hands it to the router of the network, likewise. *)
LEMMA HostHop ==
  ASSUME AtWired, NEW n \in Uplinked(cfg), NEW c \in DOMAIN cfg.nets[n].attach,
         ~Taken(cfg.nets[n].attach[c].ip)
  PROVE  Hops(Host, cfg.nets[n].attach[c].ip) = {Router(n)}
  <1> DEFINE a == cfg.nets[n].attach[c].ip
             h == Uplink(cfg, n).hostIf
             r == EdgeRoute(cfg, n, c)
             p == AddEdge(cfg, n)
  <1>1. cfg \in Configs /\ Accepted(cfg) /\ a \in Addresses /\ n \in Networks(cfg)
    BY WiredIs, WiringAssumption DEF Uplinked
  <1>2. r.op = "route" /\ r.ns = Host /\ r.dst = Slash32(a) /\ r.dev = h
    BY Fields DEF EdgeRoute
  <1>3. p.op = "add" /\ p.ns = Host /\ p.dev = h /\ p.peer = <<Router(n), Uplink(cfg, n).routerIf>>
    BY Requests DEF AddEdge
  <1>4. r \in PlanSet(cfg) /\ p \in PlanSet(cfg)
    <2>1. PlanRoutes(cfg, r) /\ PlanAdds(cfg, p)
      BY <1>1 DEF PlanRoutes, NetRoutes, PlanAdds
    <2> QED  BY <2>1, PlanByOp DEF PlanOps
  <1> HIDE DEF a, h, r, p
  <1>5. Best(Host, a) = {Made(r)}
    BY <1>1, <1>2, <1>4, OneBest
  <1>6. ~Local(Host, a)
    BY <1>1, LocalsAre DEF a
  <1>7. Across(Host, h) = {Router(n)}
    BY <1>3, <1>4, Neighbors, Spaces
  <1>8. Made(r).dev = h
    BY <1>2 DEF Made
  <1> QED  BY <1>5, <1>6, <1>7, <1>8, HopsVia DEF a

(* A container hands it to the router of the network that has its default: no
   route of another network or of a link is to that address. *)
LEMMA ContHop ==
  ASSUME AtWired, NEW n \in Networks(cfg), NEW c \in DOMAIN cfg.nets[n].attach, OwnsDefault(cfg, n, c),
         NEW a \in Addresses, ~Taken(a), ~Captured(c, a)
  PROVE  Hops(Cont(c), a) = {Router(n)}
  <1> DEFINE S == PlanSet(cfg)
             dev == cfg.nets[n].attach[c].interface
             r == RouteDef(cfg, n, c)
             p == AddPair(cfg, n, c)
  <1>1. cfg \in Configs /\ Accepted(cfg) /\ a \in Int /\ c \in Containers(cfg)
    BY WiredIs, Attached DEF Addresses
  <1>2. r.op = "route" /\ r.ns = Cont(c) /\ r.dst = Everything /\ r.dev = dev
    BY Fields DEF RouteDef
  <1>3. p.op = "add" /\ p.ns = Router(n) /\ p.peer = <<Cont(c), dev>>
    BY Requests DEF AddPair
  <1>4. r \in S /\ p \in S
    <2>1. PlanRoutes(cfg, r) /\ PlanAdds(cfg, p)
      BY DEF PlanRoutes, NetRoutes, PlanAdds
    <2> QED  BY <2>1, PlanByOp DEF PlanOps
  <1> HIDE DEF dev, r, p
  <1>5. Made(r).ns = Cont(c) /\ Made(r).dst = Everything /\ Made(r).dev = dev
    BY <1>2 DEF Made
  <1>6. Made(r) \in Matching(Cont(c), a)
    <2>1. Made(r) \in Fib
      BY <1>2, <1>4, WiredFib DEF With
    <2> QED  BY <1>5, <2>1, All DEF Matching
  <1>7. ASSUME NEW t \in S, t.op = "route", t.ns = Cont(c), Covers(t.dst, a) PROVE t = r
    <2>1. t.dst = Everything => t = r
      BY <1>2, <1>4, <1>7, Unlike
    <2>2. PlanRoutes(cfg, t)
      BY <1>7, PlanByOp DEF PlanOps
    <2>3. ASSUME NEW m \in Networks(cfg), NetRoutes(cfg, m, t) PROVE t.dst = Everything
      <3>1. \A d : /\ RouteIn(cfg, m, d).ns = Router(m) /\ EdgeRoute(cfg, m, d).ns = Host
                   /\ RouteDef(cfg, m, d).dst = Everything
                   /\ RouteOut(cfg, m, d).dst = Slash32(cfg.nets[m].gateway)
        BY Fields DEF RouteIn, RouteDef, RouteOut, EdgeRoute
      <3>2. RouteUplink(cfg, m).ns = Router(m)
        BY Fields DEF RouteUplink
      <3>3. ~Covers(Slash32(cfg.nets[m].gateway), a)
        <4>1. cfg.nets[m].gateway \in Int /\ cfg.nets[m].gateway # a
          BY <1>1, WiringAssumption DEF Taken, Addresses
        <4> QED  BY <1>1, <4>1, Ones
      <3> QED  BY <1>7, <2>3, <3>1, <3>2, <3>3, Spaces DEF NetRoutes
    <2>4. ASSUME NEW d \in Containers(cfg), ContRoutes(cfg, d, t) PROVE t.dst = Everything
      <3>1. \A i, j : /\ LinkRoute(cfg, d, i, j).ns = Cont(d)
                      /\ LinkRoute(cfg, d, i, j).dst = cfg.links[d][i].routes[j]
                      /\ RouteLink(cfg, d, i).ns = Cont(d) /\ RouteLink(cfg, d, i).dst = Everything
        BY Fields DEF LinkRoute, RouteLink
      <3>2. d = c
        BY <1>7, <2>4, <3>1, Spaces DEF ContRoutes
      <3>3. \A i \in DOMAIN cfg.links[c] : \A j \in DOMAIN cfg.links[c][i].routes :
              ~Covers(cfg.links[c][i].routes[j], a)
        BY DEF Captured
      <3> QED  BY <1>7, <2>4, <3>1, <3>2, <3>3 DEF ContRoutes
    <2> QED  BY <2>1, <2>2, <2>3, <2>4 DEF PlanRoutes
  <1>8. ASSUME NEW t \in Wide(S), t.ns = Cont(c) PROVE ~Covers(Conn(t).dst, a)
    <2>1. t \in S /\ t.op = "addr" /\ t.prefix.bits < AddrBits
      BY DEF Wide, With
    <2>2. PlanAddrs(cfg, t)
      BY <2>1, PlanByOp DEF PlanOps
    <2>3. \A m, d : /\ AddrGateway(cfg, m).ns = Router(m) /\ AddrPair(cfg, m, d).prefix.bits = AddrBits
                    /\ AddrEdge(cfg, m).ns = Host /\ AddrUplink(cfg, m).ns = Router(m)
      BY Fields DEF AddrGateway, AddrPair, AddrEdge, AddrUplink, Slash32, Prefix
    <2>4. \A d, i : AddrLink(cfg, d, i).ns = Cont(d) /\ AddrLink(cfg, d, i).prefix = cfg.links[d][i].address
      BY Fields DEF AddrLink
    <2>5. AddrBits \in Int /\ ~(t.prefix.bits = AddrBits)
      BY <2>1, LoweringAssumption
    <2>6. PICK i \in DOMAIN cfg.links[c] : t.prefix = cfg.links[c][i].address
      BY <1>8, <2>2, <2>3, <2>4, <2>5, Spaces DEF PlanAddrs
    <2>7. t.prefix \in Subnets /\ ~Covers(t.prefix, a)
      BY <1>1, <2>6, LinkDecoded DEF Captured
    <2>8. Conn(t).dst = Masked(t.prefix)
      BY DEF Conn
    <2> QED  BY <1>1, <2>7, <2>8, MaskCovers
  <1>9. Matching(Cont(c), a) = {Made(r)}
    <2>1. ASSUME NEW q \in Matching(Cont(c), a) PROVE q = Made(r)
      <3>1. q \in Fib /\ q.ns = Cont(c) /\ Covers(q.dst, a)
        BY DEF Matching
      <3>2. ASSUME NEW t \in With(S, "route"), q = Made(t) PROVE q = Made(r)
        <4>1. t \in S /\ t.op = "route" /\ t.ns = Cont(c) /\ Covers(t.dst, a)
          BY <3>1, <3>2 DEF With, Made
        <4> QED  BY <1>7, <3>2, <4>1
      <3>3. ASSUME NEW t \in Wide(S), q = Conn(t) PROVE FALSE
        <4>1. t.ns = Cont(c)
          BY <3>1, <3>3 DEF Conn
        <4> QED  BY <1>8, <3>1, <3>3, <4>1
      <3> QED  BY <3>1, <3>2, <3>3, WiredFib
    <2> QED  BY <1>6, <2>1
  <1>10. Best(Cont(c), a) = {Made(r)}
    <2>1. Made(r).dst.bits <= Made(r).dst.bits
      BY <1>5, All
    <2> QED  BY <1>9, <2>1 DEF Best
  <1>11. ~Local(Cont(c), a)
    BY <1>1, LocalsAre
  <1>12. Across(Cont(c), dev) = {Router(n)}
    BY <1>3, <1>4, Neighbors, Spaces
  <1> QED  BY <1>5, <1>10, <1>11, <1>12, HopsVia

(* A container that has its default route on a network is one whose default
   route the lowering put there. *)
LEMMA HomeOwns ==
  ASSUME NEW x \in Configs, NEW n \in Networks(x), NEW c \in Containers(x),
         x.nets[n].attach[c].default \/ Ifaces(x, c) = {<<"net", n>>}
  PROVE  OwnsDefault(x, n, c)
  <1>1. CASE x.nets[n].attach[c].default
    BY <1>1 DEF OwnsDefault
  <1>2. CASE Ifaces(x, c) = {<<"net", n>>}
    <2>1. \A i, m : <<"link", i>> # <<"net", m>> /\ (<<"net", m>> = <<"net", n>> => m = n)
      OBVIOUS
    <2>2. DOMAIN LinksOf(x, c) = {}
      BY <1>2, <2>1 DEF Ifaces
    <2>3. NetsOf(x, c) = {n}
      <3>1. \A m : m \in NetsOf(x, c) <=> <<"net", m>> \in Ifaces(x, c)
        BY <2>1 DEF Ifaces
      <3> QED  BY <1>2, <2>1, <3>1
    <2>4. Len(LinksOf(x, c)) = 0
      <3>1. LinksOf(x, c) = x.links[c] /\ Len(x.links[c]) \in Nat /\ DOMAIN x.links[c] = 1..Len(x.links[c])
        BY LinksAre
      <3>2. \A k \in Nat : 1..k = {} => k = 0
        OBVIOUS
      <3>3. DOMAIN x.links[c] = {}
        BY <2>2, <3>1
      <3> QED  BY <3>1, <3>2, <3>3
    <2>5. Cardinality(NetsOf(x, c)) = 1
      BY <2>3, FS_Singleton
    <2> QED  BY <2>4, <2>5 DEF OwnsDefault, InterfaceCount
  <1> QED  BY <1>1, <1>2

(* Where a flow leads from one of its ends to the other, and back. *)
LEMMA PairHops ==
  ASSUME AtWired, NEW n \in Networks(cfg),
         NEW c \in DOMAIN cfg.nets[n].attach, NEW d \in DOMAIN cfg.nets[n].attach,
         cfg.nets[n].attach[c].default \/ Ifaces(cfg, c) = {<<"net", n>>},
         ~Captured(c, cfg.nets[n].attach[d].ip), ~Taken(cfg.nets[n].attach[d].ip)
  PROVE  LET a == cfg.nets[n].attach[d].ip
         IN  /\ Hops(Cont(c), a) = {Router(n)} /\ Hops(Router(n), a) = {Cont(d)}
             /\ Local(Cont(d), a)
  <1> DEFINE a == cfg.nets[n].attach[d].ip
             p == AddrPair(cfg, n, d)
  <1>1. cfg \in Configs /\ Accepted(cfg) /\ c \in Containers(cfg) /\ a \in Addresses
    BY WiredIs, Attached, WiringAssumption
  <1>2. OwnsDefault(cfg, n, c)
    BY <1>1, HomeOwns
  <1>3. Hops(Router(n), a) = {Cont(d)}
    BY RouterHop
  <1>4. p.op = "addr" /\ p.ns = Cont(d) /\ p.prefix.base = a
    BY Fields DEF AddrPair, Slash32, Prefix
  <1>5. p \in PlanSet(cfg)
    <2>1. PlanAddrs(cfg, p)
      BY DEF PlanAddrs
    <2> QED  BY <2>1, PlanByOp DEF PlanOps
  <1>6. Local(Cont(d), a)
    <2> HIDE DEF a, p
    <2> QED  BY <1>4, <1>5, LocalIs
  <1>7. Hops(Cont(c), a) = {Router(n)}
    BY <1>1, <1>2, ContHop
  <1> QED  BY <1>3, <1>6, <1>7

(* In a wired plan a flow's packets get from its source to its target, and
   the replies back, by the router of its network, and the host's packets to
   the containers of an uplinked network by that network's router, whatever
   the other networks and links are (dataplane.go:90-154, hostedge.go:35-83,
   plan.go:411-440): unless a link or another network takes the address, or it
   is a gateway's or an uplink's, for which Validate does not ask. *)
THEOREM AlwaysDelivered == Spec => []Delivered
  <1>1. ASSUME IInv, Answered PROVE Delivered
    <2> SUFFICES ASSUME Wired, NEW n \in Networks(cfg)
                 PROVE  /\ \A c \in Containers(cfg) : \A t \in Peers(cfg, c) \ {c} :
                             LET at == cfg.nets[n].attach
                                 Home(k, a) == /\ at[k].default \/ Ifaces(cfg, k) = {<<"net", n>>}
                                               /\ ~Captured(k, a) /\ ~Taken(a)
                                 Through(k, d) == /\ Hops(Cont(k), at[d].ip) = {Router(n)}
                                                  /\ Hops(Router(n), at[d].ip) = {Cont(d)}
                                                  /\ Local(Cont(d), at[d].ip)
                             IN  /\ n = Max(PeerNets(cfg, c, t))
                                 /\ Home(c, at[t].ip) /\ Home(t, at[c].ip)
                                 => /\ PeerAddr(cfg, c, t) = at[t].ip
                                    /\ Through(c, t) /\ Through(t, c)
                        /\ n \in Uplinked(cfg) => \A c \in DOMAIN cfg.nets[n].attach :
                             ~Taken(cfg.nets[n].attach[c].ip) =>
                               /\ Hops(Host, cfg.nets[n].attach[c].ip) = {Router(n)}
                               /\ Hops(Router(n), cfg.nets[n].attach[c].ip) = {Cont(c)}
      BY DEF Delivered
    <2>1. AtWired /\ cfg \in Configs /\ Accepted(cfg)
      BY <1>1 DEF AtWired, IInv, Typed, Answered
    <2> DEFINE at == cfg.nets[n].attach
               Home(k, a) == /\ at[k].default \/ Ifaces(cfg, k) = {<<"net", n>>}
                             /\ ~Captured(k, a) /\ ~Taken(a)
               Through(k, d) == /\ Hops(Cont(k), at[d].ip) = {Router(n)}
                                /\ Hops(Router(n), at[d].ip) = {Cont(d)}
                                /\ Local(Cont(d), at[d].ip)
    <2>2. ASSUME NEW c \in Containers(cfg), NEW t \in Peers(cfg, c), n = Max(PeerNets(cfg, c, t)),
                 Home(c, at[t].ip), Home(t, at[c].ip)
          PROVE  PeerAddr(cfg, c, t) = at[t].ip /\ Through(c, t) /\ Through(t, c)
      <3>1. c \in DOMAIN at /\ t \in DOMAIN at
        <4>1. PeerNets(cfg, c, t) # {} /\ PeerNets(cfg, c, t) \subseteq Networks(cfg)
          BY <2>2 DEF Peers, PeerNets, NetsOf
        <4>2. Networks(cfg) \subseteq Nat /\ IsFiniteSet(Networks(cfg))
          BY <2>1, WiringAssumption DEF Ids
        <4>3. IsFiniteSet(PeerNets(cfg, c, t)) /\ PeerNets(cfg, c, t) \subseteq Nat
          BY <4>1, <4>2, FS_Subset
        <4>4. n \in PeerNets(cfg, c, t)
          BY <2>2, <4>1, <4>3, Greatest
        <4>5. n \in Networks(cfg) /\ <<c, t>> \in cfg.nets[n].flows
          BY <4>4 DEF PeerNets
        <4>6. \A f \in cfg.nets[n].flows : {f[1], f[2]} \subseteq DOMAIN cfg.nets[n].attach
          BY <2>1 DEF Accepted, Validate, NetworkOK
        <4>7. <<c, t>>[1] = c /\ <<c, t>>[2] = t
          OBVIOUS
        <4> QED  BY <4>5, <4>6, <4>7
      <3>2. PeerAddr(cfg, c, t) = at[t].ip
        BY <2>2 DEF PeerAddr
      <3>3. ASSUME NEW k \in DOMAIN at, NEW d \in DOMAIN at, Home(k, at[d].ip) PROVE Through(k, d)
        <4>1. /\ at[k].default \/ Ifaces(cfg, k) = {<<"net", n>>}
              /\ ~Captured(k, at[d].ip) /\ ~Taken(at[d].ip)
          BY <3>3
        <4>2. /\ Hops(Cont(k), at[d].ip) = {Router(n)} /\ Hops(Router(n), at[d].ip) = {Cont(d)}
              /\ Local(Cont(d), at[d].ip)
          BY <2>1, <4>1, PairHops
        <4> QED  BY <4>2
      <3> HIDE DEF at, Home, Through
      <3>4. Through(c, t) /\ Through(t, c)
        BY <2>2, <3>1, <3>3
      <3> QED  BY <3>2, <3>3, <3>4
    <2>3. ASSUME n \in Uplinked(cfg), NEW c \in DOMAIN at, ~Taken(at[c].ip)
          PROVE  Hops(Host, at[c].ip) = {Router(n)} /\ Hops(Router(n), at[c].ip) = {Cont(c)}
      BY <2>1, <2>3, HostHop, RouterHop
    <2> QED  BY <2>2, <2>3
  <1> QED  BY <1>1, AlwaysAnswered, PTL
==============================================================================
