----------------------------- MODULE NftProofs -----------------------------
(***************************************************************************)
(* No batch is refused, and tables are absent or whole: proofs about Nft.  *)
(*                                                                         *)
(* A batch is a fold over its commands, so what it does is proved by       *)
(* induction over its length (Runs), and with that in two rules: the last  *)
(* command acts on what the others made (OneMore), and of two batches      *)
(* joined the second on what the first made (OneAfter).  Each kind of      *)
(* command is one lemma (ChainDoes, MapDoes, RuleDoes, VmapDoes), a chain  *)
(* of rules another (RulesGive), and BuildNFT and BuildHostNFT are run     *)
(* with them from any tables to the one ruleset they mean (RouterGives,    *)
(* HostGives).  What the kernel has when a batch comes does not matter, so *)
(* the invariant is small.                                                 *)
(***************************************************************************)
EXTENDS Nft, TLAPS, SequenceTheorems, WellFoundedInduction

Then(s, c) == UNION {Exec(r, c) : r \in s}

(* A batch as the fold that computes it. *)
LEMMA Unfold ==
  ASSUME NEW rs, NEW b
  PROVE  Transaction(rs, b) =
           (CHOOSE g : g = [s \in SUBSET (DOMAIN b) |->
                              IF s = {} THEN {rs} ELSE Then(g[s \ {Max(s)}], b[Max(s)])])[DOMAIN b]
  BY DEF Transaction, FoldLeft, MapThenFoldSet, Then

(* A set of numbers has a least one. *)
LEMMA Least ==
  ASSUME NEW S, S \subseteq Nat, S # {}
  PROVE  \E m \in S : \A k \in S : m <= k
  <1>1. PICK m \in S : \A k \in S : ~(<<k, m>> \in OpToRel(<, Nat))
    BY NatLessThanWellFounded, WFMin
  <1>2. \A k \in S : ~(k < m)
    BY <1>1 DEF OpToRel
  <1> QED  BY <1>2

(* A set with 0 and the successors of its numbers has every number. *)
LEMMA Induction ==
  ASSUME NEW S, 0 \in S, \A n \in Nat : n \in S => n + 1 \in S
  PROVE  Nat \subseteq S
  <1> SUFFICES ASSUME Nat \ S # {} PROVE FALSE
    OBVIOUS
  <1>1. PICK m \in Nat \ S : \A k \in Nat \ S : m <= k
    BY Least
  <1>2. m # 0 /\ m - 1 \in Nat
    BY <1>1
  <1>3. m - 1 \in S
    BY <1>1, <1>2
  <1> QED  BY <1>1, <1>2, <1>3

(* The fold takes the greatest index first. *)
LEMMA Greatest ==
  ASSUME NEW n \in Nat, NEW S, S \subseteq 1..n, S # {}
  PROVE  Max(S) \in S /\ \A k \in S : k <= Max(S)
  <1> DEFINE T == {n - k : k \in S}
  <1>1. PICK m \in T : \A k \in T : m <= k
    <2>1. T # {}
      OBVIOUS
    <2>2. ASSUME NEW k \in S PROVE n - k \in Nat
      <3>1. k \in 1..n
        OBVIOUS
      <3> QED  BY <3>1
    <2>3. T \subseteq Nat
      BY <2>2
    <2> QED  BY <2>1, <2>3, Least
  <1>2. PICK x \in S : m = n - x
    OBVIOUS
  <1>3. \A k \in S : n - k \in T
    OBVIOUS
  <1>4. \A k \in S : x >= k
    BY <1>1, <1>2, <1>3
  <1>5. \E y \in S : \A k \in S : y >= k
    BY <1>4
  <1>6. Max(S) \in S /\ \A k \in S : Max(S) >= k
    BY <1>5 DEF Max
  <1> QED  BY <1>6

IsFold(g, rs, b, n) ==
  g = [s \in SUBSET (1..n) |-> IF s = {} THEN {rs} ELSE Then(g[s \ {Max(s)}], b[Max(s)])]

(* The function the fold chooses exists, for batches of every length. *)
LEMMA FoldExists ==
  ASSUME NEW rs, NEW b
  PROVE  \A n \in Nat : \E g : IsFold(g, rs, b, n)
  <1> DEFINE S == {n \in Nat : \E g : IsFold(g, rs, b, n)}
  <1>1. 0 \in S
    <2> DEFINE g == [s \in SUBSET (1..0) |-> {rs}]
    <2>1. SUBSET (1..0) = {{}}
      OBVIOUS
    <2>2. IsFold(g, rs, b, 0)
      BY <2>1 DEF IsFold
    <2> QED  BY <2>2
  <1>2. ASSUME NEW n \in Nat, n \in S PROVE n + 1 \in S
    <2>1. PICK g : IsFold(g, rs, b, n)
      BY <1>2
    <2> DEFINE D == SUBSET (1..n)
               E == SUBSET (1..(n + 1))
               G(s) == IF n + 1 \in s THEN Then(g[s \ {n + 1}], b[n + 1]) ELSE g[s]
               F == [s \in E |-> G(s)]
               H(s) == IF s = {} THEN {rs} ELSE Then(F[s \ {Max(s)}], b[Max(s)])
    <2>2. \A s \in D : s \in E /\ n + 1 \notin s /\ F[s] = g[s]
      OBVIOUS
    <2>3. \A s \in D : g[s] = IF s = {} THEN {rs} ELSE Then(g[s \ {Max(s)}], b[Max(s)])
      BY <2>1 DEF IsFold
    <2>4. ASSUME NEW s \in E PROVE G(s) = H(s)
      <3>1. CASE s = {}
        BY <2>2, <2>3, <3>1
      <3>2. CASE s # {} /\ n + 1 \in s
        <4>1. Max(s) = n + 1
          <5>1. s \subseteq 1..(n + 1) /\ n + 1 \in Nat
            OBVIOUS
          <5>2. Max(s) \in s /\ n + 1 <= Max(s)
            BY <3>2, <5>1, Greatest
          <5>3. Max(s) \in 1..(n + 1)
            BY <5>1, <5>2
          <5> QED  BY <5>2, <5>3
        <4>2. s \ {n + 1} \in D
          OBVIOUS
        <4>3. H(s) = Then(F[s \ {n + 1}], b[n + 1])
          BY <3>2, <4>1
        <4>4. G(s) = Then(g[s \ {n + 1}], b[n + 1])
          BY <3>2
        <4> QED  BY <4>2, <4>3, <4>4, <2>2
      <3>3. CASE s # {} /\ n + 1 \notin s
        <4>1. s \in D
          BY <3>3
        <4>2. s \ {Max(s)} \in D
          BY <4>1
        <4> QED  BY <3>3, <4>1, <4>2, <2>2, <2>3
      <3> QED  BY <3>1, <3>2, <3>3
    <2>5. F = [s \in E |-> H(s)]
      <3> HIDE DEF E, G, H
      <3> QED  BY <2>4 DEF F
    <2>6. IsFold(F, rs, b, n + 1)
      BY <2>5 DEF IsFold
    <2> QED  BY <2>6
  <1>3. Nat \subseteq S
    <2> HIDE DEF S
    <2> QED  BY <1>1, <1>2, Induction
  <1> QED  BY <1>3

IsRun(run, rs, b, n) ==
  /\ run[0] = {rs}
  /\ \A k \in 1..n : run[k] = Then(run[k - 1], b[k])
  /\ Transaction(rs, b) = run[n]

(* A batch as the states it goes through, one command after the other. *)
LEMMA Runs ==
  ASSUME NEW rs, NEW b, NEW n \in Nat, DOMAIN b = 1..n
  PROVE  \E run : IsRun(run, rs, b, n)
  <1> DEFINE g == CHOOSE g : IsFold(g, rs, b, n)
             run == [k \in 0..n |-> g[1..k]]
  <1>1. IsFold(g, rs, b, n)
    BY FoldExists
  <1>2. Transaction(rs, b) = g[1..n]
    BY Unfold DEF IsFold
  <1> HIDE DEF g
  <1>3. run[0] = {rs}
    <2>1. 1..0 = {} /\ {} \in SUBSET (1..n)
      OBVIOUS
    <2> QED  BY <2>1, <1>1 DEF IsFold
  <1>4. ASSUME NEW k \in 1..n PROVE run[k] = Then(run[k - 1], b[k])
    <2>0. k \in Nat /\ 1 <= k /\ k <= n
      OBVIOUS
    <2>1. 1..k \subseteq 1..n /\ 1..k # {} /\ k \in 1..k
      BY <2>0
    <2>2. Max(1..k) = k
      <3>1. Max(1..k) \in 1..k /\ k <= Max(1..k)
        BY <2>1, Greatest
      <3> QED  BY <3>1
    <2>3. (1..k) \ {k} = 1..(k - 1)
      OBVIOUS
    <2>4. g[1..k] = Then(g[(1..k) \ {Max(1..k)}], b[Max(1..k)])
      BY <1>1, <2>1 DEF IsFold
    <2>5. g[1..k] = Then(g[1..(k - 1)], b[k])
      BY <2>2, <2>3, <2>4
    <2>6. run[k] = g[1..k] /\ run[k - 1] = g[1..(k - 1)]
      OBVIOUS
    <2> QED  BY <2>5, <2>6
  <1>5. run[n] = g[1..n]
    OBVIOUS
  <1> HIDE DEF run
  <1> QED  BY <1>2, <1>3, <1>4, <1>5 DEF IsRun

(* An empty batch changes nothing. *)
LEMMA Empty ==
  ASSUME NEW rs
  PROVE  Transaction(rs, <<>>) = {rs}
  <1> DEFINE b == <<>>
  <1>1. DOMAIN b = 1..0 /\ 0 \in Nat
    OBVIOUS
  <1> HIDE DEF b
  <1>2. PICK run : IsRun(run, rs, b, 0)
    BY <1>1, Runs
  <1> QED  BY <1>2 DEF IsRun, b

(* The last command acts on what the others left. *)
LEMMA LastCommand ==
  ASSUME NEW S, NEW rs, NEW b \in Seq(S), NEW c \in S
  PROVE  Transaction(rs, Append(b, c)) = Then(Transaction(rs, b), c)
  <1> DEFINE n == Len(b)
             d == Append(b, c)
  <1>1. n \in Nat /\ n + 1 \in Nat /\ DOMAIN b = 1..n /\ DOMAIN d = 1..(n + 1)
    BY LenProperties, AppendProperties
  <1>2. d[n + 1] = c /\ \A k \in 1..n : d[k] = b[k]
    BY AppendProperties
  <1> HIDE DEF d, n
  <1>3. PICK f : IsRun(f, rs, b, n)
    BY <1>1, Runs
  <1>4. PICK g : IsRun(g, rs, d, n + 1)
    BY <1>1, Runs
  <1> DEFINE Same == {k \in Nat : k <= n => f[k] = g[k]}
  <1>5. 0 \in Same
    BY <1>3, <1>4 DEF IsRun
  <1>6. ASSUME NEW k \in Nat, k \in Same PROVE k + 1 \in Same
    <2> SUFFICES ASSUME k + 1 <= n PROVE f[k + 1] = g[k + 1]
      OBVIOUS
    <2>1. k + 1 \in 1..n /\ k + 1 \in 1..(n + 1) /\ k <= n /\ (k + 1) - 1 = k
      BY <1>1
    <2>2. f[k] = g[k]
      BY <1>6, <2>1
    <2>3. f[k + 1] = Then(f[k], b[k + 1]) /\ g[k + 1] = Then(g[k], d[k + 1])
      BY <1>3, <1>4, <2>1 DEF IsRun
    <2> QED  BY <2>1, <2>2, <2>3, <1>2
  <1>7. n \in Same
    <2> HIDE DEF Same
    <2> QED  BY <1>1, <1>5, <1>6, Induction
  <1>8. g[n + 1] = Then(g[n], c)
    <2>1. n + 1 \in 1..(n + 1) /\ (n + 1) - 1 = n
      BY <1>1
    <2>2. g[n + 1] = Then(g[(n + 1) - 1], d[n + 1])
      BY <1>4, <2>1 DEF IsRun
    <2> QED  BY <1>2, <2>1, <2>2
  <1> QED  BY <1>1, <1>3, <1>4, <1>7, <1>8 DEF d, IsRun

(* Appending to the second of two lists joined. *)
LEMMA AppendAfterConcat ==
  ASSUME NEW S, NEW s \in Seq(S), NEW u \in Seq(S), NEW e \in S
  PROVE  s \o Append(u, e) = Append(s \o u, e)
  <1>1. s \o u \in Seq(S) /\ <<e>> \in Seq(S)
    BY ConcatProperties
  <1>2. Append(s \o u, e) = (s \o u) \o <<e>>
    BY <1>1, AppendIsConcat
  <1>3. Append(u, e) = u \o <<e>>
    BY AppendIsConcat
  <1> QED  BY <1>1, <1>2, <1>3, ConcatAssociative

(* Of two batches joined the second acts on what the first left. *)
LEMMA Concat ==
  ASSUME NEW S, NEW rs, NEW b \in Seq(S), NEW r, Transaction(rs, b) = {r}, NEW d \in Seq(S)
  PROVE  Transaction(rs, b \o d) = Transaction(r, d)
  <1> DEFINE Good == {n \in Nat : \A e \in Seq(S) : Len(e) = n => Transaction(rs, b \o e) = Transaction(r, e)}
  <1>1. 0 \in Good
    <2> SUFFICES ASSUME NEW e \in Seq(S), Len(e) = 0
                 PROVE  Transaction(rs, b \o e) = Transaction(r, e)
      OBVIOUS
    <2>1. e = <<>>
      BY EmptySeq
    <2>2. b \o <<>> = b
      BY ConcatEmptySeq
    <2> QED  BY <2>1, <2>2, Empty
  <1>2. ASSUME NEW n \in Nat, n \in Good PROVE n + 1 \in Good
    <2> SUFFICES ASSUME NEW e \in Seq(S), Len(e) = n + 1
                 PROVE  Transaction(rs, b \o e) = Transaction(r, e)
      OBVIOUS
    <2>1. e # <<>>
      BY EmptySeq
    <2>2. PICK s \in Seq(S), c \in S : e = Append(s, c)
      BY <2>1, SequenceEmptyOrAppend
    <2>3. Len(s) = n
      BY <2>2, AppendProperties, LenProperties
    <2>4. Transaction(rs, b \o s) = Transaction(r, s)
      BY <1>2, <2>3
    <2>5. b \o e = Append(b \o s, c)
      BY <2>2, AppendAfterConcat
    <2>6. b \o s \in Seq(S)
      BY ConcatProperties
    <2>7. Transaction(rs, Append(b \o s, c)) = Then(Transaction(rs, b \o s), c)
      <3> DEFINE t == b \o s
      <3>1. t \in Seq(S)
        BY <2>6
      <3> HIDE DEF t
      <3>2. Transaction(rs, Append(t, c)) = Then(Transaction(rs, t), c)
        BY <3>1, LastCommand
      <3> QED  BY <3>2 DEF t
    <2>8. Transaction(r, Append(s, c)) = Then(Transaction(r, s), c)
      BY LastCommand
    <2> QED  BY <2>2, <2>4, <2>5, <2>7, <2>8
  <1>3. Nat \subseteq Good
    <2> HIDE DEF Good
    <2> QED  BY <1>1, <1>2, Induction
  <1>4. Len(d) \in Good
    BY <1>3, LenProperties
  <1> QED  BY <1>4

------------------------------------------------------------------------------
(* One command *)

Tab(C, M) == [chains |-> C, maps |-> M]
Without(rs, t) == [i \in DOMAIN rs \ {t} |-> rs[i]]

(* The texts of rules and names; the provers do not know a literal as a
   member of STRING. *)
Text == STRING \cup {"forward", "input", "postrouting", "prerouting", "allowed_flows",
                     "established", "invalid", "new", "lo", "icmp", "masquerade"}

Command == {AddTable(t) : t \in Tables} \cup {DeleteTable(t) : t \in Tables}
           \cup {Chain(t, c) : t \in Tables, c \in Text}
           \cup {Map(t, m, es) : t \in Tables, m \in Text, es \in SUBSET Flows}
           \cup {Rule(t, c, e) : t \in Tables, c \in Text, e \in Text}
           \cup {Vmap(t, c, e, m) : t \in Tables, c \in Text, e \in Text, m \in Text}

(* The commands that nftlib writes are commands. *)
LEMMA CommandTypes ==
  ASSUME NEW t \in Tables
  PROVE  /\ AddTable(t) \in Command /\ DeleteTable(t) \in Command
         /\ \A c \in Text : Chain(t, c) \in Command
         /\ \A m \in Text, es \in SUBSET Flows : Map(t, m, es) \in Command
         /\ \A c \in Text, e \in Text : Rule(t, c, e) \in Command
         /\ \A c \in Text, e \in Text, m \in Text : Vmap(t, c, e, m) \in Command
  BY DEF Command

(* A command that the kernel takes in rs, and what it makes of rs. *)
Makes(rs, c, q) == Exec(rs, c) = {q}
Does(rs, c, q)  == c \in Command /\ Makes(rs, c, q)

(* The three commands a reload begins with leave the table empty. *)
LEMMA AddDelete ==
  ASSUME NEW rs, NEW t, rs = [i \in DOMAIN rs |-> rs[i]]
  PROVE  \E r : /\ Exec(rs, AddTable(t)) = {r} /\ Exec(r, DeleteTable(t)) = {Without(rs, t)}
                /\ Exec(Without(rs, t), AddTable(t)) = {With(rs, t, EmptyTable)}
  <1> DEFINE r == IF t \in DOMAIN rs THEN rs ELSE With(rs, t, EmptyTable)
  <1>1. Exec(rs, AddTable(t)) = {r}
    BY DEF Exec, AddTable
  <1>2. t \in DOMAIN r
    BY DEF With
  <1>3. Exec(r, DeleteTable(t)) = {Without(r, t)}
    BY <1>2 DEF Exec, DeleteTable, Without
  <1>4. Without(r, t) = Without(rs, t)
    <2>1. CASE t \in DOMAIN rs
      BY <2>1
    <2>2. CASE t \notin DOMAIN rs
      BY <2>2 DEF Without, With
    <2> QED  BY <2>1, <2>2
  <1>5. Exec(Without(rs, t), AddTable(t)) = {With(Without(rs, t), t, EmptyTable)}
    BY DEF Exec, AddTable, Without
  <1>6. With(Without(rs, t), t, EmptyTable) = With(rs, t, EmptyTable)
    BY DEF With, Without
  <1> QED  BY <1>1, <1>3, <1>4, <1>5, <1>6

(* The table at hand, replaced. *)
LEMMA Put ==
  ASSUME NEW rs, NEW t, NEW v, NEW w
  PROVE  [With(rs, t, v) EXCEPT ![t] = w] = With(rs, t, w)
  BY DEF With

(* The table at hand with other chains. *)
LEMMA SetChains ==
  ASSUME NEW rs, NEW t, NEW C, NEW M, NEW X
  PROVE  [With(rs, t, Tab(C, M)) EXCEPT ![t].chains = X] = With(rs, t, Tab(X, M))
  <1> DEFINE r == With(rs, t, Tab(C, M))
  <1>1. r[t] = Tab(C, M)
    BY DEF With
  <1>2. [r EXCEPT ![t].chains = X] = [r EXCEPT ![t] = [r[t] EXCEPT !.chains = X]]
    OBVIOUS
  <1>3. [Tab(C, M) EXCEPT !.chains = X] = Tab(X, M)
    BY DEF Tab
  <1>4. [r EXCEPT ![t] = Tab(X, M)] = With(rs, t, Tab(X, M))
    BY Put
  <1> HIDE DEF r
  <1> QED  BY <1>1, <1>2, <1>3, <1>4 DEF r

(* The table at hand with other maps. *)
LEMMA SetMaps ==
  ASSUME NEW rs, NEW t, NEW C, NEW M, NEW X
  PROVE  [With(rs, t, Tab(C, M)) EXCEPT ![t].maps = X] = With(rs, t, Tab(C, X))
  <1> DEFINE r == With(rs, t, Tab(C, M))
  <1>1. r[t] = Tab(C, M)
    BY DEF With
  <1>2. [r EXCEPT ![t].maps = X] = [r EXCEPT ![t] = [r[t] EXCEPT !.maps = X]]
    OBVIOUS
  <1>3. [Tab(C, M) EXCEPT !.maps = X] = Tab(C, X)
    BY DEF Tab
  <1>4. [r EXCEPT ![t] = Tab(C, X)] = With(rs, t, Tab(C, X))
    BY Put
  <1> HIDE DEF r
  <1> QED  BY <1>1, <1>2, <1>3, <1>4 DEF r

(* Adding a chain that is not there. *)
LEMMA ChainDoes ==
  ASSUME NEW rs, NEW t \in Tables, NEW C, NEW M, NEW c \in Text, c \notin DOMAIN C
  PROVE  Does(With(rs, t, Tab(C, M)), Chain(t, c), With(rs, t, Tab(With(C, c, <<>>), M)))
  <1> DEFINE r == With(rs, t, Tab(C, M))
             s == [r EXCEPT ![t].chains = With(@, c, <<>>)]
  <1>1. t \in DOMAIN r /\ r[t] = Tab(C, M) /\ DOMAIN r = DOMAIN rs \cup {t}
    BY DEF With
  <1>2. Exec(r, Chain(t, c)) = {s}
    BY <1>1 DEF Exec, Chain, Tab
  <1>3. r[t].chains = C
    BY <1>1 DEF Tab
  <1>4. s = [r EXCEPT ![t].chains = With(C, c, <<>>)]
    BY <1>3
  <1>5. s = With(rs, t, Tab(With(C, c, <<>>), M))
    BY <1>4, SetChains
  <1>6. Chain(t, c) \in Command
    BY CommandTypes
  <1> HIDE DEF s
  <1> QED  BY <1>2, <1>5, <1>6 DEF Does, Makes

(* Adding a map that is not there, with its elements. *)
LEMMA MapDoes ==
  ASSUME NEW rs, NEW t \in Tables, NEW C, NEW M, NEW m \in Text, NEW es \in SUBSET Flows, m \notin DOMAIN M
  PROVE  Does(With(rs, t, Tab(C, M)), Map(t, m, es), With(rs, t, Tab(C, With(M, m, es))))
  <1> DEFINE r == With(rs, t, Tab(C, M))
             s == [r EXCEPT ![t].maps = With(@, m, es \cup (IF m \in DOMAIN @ THEN @[m] ELSE {}))]
  <1>1. t \in DOMAIN r /\ r[t] = Tab(C, M)
    BY DEF With
  <1>2. Exec(r, Map(t, m, es)) = {s}
    BY <1>1 DEF Exec, Map
  <1>3. r[t].maps = M
    BY <1>1 DEF Tab
  <1>4. s = [r EXCEPT ![t].maps = With(M, m, es)]
    <2>1. es \cup (IF m \in DOMAIN M THEN M[m] ELSE {}) = es
      OBVIOUS
    <2> HIDE DEF r
    <2> QED  BY <1>3, <2>1
  <1>5. s = With(rs, t, Tab(C, With(M, m, es)))
    <2> DEFINE X == With(M, m, es)
    <2>1. [r EXCEPT ![t].maps = X] = With(rs, t, Tab(C, X))
      <3> HIDE DEF X
      <3> QED  BY SetMaps
    <2> QED  BY <1>4, <2>1
  <1> HIDE DEF s
  <1>6. Map(t, m, es) \in Command
    BY CommandTypes
  <1> QED  BY <1>2, <1>5, <1>6 DEF Does, Makes

RuleIf(t, c, e, ms) == [verb |-> "add rule", table |-> t, chain |-> c, expr |-> e, maps |-> ms]

(* Adding a rule to a chain that is there, naming maps that are. *)
LEMMA AddRule ==
  ASSUME NEW rs, NEW t, NEW C, NEW M, NEW c \in DOMAIN C, NEW e, NEW ms, ms \subseteq DOMAIN M
  PROVE  Makes(With(rs, t, Tab(C, M)), RuleIf(t, c, e, ms), With(rs, t, Tab([C EXCEPT ![c] = Append(@, e)], M)))
  <1> DEFINE r == With(rs, t, Tab(C, M))
             s == [r EXCEPT ![t].chains[c] = Append(@, e)]
             X == [C EXCEPT ![c] = Append(@, e)]
  <1>1. t \in DOMAIN r /\ r[t] = Tab(C, M)
    BY DEF With
  <1>2. r[t].chains = C /\ r[t].maps = M
    <2> HIDE DEF r
    <2> QED  BY <1>1 DEF Tab
  <1>3. Exec(r, RuleIf(t, c, e, ms)) = {s}
    <2> HIDE DEF r
    <2> QED  BY <1>1, <1>2 DEF Exec, RuleIf
  <1>4. s = [r EXCEPT ![t].chains = X]
    <2> HIDE DEF r
    <2>1. s = [r EXCEPT ![t].chains = [r[t].chains EXCEPT ![c] = Append(r[t].chains[c], e)]]
      OBVIOUS
    <2> QED  BY <1>2, <2>1
  <1>5. [r EXCEPT ![t].chains = X] = With(rs, t, Tab(X, M))
    <2> HIDE DEF X
    <2> QED  BY SetChains
  <1>6. Exec(r, RuleIf(t, c, e, ms)) = {With(rs, t, Tab(X, M))}
    <2> HIDE DEF s, r, X
    <2> QED  BY <1>3, <1>4, <1>5
  <1> QED  BY <1>6 DEF Makes

------------------------------------------------------------------------------
(* The batches *)

(* A batch, likewise. *)
Gives(rs, b, q) == b \in Seq(Command) /\ Transaction(rs, b) = {q}

(* The three ways a batch is put together. *)
LEMMA Nothing ==
  ASSUME NEW rs
  PROVE  Gives(rs, <<>>, rs)
  <1>1. <<>> \in Seq(Command)
    OBVIOUS
  <1> QED  BY <1>1, Empty DEF Gives

(* One more command. *)
LEMMA OneMore ==
  ASSUME NEW rs, NEW b, NEW c, NEW r, NEW q
  PROVE  Gives(rs, b, r) /\ Does(r, c, q) => Gives(rs, Append(b, c), q)
  <1>1. ASSUME b \in Seq(Command), c \in Command
        PROVE  /\ Transaction(rs, Append(b, c)) = Then(Transaction(rs, b), c)
               /\ Append(b, c) \in Seq(Command)
    BY <1>1, LastCommand, AppendProperties
  <1>2. Exec(r, c) = {q} => Then({r}, c) = {q}
    BY DEF Then
  <1> QED  BY <1>1, <1>2 DEF Gives, Does, Makes

(* One batch after another. *)
LEMMA OneAfter ==
  ASSUME NEW rs, NEW b, NEW d, NEW r, NEW q
  PROVE  Gives(rs, b, r) /\ Gives(r, d, q) => Gives(rs, b \o d, q)
  <1> SUFFICES ASSUME b \in Seq(Command), d \in Seq(Command), Transaction(rs, b) = {r}
               PROVE  b \o d \in Seq(Command) /\ Transaction(rs, b \o d) = Transaction(r, d)
    BY DEF Gives
  <1>1. b \o d \in Seq(Command)
    BY ConcatProperties
  <1> QED  BY <1>1, Concat

(* What each kind of command does to a table. *)
LEMMA RuleDoes ==
  ASSUME NEW rs, NEW t \in Tables, NEW C, NEW M, NEW c \in Text, c \in DOMAIN C, NEW e \in Text
  PROVE  Does(With(rs, t, Tab(C, M)), Rule(t, c, e), With(rs, t, Tab([C EXCEPT ![c] = Append(@, e)], M)))
  <1> DEFINE X == [C EXCEPT ![c] = Append(@, e)]
  <1>1. Makes(With(rs, t, Tab(C, M)), RuleIf(t, c, e, {}), With(rs, t, Tab(X, M)))
    <2>1. {} \subseteq DOMAIN M
      OBVIOUS
    <2> QED  BY <2>1, AddRule
  <1>2. RuleIf(t, c, e, {}) = Rule(t, c, e)
    BY DEF Rule, RuleIf
  <1>3. Rule(t, c, e) \in Command
    BY CommandTypes
  <1> HIDE DEF X
  <1>4. Does(With(rs, t, Tab(C, M)), Rule(t, c, e), With(rs, t, Tab(X, M)))
    BY <1>1, <1>2, <1>3 DEF Does
  <1> QED  BY <1>4 DEF X

(* A rule that looks a packet up in maps is that rule with the maps. *)
LEMMA RuleWith ==
  ASSUME NEW t, NEW c, NEW e, NEW ms
  PROVE  [Rule(t, c, e) EXCEPT !.maps = ms] = RuleIf(t, c, e, ms)
  <1> DEFINE v == "add rule"  no == {}
             k == [verb |-> v, table |-> t, chain |-> c, expr |-> e, maps |-> no]
  <1>1. [k EXCEPT !.maps = ms] = [verb |-> v, table |-> t, chain |-> c, expr |-> e, maps |-> ms]
    <2> HIDE DEF no, v
    <2> QED  OBVIOUS
  <1> QED  BY <1>1 DEF RuleIf, Rule

(* A rule that looks a packet up in a map that is there. *)
LEMMA VmapDoes ==
  ASSUME NEW rs, NEW t \in Tables, NEW C, NEW M, NEW c \in Text, c \in DOMAIN C, NEW e \in Text,
         NEW m \in Text, m \in DOMAIN M
  PROVE  Does(With(rs, t, Tab(C, M)), Vmap(t, c, e, m), With(rs, t, Tab([C EXCEPT ![c] = Append(@, e)], M)))
  <1> DEFINE X == [C EXCEPT ![c] = Append(@, e)]
  <1>1. Makes(With(rs, t, Tab(C, M)), RuleIf(t, c, e, {m}), With(rs, t, Tab(X, M)))
    <2>1. {m} \subseteq DOMAIN M
      OBVIOUS
    <2> QED  BY <2>1, AddRule
  <1>2. RuleIf(t, c, e, {m}) = Vmap(t, c, e, m)
    BY RuleWith DEF Vmap
  <1>3. Vmap(t, c, e, m) \in Command
    BY CommandTypes
  <1> HIDE DEF X
  <1>4. Does(With(rs, t, Tab(C, M)), Vmap(t, c, e, m), With(rs, t, Tab(X, M)))
    BY <1>1, <1>2, <1>3 DEF Does
  <1> QED  BY <1>4 DEF X

(* A chain gets its rules in their order, however many there are. *)
LEMMA RulesGive ==
  ASSUME NEW rs, NEW t \in Tables, NEW C, NEW M, C = [x \in DOMAIN C |-> C[x]],
         NEW c \in Text, c \in DOMAIN C, C[c] \in Seq(Text), NEW edge \in Seq(Text)
  PROVE  Gives(With(rs, t, Tab(C, M)), Rules(t, c, edge), With(rs, t, Tab([C EXCEPT ![c] = @ \o edge], M)))
  <1> DEFINE r == With(rs, t, Tab(C, M))
             D(es) == [C EXCEPT ![c] = @ \o es]
             Out(es) == With(rs, t, Tab(D(es), M))
             Good == {n \in Nat : \A es \in Seq(Text) : Len(es) = n => Gives(r, Rules(t, c, es), Out(es))}
  <1>1. 0 \in Good
    <2> SUFFICES ASSUME NEW es \in Seq(Text), Len(es) = 0
                 PROVE  Gives(r, Rules(t, c, es), Out(es))
      <3> HIDE DEF Out, r
      <3> QED  OBVIOUS
    <2>1. es = <<>>
      BY EmptySeq
    <2>2. Rules(t, c, es) = <<>>
      BY <2>1 DEF Rules
    <2>3. C[c] \o es = C[c]
      BY <2>1, ConcatEmptySeq
    <2>4. D(es) = C
      BY <2>3
    <2> HIDE DEF D
    <2> QED  BY <2>2, <2>4, Nothing
  <1>2. ASSUME NEW n \in Nat, n \in Good PROVE n + 1 \in Good
    <2> SUFFICES ASSUME NEW es \in Seq(Text), Len(es) = n + 1
                 PROVE  Gives(r, Rules(t, c, es), Out(es))
      <3> HIDE DEF Out, r
      <3> QED  OBVIOUS
    <2>1. es # <<>>
      BY EmptySeq
    <2>2. PICK fs \in Seq(Text), e \in Text : es = Append(fs, e)
      BY <2>1, SequenceEmptyOrAppend
    <2>3. Len(fs) = n
      BY <2>2, AppendProperties, LenProperties
    <2>4. Gives(r, Rules(t, c, fs), Out(fs))
      <3> HIDE DEF Out, r
      <3> QED  BY <1>2, <2>3
    <2>5. Rules(t, c, es) = Append(Rules(t, c, fs), Rule(t, c, e))
      BY <2>2 DEF Rules
    <2>6. D(fs)[c] = C[c] \o fs /\ c \in DOMAIN D(fs)
      OBVIOUS
    <2>7. Does(Out(fs), Rule(t, c, e), With(rs, t, Tab([D(fs) EXCEPT ![c] = Append(@, e)], M)))
      <3> HIDE DEF D
      <3> QED  BY <2>6, RuleDoes
    <2>8. [D(fs) EXCEPT ![c] = Append(@, e)] = D(es)
      <3>1. C[c] \o Append(fs, e) = Append(C[c] \o fs, e)
        <4> DEFINE old == C[c]
        <4>1. old \in Seq(Text)
          OBVIOUS
        <4> HIDE DEF old
        <4>2. old \o Append(fs, e) = Append(old \o fs, e)
          BY <4>1, AppendAfterConcat
        <4> QED  BY <4>2 DEF old
      <3>2. Append(D(fs)[c], e) = C[c] \o es
        BY <2>2, <2>6, <3>1
      <3> QED  BY <3>2
    <2>9. Does(Out(fs), Rule(t, c, e), Out(es))
      <3> HIDE DEF D
      <3> QED  BY <2>7, <2>8
    <2> HIDE DEF Out, r
    <2> QED  BY <2>4, <2>5, <2>9, OneMore
  <1>3. Nat \subseteq Good
    <2> HIDE DEF Good
    <2> QED  BY <1>1, <1>2, Induction
  <1>4. Len(edge) \in Good
    BY <1>3, LenProperties
  <1> HIDE DEF Out, r
  <1>5. Gives(r, Rules(t, c, edge), Out(edge))
    BY <1>4
  <1> QED  BY <1>5 DEF Out, r

(* A reload empties the table or makes it, a flush removes it. *)
LEMMA ReloadGives ==
  ASSUME NEW rs, NEW t \in Tables, rs = [i \in DOMAIN rs |-> rs[i]]
  PROVE  Gives(rs, Reload(t), With(rs, t, Tab(<<>>, <<>>))) /\ Gives(rs, Flush(t), Without(rs, t))
  <1> DEFINE a == AddTable(t)  d == DeleteTable(t)
  <1>1. PICK r : Exec(rs, a) = {r} /\ Exec(r, d) = {Without(rs, t)} /\ Exec(Without(rs, t), a) = {With(rs, t, EmptyTable)}
    BY AddDelete
  <1>2. Does(rs, a, r) /\ Does(r, d, Without(rs, t)) /\ Does(Without(rs, t), a, With(rs, t, EmptyTable))
    BY <1>1, CommandTypes DEF Does, Makes
  <1> HIDE DEF a, d
  <1>3. <<a>> = Append(<<>>, a) /\ <<a, d>> = Append(<<a>>, d) /\ <<a, d, a>> = Append(<<a, d>>, a)
    OBVIOUS
  <1>4. Gives(rs, <<a>>, r)
    BY <1>2, <1>3, Nothing, OneMore
  <1>5. Gives(rs, <<a, d>>, Without(rs, t))
    BY <1>2, <1>3, <1>4, OneMore
  <1>6. Gives(rs, <<a, d, a>>, With(rs, t, EmptyTable))
    BY <1>2, <1>3, <1>5, OneMore
  <1> QED  BY <1>5, <1>6 DEF Reload, Flush, EmptyTable, Tab, a, d

(* BuildNFT makes a router's table what its flows and edge rules say,
   whatever tables there are. *)
LEMMA RouterGives ==
  ASSUME NEW rs, NEW t \in Tables, rs = [i \in DOMAIN rs |-> rs[i]],
         NEW flows \in SUBSET Flows, NEW edge \in Seq(Text)
  PROVE  Gives(rs, BuildNFT(t, flows, edge), With(rs, t, Router(flows, edge)))
  <1> DEFINE F == "forward"  I == "input"  A == "allowed_flows"
             C1 == With(<<>>, F, <<>>)
             C2 == With(C1, I, <<>>)
             M1 == With(<<>>, A, flows)
             C3 == [C2 EXCEPT ![F] = Append(@, "established")]
             C4 == [C3 EXCEPT ![F] = Append(@, "invalid")]
             C5 == [C4 EXCEPT ![F] = Append(@, "new")]
             C6 == [C5 EXCEPT ![F] = @ \o edge]
             own == <<"lo", "established", "icmp">>
             C7 == [C6 EXCEPT ![I] = @ \o own]
             W(C, M) == With(rs, t, Tab(C, M))
             k1 == Chain(t, F)  k2 == Chain(t, I)  k3 == Map(t, A, flows)
             k4 == Rule(t, F, "established")  k5 == Rule(t, F, "invalid")  k6 == Vmap(t, F, "new", A)
             fixed == <<k1, k2, k3, k4, k5, k6>>
  <1>1. /\ DOMAIN <<>> = {} /\ F # I
        /\ DOMAIN C1 = {F} /\ C1[F] = <<>>
        /\ DOMAIN C2 = {F, I} /\ C2[F] = <<>> /\ C2[I] = <<>>
        /\ DOMAIN M1 = {A}
    BY DEF With
  <1>2. /\ C3 = [x \in {F, I} |-> IF x = F THEN <<"established">> ELSE <<>>]
        /\ C4 = [x \in {F, I} |-> IF x = F THEN <<"established", "invalid">> ELSE <<>>]
        /\ C5 = [x \in {F, I} |-> IF x = F THEN <<"established", "invalid", "new">> ELSE <<>>]
    <2> HIDE DEF C1
    <2>1. C2 = [x \in {F, I} |-> <<>>]
      BY <1>1 DEF With
    <2> HIDE DEF C2
    <2>2. C3 = [x \in {F, I} |-> IF x = F THEN <<"established">> ELSE <<>>]
      BY <2>1
    <2> HIDE DEF C3
    <2>3. C4 = [x \in {F, I} |-> IF x = F THEN <<"established", "invalid">> ELSE <<>>]
      BY <2>2
    <2> HIDE DEF C4
    <2>4. C5 = [x \in {F, I} |-> IF x = F THEN <<"established", "invalid", "new">> ELSE <<>>]
      BY <2>3
    <2> QED  BY <2>2, <2>3, <2>4
  <1> DEFINE head == <<"established", "invalid", "new">>
  <1>3. C6 = [x \in {F, I} |-> IF x = F THEN head \o edge ELSE <<>>]
    <2> HIDE DEF C5, head
    <2> QED  BY <1>2 DEF head
  <1>4. C7 = [x \in {F, I} |-> IF x = F THEN head \o edge ELSE own]
    <2>1. <<>> \o own = own
      OBVIOUS
    <2> HIDE DEF C6, head, own
    <2> QED  BY <1>3, <2>1
  <1>5. Tab(C7, M1) = Router(flows, edge)
    <2>1. M1 = [m \in {"allowed_flows"} |-> flows]
      BY DEF With
    <2> HIDE DEF C7, M1
    <2> QED  BY <1>4, <2>1 DEF Router, Tab
  <1>6. /\ "established" \in Text /\ "invalid" \in Text /\ "new" \in Text
        /\ F \in Text /\ I \in Text /\ A \in Text /\ own \in Seq(Text)
    <2>1. "lo" \in Text /\ "established" \in Text /\ "icmp" \in Text /\ "invalid" \in Text
          /\ "new" \in Text /\ F \in Text /\ I \in Text /\ A \in Text
      BY DEF Text
    <2>2. \A x, y, z : {x, y, z} \subseteq Text => <<x, y, z>> \in Seq(Text)
      OBVIOUS
    <2>3. own \in Seq(Text)
      BY <2>1, <2>2
    <2> QED  BY <2>1, <2>3
  <1>7. Gives(rs, Reload(t), W(<<>>, <<>>))
    BY ReloadGives
  <1>8. Gives(W(<<>>, <<>>), fixed, W(C5, M1))
    <2>1. Does(W(<<>>, <<>>), k1, W(C1, <<>>))
      BY <1>1, <1>6, ChainDoes
    <2>2. Does(W(C1, <<>>), k2, W(C2, <<>>))
      <3>1. I \notin DOMAIN C1
        BY <1>1
      <3> HIDE DEF C1, I
      <3> QED  BY <1>6, <3>1, ChainDoes
    <2>3. Does(W(C2, <<>>), k3, W(C2, M1))
      <3> HIDE DEF C2
      <3> QED  BY <1>1, <1>6, MapDoes
    <2>4. Does(W(C2, M1), k4, W(C3, M1))
      <3>1. F \in DOMAIN C2
        BY <1>1
      <3> HIDE DEF C2, M1
      <3> QED  BY <1>6, <3>1, RuleDoes
    <2>5. Does(W(C3, M1), k5, W(C4, M1))
      <3>1. F \in DOMAIN C3
        BY <1>1
      <3> HIDE DEF C3, M1
      <3> QED  BY <1>6, <3>1, RuleDoes
    <2>6. Does(W(C4, M1), k6, W(C5, M1))
      <3>1. F \in DOMAIN C4 /\ A \in DOMAIN M1
        BY <1>1
      <3> HIDE DEF C4, M1
      <3> QED  BY <1>6, <3>1, VmapDoes
    <2> HIDE DEF W, C1, C2, C3, C4, C5, M1, k1, k2, k3, k4, k5, k6
    <2>7. /\ <<k1>> = Append(<<>>, k1) /\ <<k1, k2>> = Append(<<k1>>, k2)
          /\ <<k1, k2, k3>> = Append(<<k1, k2>>, k3) /\ <<k1, k2, k3, k4>> = Append(<<k1, k2, k3>>, k4)
          /\ <<k1, k2, k3, k4, k5>> = Append(<<k1, k2, k3, k4>>, k5)
          /\ <<k1, k2, k3, k4, k5, k6>> = Append(<<k1, k2, k3, k4, k5>>, k6)
      OBVIOUS
    <2>8. Gives(W(<<>>, <<>>), <<k1, k2>>, W(C2, <<>>))
      BY <2>1, <2>2, <2>7, Nothing, OneMore
    <2>9. Gives(W(<<>>, <<>>), <<k1, k2, k3, k4>>, W(C3, M1))
      BY <2>3, <2>4, <2>7, <2>8, OneMore
    <2>10. Gives(W(<<>>, <<>>), <<k1, k2, k3, k4, k5, k6>>, W(C5, M1))
      BY <2>5, <2>6, <2>7, <2>9, OneMore
    <2> QED  BY <2>10
  <1>9. Gives(W(C5, M1), Rules(t, F, edge), W(C6, M1))
    <2>1. C5 = [x \in DOMAIN C5 |-> C5[x]] /\ F \in DOMAIN C5
      BY <1>1
    <2>2. C5[F] \in Seq(Text)
      <3> HIDE DEF C5
      <3> QED  BY <1>2, <1>6
    <2> HIDE DEF C5, M1
    <2> QED  BY <1>6, <2>1, <2>2, RulesGive
  <1>10. Gives(W(C6, M1), Rules(t, I, own), W(C7, M1))
    <2>1. C6 = [x \in DOMAIN C6 |-> C6[x]] /\ I \in DOMAIN C6
      BY <1>1
    <2>2. C6[I] \in Seq(Text)
      <3> HIDE DEF C6
      <3> QED  BY <1>1, <1>3
    <2> HIDE DEF C6, M1, own
    <2> QED  BY <1>6, <2>1, <2>2, RulesGive
  <1>11. Gives(rs, ((Reload(t) \o fixed) \o Rules(t, F, edge)) \o Rules(t, I, own), W(C7, M1))
    <2> HIDE DEF W, C5, C6, C7, M1, fixed, F, I, own
    <2>1. Gives(rs, Reload(t) \o fixed, W(C5, M1))
      BY <1>7, <1>8, OneAfter
    <2>2. Gives(rs, (Reload(t) \o fixed) \o Rules(t, F, edge), W(C6, M1))
      BY <2>1, <1>9, OneAfter
    <2> QED  BY <2>2, <1>10, OneAfter
  <1>12. W(C7, M1) = With(rs, t, Router(flows, edge))
    <2> HIDE DEF C7, M1
    <2> QED  BY <1>5
  <1>13. BuildNFT(t, flows, edge) = ((Reload(t) \o fixed) \o Rules(t, F, edge)) \o Rules(t, I, own)
    BY DEF BuildNFT
  <1> HIDE DEF C7, M1, W, fixed, own, F, I
  <1> QED  BY <1>11, <1>12, <1>13

(* BuildHostNFT does so for a host zone and its dnat rules. *)
LEMMA HostGives ==
  ASSUME NEW rs, NEW t \in Tables, rs = [i \in DOMAIN rs |-> rs[i]], NEW dnats \in Seq(Text)
  PROVE  Gives(rs, BuildHostNFT(t, dnats), With(rs, t, Host(dnats)))
  <1> DEFINE P == "postrouting"  Q == "prerouting"  no == <<>>
             C1 == With(no, P, <<>>)
             C2 == [C1 EXCEPT ![P] = Append(@, "masquerade")]
             C3 == With(C2, Q, <<>>)
             C4 == [C3 EXCEPT ![Q] = @ \o dnats]
             W(C) == With(rs, t, Tab(C, no))
             k1 == Chain(t, P)  k2 == Rule(t, P, "masquerade")  k3 == Chain(t, Q)
  <1>1. P \in Text /\ Q \in Text /\ "masquerade" \in Text /\ P # Q /\ DOMAIN no = {}
    BY DEF Text
  <1>2. DOMAIN C1 = {P} /\ C1 = [x \in {P} |-> <<>>]
    BY <1>1 DEF With
  <1>3. C2 = [x \in {P} |-> <<"masquerade">>]
    <2> HIDE DEF C1
    <2> QED  BY <1>2
  <1>4. C3 = [x \in {P, Q} |-> IF x = P THEN <<"masquerade">> ELSE <<>>]
    <2> HIDE DEF C2
    <2> QED  BY <1>1, <1>3 DEF With
  <1>5. C4 = [x \in {P, Q} |-> IF x = P THEN <<"masquerade">> ELSE dnats]
    <2>1. <<>> \o dnats = dnats
      BY ConcatEmptySeq
    <2> HIDE DEF C3
    <2>2. C3[Q] = <<>> /\ Q \in {P, Q}
      BY <1>1, <1>4
    <2>3. C4 = [C3 EXCEPT ![Q] = dnats]
      BY <2>1, <2>2
    <2> HIDE DEF C4
    <2> QED  BY <1>1, <1>4, <2>3
  <1>6. Gives(rs, Reload(t), W(no))
    BY ReloadGives
  <1>7. Gives(W(no), <<k1, k2>>, W(C2))
    <2>1. Does(W(no), k1, W(C1))
      <3> HIDE DEF no, P
      <3> QED  BY <1>1, ChainDoes
    <2>2. Does(W(C1), k2, W(C2))
      <3> HIDE DEF C1
      <3> QED  BY <1>1, <1>2, RuleDoes
    <2>3. <<k1>> = Append(<<>>, k1) /\ <<k1, k2>> = Append(<<k1>>, k2)
      OBVIOUS
    <2> HIDE DEF W, k1, k2, C1, C2, no
    <2> QED  BY <2>1, <2>2, <2>3, Nothing, OneMore
  <1>8. Gives(rs, Reload(t) \o <<k1, k2>>, W(C2))
    <2> HIDE DEF W, k1, k2, C2
    <2> QED  BY <1>6, <1>7, OneAfter
  <1>9. CASE dnats = <<>>
    <2>1. C2 = [c \in {P} \cup {d \in {Q} : dnats # <<>>} |-> IF c = P THEN <<"masquerade">> ELSE dnats]
      <3> HIDE DEF C2, P, Q
      <3> QED  BY <1>3, <1>9
    <2>2. W(C2) = With(rs, t, Host(dnats))
      <3> HIDE DEF C2
      <3> QED  BY <2>1 DEF Host, Tab
    <2>3. BuildHostNFT(t, dnats) = (Reload(t) \o <<k1, k2>>) \o <<>>
      BY <1>9 DEF BuildHostNFT
    <2> HIDE DEF W, k1, k2, C2
    <2>4. Gives(rs, (Reload(t) \o <<k1, k2>>) \o <<>>, W(C2))
      BY <1>8, Nothing, OneAfter
    <2> QED  BY <2>2, <2>3, <2>4
  <1>10. CASE dnats # <<>>
    <2>1. C4 = [c \in {P} \cup {d \in {Q} : dnats # <<>>} |-> IF c = P THEN <<"masquerade">> ELSE dnats]
      <3> HIDE DEF C4, P, Q
      <3> QED  BY <1>5, <1>10
    <2>2. W(C4) = With(rs, t, Host(dnats))
      <3> HIDE DEF C4
      <3> QED  BY <2>1 DEF Host, Tab
    <2>3. BuildHostNFT(t, dnats) = (Reload(t) \o <<k1, k2>>) \o (<<k3>> \o Rules(t, Q, dnats))
      BY <1>10 DEF BuildHostNFT
    <2>4. Does(W(C2), k3, W(C3))
      <3>1. Q \notin DOMAIN C2
        <4> HIDE DEF C2
        <4> QED  BY <1>1, <1>3
      <3> HIDE DEF C2, Q
      <3> QED  BY <1>1, <3>1, ChainDoes
    <2>5. Gives(W(C2), <<k3>>, W(C3))
      <3>1. <<k3>> = Append(<<>>, k3)
        OBVIOUS
      <3> HIDE DEF W, k3, C2, C3
      <3> QED  BY <2>4, <3>1, Nothing, OneMore
    <2>6. Gives(W(C3), Rules(t, Q, dnats), W(C4))
      <3>1. C3 = [x \in DOMAIN C3 |-> C3[x]] /\ Q \in DOMAIN C3 /\ C3[Q] \in Seq(Text)
        <4> HIDE DEF C3
        <4> QED  BY <1>1, <1>4
      <3> HIDE DEF C3, no
      <3> QED  BY <1>1, <3>1, RulesGive
    <2> HIDE DEF W, k1, k2, k3, C2, C3, C4, Q
    <2>7. Gives(W(C2), <<k3>> \o Rules(t, Q, dnats), W(C4))
      BY <2>5, <2>6, OneAfter
    <2>8. Gives(rs, (Reload(t) \o <<k1, k2>>) \o (<<k3>> \o Rules(t, Q, dnats)), W(C4))
      BY <1>8, <2>7, OneAfter
    <2> QED  BY <2>2, <2>3, <2>8
  <1> QED  BY <1>9, <1>10

------------------------------------------------------------------------------
(* The processes *)

(* Every batch gives one table a whole ruleset, or removes it. *)
LEMMA BatchGives ==
  ASSUME NEW rs, rs = [i \in DOMAIN rs |-> rs[i]], NEW b \in Batches
  PROVE  \E t \in Tables : \/ \E r : {r} \in Wanted(t) /\ Gives(rs, b, With(rs, t, r))
                           \/ Gives(rs, b, Without(rs, t))
  <1>1. Seq(STRING) \subseteq Seq(Text)
    BY SeqMonotonic DEF Text
  <1>2. ASSUME NEW t \in Routers, NEW f \in SUBSET Flows, NEW e \in Edges, b = BuildNFT(t, f, e)
        PROVE  {Router(f, e)} \in Wanted(t) /\ Gives(rs, b, With(rs, t, Router(f, e)))
    <2>1. e \in Seq(Text) /\ t \in Tables
      BY <1>1, NftAssumption DEF Tables
    <2>2. {Router(f, e)} \in Wanted(t)
      BY DEF Wanted
    <2> QED  BY <1>2, <2>1, <2>2, RouterGives
  <1>3. ASSUME NEW t \in Hosts, NEW d \in Dnats, b = BuildHostNFT(t, d)
        PROVE  {Host(d)} \in Wanted(t) /\ Gives(rs, b, With(rs, t, Host(d)))
    <2>1. d \in Seq(Text) /\ t \in Tables /\ t \notin Routers
      BY <1>1, NftAssumption DEF Tables
    <2>2. {Host(d)} \in Wanted(t)
      BY <2>1 DEF Wanted
    <2> QED  BY <1>3, <2>1, <2>2, HostGives
  <1>4. ASSUME NEW t \in Hosts, b = Flush(t)
        PROVE  Gives(rs, b, Without(rs, t))
    BY <1>4, ReloadGives DEF Tables
  <1>5. CASE \E t \in Routers, f \in SUBSET Flows, e \in Edges : b = BuildNFT(t, f, e)
    BY <1>2, <1>5 DEF Tables
  <1>6. CASE \E t \in Hosts, d \in Dnats : b = BuildHostNFT(t, d)
    BY <1>3, <1>6 DEF Tables
  <1>7. CASE \E t \in Hosts : b = Flush(t)
    BY <1>4, <1>7 DEF Tables
  <1>8. \/ \E t \in Routers, f \in SUBSET Flows, e \in Edges : b = BuildNFT(t, f, e)
        \/ \E t \in Hosts, d \in Dnats : b = BuildHostNFT(t, d)
        \/ \E t \in Hosts : b = Flush(t)
    BY DEF Batches
  <1> QED  BY <1>5, <1>6, <1>7, <1>8

(* What is inductive: the tables are a function, and a process that may
   still load holds one of the batches. *)
IInv == /\ tables = [t \in DOMAIN tables |-> tables[t]]
        /\ job \in [Procs -> Batches \cup {<<>>}]
        /\ pc \in [Procs -> {"idle", "run", "ok", "err"}]
        /\ took \in [Procs -> BOOLEAN]
        /\ \A p \in Procs : pc[p] \in {"run", "err"} => job[p] \in Batches

(* No tables and no batches: the invariant. *)
LEMMA InitIInv == Init => IInv
  BY DEF Init, IInv

(* A commit is of one table, which it makes one of the wanted rulesets or
   removes. *)
LEMMA CommitIs ==
  ASSUME IInv, NEW p \in Procs, Commit(p)
  PROVE  \E t \in Tables : \/ \E r : {r} \in Wanted(t) /\ tables' = With(tables, t, r)
                           \/ tables' = Without(tables, t)
  <1>1. job[p] \in Batches /\ tables = [t \in DOMAIN tables |-> tables[t]]
    BY DEF IInv, Commit
  <1>2. \A q : Gives(tables, job[p], q) => tables' = q
    BY DEF Commit, Gives
  <1> DEFINE rs == tables  b == job[p]
  <1>3. \E t \in Tables : \/ \E r : {r} \in Wanted(t) /\ Gives(rs, b, With(rs, t, r))
                          \/ Gives(rs, b, Without(rs, t))
    <2>1. b \in Batches /\ rs = [t \in DOMAIN rs |-> rs[t]]
      BY <1>1
    <2> HIDE DEF rs, b
    <2> QED  BY <2>1, BatchGives
  <1> QED  BY <1>2, <1>3

(* Every step keeps the invariant, one case per action. *)
LEMMA NextIInv ==
  ASSUME IInv, [Next]_vars
  PROVE  IInv'
  <1> USE DEF IInv
  <1>1. ASSUME NEW p \in Procs, Start(p) PROVE IInv'
    <2>1. PICK b \in Batches : job' = [job EXCEPT ![p] = b]
      BY <1>1 DEF Start
    <2> QED  BY <1>1, <2>1 DEF Start, Goto
  <1>2. ASSUME NEW p \in Procs, Commit(p) PROVE IInv'
    <2>1. tables' = [t \in DOMAIN tables' |-> tables'[t]]
      BY <1>2, CommitIs DEF With, Without
    <2> QED  BY <1>2, <2>1 DEF Commit
  <1>3. ASSUME NEW p \in Procs, Fail(p) PROVE IInv'
    BY <1>3 DEF Fail, Goto
  <1>4. ASSUME NEW p \in Procs, Done(p) PROVE IInv'
    BY <1>4 DEF Done, Goto
  <1>5. ASSUME NEW p \in Procs, Again(p) PROVE IInv'
    BY <1>5 DEF Again
  <1>6. CASE UNCHANGED vars
    BY <1>6 DEF vars
  <1> QED  BY <1>1, <1>2, <1>3, <1>4, <1>5, <1>6 DEF Next

(* Always, the tables are a function of their names and a process that is
   loading or has loaded holds one of the batches of nftlib. *)
THEOREM Inductive == Spec => []IInv
  BY InitIInv, NextIInv, PTL DEF Spec

(* No batch is ever refused, for any tables, flows, rules and number of
   processes, whatever is in the kernel when it comes: objects come before
   what uses them, and a delete always finds its table. *)
THEOREM Unrefused == Spec => []NeverRefused
  <1>1. IInv => NeverRefused
    <2> SUFFICES ASSUME IInv, NEW p \in Procs, pc[p] \in {"run", "err"}
                 PROVE  Transaction(tables, job[p]) # {}
      BY DEF NeverRefused
    <2> DEFINE rs == tables  b == job[p]
    <2>1. b \in Batches /\ rs = [t \in DOMAIN rs |-> rs[t]]
      BY DEF IInv
    <2>2. \E q : Gives(rs, b, q)
      <3> HIDE DEF rs, b
      <3> QED  BY <2>1, BatchGives
    <2> QED  BY <2>2 DEF Gives
  <1> QED  BY <1>1, Inductive, PTL

(* However loads overlap and wherever they are cut short, each table goes
   from one whole ruleset to another and no other table changes: the batches
   of nftlib implement Zones. *)
THEOREM Whole == Spec => KeepsPromise
  <1> DEFINE zone == [t \in Tables |-> IF t \in DOMAIN tables THEN {tables[t]} ELSE Absent]
  <1>1. Init => Abstract!Init
    BY DEF Init, Abstract!Init
  <1>2. IInv /\ [Next]_vars => [Abstract!Next]_zone
    <2> SUFFICES ASSUME IInv, [Next]_vars PROVE [Abstract!Next]_zone
      OBVIOUS
    <2>1. ASSUME NEW p \in Procs, Commit(p) PROVE Abstract!Next
      <3>1. PICK t \in Tables : \/ \E r : {r} \in Wanted(t) /\ tables' = With(tables, t, r)
                                \/ tables' = Without(tables, t)
        BY <2>1, CommitIs
      <3>2. ASSUME NEW r, {r} \in Wanted(t), tables' = With(tables, t, r) PROVE Abstract!Put(t)
        <4>1. zone' = [zone EXCEPT ![t] = {r}]
          BY <3>2 DEF With
        <4> QED  BY <3>2, <4>1 DEF Abstract!Put
      <3>3. ASSUME tables' = Without(tables, t) PROVE Abstract!Drop(t)
        <4>1. zone' = [zone EXCEPT ![t] = Absent]
          BY <3>3 DEF Without
        <4> QED  BY <4>1 DEF Abstract!Drop
      <3> QED  BY <3>1, <3>2, <3>3 DEF Abstract!Next
    <2>2. CASE UNCHANGED tables
      BY <2>2
    <2>3. CASE \E p \in Procs : Start(p) \/ Fail(p) \/ Done(p) \/ Again(p)
      BY <2>2, <2>3 DEF Start, Fail, Done, Again
    <2> QED  BY <2>1, <2>2, <2>3 DEF Next, vars
  <1> QED  BY <1>1, <1>2, Inductive, PTL DEF Spec, KeepsPromise, Abstract!Spec
=============================================================================
