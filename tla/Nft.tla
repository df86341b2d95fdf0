-------------------------------- MODULE Nft --------------------------------
(***************************************************************************)
(* The batches of nftlib (Table.Reload, Add, Delete, Chain, Map, Rule and  *)
(* Load) for the tables of one network namespace, run by processes that    *)
(* may overlap: BuildNFT's table of a router, BuildHostNFT's zone of a     *)
(* network, and the Add-Delete pair of TeardownHostEdge.  Load gives the   *)
(* batch to an nft process, the kernel takes it as one transaction or not  *)
(* at all, and a run may be cut short before or after.  What the rules     *)
(* mean is in Policy; here a rule is its text.                             *)
(***************************************************************************)
EXTENDS Integers, SequencesExt

CONSTANTS Routers,  \* tables made by BuildNFT
          Hosts,    \* tables made by BuildHostNFT
          Flows,    \* elements of allowed_flows
          Edges,    \* lists of edge allows
          Dnats,    \* lists of published ports
          Procs

(* A table has one builder; rules are texts. *)
ASSUME NftAssumption == /\ Routers \cap Hosts = {}
                        /\ Edges \subseteq Seq(STRING) /\ Dnats \subseteq Seq(STRING)

Tables == Routers \cup Hosts
Absent == {}

VARIABLES tables,  \* the kernel's tables, by name
          job,     \* the batch a process loads
          pc,      \* idle, run, and the answers
          took     \* the kernel committed the batch of this call

vars == <<tables, job, pc, took>>

------------------------------------------------------------------------------
(* nftlib: commands *)

AddTable(t)    == [verb |-> "add table", table |-> t]
DeleteTable(t) == [verb |-> "delete table", table |-> t]
Chain(t, c)    == [verb |-> "add chain", table |-> t, chain |-> c]
Map(t, m, es)  == [verb |-> "add map", table |-> t, map |-> m, elems |-> es]
Rule(t, c, e)  == [verb |-> "add rule", table |-> t, chain |-> c, expr |-> e, maps |-> {}]
Vmap(t, c, e, m) == [Rule(t, c, e) EXCEPT !.maps = {m}]

(* Variant: the old table is not deleted. *)
Reload_AddOnly(t) == <<AddTable(t)>>

Reload(t) == <<AddTable(t), DeleteTable(t), AddTable(t)>>
Rules(t, c, es) == [i \in DOMAIN es |-> Rule(t, c, es[i])]

BuildNFT(t, flows, edge) ==
  Reload(t) \o <<Chain(t, "forward"), Chain(t, "input"), Map(t, "allowed_flows", flows),
                 Rule(t, "forward", "established"), Rule(t, "forward", "invalid"),
                 Vmap(t, "forward", "new", "allowed_flows")>>
            \o Rules(t, "forward", edge)
            \o Rules(t, "input", <<"lo", "established", "icmp">>)

BuildHostNFT(t, dnats) ==
  Reload(t) \o <<Chain(t, "postrouting"), Rule(t, "postrouting", "masquerade")>>
            \o (IF dnats = <<>> THEN <<>>
                ELSE <<Chain(t, "prerouting")>> \o Rules(t, "prerouting", dnats))

(* Variant: the table is taken to be there. *)
Flush_DeleteOnly(t) == <<DeleteTable(t)>>

Flush(t) == <<AddTable(t), DeleteTable(t)>>

Batches == {BuildNFT(t, f, e) : t \in Routers, f \in SUBSET Flows, e \in Edges}
           \cup {BuildHostNFT(t, d) : t \in Hosts, d \in Dnats} \cup {Flush(t) : t \in Hosts}

------------------------------------------------------------------------------
(* The kernel: one command on a set of tables gives {their new state}, or {}
   when it is refused. *)

EmptyTable == [chains |-> <<>>, maps |-> <<>>]
With(f, k, v) == [i \in DOMAIN f \cup {k} |-> IF i = k THEN v ELSE f[i]]

Exec(rs, c) ==
  LET t == c.table  here == t \in DOMAIN rs
  IN  CASE c.verb = "add table"    -> {IF here THEN rs ELSE With(rs, t, EmptyTable)}
        [] c.verb = "delete table" -> IF here THEN {[i \in DOMAIN rs \ {t} |-> rs[i]]} ELSE {}
        [] c.verb = "add chain"    ->
             IF ~here THEN {}
             ELSE {IF c.chain \in DOMAIN rs[t].chains THEN rs
                   ELSE [rs EXCEPT ![t].chains = With(@, c.chain, <<>>)]}
        [] c.verb = "add map"      ->
             IF ~here THEN {}
             ELSE {[rs EXCEPT ![t].maps = With(@, c.map, c.elems \cup
                                (IF c.map \in DOMAIN @ THEN @[c.map] ELSE {}))]}
        [] c.verb = "add rule"     ->
             IF here /\ c.chain \in DOMAIN rs[t].chains /\ c.maps \subseteq DOMAIN rs[t].maps
             THEN {[rs EXCEPT ![t].chains[c.chain] = Append(@, c.expr)]}
             ELSE {}

Transaction(rs, batch) == FoldLeft(LAMBDA s, c : UNION {Exec(r, c) : r \in s}, {rs}, batch)

------------------------------------------------------------------------------
Init == /\ tables = <<>>
        /\ job = [p \in Procs |-> <<>>]
        /\ pc = [p \in Procs |-> "idle"]
        /\ took = [p \in Procs |-> FALSE]

Goto(p, from, to) == pc[p] = from /\ pc' = [pc EXCEPT ![p] = to]

(* Load renders the batch. *)
Start(p) == /\ Goto(p, "idle", "run")
            /\ \E b \in Batches : job' = [job EXCEPT ![p] = b]
            /\ took' = [took EXCEPT ![p] = FALSE]
            /\ UNCHANGED tables

(* nft -f: the batch as one transaction.  An nft whose parent was killed is
   still there and may yet commit. *)
Commit(p) == /\ pc[p] \in {"run", "err"} /\ ~took[p]
             /\ tables' \in Transaction(tables, job[p])
             /\ took' = [took EXCEPT ![p] = TRUE]
             /\ UNCHANGED <<job, pc>>

(* There is no nft, the kernel refuses the batch, nft is killed or its exit
   is lost, before or after the commit. *)
Fail(p) == Goto(p, "run", "err") /\ UNCHANGED <<tables, job, took>>

Done(p)  == Goto(p, "run", "ok") /\ took[p] /\ UNCHANGED <<tables, job, took>>
Again(p) == /\ pc[p] \in {"ok", "err"}
            /\ pc' = [pc EXCEPT ![p] = "idle"]
            /\ job' = [job EXCEPT ![p] = <<>>]
            /\ took' = [took EXCEPT ![p] = FALSE]
            /\ UNCHANGED tables

Next == \E p \in Procs : \/ Start(p) \/ Commit(p) \/ Fail(p) \/ Done(p) \/ Again(p)
Spec == Init /\ [][Next]_vars

------------------------------------------------------------------------------
(* Properties *)

(* The rulesets that are wanted of a table, written down as they should
   stand in the kernel: each chain with its rules once and in order. *)
Router(flows, edge) ==
  [chains |-> [c \in {"forward", "input"} |->
                 IF c = "forward" THEN <<"established", "invalid", "new">> \o edge
                 ELSE <<"lo", "established", "icmp">>],
   maps   |-> [m \in {"allowed_flows"} |-> flows]]
Host(dnats) ==
  [chains |-> [c \in {"postrouting"} \cup {d \in {"prerouting"} : dnats # <<>>} |->
                 IF c = "postrouting" THEN <<"masquerade">> ELSE dnats],
   maps   |-> <<>>]
Wanted(t) == IF t \in Routers THEN {{Router(f, e)} : f \in SUBSET Flows, e \in Edges}
             ELSE {{Host(d)} : d \in Dnats}

(* Whatever was there, and whoever else loads, a table goes from one whole
   ruleset to another: never doubled rules, never a chain without them, and
   no other table changes (Reload and Load against Zones). *)
Abstract == INSTANCE Zones WITH zone <- [t \in Tables |-> IF t \in DOMAIN tables THEN {tables[t]} ELSE Absent]
KeepsPromise == Abstract!Spec

(* No batch is refused: objects come before what uses them, and a delete
   always finds its table, on a fresh namespace and after any other load
   (nftlib.go:230-236, hostedge.go:134). *)
NeverRefused == \A p \in Procs : pc[p] \in {"run", "err"} /\ ~took[p] => Transaction(tables, job[p]) # {}
==============================================================================
