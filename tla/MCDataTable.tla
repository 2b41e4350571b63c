---------------------------- MODULE MCDataTable ----------------------------
(***************************************************************************)
(* Instances of DataTable for TLC.  A schema with one unique field and one *)
(* with an optional field only; a table with an active and a soft-deleted  *)
(* row of the same key; import files that are right, empty, doubled, cut   *)
(* short, or smaller than the table.                                       *)
(***************************************************************************)
EXTENDS DataTable, TLC

CONSTANTS p1, p2, k, n, a, b

MCPairs   == {p1, p2}
Symmetry2 == Permutations(MCPairs)

Of(x) == k :> x @@ n :> Null

UniqueSchema   == [required |-> {k}, unique |-> {k}]
OptionalSchema == [required |-> {}, unique |-> {}]
OneSchema  == {UniqueSchema}
TwoSchemas == {UniqueSchema, OptionalSchema}

SomeBodies == {k :> a, n :> b}
NullBodies == {k :> a, k :> Null}

Doc(id, status, x) == [id |-> id, status |-> status, data |-> Of(x)]
Whole(docs) == [docs |-> docs, sound |-> TRUE]

Twins == 1 :> [version |-> 1, status |-> "active",  data |-> Of(a)]
      @@ 2 :> [version |-> 2, status |-> "deleted", data |-> Of(a)]
Dormant == 1 :> [version |-> 2, status |-> "deleted", data |-> Of(a)]
        @@ 2 :> [version |-> 1, status |-> "active",  data |-> Of(Null)]
Single == 1 :> [version |-> 1, status |-> "active", data |-> Of(a)]

SmallFile  == Whole(<<Doc(1, "", b)>>)
GoodFiles  == {SmallFile, Whole(<<Doc(2, "active", b), Doc(1, "deleted", a)>>)}
BadFiles   == {Whole(<<Doc(1, "active", a), Doc(1, "active", b)>>),
               Whole(<<Doc(1, "active", Null)>>),
               [docs |-> <<Doc(1, "active", b)>>, sound |-> FALSE]}
MixedFiles == GoodFiles \cup BadFiles \cup {Whole(<<>>)}
OneFile    == {SmallFile}

=============================================================================
