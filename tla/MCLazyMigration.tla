-------------------------- MODULE MCLazyMigration --------------------------
(***************************************************************************)
(* Instances of LazyMigration for TLC.  Three schemas: one string field;   *)
(* a tighter limit on it and a required second field; the second field     *)
(* alone.  Bodies that fit some of them, and a misspelled key.             *)
(***************************************************************************)
EXTENDS LazyMigration, TLC

CONSTANTS w1, w2

MCWriters == {w1, w2}
Symmetry2 == Permutations(MCWriters)

F(name, type, required, maxChars) ==
    [name |-> name, type |-> type, required |-> required, maxChars |-> maxChars, maxItems |-> 0]

Plain   == <<F("a", "string", TRUE, 0)>>
Wider   == <<F("a", "string", FALSE, 1), F("b", "int", TRUE, 0)>>
Removed == <<F("b", "int", FALSE, 0)>>

MCSchemas == {Plain, Wider, Removed}

MCBodies == {"a" :> Str(2), "b" :> Int0, "c" :> Int0}
MCFiles  == {1 :> ("b" :> Int0)}

=============================================================================
