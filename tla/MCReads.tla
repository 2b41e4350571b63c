------------------------------ MODULE MCReads ------------------------------
(***************************************************************************)
(* Instances of Reads for TLC: a searched field that is a scalar of the    *)
(* schema or not, pages of one or two rows, and a file that gives rows     *)
(* other ids and other times.                                              *)
(***************************************************************************)
EXTENDS Reads, TLC

Q(filter, deleted, size) == [filter |-> filter, field |-> "f", deleted |-> deleted, size |-> size]

MCQueries == {Q("keyword", TRUE, -3), Q("exact", FALSE, 9)}

R(status, created) == [status |-> status, created |-> created, data |-> {"f"}]

MCTables == {1 :> R("", 2) @@ 2 :> R("active", 0)}

=============================================================================
