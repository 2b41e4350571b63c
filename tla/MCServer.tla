------------------------------ MODULE MCServer ------------------------------
(* Instances of Server: three requests and a pool of two connections.      *)
EXTENDS Server

Good  == [n \in Numbers |-> IF n = "page_size_max" THEN 2 ELSE 1]
Empty == [n \in Numbers |-> Unset]
ring  == [ak \in {BoundKey} |-> "secret"]
none  == [ak \in {} |-> NoSecret]

Source(env, file, envKey, fileKeys) ==
    [env |-> env, file |-> file, default |-> Good, envKey |-> envKey, fileKeys |-> fileKeys]

(* All right; a ring without keys, and with an empty secret; a zero in the *)
(* file that no default replaces; a page size above its maximum.           *)
MCSources ==
    {Source(Empty, Empty, "secret", none),
     Source(Empty, Empty, NoSecret, none),
     Source(Empty, Empty, NoSecret, [ak \in {BoundKey} |-> NoSecret]),
     Source(Empty, [Empty EXCEPT !["import_batch_rows"] = 0], NoSecret, ring),
     Source([Empty EXCEPT !["page_size_default"] = 3], Empty, NoSecret, ring)}

=============================================================================
