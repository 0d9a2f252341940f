-------------------------- MODULE MCStringInterner --------------------------
(* A small interner for TLC: two shards of 16 bytes.  The strings a and b    *)
(* fill the first shard exactly and leave no room for c; d fills the second. *)
EXTENDS StringInterner, TLC

CONSTANTS t1, t2, a, b, c, d

TwoThreads == {t1, t2}
MCStrings == {a, b, c, d}
MCSize == a :> 4 @@ b :> 4 @@ c :> 1 @@ d :> 12
MCShardOf == a :> 0 @@ b :> 0 @@ c :> 0 @@ d :> 1
=============================================================================
