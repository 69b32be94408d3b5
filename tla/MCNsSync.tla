------------------------------ MODULE MCNsSync ------------------------------
(***************************************************************************)
(* Small folders for TLC to run NsSync on.  A folder is given by its list  *)
(* of paths in strcmp order, and the names with something special.         *)
(***************************************************************************)
EXTENDS NsSync, Sequences

ListRank(list) == [p \in {list[i] : i \in DOMAIN list} |->
                     CHOOSE i \in DOMAIN list : list[i] = p]

\* One file, its conflict copy, and a name no Amiga filesystem can hold.
PairPath     == {"a:b", "f", "f.conflict"}
PairRank     == ListRank(<<"a:b", "f", "f.conflict">>)
PairParent   == [p \in PairPath |-> Root]
PairAbove    == [p \in PairPath |-> {}]
PairConflict == [p \in PairPath |-> IF p = "f" THEN "f.conflict" ELSE NoPath]
PairClass    == [p \in PairPath |-> IF p = "a:b" THEN "bad" ELSE "plain"]
PairKinds    == [p \in PairPath |-> IF p = "f.conflict" THEN {} ELSE {"file"}]

\* A drawer with one file in it and the conflict copy of that file.
TreePath     == {"d", "d/x", "d/x.conflict"}
TreeRank     == ListRank(<<"d", "d/x", "d/x.conflict">>)
TreeParent   == [p \in TreePath |-> IF p = "d" THEN Root ELSE "d"]
TreeAbove    == [p \in TreePath |-> IF p = "d" THEN {} ELSE {"d"}]
TreeConflict == [p \in TreePath |-> IF p = "d/x" THEN "d/x.conflict" ELSE NoPath]
TreeClass    == [p \in TreePath |-> "plain"]
TreeKinds    == [p \in TreePath |-> CASE p = "d" -> {"dir"} [] p = "d/x" -> {"file"}
                                      [] OTHER -> {}]

\* One file whose name leaves no room for ".conflict", though for ".nspart",
\* without which there would be no download: 22 or 23 characters on an FFS
\* volume, where a name has 30.
LongPath     == {"longname"}
LongRank     == ListRank(<<"longname">>)
LongParent   == [p \in LongPath |-> Root]
LongAbove    == [p \in LongPath |-> {}]
LongConflict == [p \in LongPath |-> NoPath]
LongClass    == [p \in LongPath |-> "plain"]
LongKinds    == [p \in LongPath |-> {"file"}]

\* A file on the server whose name begins with a dot, beside another.
DotPath     == {".dot", "f"}
DotRank     == ListRank(<<".dot", "f">>)
DotParent   == [p \in DotPath |-> Root]
DotAbove    == [p \in DotPath |-> {}]
DotConflict == [p \in DotPath |-> NoPath]
DotClass    == [p \in DotPath |-> IF p = ".dot" THEN "dot" ELSE "plain"]
DotKinds    == [p \in DotPath |-> {"file"}]
=============================================================================
