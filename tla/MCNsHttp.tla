------------------------------ MODULE MCNsHttp ------------------------------
(***************************************************************************)
(* Files of up to three blocks for TLC to run NsHttp on, and folders of up *)
(* to two entries for what NsListing has to read.                          *)
(***************************************************************************)
EXTENDS NsHttp

Files == {<<>>, <<"a">>, <<"a", "b">>, <<"b", "a", "a">>}

Reader == INSTANCE NsListing WITH MaxDepth <- 6, MaxText <- 3, MaxPath <- 2, Prefix <- "files"

File(path, size) == [path |-> path, etag |-> <<"e1">>, size |-> size, mtime |-> 5, dir |-> FALSE]
Folder(path) == [path |-> path, etag |-> <<"e2">>, size |-> 0, mtime |-> 0, dir |-> TRUE]
Entries == {File(<<"d", "f">>, 0), File(<<"d", "g">>, 7), Folder(<<"d", "h">>)}

\* nsdav_list() and nsdav_stat() read what is whole, and nothing else.
ASSUME ListingsAreRead ==
  /\ \A n \in 0..2 : \A entries \in [1..n -> Entries] : Reader!ReadAsItIs(Folder(<<"d">>), entries)
  /\ \A e \in Entries : Reader!StatIsEntry(e)
=============================================================================
