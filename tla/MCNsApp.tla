------------------------------ MODULE MCNsApp ------------------------------
(***************************************************************************)
(* Files, folders and texts for TLC to run NsApp on.                       *)
(***************************************************************************)
EXTENDS NsApp

File(server, port, folders, pairs) ==
  [server |-> server, port |-> port, user |-> server, pass |-> <<"a">>,
   local |-> <<"DH0:Nextcloud">>, folders |-> folders, pairs |-> pairs]

A == <<"A">>
B == <<"B">>
C == <<"C">>
D == <<"D">>

\* Set up; one of 1.0 with more folders, pairs and letters than there is room
\* for, blanks around some, and a port that wraps to 80; one without a server;
\* none.
MCFiles == {NoFile, File(<<"h">>, 443, <<A>>, <<>>),
            [File(<<Blank, "h">>, UWord + 80, << <<"C", Blank>>, <<Blank>>, A, B>>,
                  << <<"x", Blank, "y">>, <<"z", "w">> >>) EXCEPT
               !.pass = <<Blank, "a", "b", "a">>],
            File(<<>>, 0, <<>>, << <<"x">> >>)}
MCListings == {<<B, A>>, <<B, <<"C", Blank>>, D>>}
MCTexts == {[field |-> "server", text |-> <<"my", "h">>],
            [field |-> "user", text |-> <<"u">>],
            [field |-> "local", text |-> <<>>], [field |-> "local", text |-> <<"Work:">>]}
MCInstalled == {AllLibs, {"master", "amissl"}, {"socket", "master"}}
=============================================================================
