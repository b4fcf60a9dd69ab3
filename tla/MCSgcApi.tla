------------------------------ MODULE MCSgcApi ------------------------------
(* SgcApi for TLC: a FAT32 card of a few clusters of one sector.          *)
EXTENDS SgcApi

Abs(s) == [abs |-> TRUE, seg |-> s]
Rel(s) == [abs |-> FALSE, seg |-> s]
MCPaths == {<<"a">>, <<"b">>, <<"d">>, <<"d", "a">>, <<"b", "a">>}
MCNames == {Rel(<<"a">>), Abs(<<"d", "a">>), Abs(<<"d">>)}
MCDirs  == {Abs(<<"d">>), Rel(<<"..">>)}
MCModes == {{"R"}, {"R", "W", "OPEN", "END"}, {"W", "ALWAYS"}}
MCUpdate == {{"R", "W", "OPEN"}}
MCMoves == {<<Abs(<<"a">>), Abs(<<"d", "a">>)>>, <<Abs(<<"d">>), Rel(<<"b">>)>>}
=============================================================================
