----------------------------- MODULE MCTransfer -----------------------------
(* Transfer for TLC: a FAT16 card of a few clusters of two sectors.       *)
EXTENDS Transfer

MCFiles   == {<<"a">>, <<"d", "a">>}
MCFolders == {<<"d">>}
MCMoves   == {<<(<<"a">>), <<"d", "a">>>>}
MCUploads == {<<"x">>, <<"y", "y", "y", "y", "y">>}
=============================================================================
