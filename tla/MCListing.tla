------------------------------ MODULE MCListing ------------------------------
(* Listing for TLC: a file beside two directories, one in the other.        *)
EXTENDS Listing

MCFiles == {<<"a">>, <<"d", "a">>, <<"d", "b">>, <<"d", "e", "a">>}
MCDirs == {<<>>, <<"d">>, <<"d", "e">>}
AllFaults == {"opendir", "readdir", "send"}
=============================================================================
