------------------------------ MODULE MCInitrd ------------------------------
(***************************************************************************)
(* An instance of Initrd for TLC: two files in the image, room for one     *)
(* more behind them in memory that is blank or not, names of different     *)
(* lengths that can be prefixes of what was there, the empty one and one   *)
(* that fills its cells among them.                                        *)
(***************************************************************************)
EXTENDS Initrd

UserNames  == {<<>>, <<"a">>, <<"b", "a", "b", "a">>}
ImageFiles == << <<"a">>, <<"b", "a">> >>
OldMemory  == {<<NUL, NUL, NUL, NUL>>, <<"b", "b", NUL, "b">>}
=============================================================================
