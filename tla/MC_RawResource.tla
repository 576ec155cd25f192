---------------------------- MODULE MC_RawResource ----------------------------
(***************************************************************************)
(* One resource name, whose link can live in either namespace, two files, *)
(* the strings "", "a" and "a\n", and files of up to four characters:    *)
(* enough to write two lines, reopen and read them back.                 *)
(***************************************************************************)
EXTENDS RawResource

MCChars == {"a"}
MCMsgs  == {<<>>, <<"a">>, <<"a", "nl">>}
=============================================================================
