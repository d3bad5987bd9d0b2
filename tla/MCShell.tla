------------------------------ MODULE MCShell -------------------------------
(***************************************************************************)
(* A buffer of eight characters on a screen of two rows of ten: commands   *)
(* with and without an operand, lines that are none, an edited line, lines *)
(* whose tail completes a later one, and lines of six to nine characters.  *)
(***************************************************************************)
EXTENDS Shell

ShellGlyphs == {"f", "t", "p", "-", "a", "n", "k", "2", "$", "x"}
ShellPrompt == <<"$">>

ShellLines ==
  {<<>>, <<"f">>, <<"t">>, <<BS, "f">>, <<"f", "x">>,
   <<"p", SPACE, "-", "a">>,
   <<"t", SPACE, "-", "k", SPACE, "2">>,
   <<"f", "x", BS, SPACE, "-", "n">>,
   <<"x", SPACE, "-", "n", SPACE, "a">>,
   <<"x", TAB, "x", "n">>,
   <<"f", SPACE, "-", "n", SPACE, "a">>,
   <<"f", SPACE, "-", "n", SPACE, "a", "x">>,
   <<"f", SPACE, "-", "n", SPACE, "a", "x", "a">>,
   <<"f", SPACE, "-", "n", SPACE, "a", "x", "a", "x">>}

ShellOutputs == {<<>>, <<"x", "x">>, <<"t", NL>>}
=============================================================================
