------------------------------ MODULE MCPrintf ------------------------------
(***************************************************************************)
(* An int of five bits, whose longest numeral fills a buffer of three as   *)
(* the source's fills its eleven, and a screen of two rows of four.  Every *)
(* number in every conversion, and every string of up to three characters, *)
(* with any of these before it.                                            *)
(***************************************************************************)
EXTENDS Printf

DigitGlyphs == {hex[d] : d \in 1..16} \cup {"-", "%"}

Strings == UNION {[1..n -> {"a", BS, TAB, CR, NL, INERT}] : n \in 0..3}

TestFormats ==
  {<< <<"%", "s">>, str>> : str \in Strings}
  \cup {<< <<"%", c, "b">>, w>> : c \in {"d", "u", "x"}, w \in Words}
  \cup {<< <<SPACE, "%", "%", "%", "c", "%", "c", NL>>, "b", "c">>}
=============================================================================
