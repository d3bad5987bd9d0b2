------------------------------ MODULE MCPaging ------------------------------
(***************************************************************************)
(* An instance of Paging for TLC: tables of four pages, a kernel that      *)
(* needs two of them once its own tables are counted, a heap of two pages, *)
(* a stack that reaches into two tables like the real one, and frames for  *)
(* one fork and half of the next, so that the second runs out of memory.   *)
(***************************************************************************)
EXTENDS Paging

StackPages == << <<4, 0>>, <<3, 3>> >>
=============================================================================
