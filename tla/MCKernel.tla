------------------------------ MODULE MCKernel ------------------------------
(***************************************************************************)
(* The kernel on MCMemoryMap's firmware maps and allocator inputs, with   *)
(* argv cut to 3 slots and command lines that exercise every branch of     *)
(* runcmd.                                                                 *)
(***************************************************************************)
EXTENDS Kernel, MCMemoryMap

MCWords == {"help", "lpinfo", "PrintMemoryMap", "x"}

\* empty and blank lines; known, unknown and glued names ("helpx");
\* arguments after leading and inner blanks; a line of MAXARGS
\* arguments.
MCLines ==
  { <<>>, <<"SP", "TAB">>, <<"help">>, <<"SP", "help", "SP", "x">>,
    <<"help", "x">>, <<"x">>, <<"lpinfo">>, <<"PrintMemoryMap", "TAB">>,
    <<"x", "SP", "x", "SP", "x">>, <<"lpinfo", "SP", "x", "help">> }

\* uefi.c 35-37: the LOADER_PARAMS address with -m 512 (LP_pointer); with
\* -m 128 it is the second one.
MCLoaderParams == {515501200}
MCOtherLoaderParams == {515501200, 112848016}

MCMessages == {"m1", "m2"}

=============================================================================
