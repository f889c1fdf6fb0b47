------------------------------ MODULE MCKernel ------------------------------
(***************************************************************************)
(* The kernel for TLC, with the constants a configuration file cannot      *)
(* write: the input buffers programs pass, as pairs <<offset, size>>.      *)
(***************************************************************************)
EXTENDS KernelRefinement

\* One buffer of one byte (only the NUL fits) and one of two, at the start of
\* the caller's memory; they lie in a region of two bytes or more.
MCBuffers == {<<0, 1>>, <<0, 2>>}

=============================================================================
