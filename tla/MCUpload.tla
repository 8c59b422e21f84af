------------------------------ MODULE MCUpload ------------------------------
(* A small instance of Upload for TLC.                                     *)
EXTENDS Upload

\* A UI, a file with one mesh, and one with two.
SmallBatches == {<<"ui">>, <<"plain">>, <<"indexed", "plain">>}
=============================================================================
