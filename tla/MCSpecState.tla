---------------------------- MODULE MCSpecState -----------------------------
(* The programs whose wrong paths are model checked: MCSpecState_*.cfg. *)
EXTENDS SpecState

\* A half word and a byte in pages that share a bucket, and whose entries share
\* a chain; a misaligned half word; and a byte outside of the segments.
MixedAccesses == {<<4, 2>>, <<6, 1>>, <<5, 2>>, <<7, 1>>}
=============================================================================
