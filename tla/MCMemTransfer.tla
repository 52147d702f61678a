---------------------------- MODULE MCMemTransfer ----------------------------
(* MemTransfer on three start addresses whose jobs overlap, jobs of one to    *)
(* four words, and two outstanding transactions as in croc_domain.           *)
EXTENDS MemTransfer

MCBases == {4, 8, 32}
=============================================================================
