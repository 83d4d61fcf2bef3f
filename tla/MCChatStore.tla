---------------------------- MODULE MCChatStore ----------------------------
(***************************************************************************)
(* ChatStore for TLC. The goroutines that append run the same code and are *)
(* told apart by nothing, so they may be exchanged.                        *)
(***************************************************************************)
EXTENDS ChatStore, TLC

CONSTANTS run, leftover, compression, resume

MCAppenders == {run, leftover}
MCCompactors == {compression}
MCReaders == {resume}
MCSymmetry == Permutations(MCAppenders)
=============================================================================
