---------------------------- MODULE MCTermSignal ----------------------------
(***************************************************************************)
(* TermSignal for TLC.                                                     *)
(***************************************************************************)
EXTENDS TermSignal

AnyStage == Stages
=============================================================================
