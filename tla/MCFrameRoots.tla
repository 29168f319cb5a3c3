---------------------------- MODULE MCFrameRoots ----------------------------
(***************************************************************************)
(* An instance of FrameRoots for TLC: a function with a gc argument and    *)
(* another local, and one with two gc locals, as in MCRuntime.             *)
(***************************************************************************)
EXTENDS FrameRoots, TLC

CONSTANTS work, make

MCGcLocal == work :> <<TRUE, FALSE>> @@ make :> <<TRUE, TRUE>>

=============================================================================
