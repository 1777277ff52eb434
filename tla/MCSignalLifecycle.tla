------------------------ MODULE MCSignalLifecycle -------------------------
(***************************************************************************)
(* SignalLifecycle for TLC.                                                *)
(***************************************************************************)
EXTENDS SignalLifecycle, TLC

BothKeys == BOOLEAN
KeyBySchema == {FALSE}

AllChoices == Status

EditSymmetry == Permutations(Edits)

=============================================================================
