---------------------------- MODULE WorkingCopies ----------------------------
(***************************************************************************)
(* The commands of the CLI that leave files in working copies: those that  *)
(* set them up (Setup), and those that exchange their states (PeerStates). *)
(***************************************************************************)
EXTENDS Setup, PeerStates

\* What commands leave in the working copies of a project, and of each other's states, is
\* sound: wherever they were refused or killed, and whatever else went on meanwhile.
WorkingCopiesAreSound == PeerStatesAreSnapshots /\ SetupIsSound
==============================================================================
