------------------------------- MODULE CodeMap -------------------------------
(***************************************************************************)
(* The code map of the CLI: the entities that it extracts from each file   *)
(* (CodeExtract), and the traces that tie them to specs (CodeTrace).       *)
(***************************************************************************)
EXTENDS CodeExtract, CodeTrace

\* What the code map reads of a file is what the file says, and what it writes of the code
\* is sound.
CodeIsTraced == FilesAreRead /\ TracesAreSound
==============================================================================
