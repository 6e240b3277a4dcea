-------------------------- MODULE GovernedRegistry --------------------------
(***************************************************************************)
(* What the registry promises about its governed documents, whoever        *)
(* submits, reviews, promotes, deletes or purges: a document is a draft    *)
(* edited in place until its first release; from then on its text and its  *)
(* version change only by a release, which adds one entry to an            *)
(* append-only history under a version never used before and, when stable, *)
(* becomes the head; a document disappears only after it was hidden, and   *)
(* takes its history with it (docs/CONCEPTS.md, "Lifecycle").              *)
(*                                                                         *)
(* The values a step gives to a head or adds to a history are read from    *)
(* the next state, so that TLC can check the steps of an implementation    *)
(* without enumerating the versions.                                       *)
(***************************************************************************)
EXTENDS Semver

CONSTANTS Docs, Contents

VARIABLES phase, head, history, hidden

registryVars == <<phase, head, history, hidden>>

Entry == [version : Version, content : Contents, channel : {"stable", "beta"}]

RegistryInit ==
  /\ phase = [d \in Docs |-> "absent"]
  /\ history = [d \in Docs |-> {}]
  /\ hidden = {}

\* At most the heads of the documents of D change.
OnlyHeadsOf(D) == \A d \in Docs \ D : head'[d] = head[d]

IsHead(d, e) == head'[d] = [version |-> e.version, content |-> e.content]

\* The step adds exactly e, under a version never used before.
Appends(d, e) ==
  /\ e \in Entry
  /\ \A old \in history[d] : old.version # e.version
  /\ history' = [history EXCEPT ![d] = @ \cup {e}]

EditDraft(d) ==
  /\ phase[d] \in {"absent", "draft"}
  /\ phase' = [phase EXCEPT ![d] = "draft"]
  /\ OnlyHeadsOf({d})
  /\ UNCHANGED <<history, hidden>>

ReleaseStable(d) ==
  /\ phase[d] \in {"draft", "governed"} /\ d \notin hidden
  /\ phase' = [phase EXCEPT ![d] = "governed"]
  /\ \E e \in history'[d] : e.channel = "stable" /\ Appends(d, e) /\ IsHead(d, e)
  /\ OnlyHeadsOf({d})
  /\ UNCHANGED hidden

\* A beta release leaves every head alone.
ReleaseBeta(d) ==
  /\ phase[d] = "governed" /\ d \notin hidden
  /\ \E e \in history'[d] : e.channel = "beta" /\ Appends(d, e)
  /\ UNCHANGED <<phase, head, hidden>>

Hide(d) ==
  /\ phase[d] # "absent"
  /\ hidden' = hidden \cup {d}
  /\ UNCHANGED <<phase, head, history>>

Unhide(d) ==
  /\ hidden' = hidden \ {d}
  /\ UNCHANGED <<phase, head, history>>

\* Only documents hidden before may be forgotten, whole.
Forget(D) ==
  /\ D \subseteq hidden
  /\ phase' = [d \in Docs |-> IF d \in D THEN "absent" ELSE phase[d]]
  /\ history' = [d \in Docs |-> IF d \in D THEN {} ELSE history[d]]
  /\ OnlyHeadsOf(D)
  /\ hidden' = hidden \ D

RegistryNext ==
  \/ \E d \in Docs : \/ EditDraft(d) \/ ReleaseStable(d) \/ ReleaseBeta(d)
                     \/ Hide(d) \/ Unhide(d)
  \/ \E D \in SUBSET hidden : Forget(D)

RegistrySpec == RegistryInit /\ [][RegistryNext]_registryVars
=============================================================================
