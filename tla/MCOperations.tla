---------------------------- MODULE MCOperations ----------------------------
(***************************************************************************)
(* The instances of Accounts, Backups, Migrations and SearchIndex for     *)
(* TLC.  The four share no state, so that a behaviour follows one of them, *)
(* chosen at the start, and the state space is the sum of theirs.  The     *)
(* texts of the index share a section, change one and drop one.            *)
(***************************************************************************)
EXTENDS Accounts, Backups, Migrations, SearchIndex

CONSTANTS long, other, short

Sections == [c \in Contents |->
  CASE c = long  -> <<[anchor |-> "a", text |-> "old"], [anchor |-> "b", text |-> "rules"]>>
    [] c = other -> <<[anchor |-> "a", text |-> "new"], [anchor |-> "b", text |-> "rules"]>>
    [] c = short -> <<[anchor |-> "a", text |-> "new"]>>]

VARIABLE focus

operationVars == <<accountVars, backupVars, migrationVars, searchVars, focus>>

\* Where a part is not followed, one of its initial states stands for all: one in which
\* nothing of it that is fair can happen.
Init ==
  /\ focus \in {"accounts", "backups", "migrations", "search"}
  /\ AccountsInit /\ (focus # "accounts" => ~ldap)
  /\ BackupsInit
  /\ MigrationsInit /\ (focus # "migrations" => stored = NoDatabase)
  /\ SearchInit /\ (focus # "search" => model = CHOOSE m \in Models : TRUE)

Next ==
  /\ UNCHANGED focus
  /\ \/ /\ focus = "accounts" /\ AccountsNext
        /\ UNCHANGED <<backupVars, migrationVars, searchVars>>
     \/ /\ focus = "backups" /\ BackupsNext
        /\ UNCHANGED <<accountVars, migrationVars, searchVars>>
     \/ /\ focus = "migrations" /\ MigrationsNext
        /\ UNCHANGED <<accountVars, backupVars, searchVars>>
     \/ /\ focus = "search" /\ SearchNext
        /\ UNCHANGED <<accountVars, backupVars, migrationVars>>

Spec == Init /\ [][Next]_operationVars

FairSpec == Spec /\ AccountsFairness /\ SearchFairness
=============================================================================
