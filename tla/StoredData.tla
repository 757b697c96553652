------------------------------- MODULE StoredData -------------------------------
(***************************************************************************)
(* Five components around tables of PostgreSQL, side by side: the users    *)
(* and sessions of the backend, the copy of the content of an account,     *)
(* the pages of its listings, the imports of users to invite, and the      *)
(* pages of the console that show and change rows.                         *)
(*                                                                         *)
(* They share no state, so an interleaving of two of them shows nothing    *)
(* that one alone does not: part chooses at the start which of them runs,  *)
(* and the states explored are their sum, not their product.               *)
(***************************************************************************)
EXTENDS Sessions, ContentSync, Listings, InvitationImport, Console, TLC

VARIABLES part    \* the component that runs

dataVars == <<part, sessionVars, syncVars, listingVars, importVars, consoleVars>>

Parts == {"sessions", "content", "listing", "import", "console"}

(* Every variable keeps its type; in particular a row of an import becomes *)
(* an invitee only with a username that fits the pattern.                  *)
DataTypeOK ==
  /\ part \in Parts
  /\ SessionsTypeOK /\ SyncTypeOK /\ ListingTypeOK /\ ImportTypeOK /\ ConsoleTypeOK

DataInit ==
  /\ part \in Parts
  /\ SessionsInit /\ SyncInit /\ ListingInit /\ ImportInit /\ ConsoleInit
  /\ part # "listing" => listing = "contacts"

DataNext ==
  /\ \/ part = "sessions" /\ SessionsNext
        /\ UNCHANGED <<syncVars, listingVars, importVars, consoleVars>>
     \/ part = "content" /\ SyncNext
        /\ UNCHANGED <<sessionVars, listingVars, importVars, consoleVars>>
     \/ part = "listing" /\ ListingNext
        /\ UNCHANGED <<sessionVars, syncVars, importVars, consoleVars>>
     \/ part = "import" /\ ImportNext
        /\ UNCHANGED <<sessionVars, syncVars, listingVars, consoleVars>>
     \/ part = "console" /\ ConsoleNext
        /\ UNCHANGED <<sessionVars, syncVars, listingVars, importVars>>
  /\ UNCHANGED part

DataSpec == DataInit /\ [][DataNext]_dataVars

(* RefreshTokens, Users and Ids are ordered, and Sends is a singleton. *)
Symmetry == Permutations(Requests) \cup Permutations(Loads) \cup Permutations(Chats)
              \cup Permutations(Drafts)
=============================================================================
