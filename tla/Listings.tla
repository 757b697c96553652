------------------------------- MODULE Listings -------------------------------
(***************************************************************************)
(* GET /api/contacts and GET /api/messages page by page.  A page holds the *)
(* first rows of the listing below a cursor, the telegramId of the last    *)
(* row of the page before; a page that is not full is the last one.        *)
(* Meanwhile the worker stores more rows.                                  *)
(*                                                                         *)
(* Contacts are listed by telegramId, which is unique in an account but    *)
(* not among the accounts of an owner.  Messages are listed by sentAt,     *)
(* whose unit is the second, while their cursor is the telegramId.         *)
(***************************************************************************)
EXTENDS Naturals, FiniteSets

CONSTANTS
  Ids,        \* bound: the telegramIds
  Places,     \* the accounts of the owner, or the chat
  Limit       \* the rows of a full page

ASSUME ListingAssumption == Ids \subseteq Nat \ {0} /\ Limit \in Nat \ {0}

(* key is what the listing is ordered by, largest first. *)
ListedRows == [id : Ids, place : Places, key : Ids]

VARIABLES
  listing,    \* which of the two listings
  listed,     \* its rows in the database
  walk,       \* where the walk over the pages is
  before,     \* its cursor, 0 for none
  shown,      \* the rows of the pages so far
  twice,      \* history: those shown on two pages
  wanted      \* history: the rows there were when the walk began

listingVars == <<listing, listed, walk, before, shown, twice, wanted>>

ListingTypeOK ==
  /\ listing \in {"contacts", "messages"}
  /\ listed \in SUBSET ListedRows
  /\ walk \in {"none", "paging", "done"}
  /\ before \in Ids \cup {0}
  /\ shown \in SUBSET ListedRows
  /\ twice \in SUBSET shown
  /\ wanted \in SUBSET ListedRows

ListingInit ==
  /\ listing \in {"contacts", "messages"}
  /\ listed = {}
  /\ walk = "none"
  /\ before = 0
  /\ shown = {}
  /\ twice = {}
  /\ wanted = {}

(* The key of a contact is its telegramId; the messages of the chat are    *)
(* numbered in the order they are sent.                                    *)
Orderly(r) ==
  IF listing = "contacts" THEN r.key = r.id
  ELSE \A s \in listed : s.place = r.place /\ (s.id < r.id => s.key <= r.key)
                                           /\ (s.id > r.id => s.key >= r.key)

(* An upsert that creates a row. *)
StoreListed(r) ==
  /\ \A s \in listed : s.id # r.id \/ s.place # r.place
  /\ Orderly(r)
  /\ listed' = listed \cup {r}
  /\ UNCHANGED <<listing, walk, before, shown, twice, wanted>>

BeginWalk ==
  /\ walk = "none"
  /\ walk' = "paging"
  /\ wanted' = listed
  /\ UNCHANGED <<listing, listed, before, shown, twice>>

(* Mutant of Below: lte for lt. *)
NotAbove(r) == before = 0 \/ r.id <= before

(* where: telegramId: { lt: before } *)
Below(r) == before = 0 \/ r.id < before

(* orderBy and take: rows with the same key come in any order. *)
FirstOf(rows, page) ==
  /\ page \subseteq rows
  /\ Cardinality(page) = IF Cardinality(rows) < Limit THEN Cardinality(rows) ELSE Limit
  /\ \A r \in page, s \in rows \ page : r.key >= s.key

LastOf(page, r) == r \in page /\ \A s \in page : r.key <= s.key

Page(page) ==
  /\ walk = "paging"
  /\ FirstOf({r \in listed : Below(r)}, page)
  /\ shown' = shown \cup page
  /\ twice' = twice \cup (shown \cap page)
  /\ IF Cardinality(page) = Limit
     THEN \E r \in page : LastOf(page, r) /\ before' = r.id /\ UNCHANGED walk
     ELSE walk' = "done" /\ UNCHANGED before
  /\ UNCHANGED <<listing, listed, wanted>>

ListingNext ==
  \/ \E r \in ListedRows : StoreListed(r)
  \/ BeginWalk
  \/ \E page \in SUBSET listed : Page(page)

ListingSpec == ListingInit /\ [][ListingNext]_listingVars

-----------------------------------------------------------------------------
Tied(r) == \E s \in listed : s # r /\ s.key = r.key

(* A walk over the pages shows every row there was when it began, and none *)
(* twice, whatever the worker stores meanwhile, except rows that share     *)
(* their place in the order: two messages of the same second, or one       *)
(* contact of two accounts.                                                *)
WalkSeesAll ==
  /\ walk = "done" => \A r \in wanted : r \in shown \/ Tied(r)
  /\ \A r \in twice : Tied(r)
=============================================================================
