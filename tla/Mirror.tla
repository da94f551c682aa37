------------------------------- MODULE Mirror -------------------------------
(***************************************************************************)
(* The rows of the mirror's `pages` table and the statements of            *)
(* internal/mirror/store.go that change them.  Each statement is one       *)
(* SQLite transaction, so each is an operator from a row to a row.         *)
(*                                                                         *)
(* What the table stores is abstracted to what staleness depends on:       *)
(*   edited  last_edited_time, in minutes; 0 is the empty string           *)
(*   rev     the revision of title and properties the row was built from   *)
(*   body    the revision content_markdown was rendered from; 0 is ''      *)
(*   synced  content_synced, the last_edited_time the body is stamped with *)
(*   source  data_source_id, NoSource for ''                               *)
(*   trash   in_trash                                                      *)
(*   known   whether the row exists: no statement ever deletes one         *)
(***************************************************************************)
EXTENDS Naturals

CONSTANT NoSource \* data_source_id = '': a page outside every database

\* pages.id without a row.
NoRow == [known |-> FALSE, trash |-> FALSE, source |-> NoSource,
          edited |-> 0, rev |-> 0, synced |-> 0, body |-> 0]

\* A page object as the API returns it.
NoPage == [id |-> 0, trash |-> FALSE, edited |-> 0, rev |-> 0]

(* --- Plausible bugs, for the runs that show the properties can fail. --- *)
UpsertRowStamping(row, page, source) ==
    [row EXCEPT !.known = TRUE, !.trash = page.trash,
                !.source = IF source # NoSource THEN source ELSE @,
                !.edited = page.edited, !.rev = page.rev,
                !.synced = IF @ = 0 THEN 0 ELSE page.edited]

UpsertRowStillTrashed(row, page, source) ==
    [row EXCEPT !.known = TRUE, !.trash = @ \/ page.trash,
                !.source = IF source # NoSource THEN source ELSE @,
                !.edited = page.edited, !.rev = page.rev]

TrashRowKeepingIt(row) == row

ContentPendingOnce(row) == row.known /\ ~row.trash /\ row.synced = 0

(***************************************************************************)
(* UpsertPage: the metadata of the object replaces the row's, except that  *)
(* an object that arrives without a data source keeps the known one.  The  *)
(* content columns are left alone.                                         *)
(***************************************************************************)
UpsertRow(row, page, source) ==
    [row EXCEPT !.known = TRUE,
                !.trash = page.trash,
                !.source = IF source # NoSource THEN source ELSE @,
                !.edited = page.edited,
                !.rev = page.rev]

(***************************************************************************)
(* SetContent: an UPDATE that stamps the body with the last_edited_time    *)
(* the row has when the statement runs.  It touches no row that is not     *)
(* there.                                                                  *)
(***************************************************************************)
WriteContent(row, body) ==
    IF row.known THEN [row EXCEPT !.body = body, !.synced = row.edited] ELSE row

\* MarkTrashed.
TrashRow(row) == IF row.known THEN [row EXCEPT !.trash = TRUE] ELSE row

\* The WHERE clause of FetchPendingContent.
ContentPending(row) ==
    /\ row.known
    /\ ~row.trash
    /\ \/ row.synced = 0
       \/ row.synced # row.edited

\* The WHERE clause of PageIDs.
LiveRowOf(row, source) == row.known /\ ~row.trash /\ row.source = source
=============================================================================
