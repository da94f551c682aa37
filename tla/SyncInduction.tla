--------------------------- MODULE SyncInduction ---------------------------
(***************************************************************************)
(* The inductive invariants behind NoFalseTrash, RowsKeepSource,           *)
(* WatermarkCovers, StampedBodyIsCurrent and KeepsPromise, by parts.       *)
(* SafeInv always holds; CoverInv when the slack is at least twice as long *)
(* as a walk; LoopInv when the sync loop is the only goroutine.            *)
(***************************************************************************)
EXTENDS Sync

\* Rows are of pages Notion has, in their data source; what is marked trashed
\* has been away; search knows no page that Notion does not.
RowInv(p) ==
    /\ rows[p].known => notion[p].state # "absent" /\ rows[p].source = Home[p]
    /\ ~rows[p].known => rows[p].source = NoSource
    /\ rows[p].trash => Gone(notion[p])
    /\ found[p].state # "absent" => notion[p].state # "absent"

\* No edit and no watermark is in the future.
TimesInv ==
    /\ \A p \in Pages : notion[p].edited <= now
    /\ \A s \in Sources : watermark[s] <= now

\* The object says what Notion says of its page.
Fresh(o) ==
    o.edited = notion[o.id].edited /\ o.rev = notion[o.id].rev /\ ~o.trash

\* An object in flight is of an existing page and in the right walk; if its
\* page has changed since, it changed after the walk began.
HeldInv(r) ==
    r.pc \in {"store", "storeLoose", "upsert"} =>
       /\ r.held.id \in Pages
       /\ notion[r.held.id].state # "absent"
       /\ r.held.trash => Gone(notion[r.held.id])
       /\ r.pc = "store" => Home[r.held.id] = r.src
       /\ r.pc = "storeLoose" => Home[r.held.id] = NoSource
       /\ r.pc # "storeLoose" /\ Stays(notion[r.held.id]) =>
             Fresh(r.held) \/ notion[r.held.id].edited >= r.began

\* A page still suspected of being deleted has been away, or is not listed yet.
SuspectInv(r) ==
    /\ r.pc = "live" => \A p \in r.ids :
          /\ Home[p] = r.src
          /\ notion[p].state # "absent"
          /\ Stays(notion[p]) => p > r.cur[2]
    /\ r.pc = "trash" => \A p \in r.ids : Gone(notion[p])

\* What a goroutine remembers is not in the future, and no walk is too long.
ClockInv(r) ==
    /\ r.began <= now
    /\ \A s \in Sources : r.snap[s] <= now
    /\ r.pc \in {"rows", "store", "mark"} => r.base <= now
    /\ r.pc \in {"source", "rows", "store", "mark"} => r.high <= now
    /\ r.pc = "store" => r.held.edited <= now
    /\ Walking(r) => now <= r.began + MaxWalk

\* The cursor is back at the start between two walks.
RestInv(r) == r.pc \in {"source", "mark", "known"} => r.cur = <<0, 0>>

WorkerInv(r) == HeldInv(r) /\ SuspectInv(r) /\ ClockInv(r) /\ RestInv(r)

SafeInv ==
    /\ TypeOK
    /\ \A p \in Pages : RowInv(p)
    /\ TimesInv
    /\ \A w \in Workers : WorkerInv(worker[w])

-----------------------------------------------------------------------------
\* The row of page p is missing or out of date.
Behind(p) == Home[p] # NoSource /\ Stays(notion[p]) /\ ~RowCurrent(p)

\* A walk over a data source has not lost a page whose row is behind: it was
\* edited about when the walk began or later, or is yet to come, or is held.
WalkInv(r, p) ==
    r.src = Home[p] =>
       /\ r.pc \in {"rows", "store"} =>
             \/ notion[p].edited + MaxWalk >= r.began
             \/ /\ r.pc = "rows" \/ r.more
                /\ Later(<<notion[p].edited, p>>, r.cur)
             \/ r.pc = "store" /\ r.held.id = p /\ Fresh(r.held)
       /\ r.pc = "mark" => notion[p].edited + MaxWalk >= r.began
       /\ r.pc \in {"rows", "store", "mark"} => notion[p].edited + Slack >= r.base

\* Nothing goroutine state r remembers gets ahead of page p.
InView(r, p) ==
    notion[p].edited + Slack >= r.snap[Home[p]] /\ WalkInv(r, p)

CoverInv ==
    \A p \in Pages : Behind(p) =>
       /\ notion[p].edited + Slack >= watermark[Home[p]]
       /\ \A w \in Workers : InView(worker[w], p)

SyncInv == SafeInv /\ CoverInv
-----------------------------------------------------------------------------
(***************************************************************************)
(* When the sync loop is the only goroutine, nobody writes a row between   *)
(* its reading a page and its storing it.  What holds then besides: no row *)
(* and nothing in flight is ahead of what it was read from, nor falls back *)
(* behind it; and, when no two edits share a minute, an edit time tells    *)
(* one body of a page that stays from the next.                            *)
(***************************************************************************)
LoopAlone == Workers \subseteq {"loop"}

\* The newest revision a row of page p can be made from.
Newest(p) == IF Home[p] = NoSource THEN found[p].rev ELSE notion[p].rev

\* A row of page p that is no newer than the page, its body that of its stamp.
RowOf(p, row) ==
    /\ row.rev <= Newest(p)
    /\ row.edited <= notion[p].edited
    /\ row.synced <= notion[p].edited
    /\ OneEditPerMinute /\ Stays(notion[p]) /\ row.synced = notion[p].edited
          => row.body = notion[p].rev

\* A page has a revision from its creation on; search is not ahead of it.
PageInv(p) ==
    /\ notion[p].state = "absent" => notion[p].rev = 0
    /\ notion[p].state # "absent" => notion[p].rev # 0
    /\ Live(found[p]) => found[p].rev # 0
    /\ found[p].rev <= notion[p].rev
    /\ found[p].edited <= notion[p].edited
    /\ RowOf(p, rows[p])

\* An object in flight takes its row forward.  A body in flight is the page's,
\* unless the row has an older edit time and the stamp will be that one.
LoadInv(r) ==
    /\ r.pc # "upsert"
    /\ r.pc \in {"rows", "store"} => r.src # NoSource
    /\ r.pc \in {"store", "storeLoose"} =>
          /\ ~r.held.trash /\ r.held.rev # 0
          /\ rows[r.held.id].rev <= r.held.rev /\ r.held.rev <= Newest(r.held.id)
          /\ r.held.edited <= notion[r.held.id].edited
    /\ r.pc = "content" =>
          /\ r.held.id \in Pages
          /\ /\ OneEditPerMinute /\ Stays(notion[r.held.id]) /\ rows[r.held.id].known
             /\ rows[r.held.id].edited = notion[r.held.id].edited
             => r.held.rev = notion[r.held.id].rev

LoopInv ==
    /\ SafeInv
    /\ \A p \in Pages : PageInv(p)
    /\ \A w \in Workers : LoadInv(worker[w])
=============================================================================
