---------------------------- MODULE Sync_proofs ----------------------------
(***************************************************************************)
(* Theorems about Sync, for every set of pages and sources, every slack    *)
(* and every bound, any number of failures and crashes, and both           *)
(* goroutines at once: types, what reconciliation and the two endpoints do *)
(* to the rows, and what the watermark never passes.                       *)
(*                                                                         *)
(* The argument: an object in flight says of its page something that was   *)
(* true when its walk began or later, and a page suspected of being        *)
(* deleted either is deleted or is still ahead of the listing's cursor.    *)
(***************************************************************************)
EXTENDS SyncInduction, TLAPS

-----------------------------------------------------------------------------
(* Types of the operators the actions are built from. *)

LEMMA ZeroTypes == 0 \in Time /\ NoPage \in Objects /\ <<0, 0>> \in Cursors
BY SyncAssumption DEF NoPage, Objects, Cursors, Time

LEMMA IdleType == IdleWorker \in WorkerRecords
BY SyncAssumption, ZeroTypes DEF IdleWorker, WorkerRecords, WorkerStates

LEMMA NextSourceType ==
    ASSUME NEW r \in WorkerRecords
    PROVE  NextSource(r) \in WorkerRecords
BY SyncAssumption, ZeroTypes DEF NextSource, WorkerRecords, WorkerStates

LEMMA AfterMarkType ==
    ASSUME NEW r \in WorkerRecords
    PROVE  AfterMark(r) \in WorkerRecords
BY NextSourceType, ZeroTypes DEF AfterMark, WorkerRecords, WorkerStates

LEMMA AfterLooseType ==
    ASSUME NEW r \in WorkerRecords
    PROVE  AfterLoose(r) \in WorkerRecords
BY NextSourceType DEF AfterLoose, WorkerRecords, WorkerStates

LEMMA UpsertType ==
    ASSUME NEW row \in Rows, NEW source \in Sources \cup {NoSource},
           NEW page \in Objects
    PROVE  UpsertRow(row, page, source) \in Rows
BY DEF UpsertRow, Rows, Objects

LEMMA WriteContentType ==
    ASSUME NEW row \in Rows, NEW body \in Nat
    PROVE  WriteContent(row, body) \in Rows
BY DEF WriteContent, Rows

LEMMA TrashType ==
    ASSUME NEW row \in Rows
    PROVE  TrashRow(row) \in Rows
BY DEF TrashRow, Rows

LEMMA ObjectType ==
    ASSUME NEW p \in Pages,
           NEW page \in [state : PageStates, edited : Time, rev : Nat]
    PROVE  ObjectOf(p, page) \in Objects
BY DEF ObjectOf, Objects

LEMMA LargerType ==
    ASSUME NEW a \in Time, NEW b \in Time
    PROVE  Larger(a, b) \in Time
BY DEF Larger

(* What the three shapes of a goroutine's step do to the types. *)
LEMMA BecomesType ==
    ASSUME TypeOK, NEW w \in Workers, NEW r \in WorkerRecords,
           Becomes(w, r) \/ GivesUp(w, r)
    PROVE  TypeOK'
BY SyncAssumption DEF TypeOK, Becomes, GivesUp, external, mirror

LEMMA WritesType ==
    ASSUME TypeOK, NEW w \in Workers, NEW r \in WorkerRecords, NEW p,
           NEW row, p \in Pages => row \in Rows, Writes(w, r, p, row)
    PROVE  TypeOK'
BY DEF TypeOK, Writes, external

-----------------------------------------------------------------------------
(* Type correctness. *)

LEMMA TypeInit == Init => TypeOK
<1> SUFFICES ASSUME Init PROVE TypeOK
  OBVIOUS
<1>1. NoRow \in Rows /\ Absent \in [state : PageStates, edited : Time, rev : Nat]
  BY ZeroTypes DEF NoRow, Rows, Absent, PageStates
<1> QED BY <1>1, ZeroTypes, IdleType, SyncAssumption DEF Init, TypeOK, Time

LEMMA EnvironmentType == TypeOK /\ Environment => TypeOK'
<1> SUFFICES ASSUME TypeOK, Environment PROVE TypeOK'
  OBVIOUS
<1> DEFINE NotionPages == [state : PageStates, edited : Time, rev : Nat]
<1>1. CASE Tick
  BY <1>1, SyncAssumption DEF TypeOK, Tick, Time, mirror
<1>2. ASSUME NEW p \in Pages, NEW page \in NotionPages, Change(p, page),
             returns' \in 0 .. MaxReturns
      PROVE  TypeOK'
  BY <1>2 DEF TypeOK, Change, mirror
<1>3. ASSUME NEW p \in Pages, Edit(p) PROVE TypeOK'
  <2>1. [state |-> Again(notion[p]), edited |-> now, rev |-> notion[p].rev + 1]
           \in NotionPages
    BY DEF TypeOK, PageStates, Again
  <2>2. returns' \in 0 .. MaxReturns
    BY <1>3 DEF Edit, TypeOK
  <2> QED BY <2>1, <2>2, <1>2, <1>3 DEF Edit
<1>4. ASSUME NEW p \in Pages, Delete(p) PROVE TypeOK'
  <2>1. [notion[p] EXCEPT !.state = "trashed"] \in NotionPages
    BY DEF TypeOK, PageStates
  <2>2. returns' \in 0 .. MaxReturns
    BY <1>4 DEF Delete, TypeOK
  <2> QED BY <2>1, <2>2, <1>2, <1>4 DEF Delete
<1>5. ASSUME NEW p \in Pages, Return(p) PROVE TypeOK'
  <2>1. [notion[p] EXCEPT !.state = "returned"] \in NotionPages
    BY DEF TypeOK, PageStates
  <2>2. returns' \in 0 .. MaxReturns
    BY <1>5, SyncAssumption DEF Return, TypeOK
  <2> QED BY <2>1, <2>2, <1>2, <1>5 DEF Return
<1>6. ASSUME NEW p \in Pages, SearchCatchesUp(p) PROVE TypeOK'
  BY <1>6 DEF TypeOK, SearchCatchesUp, mirror
<1> QED BY <1>1, <1>3, <1>4, <1>5, <1>6 DEF Environment

LEMMA AdvanceType ==
    ASSUME TypeOK, NEW w \in Workers, Advance(w)
    PROVE  TypeOK'
<1> DEFINE r == worker[w]
<1>r. r \in WorkerRecords
  BY DEF TypeOK
<1>z. /\ 0 \in Time /\ NoPage \in Objects /\ <<0, 0>> \in Cursors
      /\ now \in Time /\ looseMark \in Time
  BY ZeroTypes DEF TypeOK
<1>1. CASE StartSource(w)
  <2> PICK s \in r.todo :
        Becomes(w, [r EXCEPT !.pc = "rows", !.src = s, !.todo = @ \ {s},
                             !.base = r.snap[s], !.snap[s] = 0,
                             !.began = now, !.more = TRUE])
    BY <1>1 DEF StartSource
  <2>1. [r EXCEPT !.pc = "rows", !.src = s, !.todo = @ \ {s},
                  !.base = r.snap[s], !.snap[s] = 0,
                  !.began = now, !.more = TRUE] \in WorkerRecords
    BY <1>r, <1>z DEF WorkerRecords, WorkerStates
  <2> QED BY <2>1, BecomesType
<1>2. CASE ReadRow(w)
  <2> PICK p \in Due(r) :
        Becomes(w, [r EXCEPT !.pc = "store", !.held = ObjectOf(p, notion[p]),
                             !.more = Due(r) # {p},
                             !.cur = <<notion[p].edited, p>>])
    BY <1>2 DEF ReadRow
  <2>1. p \in Pages
    BY DEF Due
  <2>2. ObjectOf(p, notion[p]) \in Objects /\ <<notion[p].edited, p>> \in Cursors
    BY <2>1, ObjectType, SyncAssumption DEF TypeOK, Cursors, Time
  <2>3. [r EXCEPT !.pc = "store", !.held = ObjectOf(p, notion[p]),
                  !.more = Due(r) # {p},
                  !.cur = <<notion[p].edited, p>>] \in WorkerRecords
    BY <1>r, <2>2 DEF WorkerRecords, WorkerStates
  <2> QED BY <2>3, BecomesType
<1>3. CASE StoreRow(w)
  <2>1. [r EXCEPT !.pc = IF r.more THEN "rows" ELSE "mark", !.held = NoPage,
                  !.cur = IF r.more THEN @ ELSE <<0, 0>>,
                  !.high = Larger(r.held.edited, @)] \in WorkerRecords
    BY <1>r, <1>z, LargerType DEF WorkerRecords, WorkerStates, Objects
  <2>2. r.held.id \in Pages => UpsertRow(rows[r.held.id], r.held, r.src) \in Rows
    BY <1>r, UpsertType DEF TypeOK, WorkerRecords
  <2> QED BY <2>1, <2>2, <1>3, WritesType DEF StoreRow
<1>4. CASE EndRows(w)
  <2>1. [r EXCEPT !.pc = "mark", !.cur = <<0, 0>>, !.more = FALSE] \in WorkerRecords
    BY <1>r, <1>z DEF WorkerRecords, WorkerStates
  <2> QED BY <2>1, <1>4, BecomesType DEF EndRows
<1>5. CASE SetWatermark(w)
  <2>1. AfterMark(r) \in WorkerRecords
    BY <1>r, AfterMarkType
  <2>2. watermark' \in [Sources -> Time]
    BY <1>r, <1>5 DEF SetWatermark, TypeOK, WorkerRecords
  <2> QED BY <2>1, <2>2, <1>5 DEF SetWatermark, TypeOK, external
<1>6. CASE ListKnown(w)
  <2>1. [r EXCEPT !.pc = "live", !.ids = {p \in Pages : LiveRowOf(rows[p], r.src)}]
           \in WorkerRecords
    BY <1>r DEF WorkerRecords, WorkerStates
  <2> QED BY <2>1, <1>6, BecomesType DEF ListKnown
<1>7. CASE ListLive(w)
  <2> PICK p \in Unlisted(r) : Becomes(w, [r EXCEPT !.ids = @ \ {p}, !.cur = <<0, p>>])
    BY <1>7 DEF ListLive
  <2>1. <<0, p>> \in Cursors
    BY SyncAssumption DEF Unlisted, Cursors
  <2>2. [r EXCEPT !.ids = @ \ {p}, !.cur = <<0, p>>] \in WorkerRecords
    BY <1>r, <2>1 DEF WorkerRecords
  <2> QED BY <2>2, BecomesType
<1>8. CASE EndListLive(w)
  <2>1. [r EXCEPT !.pc = "trash", !.cur = <<0, 0>>] \in WorkerRecords
    BY <1>r, <1>z DEF WorkerRecords, WorkerStates
  <2> QED BY <2>1, <1>8, BecomesType DEF EndListLive
<1>9. CASE TrashPage(w)
  <2> PICK p \in r.ids : Writes(w, [r EXCEPT !.ids = @ \ {p}], p, TrashRow(rows[p]))
    BY <1>9 DEF TrashPage
  <2>1. [r EXCEPT !.ids = @ \ {p}] \in WorkerRecords
    BY <1>r DEF WorkerRecords
  <2>2. p \in Pages => TrashRow(rows[p]) \in Rows
    BY TrashType DEF TypeOK
  <2> QED BY <2>1, <2>2, WritesType
<1>10. CASE EndReconcile(w)
  BY <1>r, <1>10, NextSourceType, BecomesType DEF EndReconcile
<1>11. CASE StartLoose(w)
  <2>1. <<MaxTime + 1, 0>> \in Cursors
    BY SyncAssumption DEF Cursors
  <2>2. [r EXCEPT !.pc = "loose", !.base = looseMark,
                  !.high = looseMark, !.began = now, !.more = TRUE,
                  !.cur = <<MaxTime + 1, 0>>] \in WorkerRecords
    BY <1>r, <1>z, <2>1 DEF WorkerRecords, WorkerStates
  <2> QED BY <2>2, <1>11, BecomesType DEF StartLoose
<1>12. CASE ReadLoose(w)
  <2> DEFINE seen(p) == [r EXCEPT !.cur = <<found[p].edited, p>>,
                                  !.more = LeftToSearch(r) # {p},
                                  !.high = Larger(found[p].edited, @)]
             next(p) == IF Home[p] = NoSource
                        THEN [seen(p) EXCEPT !.pc = "storeLoose",
                                             !.held = ObjectOf(p, found[p])]
                        ELSE seen(p)
  <2> PICK p \in Pages : Becomes(w, next(p))
    BY <1>12 DEF ReadLoose
  <2>1. /\ found[p].edited \in Time
        /\ <<found[p].edited, p>> \in Cursors
        /\ ObjectOf(p, found[p]) \in Objects
    BY ObjectType, SyncAssumption DEF TypeOK, Cursors, Time
  <2>2. Larger(found[p].edited, r.high) \in Time
    BY <1>r, <2>1, LargerType DEF WorkerRecords
  <2>3. seen(p) \in WorkerRecords
    BY <1>r, <2>1, <2>2 DEF WorkerRecords
  <2>4. [seen(p) EXCEPT !.pc = "storeLoose", !.held = ObjectOf(p, found[p])]
           \in WorkerRecords
    BY <2>1, <2>3 DEF WorkerRecords, WorkerStates
  <2>5. next(p) \in WorkerRecords
    BY <2>3, <2>4
  <2> HIDE DEF next
  <2> QED BY <2>5, BecomesType
<1>13. CASE StoreLoose(w)
  <2>1. [r EXCEPT !.pc = "loose", !.held = NoPage] \in WorkerRecords
    BY <1>r, <1>z DEF WorkerRecords, WorkerStates
  <2>2. r.held.id \in Pages => UpsertRow(rows[r.held.id], r.held, NoSource) \in Rows
    BY <1>r, UpsertType DEF TypeOK, WorkerRecords
  <2> QED BY <2>1, <2>2, <1>13, WritesType DEF StoreLoose
<1>14. CASE EndLoose(w)
  <2>1. AfterLoose(r) \in WorkerRecords
    BY <1>r, AfterLooseType
  <2>2. looseMark' \in Time
    BY <1>r, <1>14 DEF EndLoose, TypeOK, WorkerRecords
  <2> QED BY <2>1, <2>2, <1>14 DEF EndLoose, TypeOK, external
<1>15. CASE ListPending(w)
  <2>1. [r EXCEPT !.pc = "fetch", !.ids = {p \in Pages : ContentPending(rows[p])}]
           \in WorkerRecords
    BY <1>r DEF WorkerRecords, WorkerStates
  <2> QED BY <2>1, <1>15, BecomesType DEF ListPending
<1>16. CASE ReadBlocks(w)
  <2> DEFINE o(p) == [NoPage EXCEPT !.id = p,
                         !.rev = IF Live(notion[p]) THEN notion[p].rev ELSE 0]
  <2> PICK p \in r.ids : Becomes(w, [r EXCEPT !.pc = "content", !.ids = @ \ {p}, !.held = o(p)])
    BY <1>16 DEF ReadBlocks
  <2>1. o(p) \in Objects
    BY <1>r, <1>z DEF TypeOK, Objects, WorkerRecords
  <2>2. [r EXCEPT !.pc = "content", !.ids = @ \ {p}, !.held = o(p)] \in WorkerRecords
    BY <1>r, <2>1 DEF WorkerRecords, WorkerStates
  <2> QED BY <2>2, BecomesType
<1>17. CASE StoreContent(w)
  <2>1. [r EXCEPT !.pc = "fetch", !.held = NoPage] \in WorkerRecords
    BY <1>r, <1>z DEF WorkerRecords, WorkerStates
  <2>2. r.held.id \in Pages => WriteContent(rows[r.held.id], r.held.rev) \in Rows
    BY <1>r, WriteContentType DEF TypeOK, WorkerRecords, Objects
  <2> QED BY <2>1, <2>2, <1>17, WritesType DEF StoreContent
<1>18. CASE EndPass(w)
  BY <1>18, IdleType, BecomesType DEF EndPass
<1>19. CASE StoreResync(w)
  <2>1. [IdleWorker EXCEPT !.pc = "fetch", !.ids = r.ids] \in WorkerRecords
    BY <1>r, IdleType DEF WorkerRecords, WorkerStates
  <2>2. r.held.id \in Pages => UpsertRow(rows[r.held.id], r.held, Home[r.held.id]) \in Rows
    BY <1>r, UpsertType, SyncAssumption DEF TypeOK, WorkerRecords
  <2> QED BY <2>1, <2>2, <1>19, WritesType DEF StoreResync
<1> QED
  BY <1>1, <1>2, <1>3, <1>4, <1>5, <1>6, <1>7, <1>8, <1>9, <1>10, <1>11, <1>12,
     <1>13, <1>14, <1>15, <1>16, <1>17, <1>18, <1>19 DEF Advance

LEMMA FailsType ==
    ASSUME TypeOK, NEW w \in Workers, Fails(w)
    PROVE  TypeOK'
<1> DEFINE r == worker[w]
<1>r. r \in WorkerRecords
  BY DEF TypeOK
<1>n. NextSource(r) \in WorkerRecords /\ AfterLoose(r) \in WorkerRecords
  BY <1>r, NextSourceType, AfterLooseType
<1>1. CASE RowsFail(w)
  BY <1>1, <1>n, BecomesType DEF RowsFail
<1>2. CASE SetWatermarkFails(w)
  BY <1>2, IdleType, BecomesType DEF SetWatermarkFails
<1>3. CASE ReconcileFails(w)
  <2>1. CASE GivesUp(w, NextSource(r))
    BY <2>1, <1>n, BecomesType
  <2>2. ASSUME NEW p \in r.ids,
               rows' = [rows EXCEPT ![p] = TrashRow(rows[p])],
               worker' = [worker EXCEPT ![w] = NextSource(r)],
               faults < MaxFaults, faults' = faults + 1,
               UNCHANGED <<external, watermark, looseMark>>
        PROVE  TypeOK'
    <3>1. rows' \in [Pages -> Rows]
      BY <2>2, TrashType DEF TypeOK
    <3> QED BY <3>1, <2>2, <1>n, SyncAssumption DEF TypeOK, external
  <2> QED BY <2>1, <2>2, <1>3 DEF ReconcileFails
<1>4. CASE LooseFails(w)
  BY <1>4, <1>n, BecomesType DEF LooseFails
<1>5. CASE ContentFails(w)
  <2>1. /\ [r EXCEPT !.pc = "fetch", !.held = NoPage] \in WorkerRecords
        /\ \A p \in r.ids : [r EXCEPT !.ids = @ \ {p}] \in WorkerRecords
    BY <1>r, ZeroTypes DEF WorkerRecords, WorkerStates
  <2> QED BY <2>1, <1>5, IdleType, BecomesType DEF ContentFails
<1>6. CASE ResyncFails(w)
  BY <1>6, IdleType, BecomesType DEF ResyncFails
<1> QED BY <1>1, <1>2, <1>3, <1>4, <1>5, <1>6 DEF Fails

LEMMA StartType ==
    ASSUME TypeOK, NEW w \in Workers, Start(w)
    PROVE  TypeOK'
<1>1. ASSUME NEW full \in BOOLEAN, StartPass(w, full) PROVE TypeOK'
  <2>1. [IdleWorker EXCEPT !.pc = "source", !.full = full, !.todo = Sources,
                           !.snap = watermark] \in WorkerRecords
    BY IdleType DEF TypeOK, WorkerRecords, WorkerStates
  <2> QED BY <2>1, <1>1, BecomesType DEF StartPass
<1>2. ASSUME NEW p \in Pages, StartResync(w, p) PROVE TypeOK'
  <2>1. ObjectOf(p, notion[p]) \in Objects
    BY ObjectType DEF TypeOK
  <2>2. [IdleWorker EXCEPT !.pc = "upsert", !.began = now, !.ids = {p},
                           !.held = ObjectOf(p, notion[p])] \in WorkerRecords
    BY <2>1, IdleType DEF TypeOK, WorkerRecords, WorkerStates
  <2> QED BY <2>2, <1>2, BecomesType DEF StartResync
<1> QED BY <1>1, <1>2 DEF Start

LEMMA TypeNext == TypeOK /\ [Next]_vars => TypeOK'
<1> SUFFICES ASSUME TypeOK, [Next]_vars PROVE TypeOK'
  OBVIOUS
<1>1. CASE Environment
  BY <1>1, EnvironmentType
<1>2. ASSUME NEW w \in Workers, Start(w) \/ Advance(w) \/ Fails(w) PROVE TypeOK'
  BY <1>2, StartType, AdvanceType, FailsType
<1>3. CASE Crash
  BY <1>3, IdleType, SyncAssumption DEF Crash, TypeOK, external, mirror
<1>4. CASE UNCHANGED vars
  BY <1>4 DEF vars, TypeOK
<1> QED BY <1>1, <1>2, <1>3, <1>4 DEF Next

(***************************************************************************)
(* Every variable of Sync keeps its type.                                  *)
(***************************************************************************)
THEOREM TypeCorrect == Spec => []TypeOK
BY TypeInit, TypeNext, PTL DEF Spec

-----------------------------------------------------------------------------
(* A goroutine at rest, or between two data sources, satisfies everything. *)

LEMMA IdleGood == TypeOK => WorkerInv(IdleWorker)
BY SyncAssumption DEF TypeOK, IdleWorker, WorkerInv, HeldInv, SuspectInv, ClockInv,
   RestInv, Walking, Time

LEMMA NextSourceGood ==
    ASSUME TypeOK, NEW r \in WorkerRecords, WorkerInv(r)
    PROVE  WorkerInv(NextSource(r))
BY SyncAssumption DEF TypeOK, NextSource, WorkerInv, HeldInv, SuspectInv, ClockInv,
   RestInv, Walking, Time, WorkerRecords

LEMMA AfterLooseGood ==
    ASSUME TypeOK, NEW r \in WorkerRecords, WorkerInv(r)
    PROVE  WorkerInv(AfterLoose(r))
BY SyncAssumption DEF TypeOK, AfterLoose, NextSource, WorkerInv, HeldInv, SuspectInv,
   ClockInv, RestInv, Walking, Time, WorkerRecords

-----------------------------------------------------------------------------
(* What the shapes of a goroutine's step preserve. *)

LEMMA BecomesSafe ==
    ASSUME SafeInv, NEW w \in Workers, NEW r \in WorkerRecords, WorkerInv(r),
           Becomes(w, r) \/ GivesUp(w, r)
    PROVE  SafeInv'
<1>1. TypeOK'
  BY BecomesType DEF SafeInv
<1>2. UNCHANGED <<now, notion, found, rows, watermark>>
  BY DEF Becomes, GivesUp, external, mirror
<1>3. (\A p \in Pages : RowInv(p))' /\ TimesInv'
  BY <1>2 DEF SafeInv, RowInv, TimesInv
<1>4. ASSUME NEW v \in Workers PROVE WorkerInv(worker[v])'
  <2>1. WorkerInv(worker'[v])
    BY DEF SafeInv, TypeOK, Becomes, GivesUp
  <2> QED BY <2>1, <1>2 DEF WorkerInv, HeldInv, SuspectInv, ClockInv, RestInv, Fresh
<1> QED BY <1>1, <1>3, <1>4 DEF SafeInv

LEMMA WritesSafe ==
    ASSUME SafeInv, NEW w \in Workers, NEW r \in WorkerRecords, WorkerInv(r),
           NEW p \in Pages, NEW row \in Rows,
           row.known => notion[p].state # "absent" /\ row.source = Home[p],
           ~row.known => row.source = NoSource,
           row.trash => Gone(notion[p]),
           rows' = [rows EXCEPT ![p] = row],
           worker' = [worker EXCEPT ![w] = r],
           UNCHANGED <<now, notion, found, watermark>>,
           TypeOK'
    PROVE  SafeInv'
<1>1. TimesInv'
  BY DEF SafeInv, TimesInv
<1>2. ASSUME NEW q \in Pages PROVE RowInv(q)'
  BY DEF SafeInv, TypeOK, RowInv
<1>3. ASSUME NEW v \in Workers PROVE WorkerInv(worker[v])'
  <2>1. WorkerInv(worker'[v])
    BY DEF SafeInv, TypeOK
  <2> QED BY <2>1 DEF WorkerInv, HeldInv, SuspectInv, ClockInv, RestInv, Fresh
<1> QED BY <1>1, <1>2, <1>3 DEF SafeInv

-----------------------------------------------------------------------------
\* The object returned for a page says what Notion says of it.
LEMMA ObjectFresh ==
    ASSUME NEW p \in Pages, NEW o, o = ObjectOf(p, notion[p])
    PROVE  /\ o.id = p
           /\ o.trash => Gone(notion[p])
           /\ Live(notion[p]) => Fresh(o)
           /\ Stays(notion[p]) => Fresh(o)
<1>1. /\ o.id = p /\ o.edited = notion[p].edited /\ o.rev = notion[p].rev
      /\ o.trash = (notion[p].state = "trashed")
  BY DEF ObjectOf
<1> QED BY <1>1 DEF Fresh, Live, Stays, Gone

LEMMA InitSafe == Init => SafeInv
<1> SUFFICES ASSUME Init PROVE SafeInv
  OBVIOUS
<1>1. TypeOK
  BY TypeInit
<1>2. \A p \in Pages : RowInv(p)
  BY DEF Init, RowInv, NoRow, Absent
<1>3. TimesInv
  BY SyncAssumption DEF Init, TimesInv, Absent
<1>4. \A w \in Workers : WorkerInv(worker[w])
  BY <1>1, IdleGood DEF Init
<1> QED BY <1>1, <1>2, <1>3, <1>4 DEF SafeInv

\* A page that changes leaves every goroutine's knowledge of it excusable.
LEMMA ChangeSafe ==
    ASSUME SafeInv, TypeOK', NEW p \in Pages, NEW page, Change(p, page),
           page.state # "absent",
           page.edited \in {now, notion[p].edited},
           Gone(notion[p]) => Gone(page),
           Stays(page) => page.edited = now
    PROVE  SafeInv'
<1>1. /\ UNCHANGED <<now, rows, watermark, worker>>
      /\ notion' = [notion EXCEPT ![p] = page]
      /\ found' = found \/ found' = [found EXCEPT ![p] = page]
  BY DEF Change, mirror
<1>2. TimesInv'
  BY <1>1, SyncAssumption DEF SafeInv, TypeOK, TimesInv, Time
<1>3. ASSUME NEW q \in Pages PROVE RowInv(q)'
  BY <1>1 DEF SafeInv, TypeOK, RowInv
<1>4. ASSUME NEW v \in Workers PROVE WorkerInv(worker[v])'
  <2> DEFINE r == worker[v]
  <2>0. r \in WorkerRecords /\ WorkerInv(r) /\ r' = r
    BY <1>1 DEF SafeInv, TypeOK
  <2>1. HeldInv(r)'
    BY <2>0, <1>1 DEF SafeInv, TypeOK, WorkerInv, HeldInv, ClockInv, Fresh, Stays
  <2>2. SuspectInv(r)'
    <3>1. \A q \in r.ids : q \in Pages
      BY <2>0 DEF WorkerRecords
    <3>2. \A q \in Pages : q # p => notion'[q] = notion[q]
      BY <1>1 DEF SafeInv, TypeOK
    <3>3. notion[p].state \in PageStates
      BY DEF SafeInv, TypeOK
    <3>4. notion'[p] = page
      BY <1>1 DEF SafeInv, TypeOK
    <3> QED
      BY <2>0, <3>1, <3>2, <3>3, <3>4 DEF WorkerInv, SuspectInv, Stays, Gone, PageStates
  <2>3. ClockInv(r)' /\ RestInv(r)'
    BY <2>0, <1>1 DEF WorkerInv, ClockInv, RestInv
  <2> QED BY <2>1, <2>2, <2>3 DEF WorkerInv
<1> QED BY <1>2, <1>3, <1>4 DEF SafeInv

LEMMA EnvironmentSafe == SafeInv /\ Environment => SafeInv'
<1> SUFFICES ASSUME SafeInv, Environment PROVE SafeInv'
  OBVIOUS
<1>0. TypeOK /\ TypeOK'
  BY EnvironmentType DEF SafeInv
<1>1. CASE Tick
  <2>1. (\A p \in Pages : RowInv(p))' /\ TimesInv'
    BY <1>1, <1>0 DEF SafeInv, Tick, mirror, RowInv, TimesInv, TypeOK, Time
  <2>2. ASSUME NEW v \in Workers PROVE WorkerInv(worker[v])'
    <3>0. worker[v] \in WorkerRecords /\ WorkerInv(worker[v]) /\ worker'[v] = worker[v]
      BY <1>1 DEF SafeInv, TypeOK, Tick
    <3>1. ClockInv(worker[v])'
      BY <3>0, <1>0, <1>1, SyncAssumption
         DEF WorkerInv, ClockInv, Tick, TypeOK, Time, WorkerRecords, Walking, Objects
    <3>2. HeldInv(worker[v])' /\ SuspectInv(worker[v])' /\ RestInv(worker[v])'
      BY <3>0, <1>1 DEF WorkerInv, HeldInv, SuspectInv, RestInv, Tick, Fresh
    <3> QED BY <3>1, <3>2 DEF WorkerInv
  <2> QED BY <2>1, <2>2, <1>0 DEF SafeInv
<1>2. ASSUME NEW p \in Pages, Edit(p) PROVE SafeInv'
  <2> DEFINE page == [state |-> Again(notion[p]), edited |-> now, rev |-> notion[p].rev + 1]
  <2>1. /\ page.state = Again(notion[p]) /\ page.edited = now
        /\ page.state # "absent"
        /\ Gone(notion[p]) => Gone(page)
    BY DEF Again, Gone
  <2> HIDE DEF page
  <2> QED BY <1>2, <1>0, <2>1, ChangeSafe DEF Edit, page
<1>3. ASSUME NEW p \in Pages, Delete(p) PROVE SafeInv'
  <2>1. [notion[p] EXCEPT !.state = "trashed"].state = "trashed"
        /\ [notion[p] EXCEPT !.state = "trashed"].edited = notion[p].edited
    BY <1>0 DEF TypeOK
  <2> QED BY <1>3, <1>0, <2>1, ChangeSafe DEF Delete, Stays, Gone
<1>4. ASSUME NEW p \in Pages, Return(p) PROVE SafeInv'
  <2>1. [notion[p] EXCEPT !.state = "returned"].state = "returned"
        /\ [notion[p] EXCEPT !.state = "returned"].edited = notion[p].edited
    BY <1>0 DEF TypeOK
  <2> QED BY <1>4, <1>0, <2>1, ChangeSafe DEF Return, Stays, Gone
<1>5. ASSUME NEW p \in Pages, SearchCatchesUp(p) PROVE SafeInv'
  <2>1. UNCHANGED <<now, notion, rows, watermark, worker>>
    BY <1>5 DEF SearchCatchesUp, mirror
  <2>2. (\A q \in Pages : RowInv(q))' /\ TimesInv'
    BY <1>5, <1>0, <2>1 DEF SearchCatchesUp, SafeInv, RowInv, TimesInv, TypeOK
  <2>3. (\A v \in Workers : WorkerInv(worker[v]))'
    BY <2>1 DEF SafeInv, WorkerInv, HeldInv, SuspectInv, ClockInv, RestInv, Fresh
  <2> QED BY <1>0, <2>2, <2>3 DEF SafeInv
<1> QED BY <1>1, <1>2, <1>3, <1>4, <1>5 DEF Environment

LEMMA AdvanceSafe ==
    ASSUME SafeInv, NEW w \in Workers, Advance(w)
    PROVE  SafeInv'
<1> DEFINE r == worker[w]
<1>r. r \in WorkerRecords /\ WorkerInv(r) /\ TypeOK
  BY DEF SafeInv, TypeOK
<1>t. TypeOK'
  BY <1>r, AdvanceType
<1>b. ASSUME NEW q, Becomes(w, q), WorkerInv(q) PROVE SafeInv'
  <2>1. q \in WorkerRecords
    BY <1>b, <1>r, <1>t DEF Becomes, TypeOK
  <2> QED BY <2>1, <1>b, BecomesSafe
<1>w. ASSUME NEW q, NEW p \in Pages, NEW row, Writes(w, q, p, row), WorkerInv(q),
             row.known => notion[p].state # "absent" /\ row.source = Home[p],
             ~row.known => row.source = NoSource,
             row.trash => Gone(notion[p])
      PROVE  SafeInv'
  <2>1. q \in WorkerRecords /\ row \in Rows
    BY <1>w, <1>r, <1>t DEF Writes, TypeOK
  <2> QED BY <2>1, <1>w, <1>t, WritesSafe DEF Writes, external
<1>1. CASE StartSource(w)
  <2> PICK s \in r.todo :
        Becomes(w, [r EXCEPT !.pc = "rows", !.src = s, !.todo = @ \ {s},
                             !.base = r.snap[s], !.snap[s] = 0,
                             !.began = now, !.more = TRUE])
    BY <1>1 DEF StartSource
  <2> DEFINE q == [r EXCEPT !.pc = "rows", !.src = s, !.todo = @ \ {s},
                            !.base = r.snap[s], !.snap[s] = 0,
                            !.began = now, !.more = TRUE]
  <2>1. s \in Sources /\ r.snap \in [Sources -> Time] /\ 0 <= now /\ now \in Nat /\ MaxWalk \in Nat
    BY <1>r, SyncAssumption DEF WorkerRecords, TypeOK, Time
  <2>2. ClockInv(q)
    BY <1>1, <1>r, <2>1 DEF StartSource, WorkerInv, ClockInv, WorkerRecords
  <2>3. HeldInv(q) /\ SuspectInv(q) /\ RestInv(q)
    BY <1>r DEF HeldInv, SuspectInv, RestInv, WorkerRecords
  <2> QED BY <2>2, <2>3, <1>b DEF WorkerInv
<1>2. CASE ReadRow(w)
  <2> PICK p \in Due(r) :
        Becomes(w, [r EXCEPT !.pc = "store", !.held = ObjectOf(p, notion[p]),
                             !.more = Due(r) # {p},
                             !.cur = <<notion[p].edited, p>>])
    BY <1>2 DEF ReadRow
  <2>1. p \in Pages /\ Home[p] = r.src /\ Live(notion[p])
    BY DEF Due
  <2> DEFINE q == [r EXCEPT !.pc = "store", !.held = ObjectOf(p, notion[p]),
                            !.more = Due(r) # {p},
                            !.cur = <<notion[p].edited, p>>]
  <2>2. q.pc = "store" /\ q.held = ObjectOf(p, notion[p])
    BY <1>r DEF WorkerRecords
  <2>3. q.src = r.src /\ q.began = r.began /\ q.snap = r.snap /\ q.base = r.base /\ q.high = r.high
    BY <1>r DEF WorkerRecords
  <2>4. HeldInv(q)
    <3> HIDE DEF q
    <3> QED BY <2>1, <2>2, <2>3, ObjectFresh DEF HeldInv, Live
  <2>5. ClockInv(q)
    BY <2>1, <2>2, <2>3, <1>2, <1>r
       DEF ReadRow, WorkerInv, ClockInv, Walking, ObjectOf, SafeInv, TimesInv
  <2>6. SuspectInv(q) /\ RestInv(q)
    BY <2>2 DEF SuspectInv, RestInv
  <2> QED BY <2>4, <2>5, <2>6, <1>b DEF WorkerInv
<1>3. CASE StoreRow(w)
  <2> DEFINE q == [r EXCEPT !.pc = IF r.more THEN "rows" ELSE "mark", !.held = NoPage,
                            !.cur = IF r.more THEN @ ELSE <<0, 0>>,
                            !.high = Larger(r.held.edited, @)]
             row == UpsertRow(rows[r.held.id], r.held, r.src)
  <2>1. WorkerInv(q)
    BY <1>3, <1>r DEF StoreRow, WorkerInv, HeldInv, SuspectInv, ClockInv, RestInv, Walking,
           WorkerRecords, Larger
  <2>2. r.held.id \in Pages /\ Writes(w, q, r.held.id, row)
    BY <1>3, <1>r DEF StoreRow, WorkerInv, HeldInv
  <2>3. /\ row.known => notion[r.held.id].state # "absent" /\ row.source = Home[r.held.id]
        /\ row.known
        /\ row.trash => Gone(notion[r.held.id])
    BY <1>3, <1>r, <2>2
       DEF StoreRow, WorkerInv, HeldInv, UpsertRow, SafeInv, RowInv, TypeOK, Rows
  <2> QED BY <2>1, <2>2, <2>3, <1>w
<1>4. CASE EndRows(w)
  <2>1. WorkerInv([r EXCEPT !.pc = "mark", !.cur = <<0, 0>>, !.more = FALSE])
    BY <1>4, <1>r DEF EndRows, WorkerInv, HeldInv, SuspectInv, ClockInv, RestInv, Walking,
       WorkerRecords
  <2> QED BY <2>1, <1>4, <1>b DEF EndRows
<1>5. CASE SetWatermark(w)
  <2>1. WorkerInv(AfterMark(r))
    <3>1. WorkerInv([r EXCEPT !.pc = "known", !.high = 0])
      BY <1>5, <1>r DEF SetWatermark, WorkerInv, HeldInv, SuspectInv, ClockInv, RestInv, Walking,
         WorkerRecords
    <3> QED BY <3>1, <1>r, NextSourceGood DEF AfterMark
  <2>2. UNCHANGED <<now, notion, found, rows>>
    BY <1>5 DEF SetWatermark, external
  <2>3. (\A p \in Pages : RowInv(p))' /\ TimesInv'
    BY <1>5, <1>r, <2>2
       DEF SetWatermark, SafeInv, RowInv, TimesInv, WorkerInv, ClockInv, TypeOK
  <2>4. ASSUME NEW v \in Workers PROVE WorkerInv(worker[v])'
    <3>1. WorkerInv(worker'[v])
      BY <1>5, <2>1 DEF SetWatermark, SafeInv, TypeOK
    <3> QED BY <3>1, <2>2 DEF WorkerInv, HeldInv, SuspectInv, ClockInv, RestInv, Fresh
  <2> QED BY <2>3, <2>4, <1>t DEF SafeInv
<1>6. CASE ListKnown(w)
  <2> DEFINE known == {p \in Pages : LiveRowOf(rows[p], r.src)}
             q == [r EXCEPT !.pc = "live", !.ids = known]
  <2>1. ASSUME NEW p \in known
        PROVE  Home[p] = r.src /\ notion[p].state # "absent" /\ p > 0
    <3>1. p \in Pages /\ rows[p].known /\ rows[p].source = r.src
      BY DEF LiveRowOf
    <3>2. RowInv(p) /\ p > 0
      BY <3>1, SyncAssumption DEF SafeInv
    <3> QED BY <3>1, <3>2 DEF RowInv
  <2>2. q.pc = "live" /\ q.ids = known /\ q.src = r.src /\ q.cur = <<0, 0>>
    BY <1>6, <1>r DEF ListKnown, WorkerInv, RestInv, WorkerRecords
  <2>3. SuspectInv(q)
    BY <2>1, <2>2 DEF SuspectInv
  <2>4. HeldInv(q) /\ ClockInv(q) /\ RestInv(q)
    BY <1>r DEF WorkerInv, HeldInv, ClockInv, RestInv, Walking, WorkerRecords
  <2> QED BY <2>3, <2>4, <1>6, <1>b DEF ListKnown, WorkerInv
<1>7. CASE ListLive(w)
  <2> PICK p \in Unlisted(r) :
        /\ \A q \in Unlisted(r) : p <= q
        /\ Becomes(w, [r EXCEPT !.ids = @ \ {p}, !.cur = <<0, p>>])
    BY <1>7 DEF ListLive
  <2> DEFINE q == [r EXCEPT !.ids = @ \ {p}, !.cur = <<0, p>>]
  <2>1. ASSUME NEW x \in q.ids
        PROVE  Home[x] = r.src /\ notion[x].state # "absent" /\ (Stays(notion[x]) => x > p)
    <3>1. x \in Pages /\ x \in r.ids /\ x # p /\ p \in Pages
      BY <1>r DEF WorkerRecords, Unlisted
    <3> QED BY <3>1, <1>7, <1>r, SyncAssumption DEF ListLive, WorkerInv, SuspectInv, Unlisted, Live, Stays
  <2>2. WorkerInv(q)
    BY <2>1, <1>7, <1>r DEF ListLive, WorkerInv, HeldInv, SuspectInv, ClockInv, RestInv, Walking,
       WorkerRecords
  <2> QED BY <2>2, <1>b
<1>8. CASE EndListLive(w)
  <2> DEFINE q == [r EXCEPT !.pc = "trash", !.cur = <<0, 0>>]
  <2>1. ASSUME NEW x \in r.ids PROVE Gone(notion[x])
    <3>1. x \in Pages
      BY <1>r DEF WorkerRecords
    <3> QED BY <3>1, <1>8, <1>r
            DEF EndListLive, WorkerInv, SuspectInv, Unlisted, Live, Stays, Gone, TypeOK, PageStates
  <2>2. WorkerInv(q)
    BY <2>1, <1>8, <1>r DEF EndListLive, WorkerInv, HeldInv, SuspectInv, ClockInv, RestInv,
       Walking, WorkerRecords
  <2> QED BY <2>2, <1>8, <1>b DEF EndListLive
<1>9. CASE TrashPage(w)
  <2> PICK p \in r.ids : Writes(w, [r EXCEPT !.ids = @ \ {p}], p, TrashRow(rows[p]))
    BY <1>9 DEF TrashPage
  <2>1. p \in Pages /\ Gone(notion[p])
    BY <1>9, <1>r DEF TrashPage, WorkerInv, SuspectInv, WorkerRecords
  <2>2. WorkerInv([r EXCEPT !.ids = @ \ {p}])
    BY <1>9, <1>r DEF TrashPage, WorkerInv, HeldInv, SuspectInv, ClockInv, RestInv, Walking,
       WorkerRecords
  <2> DEFINE row == TrashRow(rows[p])
  <2>3. /\ row.known => notion[p].state # "absent" /\ row.source = Home[p]
        /\ ~row.known => row.source = NoSource
    BY <2>1 DEF TrashRow, SafeInv, RowInv, TypeOK, Rows
  <2> QED BY <2>1, <2>2, <2>3, <1>w
<1>10. CASE EndReconcile(w)
  BY <1>10, <1>r, NextSourceGood, <1>b DEF EndReconcile
<1>11. CASE StartLoose(w)
  <2> DEFINE q == [r EXCEPT !.pc = "loose", !.base = looseMark, !.high = looseMark,
                            !.began = now, !.more = TRUE, !.cur = <<MaxTime + 1, 0>>]
  <2>1. q.pc = "loose" /\ q.began = now /\ q.snap = r.snap
    BY <1>r DEF WorkerRecords
  <2>2. now \in Nat /\ MaxWalk \in Nat
    BY <1>r, SyncAssumption DEF TypeOK, Time
  <2>3. WorkerInv(q)
    BY <2>1, <2>2, <1>r DEF WorkerInv, HeldInv, SuspectInv, ClockInv, RestInv, Walking
  <2> QED BY <2>3, <1>11, <1>b DEF StartLoose
<1>12. CASE ReadLoose(w)
  <2> DEFINE seen(p) == [r EXCEPT !.cur = <<found[p].edited, p>>,
                                  !.more = LeftToSearch(r) # {p},
                                  !.high = Larger(found[p].edited, @)]
             next(p) == IF Home[p] = NoSource
                        THEN [seen(p) EXCEPT !.pc = "storeLoose",
                                             !.held = ObjectOf(p, found[p])]
                        ELSE seen(p)
  <2> PICK p \in Pages : NextFound(r, p) /\ Becomes(w, next(p))
    BY <1>12 DEF ReadLoose
  <2>1. Live(found[p]) /\ notion[p].state # "absent"
    BY DEF NextFound, LeftToSearch, SafeInv, RowInv, Live
  <2>2. CASE Home[p] = NoSource
    <3> DEFINE q == [seen(p) EXCEPT !.pc = "storeLoose", !.held = ObjectOf(p, found[p])]
    <3>1. WorkerInv(q)
      BY <2>1, <2>2, <1>12, <1>r
         DEF ReadLoose, WorkerInv, HeldInv, SuspectInv, ClockInv, RestInv, Walking,
             WorkerRecords, ObjectOf, Live
    <3> QED BY <3>1, <2>2, <1>b
  <2>3. CASE Home[p] # NoSource
    <3>1. WorkerInv(seen(p))
      BY <1>12, <1>r
         DEF ReadLoose, WorkerInv, HeldInv, SuspectInv, ClockInv, RestInv, Walking,
             WorkerRecords
    <3> QED BY <3>1, <2>3, <1>b
  <2> QED BY <2>2, <2>3
<1>13. CASE StoreLoose(w)
  <2> DEFINE q == [r EXCEPT !.pc = "loose", !.held = NoPage]
             row == UpsertRow(rows[r.held.id], r.held, NoSource)
  <2>1. WorkerInv(q)
    BY <1>13, <1>r DEF StoreLoose, WorkerInv, HeldInv, SuspectInv, ClockInv, RestInv, Walking,
           WorkerRecords
  <2>2. r.held.id \in Pages /\ Writes(w, q, r.held.id, row)
    BY <1>13, <1>r DEF StoreLoose, WorkerInv, HeldInv
  <2>3. /\ row.known => notion[r.held.id].state # "absent" /\ row.source = Home[r.held.id]
        /\ row.known
        /\ row.trash => Gone(notion[r.held.id])
    BY <1>13, <1>r, <2>2
       DEF StoreLoose, WorkerInv, HeldInv, UpsertRow, SafeInv, RowInv, TypeOK, Rows
  <2> QED BY <2>1, <2>2, <2>3, <1>w
<1>14. CASE EndLoose(w)
  <2>1. WorkerInv(AfterLoose(r))
    BY <1>r, AfterLooseGood
  <2>2. UNCHANGED <<now, notion, found, rows, watermark>>
    BY <1>14 DEF EndLoose, external
  <2>3. (\A p \in Pages : RowInv(p))' /\ TimesInv'
    BY <2>2 DEF SafeInv, RowInv, TimesInv
  <2>4. ASSUME NEW v \in Workers PROVE WorkerInv(worker[v])'
    <3>1. WorkerInv(worker'[v])
      BY <1>14, <2>1 DEF EndLoose, SafeInv, TypeOK
    <3> QED BY <3>1, <2>2 DEF WorkerInv, HeldInv, SuspectInv, ClockInv, RestInv, Fresh
  <2> QED BY <2>3, <2>4, <1>t DEF SafeInv
<1>15. CASE ListPending(w)
  <2>1. WorkerInv([r EXCEPT !.pc = "fetch", !.ids = {p \in Pages : ContentPending(rows[p])}])
    BY <1>r DEF WorkerInv, HeldInv, SuspectInv, ClockInv, RestInv, Walking, WorkerRecords
  <2> QED BY <2>1, <1>15, <1>b DEF ListPending
<1>16. CASE ReadBlocks(w)
  <2> DEFINE o(p) == [NoPage EXCEPT !.id = p,
                         !.rev = IF Live(notion[p]) THEN notion[p].rev ELSE 0]
             q(p) == [r EXCEPT !.pc = "content", !.ids = @ \ {p}, !.held = o(p)]
  <2> PICK p \in r.ids : Becomes(w, q(p))
    BY <1>16 DEF ReadBlocks
  <2>1. WorkerInv(q(p))
    BY <1>r DEF WorkerInv, HeldInv, SuspectInv, ClockInv, RestInv, Walking, WorkerRecords
  <2> QED BY <2>1, <1>b
<1>17. CASE StoreContent(w)
  <2> DEFINE q == [r EXCEPT !.pc = "fetch", !.held = NoPage]
             p == r.held.id
             row == WriteContent(rows[p], r.held.rev)
  <2>1. WorkerInv(q)
    BY <1>17, <1>r DEF StoreContent, WorkerInv, HeldInv, SuspectInv, ClockInv, RestInv, Walking,
           WorkerRecords
  <2>2. Writes(w, q, p, row)
    BY <1>17 DEF StoreContent
  <2>3. CASE p \in Pages
    <3>1. /\ row.known => notion[p].state # "absent" /\ row.source = Home[p]
          /\ ~row.known => row.source = NoSource
          /\ row.trash => Gone(notion[p])
      BY <2>3 DEF WriteContent, SafeInv, RowInv, TypeOK, Rows
    <3> QED BY <2>1, <2>2, <2>3, <3>1, <1>w
  <2>4. CASE p \notin Pages
    <3>1. Becomes(w, q) \/ (rows' = rows /\ worker' = [worker EXCEPT ![w] = q]
                            /\ UNCHANGED <<now, notion, found, watermark>>)
      BY <2>2, <2>4 DEF Writes, external, SafeInv, TypeOK
    <3>2. ASSUME NEW v \in Workers PROVE WorkerInv(worker'[v])
      BY <3>1, <2>1 DEF SafeInv, TypeOK, Becomes
    <3>3. UNCHANGED <<now, notion, found, rows, watermark>>
      BY <3>1 DEF Becomes, external, mirror
    <3> QED BY <3>2, <3>3, <1>t
            DEF SafeInv, RowInv, TimesInv, WorkerInv, HeldInv, SuspectInv, ClockInv, RestInv, Fresh
  <2> QED BY <2>3, <2>4
<1>18. CASE EndPass(w)
  BY <1>18, <1>r, IdleGood, <1>b DEF EndPass
<1>19. CASE StoreResync(w)
  <2> DEFINE q == [IdleWorker EXCEPT !.pc = "fetch", !.ids = r.ids]
             row == UpsertRow(rows[r.held.id], r.held, Home[r.held.id])
  <2>1. WorkerInv(q)
    BY <1>r, SyncAssumption
       DEF IdleWorker, WorkerInv, HeldInv, SuspectInv, ClockInv, RestInv, Walking, TypeOK, Time
  <2>2. r.held.id \in Pages /\ Writes(w, q, r.held.id, row)
    BY <1>19, <1>r DEF StoreResync, WorkerInv, HeldInv
  <2>3. /\ row.known => notion[r.held.id].state # "absent" /\ row.source = Home[r.held.id]
        /\ row.known
        /\ row.trash => Gone(notion[r.held.id])
    BY <1>19, <1>r, <2>2
       DEF StoreResync, WorkerInv, HeldInv, UpsertRow, SafeInv, RowInv, TypeOK, Rows
  <2> QED BY <2>1, <2>2, <2>3, <1>w
<1> QED
  BY <1>1, <1>2, <1>3, <1>4, <1>5, <1>6, <1>7, <1>8, <1>9, <1>10, <1>11, <1>12,
     <1>13, <1>14, <1>15, <1>16, <1>17, <1>18, <1>19 DEF Advance

LEMMA FailsSafe ==
    ASSUME SafeInv, NEW w \in Workers, Fails(w)
    PROVE  SafeInv'
<1> DEFINE r == worker[w]
<1>r. r \in WorkerRecords /\ WorkerInv(r) /\ TypeOK
  BY DEF SafeInv, TypeOK
<1>t. TypeOK'
  BY <1>r, FailsType
<1>g. ASSUME NEW q, GivesUp(w, q), WorkerInv(q) PROVE SafeInv'
  <2>1. q \in WorkerRecords
    BY <1>g, <1>r, <1>t DEF GivesUp, TypeOK
  <2> QED BY <2>1, <1>g, BecomesSafe
<1>n. WorkerInv(NextSource(r)) /\ WorkerInv(AfterLoose(r)) /\ WorkerInv(IdleWorker)
  BY <1>r, NextSourceGood, AfterLooseGood, IdleGood
<1>1. CASE RowsFail(w)
  BY <1>1, <1>n, <1>g DEF RowsFail
<1>2. CASE SetWatermarkFails(w)
  BY <1>2, <1>n, <1>g DEF SetWatermarkFails
<1>3. CASE ReconcileFails(w)
  <2>1. CASE GivesUp(w, NextSource(r))
    BY <2>1, <1>n, <1>g
  <2>2. ASSUME NEW p \in r.ids, r.pc = "trash",
               rows' = [rows EXCEPT ![p] = TrashRow(rows[p])],
               worker' = [worker EXCEPT ![w] = NextSource(r)],
               UNCHANGED <<external, watermark, looseMark>>
        PROVE  SafeInv'
    <3>1. p \in Pages /\ Gone(notion[p])
      BY <2>2, <1>r DEF WorkerInv, SuspectInv, WorkerRecords
    <3> DEFINE row == TrashRow(rows[p])
    <3>2. /\ row.known => notion[p].state # "absent" /\ row.source = Home[p]
          /\ ~row.known => row.source = NoSource
          /\ row \in Rows
      BY <3>1, TrashType DEF TrashRow, SafeInv, RowInv, TypeOK, Rows
    <3>3. NextSource(r) \in WorkerRecords
      BY <1>r, NextSourceType
    <3> HIDE DEF row
    <3> QED BY <3>1, <3>2, <3>3, <2>2, <1>n, <1>t, WritesSafe DEF external, row
  <2> QED BY <2>1, <2>2, <1>3 DEF ReconcileFails
<1>4. CASE LooseFails(w)
  BY <1>4, <1>n, <1>g DEF LooseFails
<1>5. CASE ContentFails(w)
  <2>1. ASSUME NEW p \in r.ids, r.pc = "fetch" PROVE WorkerInv([r EXCEPT !.ids = @ \ {p}])
    BY <2>1, <1>r DEF WorkerInv, HeldInv, SuspectInv, ClockInv, RestInv, Walking, WorkerRecords
  <2>2. r.pc = "content" => WorkerInv([r EXCEPT !.pc = "fetch", !.held = NoPage])
    BY <1>r DEF WorkerInv, HeldInv, SuspectInv, ClockInv, RestInv, Walking, WorkerRecords
  <2> QED BY <2>1, <2>2, <1>5, <1>n, <1>g DEF ContentFails
<1>6. CASE ResyncFails(w)
  <2>1. /\ worker[w].pc = "upsert"
        /\ Becomes(w, IdleWorker)
    BY <1>6 DEF ResyncFails
  <2>2. IdleWorker \in WorkerRecords
    BY IdleType
  <2> QED BY <2>1, <2>2, <1>n, <1>t, <1>r, BecomesSafe
<1> QED BY <1>1, <1>2, <1>3, <1>4, <1>5, <1>6 DEF Fails

LEMMA StartSafe ==
    ASSUME SafeInv, NEW w \in Workers, Start(w)
    PROVE  SafeInv'
<1>r. TypeOK
  BY DEF SafeInv
<1>t. TypeOK'
  BY <1>r, StartType
<1>b. ASSUME NEW q, Becomes(w, q), WorkerInv(q) PROVE SafeInv'
  <2>1. q \in WorkerRecords
    BY <1>b, <1>r, <1>t DEF Becomes, TypeOK
  <2> QED BY <2>1, <1>b, BecomesSafe
<1>1. ASSUME NEW full \in BOOLEAN, StartPass(w, full) PROVE SafeInv'
  <2>1. WorkerInv([IdleWorker EXCEPT !.pc = "source", !.full = full, !.todo = Sources,
                                     !.snap = watermark])
    BY SyncAssumption DEF IdleWorker, WorkerInv, HeldInv, SuspectInv, ClockInv, RestInv, Walking,
       SafeInv, TimesInv, TypeOK, Time
  <2> QED BY <2>1, <1>1, <1>b DEF StartPass
<1>2. ASSUME NEW p \in Pages, StartResync(w, p) PROVE SafeInv'
  <2>1. WorkerInv([IdleWorker EXCEPT !.pc = "upsert", !.began = now, !.ids = {p},
                                     !.held = ObjectOf(p, notion[p])])
    <3> DEFINE q == [IdleWorker EXCEPT !.pc = "upsert", !.began = now, !.ids = {p},
                                       !.held = ObjectOf(p, notion[p])]
    <3>1. /\ q.pc = "upsert" /\ q.held = ObjectOf(p, notion[p]) /\ q.began = now
          /\ q.snap = [s \in Sources |-> 0]
      BY DEF IdleWorker
    <3>2. now \in Nat /\ MaxWalk \in Nat
      BY <1>r, SyncAssumption DEF TypeOK, Time
    <3>3. HeldInv(q)
      <4> HIDE DEF q
      <4> QED BY <3>1, <1>2, ObjectFresh DEF StartResync, HeldInv
    <3>4. SuspectInv(q) /\ ClockInv(q) /\ RestInv(q)
      BY <3>1, <3>2 DEF SuspectInv, ClockInv, RestInv, Walking
    <3> QED BY <3>3, <3>4 DEF WorkerInv
  <2> QED BY <2>1, <1>2, <1>b DEF StartResync
<1> QED BY <1>1, <1>2 DEF Start

LEMMA NextSafe == SafeInv /\ [Next]_vars => SafeInv'
<1> SUFFICES ASSUME SafeInv, [Next]_vars PROVE SafeInv'
  OBVIOUS
<1>1. CASE Environment
  BY <1>1, EnvironmentSafe
<1>2. ASSUME NEW w \in Workers, Start(w) \/ Advance(w) \/ Fails(w) PROVE SafeInv'
  BY <1>2, StartSafe, AdvanceSafe, FailsSafe
<1>3. CASE Crash
  <2>1. TypeOK /\ TypeOK'
    BY <1>3, TypeNext DEF SafeInv, Next
  <2>2. UNCHANGED <<now, notion, found, rows, watermark>>
    BY <1>3 DEF Crash, external, mirror
  <2>3. (\A p \in Pages : RowInv(p))' /\ TimesInv'
    BY <2>2 DEF SafeInv, RowInv, TimesInv
  <2>4. ASSUME NEW v \in Workers PROVE WorkerInv(worker[v])'
    <3>1. WorkerInv(worker'[v])
      BY <1>3, <2>1, IdleGood DEF Crash
    <3> QED BY <3>1, <2>2 DEF WorkerInv, HeldInv, SuspectInv, ClockInv, RestInv, Fresh
  <2> QED BY <2>1, <2>3, <2>4 DEF SafeInv
<1>4. CASE UNCHANGED vars
  BY <1>4 DEF vars, SafeInv, TypeOK, RowInv, TimesInv, WorkerInv, HeldInv, SuspectInv, ClockInv,
     RestInv, Fresh
<1> QED BY <1>1, <1>2, <1>3, <1>4 DEF Next

\* The invariant the theorems below rest on.
LEMMA Safe == Spec => []SafeInv
BY InitSafe, NextSafe, PTL DEF Spec

(***************************************************************************)
(* Only a page that has been away is ever marked trashed:                  *)
(* reconcileDeletions trashes only what Notion did not have when it looked,*)
(* whatever else runs meanwhile.                                           *)
(***************************************************************************)
THEOREM NothingFalselyTrashed == Spec => []NoFalseTrash
<1>1. SafeInv => NoFalseTrash
  BY DEF SafeInv, RowInv, NoFalseTrash
<1> QED BY <1>1, Safe, PTL

(***************************************************************************)
(* A stored row always carries its page's data source, whichever endpoint  *)
(* delivered it last (UpsertPage keeps a known data_source_id).            *)
(***************************************************************************)
THEOREM SourcesKept == Spec => []RowsKeepSource
<1>1. SafeInv => RowsKeepSource
  BY DEF SafeInv, RowInv, RowsKeepSource
<1> QED BY <1>1, Safe, PTL

-----------------------------------------------------------------------------
(***************************************************************************)
(* The slack is enough: no watermark ever gets past an edit that the       *)
(* mirror has missed, if a walk over a query's responses lasts at most     *)
(* half of the slack.                                                      *)
(*                                                                         *)
(* The argument: a row can only be behind its page by an edit that came    *)
(* after the walk that stored it began.  The watermark that walk sets is   *)
(* at most MaxWalk minutes past its beginning, and so is the moment an     *)
(* object read before the edit is stored over a newer row by another walk: *)
(* twice MaxWalk is as far as the watermark can be ahead.                  *)
(***************************************************************************)

LEMMA WalkNumbers ==
    ASSUME TypeOK, NEW p \in Pages, Home[p] # NoSource, NEW r \in WorkerRecords
    PROVE  /\ notion[p].edited \in Nat /\ now \in Nat /\ Slack \in Nat /\ MaxWalk \in Nat
           /\ Home[p] \in Sources /\ watermark[Home[p]] \in Nat
           /\ r.snap[Home[p]] \in Nat /\ r.base \in Nat /\ r.began \in Nat /\ r.high \in Nat
           /\ p \in Nat /\ p > 0
BY SyncAssumption DEF TypeOK, Time, WorkerRecords

\* A page edited in the last MaxWalk minutes is ahead of every goroutine.
LEMMA RecentInView ==
    ASSUME TypeOK, NEW r \in WorkerRecords, WorkerInv(r), Slack >= 2 * MaxWalk,
           NEW p \in Pages, Home[p] # NoSource, notion[p].edited + MaxWalk >= now
    PROVE  InView(r, p)
BY WalkNumbers DEF WorkerInv, ClockInv, InView, WalkInv

\* Outside of the walks over data sources only the snapshot counts.
LEMMA OutsideInView ==
    ASSUME NEW r, NEW q, NEW p \in Pages, InView(r, p),
           q.snap = r.snap, q.pc \notin {"rows", "store", "mark"}
    PROVE  InView(q, p)
BY DEF InView, WalkInv

LEMMA NextSourceInView ==
    ASSUME NEW r \in WorkerRecords, NEW p \in Pages, InView(r, p)
    PROVE  InView(NextSource(r), p) /\ InView(AfterLoose(r), p)
<1>1. /\ NextSource(r).snap = r.snap /\ NextSource(r).pc = "source"
      /\ AfterLoose(r).snap = r.snap /\ AfterLoose(r).pc = "pending"
  BY DEF NextSource, AfterLoose, WorkerRecords
<1> QED BY <1>1, OutsideInView

LEMMA IdleInView ==
    ASSUME TypeOK, NEW p \in Pages, Home[p] # NoSource, NEW q,
           q.snap = IdleWorker.snap, q.pc \notin {"rows", "store", "mark"}
    PROVE  InView(q, p)
BY SyncAssumption DEF IdleWorker, InView, WalkInv, TypeOK, Time

\* A step of goroutine w keeps CoverInv when every page that is behind after
\* it was so before, or was edited recently, and w has it in view.
LEMMA StepCovers ==
    ASSUME SafeInv, CoverInv, Slack >= 2 * MaxWalk,
           NEW w \in Workers, NEW q,
           worker' = [worker EXCEPT ![w] = q],
           UNCHANGED <<notion, watermark>>,
           \A p \in Pages : Behind(p)' => InView(q, p) /\
              (Behind(p) \/ notion[p].edited + MaxWalk >= now)
    PROVE  CoverInv'
<1> SUFFICES ASSUME NEW p \in Pages, Behind(p)'
             PROVE  /\ notion[p].edited + Slack >= watermark[Home[p]]
                    /\ \A v \in Workers : InView(worker'[v], p)
  BY DEF CoverInv, InView, WalkInv, Fresh
<1>1. Home[p] # NoSource /\ Home[p] \in Sources
  BY SyncAssumption DEF Behind
<1>2. CASE Behind(p)
  BY <1>2 DEF CoverInv, SafeInv, TypeOK
<1>3. CASE notion[p].edited + MaxWalk >= now
  <2>1. notion[p].edited + Slack >= watermark[Home[p]]
    BY <1>1, <1>3, SyncAssumption DEF SafeInv, TimesInv, TypeOK, Time
  <2>2. \A v \in Workers : InView(worker[v], p)
    BY <1>1, <1>3, RecentInView DEF SafeInv, TypeOK
  <2> QED BY <2>1, <2>2 DEF SafeInv, TypeOK
<1> QED BY <1>2, <1>3

\* The case of a step that writes no row.
LEMMA BecomesCovers ==
    ASSUME SafeInv, CoverInv, Slack >= 2 * MaxWalk,
           NEW w \in Workers, NEW q, Becomes(w, q) \/ GivesUp(w, q),
           \A p \in Pages : Behind(p) => InView(q, p)
    PROVE  CoverInv'
<1>1. UNCHANGED <<notion, watermark, rows>> /\ worker' = [worker EXCEPT ![w] = q]
  BY DEF Becomes, GivesUp, external, mirror
<1>2. \A p \in Pages : Behind(p)' => Behind(p)
  BY <1>1 DEF Behind, RowCurrent
<1> QED BY <1>1, <1>2, StepCovers

\* The case of a step that stores a page object: the row is current after it,
\* or the page was edited since the walk began.
LEMMA StoreCovers ==
    ASSUME SafeInv, CoverInv, Slack >= 2 * MaxWalk,
           NEW w \in Workers, NEW q, NEW source, worker[w].pc \in {"store", "storeLoose", "upsert"},
           Writes(w, q, worker[w].held.id,
                  UpsertRow(rows[worker[w].held.id], worker[w].held, source)),
           \A p \in Pages : Home[p] # NoSource /\
              (\/ Behind(p) /\ p # worker[w].held.id
               \/ p = worker[w].held.id /\ notion[p].edited >= worker[w].began)
                 => InView(q, p)
    PROVE  CoverInv'
<1> DEFINE r == worker[w]
<1>1. r \in WorkerRecords /\ WorkerInv(r) /\ TypeOK
  BY DEF SafeInv, TypeOK
<1>2. /\ UNCHANGED <<notion, watermark>> /\ worker' = [worker EXCEPT ![w] = q]
      /\ rows' = [rows EXCEPT ![r.held.id] = UpsertRow(rows[r.held.id], r.held, source)]
  BY DEF Writes, external
<1>3. ASSUME NEW p \in Pages, Behind(p)', p # r.held.id PROVE Behind(p)
  BY <1>1, <1>2, <1>3 DEF TypeOK, Behind, RowCurrent
<1>4. ASSUME NEW p \in Pages, Behind(p)', p = r.held.id
      PROVE  Home[p] # NoSource /\ notion[p].edited >= r.began
  <2>1. /\ rows'[p].known /\ rows'[p].trash = r.held.trash
        /\ rows'[p].edited = r.held.edited /\ rows'[p].rev = r.held.rev
    BY <1>1, <1>2, <1>4 DEF UpsertRow, TypeOK, Rows
  <2>2. Home[p] # NoSource /\ Stays(notion[p]) /\ ~RowCurrent(p)'
    BY <1>2, <1>4 DEF Behind
  <2>3. ~Fresh(r.held)
    BY <2>1, <2>2, <1>2, <1>4 DEF RowCurrent, Fresh
  <2>4. r.pc # "storeLoose"
    BY <1>1, <1>4, <2>2 DEF WorkerInv, HeldInv
  <2> QED BY <2>2, <2>3, <2>4, <1>1, <1>4 DEF WorkerInv, HeldInv
<1>5. ASSUME NEW p \in Pages, Behind(p)', p = r.held.id
      PROVE  notion[p].edited + MaxWalk >= now
  <2>1. now <= r.began + MaxWalk
    BY <1>1 DEF WorkerInv, ClockInv, Walking
  <2> QED BY <2>1, <1>4, <1>5, <1>1, WalkNumbers
<1>6. ASSUME NEW p \in Pages, Behind(p)'
      PROVE  InView(q, p) /\ (Behind(p) \/ notion[p].edited + MaxWalk >= now)
  BY <1>3, <1>4, <1>5, <1>6 DEF Behind
<1> QED BY <1>2, <1>6, StepCovers

-----------------------------------------------------------------------------
LEMMA InitCovers == Init => CoverInv
BY DEF Init, CoverInv, Behind, Absent, Stays

LEMMA EnvironmentCovers ==
    ASSUME SafeInv, CoverInv, Slack >= 2 * MaxWalk, Environment
    PROVE  CoverInv'
<1>0. TypeOK
  BY DEF SafeInv
<1>1. CASE Tick \/ \E p \in Pages : SearchCatchesUp(p)
  BY <1>1 DEF Tick, SearchCatchesUp, mirror, CoverInv, Behind, RowCurrent, InView, WalkInv, Fresh
<1>2. ASSUME NEW p \in Pages, NEW page, Change(p, page),
             Stays(page) => page.edited = now
      PROVE  CoverInv'
  <2>1. UNCHANGED <<now, rows, watermark, worker>> /\ notion' = [notion EXCEPT ![p] = page]
    BY <1>2 DEF Change, mirror
  <2> SUFFICES ASSUME NEW o \in Pages, Behind(o)'
               PROVE  /\ notion'[o].edited + Slack >= watermark[Home[o]]
                      /\ \A w \in Workers : InView(worker[w], o)'
    BY <2>1 DEF CoverInv
  <2>2. CASE o # p
    <3>1. notion'[o] = notion[o] /\ Behind(o)
      BY <2>1, <2>2, <1>0 DEF TypeOK, Behind, RowCurrent
    <3>2. /\ notion[o].edited + Slack >= watermark[Home[o]]
          /\ \A w \in Workers : InView(worker[w], o)
      BY <3>1 DEF CoverInv
    <3> QED BY <2>1, <3>1, <3>2 DEF InView, WalkInv, Fresh
  <2>3. CASE o = p
    <3>1. notion'[o].edited = now /\ Home[o] # NoSource
      BY <2>1, <2>3, <1>0, <1>2 DEF TypeOK, Behind
    <3>2. now >= watermark[Home[o]] /\ Home[o] \in Sources
      BY <3>1, SyncAssumption DEF SafeInv, TimesInv
    <3>3. ASSUME NEW w \in Workers PROVE InView(worker[w], o)'
      <4>1. worker[w] \in WorkerRecords /\ WorkerInv(worker[w]) /\ worker'[w] = worker[w]
        BY <2>1 DEF SafeInv, TypeOK
      <4> QED BY <4>1, <3>1, <3>2, <1>0, WalkNumbers, <2>1
              DEF WorkerInv, ClockInv, InView, WalkInv
    <3> QED BY <3>1, <3>2, <3>3, <1>0, SyncAssumption DEF TypeOK, Time
  <2> QED BY <2>2, <2>3
<1>3. ASSUME NEW p \in Pages, Edit(p) PROVE CoverInv'
  BY <1>2, <1>3 DEF Edit
<1>4. ASSUME NEW p \in Pages, Delete(p) PROVE CoverInv'
  <2>1. [notion[p] EXCEPT !.state = "trashed"].state # "live"
    BY <1>0 DEF TypeOK
  <2> QED BY <2>1, <1>2, <1>4 DEF Delete, Stays
<1>5. ASSUME NEW p \in Pages, Return(p) PROVE CoverInv'
  <2>1. [notion[p] EXCEPT !.state = "returned"].state # "live"
    BY <1>0 DEF TypeOK
  <2> QED BY <2>1, <1>2, <1>5 DEF Return, Stays
<1> QED BY <1>1, <1>3, <1>4, <1>5 DEF Environment

\* The walk over a data source, action by action.
LEMMA WalkCovers ==
    ASSUME SafeInv, CoverInv, Slack >= 2 * MaxWalk, NEW w \in Workers,
           StartSource(w) \/ ReadRow(w) \/ StoreRow(w) \/ EndRows(w) \/ SetWatermark(w)
    PROVE  CoverInv'
<1> DEFINE r == worker[w]
<1>r. r \in WorkerRecords /\ WorkerInv(r) /\ TypeOK
  BY DEF SafeInv, TypeOK
<1>v. ASSUME NEW p \in Pages, Behind(p)
      PROVE  InView(r, p) /\ Home[p] # NoSource /\ Live(notion[p])
  BY <1>v DEF CoverInv, Behind, Stays, Live
<1>1. CASE StartSource(w)
  <2> PICK s \in r.todo :
        Becomes(w, [r EXCEPT !.pc = "rows", !.src = s, !.todo = @ \ {s},
                             !.base = r.snap[s], !.snap[s] = 0,
                             !.began = now, !.more = TRUE])
    BY <1>1 DEF StartSource
  <2> DEFINE q == [r EXCEPT !.pc = "rows", !.src = s, !.todo = @ \ {s},
                            !.base = r.snap[s], !.snap[s] = 0,
                            !.began = now, !.more = TRUE]
  <2>1. /\ q.pc = "rows" /\ q.src = s /\ q.base = r.snap[s] /\ q.cur = <<0, 0>>
        /\ q.snap = [r.snap EXCEPT ![s] = 0] /\ r.snap \in [Sources -> Time]
    BY <1>1, <1>r DEF StartSource, WorkerInv, RestInv, WorkerRecords
  <2> HIDE DEF q
  <2>2. ASSUME NEW p \in Pages, Behind(p) PROVE InView(q, p)
    <3>1. Later(<<notion[p].edited, p>>, <<0, 0>>)
      BY <1>v, <2>2, <1>r, WalkNumbers DEF Later
    <3> QED BY <3>1, <2>1, <1>v, <2>2, <1>r, WalkNumbers DEF InView, WalkInv
  <2> QED BY <2>2, BecomesCovers DEF q
<1>2. CASE ReadRow(w)
  <2> PICK o \in Due(r) :
        /\ \A x \in Due(r) \ {o} : Later(<<notion[x].edited, x>>, <<notion[o].edited, o>>)
        /\ Becomes(w, [r EXCEPT !.pc = "store", !.held = ObjectOf(o, notion[o]),
                                !.more = Due(r) # {o},
                                !.cur = <<notion[o].edited, o>>])
    BY <1>2 DEF ReadRow
  <2> DEFINE q == [r EXCEPT !.pc = "store", !.held = ObjectOf(o, notion[o]),
                            !.more = Due(r) # {o}, !.cur = <<notion[o].edited, o>>]
  <2>1. /\ q.pc = "store" /\ q.src = r.src /\ q.base = r.base /\ q.snap = r.snap
        /\ q.began = r.began /\ q.cur = <<notion[o].edited, o>>
        /\ q.held = ObjectOf(o, notion[o]) /\ q.more = (Due(r) # {o})
    BY <1>r DEF WorkerRecords
  <2> HIDE DEF q
  <2>2. ASSUME NEW p \in Pages, Behind(p) PROVE InView(q, p)
    <3>1. r.pc = "rows" /\ InView(r, p) /\ Live(notion[p])
      BY <1>2, <1>v, <2>2 DEF ReadRow
    <3>2. CASE r.src # Home[p]
      BY <3>1, <3>2, <2>1 DEF InView, WalkInv
    <3>3. CASE r.src = Home[p] /\ notion[p].edited + MaxWalk >= r.began
      BY <3>1, <3>3, <2>1 DEF InView, WalkInv
    <3>4. CASE r.src = Home[p] /\ Later(<<notion[p].edited, p>>, r.cur)
      <4>1. notion[p].edited >= Since(r)
        BY <3>1, <3>4, <1>v, <2>2, <1>r, WalkNumbers DEF Since, InView, WalkInv
      <4>2. p \in Due(r)
        BY <3>1, <3>4, <4>1 DEF Due
      <4>3. CASE p = o
        BY <3>1, <4>3, <2>1, ObjectFresh DEF InView, WalkInv
      <4>4. CASE p # o
        <5>1. q.more /\ Later(<<notion[p].edited, p>>, q.cur)
          BY <4>2, <4>4, <2>1
        <5> QED BY <5>1, <3>1, <2>1 DEF InView, WalkInv
      <4> QED BY <4>3, <4>4
    <3> QED BY <3>1, <3>2, <3>3, <3>4 DEF InView, WalkInv
  <2> QED BY <2>2, BecomesCovers DEF q
<1>3. CASE StoreRow(w)
  <2> DEFINE q == [r EXCEPT !.pc = IF r.more THEN "rows" ELSE "mark", !.held = NoPage,
                            !.cur = IF r.more THEN @ ELSE <<0, 0>>,
                            !.high = Larger(r.held.edited, @)]
  <2>1. /\ q.pc = (IF r.more THEN "rows" ELSE "mark") /\ q.src = r.src /\ q.base = r.base
        /\ q.snap = r.snap /\ q.began = r.began
        /\ q.cur = (IF r.more THEN r.cur ELSE <<0, 0>>)
    BY <1>r DEF WorkerRecords
  <2>2. /\ r.pc = "store"
        /\ Writes(w, q, r.held.id, UpsertRow(rows[r.held.id], r.held, r.src))
    BY <1>3 DEF StoreRow
  <2> HIDE DEF q
  <2>3. ASSUME NEW p \in Pages, Behind(p), p # r.held.id PROVE InView(q, p)
    BY <2>1, <2>2, <2>3, <1>v DEF InView, WalkInv
  <2>4. ASSUME NEW p \in Pages, Home[p] # NoSource, p = r.held.id,
               notion[p].edited >= r.began
        PROVE  InView(q, p)
    <3>1. now <= r.began + MaxWalk
      BY <2>2, <1>r DEF WorkerInv, ClockInv, Walking
    <3>2. InView(r, p)
      BY <3>1, <2>4, <1>r, WalkNumbers, RecentInView
    <3> QED BY <3>2, <2>1, <2>2, <2>4, <1>r, WalkNumbers DEF InView, WalkInv
  <2> QED BY <2>2, <2>3, <2>4, StoreCovers
<1>4. CASE EndRows(w)
  <2> DEFINE q == [r EXCEPT !.pc = "mark", !.cur = <<0, 0>>, !.more = FALSE]
  <2>1. /\ q.pc = "mark" /\ q.src = r.src /\ q.base = r.base /\ q.snap = r.snap
        /\ q.began = r.began
    BY <1>r DEF WorkerRecords
  <2> HIDE DEF q
  <2>2. ASSUME NEW p \in Pages, Behind(p) PROVE InView(q, p)
    <3>1. r.pc = "rows" /\ Due(r) = {} /\ InView(r, p) /\ Live(notion[p])
      BY <1>4, <1>v, <2>2 DEF EndRows
    <3>2. ASSUME r.src = Home[p] PROVE ~Later(<<notion[p].edited, p>>, r.cur)
      <4>1. notion[p].edited >= Since(r)
        BY <3>1, <3>2, <1>v, <2>2, <1>r, WalkNumbers DEF Since, InView, WalkInv
      <4> QED BY <3>1, <3>2, <4>1 DEF Due
    <3> QED BY <3>1, <3>2, <2>1 DEF InView, WalkInv
  <2> QED BY <2>2, <1>4, BecomesCovers DEF q, EndRows
<1>5. CASE SetWatermark(w)
  <2>1. ASSUME NEW p \in Pages, Behind(p) PROVE InView(AfterMark(r), p)
    <3> DEFINE q == [r EXCEPT !.pc = "known", !.high = 0]
    <3>1. q.pc = "known" /\ q.snap = r.snap
      BY <1>r DEF WorkerRecords
    <3>2. InView(r, p)
      BY <1>v, <2>1
    <3>3. AfterMark(r) = q \/ AfterMark(r) = NextSource(r)
      BY DEF AfterMark
    <3>4. InView(NextSource(r), p)
      BY <3>2, <1>r, NextSourceInView
    <3> HIDE DEF q
    <3>5. InView(q, p)
      BY <3>1, <3>2, OutsideInView
    <3> QED BY <3>3, <3>4, <3>5
  <2>2. UNCHANGED <<notion, rows>> /\ worker' = [worker EXCEPT ![w] = AfterMark(r)]
    BY <1>5 DEF SetWatermark, external
  <2> SUFFICES ASSUME NEW p \in Pages, Behind(p)
               PROVE  /\ notion[p].edited + Slack >= watermark'[Home[p]]
                      /\ \A v \in Workers : InView(worker'[v], p)
    BY <2>2 DEF CoverInv, Behind, RowCurrent, InView, WalkInv, Fresh
  <2>3. \A v \in Workers : InView(worker'[v], p)
    BY <2>1, <2>2 DEF CoverInv, SafeInv, TypeOK
  <2>4. Behind(p) /\ Home[p] \in Sources
    BY <1>v, <1>r, WalkNumbers
  <2>5. CASE watermark'[Home[p]] = watermark[Home[p]]
    BY <2>3, <2>4, <2>5 DEF CoverInv
  <2>6. CASE watermark'[Home[p]] # watermark[Home[p]]
    <3>1. r.pc = "mark" /\ r.src = Home[p] /\ watermark'[Home[p]] = r.high
      BY <1>5, <2>6, <1>r, <1>v, WalkNumbers DEF SetWatermark, TypeOK
    <3>2. r.high <= now /\ now <= r.began + MaxWalk
      BY <3>1, <1>r DEF WorkerInv, ClockInv, Walking
    <3>3. notion[p].edited + MaxWalk >= r.began
      BY <3>1, <1>v DEF InView, WalkInv
    <3> QED BY <2>3, <3>1, <3>2, <3>3, <1>v, <1>r, WalkNumbers
  <2> QED BY <2>5, <2>6
<1> QED BY <1>1, <1>2, <1>3, <1>4, <1>5

\* Pages that are trashed, and bodies, are nothing a watermark could miss.
LEMMA QuietCovers ==
    ASSUME SafeInv, CoverInv, Slack >= 2 * MaxWalk, NEW w \in Workers, NEW q,
           worker' = [worker EXCEPT ![w] = q],
           UNCHANGED <<notion, watermark>>,
           \A p \in Pages : Stays(notion[p]) =>
              /\ rows'[p].known = rows[p].known /\ rows'[p].trash = rows[p].trash
              /\ rows'[p].edited = rows[p].edited /\ rows'[p].rev = rows[p].rev,
           \A p \in Pages : Behind(p) => InView(q, p)
    PROVE  CoverInv'
<1>1. \A p \in Pages : Behind(p)' => Behind(p)
  BY DEF Behind, RowCurrent
<1> QED BY <1>1, StepCovers

LEMMA RestCovers ==
    ASSUME SafeInv, CoverInv, Slack >= 2 * MaxWalk, NEW w \in Workers,
           \/ ListKnown(w) \/ ListLive(w) \/ EndListLive(w) \/ TrashPage(w) \/ EndReconcile(w)
           \/ StartLoose(w) \/ ReadLoose(w) \/ StoreLoose(w) \/ EndLoose(w)
           \/ ListPending(w) \/ ReadBlocks(w) \/ StoreContent(w) \/ EndPass(w)
           \/ StoreResync(w)
    PROVE  CoverInv'
<1> DEFINE r == worker[w]
<1>r. r \in WorkerRecords /\ WorkerInv(r) /\ TypeOK
  BY DEF SafeInv, TypeOK
<1>v. ASSUME NEW p \in Pages, Behind(p)
      PROVE  InView(r, p) /\ Home[p] # NoSource
  BY <1>v DEF CoverInv, Behind
<1>b. ASSUME NEW q, Becomes(w, q), q.snap = r.snap \/ q.snap = IdleWorker.snap,
             q.pc \notin {"rows", "store", "mark"}
      PROVE  CoverInv'
  BY <1>b, <1>r, <1>v, OutsideInView, IdleInView, BecomesCovers
<1>1. CASE ListKnown(w)
  <2> DEFINE q == [r EXCEPT !.pc = "live", !.ids = {p \in Pages : LiveRowOf(rows[p], r.src)}]
  <2>1. q.snap = r.snap /\ q.pc = "live"
    BY <1>r DEF WorkerRecords
  <2> QED BY <2>1, <1>1, <1>b DEF ListKnown
<1>2. CASE ListLive(w)
  <2> PICK p \in Unlisted(r) : Becomes(w, [r EXCEPT !.ids = @ \ {p}, !.cur = <<0, p>>])
    BY <1>2 DEF ListLive
  <2> DEFINE q == [r EXCEPT !.ids = @ \ {p}, !.cur = <<0, p>>]
  <2>1. q.snap = r.snap /\ q.pc = "live"
    BY <1>2, <1>r DEF ListLive, WorkerRecords
  <2> QED BY <2>1, <1>b
<1>3. CASE EndListLive(w)
  <2> DEFINE q == [r EXCEPT !.pc = "trash", !.cur = <<0, 0>>]
  <2>1. q.snap = r.snap /\ q.pc = "trash"
    BY <1>r DEF WorkerRecords
  <2> QED BY <2>1, <1>3, <1>b DEF EndListLive
<1>4. CASE TrashPage(w)
  <2> PICK o \in r.ids : Writes(w, [r EXCEPT !.ids = @ \ {o}], o, TrashRow(rows[o]))
    BY <1>4 DEF TrashPage
  <2> DEFINE q == [r EXCEPT !.ids = @ \ {o}]
  <2>1. q.snap = r.snap /\ q.pc = "trash"
    BY <1>4, <1>r DEF TrashPage, WorkerRecords
  <2>2. o \in Pages /\ ~Stays(notion[o])
    BY <1>4, <1>r DEF TrashPage, WorkerInv, SuspectInv, WorkerRecords, Stays, Gone
  <2>3. \A p \in Pages : Behind(p) => InView(q, p)
    BY <2>1, <1>v, OutsideInView
  <2>4. \A p \in Pages : p # o => rows'[p] = rows[p]
    BY <1>r DEF Writes, TypeOK
  <2> HIDE DEF q
  <2> QED BY <2>2, <2>3, <2>4, QuietCovers DEF Writes, external, q
<1>5. CASE EndReconcile(w)
  BY <1>5, <1>r, <1>v, NextSourceInView, BecomesCovers DEF EndReconcile
<1>6. CASE StartLoose(w)
  <2> DEFINE q == [r EXCEPT !.pc = "loose", !.base = looseMark, !.high = looseMark,
                            !.began = now, !.more = TRUE, !.cur = <<MaxTime + 1, 0>>]
  <2>1. q.snap = r.snap /\ q.pc = "loose"
    BY <1>r DEF WorkerRecords
  <2> QED BY <2>1, <1>6, <1>b DEF StartLoose
<1>7. CASE ReadLoose(w)
  <2> DEFINE seen(p) == [r EXCEPT !.cur = <<found[p].edited, p>>,
                                  !.more = LeftToSearch(r) # {p},
                                  !.high = Larger(found[p].edited, @)]
             held(p) == [seen(p) EXCEPT !.pc = "storeLoose", !.held = ObjectOf(p, found[p])]
  <2> PICK p \in Pages : Becomes(w, IF Home[p] = NoSource THEN held(p) ELSE seen(p))
    BY <1>7 DEF ReadLoose
  <2>1. /\ seen(p).snap = r.snap /\ seen(p).pc = "loose"
        /\ held(p).snap = r.snap /\ held(p).pc = "storeLoose"
    BY <1>7, <1>r DEF ReadLoose, WorkerRecords
  <2>2. Becomes(w, held(p)) \/ Becomes(w, seen(p))
    OBVIOUS
  <2> HIDE DEF held, seen
  <2> QED BY <2>1, <2>2, <1>b
<1>8. CASE StoreLoose(w)
  <2> DEFINE q == [r EXCEPT !.pc = "loose", !.held = NoPage]
  <2>1. q.snap = r.snap /\ q.pc = "loose"
    BY <1>r DEF WorkerRecords
  <2>2. r.held.id \in Pages /\ Home[r.held.id] = NoSource
    BY <1>8, <1>r DEF StoreLoose, WorkerInv, HeldInv
  <2>3. \A p \in Pages : Behind(p) => InView(q, p)
    BY <2>1, <1>v, OutsideInView
  <2>4. Writes(w, q, r.held.id, UpsertRow(rows[r.held.id], r.held, NoSource))
        /\ r.pc = "storeLoose"
    BY <1>8 DEF StoreLoose
  <2> HIDE DEF q
  <2> QED BY <2>2, <2>3, <2>4, StoreCovers
<1>9. CASE EndLoose(w)
  <2>1. \A p \in Pages : Behind(p) => InView(AfterLoose(r), p)
    BY <1>r, <1>v, NextSourceInView
  <2> QED BY <2>1, <1>9, QuietCovers DEF EndLoose, external
<1>10. CASE ListPending(w)
  <2> DEFINE q == [r EXCEPT !.pc = "fetch", !.ids = {p \in Pages : ContentPending(rows[p])}]
  <2>1. q.snap = r.snap /\ q.pc = "fetch"
    BY <1>r DEF WorkerRecords
  <2> QED BY <2>1, <1>10, <1>b DEF ListPending
<1>11. CASE ReadBlocks(w)
  <2> DEFINE o(p) == [NoPage EXCEPT !.id = p,
                         !.rev = IF Live(notion[p]) THEN notion[p].rev ELSE 0]
             q(p) == [r EXCEPT !.pc = "content", !.ids = @ \ {p}, !.held = o(p)]
  <2> PICK p \in r.ids : Becomes(w, q(p))
    BY <1>11 DEF ReadBlocks
  <2>1. q(p).snap = r.snap /\ q(p).pc = "content"
    BY <1>r DEF WorkerRecords
  <2> HIDE DEF q
  <2> QED BY <2>1, <1>b
<1>12. CASE StoreContent(w)
  <2> DEFINE q == [r EXCEPT !.pc = "fetch", !.held = NoPage]
  <2>1. q.snap = r.snap /\ q.pc = "fetch"
    BY <1>r DEF WorkerRecords
  <2>2. \A p \in Pages : Behind(p) => InView(q, p)
    BY <2>1, <1>v, OutsideInView
  <2>3. Writes(w, q, r.held.id, WriteContent(rows[r.held.id], r.held.rev))
    BY <1>12 DEF StoreContent
  <2>4. \A p \in Pages :
          /\ rows'[p].known = rows[p].known /\ rows'[p].trash = rows[p].trash
          /\ rows'[p].edited = rows[p].edited /\ rows'[p].rev = rows[p].rev
    BY <2>3, <1>r DEF Writes, WriteContent, TypeOK, Rows
  <2> HIDE DEF q
  <2> QED BY <2>2, <2>3, <2>4, QuietCovers DEF Writes, external
<1>13. CASE EndPass(w)
  BY <1>13, <1>r, <1>b DEF EndPass, IdleWorker
<1>14. CASE StoreResync(w)
  <2> DEFINE q == [IdleWorker EXCEPT !.pc = "fetch", !.ids = r.ids]
  <2>1. q.snap = IdleWorker.snap /\ q.pc = "fetch"
    BY DEF IdleWorker
  <2>2. r.pc = "upsert" /\ Writes(w, q, r.held.id,
                                  UpsertRow(rows[r.held.id], r.held, Home[r.held.id]))
    BY <1>14 DEF StoreResync
  <2> HIDE DEF q
  <2>3. \A p \in Pages : Home[p] # NoSource => InView(q, p)
    BY <2>1, <1>r, IdleInView
  <2> QED BY <2>2, <2>3, StoreCovers
<1> QED BY <1>1, <1>2, <1>3, <1>4, <1>5, <1>6, <1>7, <1>8, <1>9, <1>10, <1>11, <1>12,
           <1>13, <1>14

LEMMA FailsCovers ==
    ASSUME SafeInv, CoverInv, Slack >= 2 * MaxWalk, NEW w \in Workers, Fails(w)
    PROVE  CoverInv'
<1> DEFINE r == worker[w]
<1>r. r \in WorkerRecords /\ WorkerInv(r) /\ TypeOK
  BY DEF SafeInv, TypeOK
<1>v. ASSUME NEW p \in Pages, Behind(p)
      PROVE  InView(r, p) /\ Home[p] # NoSource
  BY <1>v DEF CoverInv, Behind
<1>n. ASSUME NEW p \in Pages, Behind(p)
      PROVE  InView(NextSource(r), p) /\ InView(AfterLoose(r), p) /\ InView(IdleWorker, p)
  BY <1>n, <1>r, <1>v, NextSourceInView, IdleInView DEF IdleWorker
<1>1. CASE RowsFail(w) \/ SetWatermarkFails(w) \/ LooseFails(w) \/ ResyncFails(w)
  BY <1>1, <1>n, BecomesCovers DEF RowsFail, SetWatermarkFails, LooseFails, ResyncFails
<1>2. CASE ReconcileFails(w)
  <2>1. CASE GivesUp(w, NextSource(r))
    BY <2>1, <1>n, BecomesCovers
  <2>2. ASSUME NEW o \in r.ids, r.pc = "trash",
               rows' = [rows EXCEPT ![o] = TrashRow(rows[o])],
               worker' = [worker EXCEPT ![w] = NextSource(r)],
               UNCHANGED <<external, watermark, looseMark>>
        PROVE  CoverInv'
    <3>1. o \in Pages /\ ~Stays(notion[o])
      BY <2>2, <1>r DEF WorkerInv, SuspectInv, WorkerRecords, Stays, Gone
    <3>2. \A p \in Pages : p # o => rows'[p] = rows[p]
      BY <2>2, <1>r DEF TypeOK
    <3> QED BY <3>1, <3>2, <2>2, <1>n, QuietCovers DEF external
  <2> QED BY <2>1, <2>2, <1>2 DEF ReconcileFails
<1>3. CASE ContentFails(w)
  <2>1. ASSUME NEW o \in r.ids, r.pc = "fetch", GivesUp(w, [r EXCEPT !.ids = @ \ {o}])
        PROVE  CoverInv'
    <3> DEFINE q == [r EXCEPT !.ids = @ \ {o}]
    <3>1. q.snap = r.snap /\ q.pc = "fetch" /\ GivesUp(w, q)
      BY <2>1, <1>r DEF WorkerRecords
    <3> HIDE DEF q
    <3>2. \A p \in Pages : Behind(p) => InView(q, p)
      BY <3>1, <1>v, OutsideInView
    <3> QED BY <3>1, <3>2, BecomesCovers
  <2>2. CASE GivesUp(w, [r EXCEPT !.pc = "fetch", !.held = NoPage])
    <3> DEFINE q == [r EXCEPT !.pc = "fetch", !.held = NoPage]
    <3>1. q.snap = r.snap /\ q.pc = "fetch" /\ GivesUp(w, q)
      BY <2>2, <1>r DEF WorkerRecords
    <3> HIDE DEF q
    <3>2. \A p \in Pages : Behind(p) => InView(q, p)
      BY <3>1, <1>v, OutsideInView
    <3> QED BY <3>1, <3>2, BecomesCovers
  <2> QED BY <2>1, <2>2, <1>3, <1>n, BecomesCovers DEF ContentFails
<1> QED BY <1>1, <1>2, <1>3 DEF Fails

LEMMA StartCovers ==
    ASSUME SafeInv, CoverInv, Slack >= 2 * MaxWalk, NEW w \in Workers, Start(w)
    PROVE  CoverInv'
<1>1. ASSUME NEW full \in BOOLEAN, StartPass(w, full) PROVE CoverInv'
  <2> DEFINE q == [IdleWorker EXCEPT !.pc = "source", !.full = full, !.todo = Sources,
                                     !.snap = watermark]
  <2>1. q.pc = "source" /\ q.snap = watermark
    BY DEF IdleWorker
  <2>2. Becomes(w, q)
    BY <1>1 DEF StartPass
  <2> HIDE DEF q
  <2>3. \A p \in Pages : Behind(p) => InView(q, p)
    BY <2>1 DEF CoverInv, InView, WalkInv
  <2> QED BY <2>2, <2>3, BecomesCovers
<1>2. ASSUME NEW p \in Pages, StartResync(w, p) PROVE CoverInv'
  <2> DEFINE q == [IdleWorker EXCEPT !.pc = "upsert", !.began = now, !.ids = {p},
                                     !.held = ObjectOf(p, notion[p])]
  <2>1. q.pc = "upsert" /\ q.snap = IdleWorker.snap
    BY DEF IdleWorker
  <2>2. Becomes(w, q)
    BY <1>2 DEF StartResync
  <2> HIDE DEF q
  <2>3. \A o \in Pages : Behind(o) => InView(q, o)
    BY <2>1, IdleInView DEF Behind, SafeInv
  <2> QED BY <2>2, <2>3, BecomesCovers
<1> QED BY <1>1, <1>2 DEF Start

LEMMA NextCovers ==
    ASSUME SafeInv, CoverInv, Slack >= 2 * MaxWalk, [Next]_vars
    PROVE  CoverInv'
<1>1. CASE Environment
  BY <1>1, EnvironmentCovers
<1>2. ASSUME NEW w \in Workers, Start(w) \/ Advance(w) \/ Fails(w) PROVE CoverInv'
  BY <1>2, StartCovers, WalkCovers, RestCovers, FailsCovers DEF Advance
<1>3. CASE Crash
  <2>1. UNCHANGED <<notion, rows, watermark>> /\ worker' = [w \in Workers |-> IdleWorker]
    BY <1>3 DEF Crash, external, mirror
  <2>2. \A p \in Pages : Behind(p) => \A w \in Workers : InView(worker'[w], p)
    BY <2>1, IdleInView DEF Behind, SafeInv, IdleWorker
  <2> QED BY <2>1, <2>2 DEF CoverInv, Behind, RowCurrent, InView, WalkInv, Fresh
<1>4. CASE UNCHANGED vars
  BY <1>4 DEF vars, CoverInv, Behind, RowCurrent, InView, WalkInv, Fresh
<1> QED BY <1>1, <1>2, <1>3, <1>4 DEF Next

(***************************************************************************)
(* What SyncInduction says of pages, rows, watermarks and the goroutines   *)
(* of syncLoop and ResyncPage is always so, provided that a walk over a    *)
(* query's responses takes at most half of Options.Slack.                  *)
(***************************************************************************)
THEOREM InvariantHolds ==
    ASSUME Slack >= 2 * MaxWalk
    PROVE  Spec => []SyncInv
<1>1. Init => SyncInv
  BY InitSafe, InitCovers DEF SyncInv
<1>2. SyncInv /\ [Next]_vars => SyncInv'
  BY NextSafe, NextCovers DEF SyncInv
<1> QED BY <1>1, <1>2, PTL DEF Spec

(***************************************************************************)
(* Whatever fails, crashes or runs at the same time, the next incremental  *)
(* query of a data source asks for every row that the mirror has wrong,    *)
(* provided that a walk over the query's responses takes at most half of   *)
(* Options.Slack.                                                          *)
(***************************************************************************)
THEOREM WatermarkNeverLoses ==
    ASSUME Slack >= 2 * MaxWalk
    PROVE  Spec => []WatermarkCovers
<1>1. SyncInv => WatermarkCovers
  <2> SUFFICES ASSUME SyncInv, NEW p \in Pages, Behind(p)
               PROVE  notion[p].edited >= Since(NextQuery(Home[p]))
    BY DEF WatermarkCovers, Behind
  <2>1. TypeOK /\ notion[p].edited + Slack >= watermark[Home[p]] /\ Home[p] # NoSource
    BY DEF SyncInv, SafeInv, CoverInv, Behind
  <2>2. NextQuery(Home[p]).base = watermark[Home[p]] /\ NextQuery(Home[p]).full = FALSE
    BY DEF NextQuery, IdleWorker
  <2> QED BY <2>1, <2>2, IdleType, WalkNumbers DEF Since
<1> QED BY <1>1, InvariantHolds, PTL

-----------------------------------------------------------------------------
(***************************************************************************)
(* What holds besides when the sync loop is the only goroutine: the mirror *)
(* keeps its promise, and a body is that of its stamp.                     *)
(*                                                                         *)
(* The argument: nothing but the loop's own step writes a row, so a row is *)
(* still as old when an object is stored as it was when the object was     *)
(* read.  Search may lag, but its index of a page moves forward only, so   *)
(* a loose page's row, which is made from nothing else, never goes back.   *)
(***************************************************************************)

LEMMA Numbers ==
    ASSUME TypeOK, NEW p \in Pages
    PROVE  /\ notion[p].rev \in Nat /\ notion[p].edited \in Nat
           /\ found[p].rev \in Nat /\ found[p].edited \in Nat
           /\ rows[p].rev \in Nat /\ rows[p].edited \in Nat /\ rows[p].synced \in Nat
           /\ now \in Nat
BY SyncAssumption DEF TypeOK, Rows, Time

\* A goroutine with nothing in hand.
Unloaded(r) ==
    /\ r.pc \notin {"upsert", "store", "storeLoose", "content"}
    /\ r.pc = "rows" => r.src # NoSource

LEMMA NothingLoaded ==
    ASSUME NEW r, Unloaded(r)
    PROVE  LoadInv(r)
BY DEF LoadInv, Unloaded

LEMMA LoopInit == Init => LoopInv
<1> SUFFICES ASSUME Init PROVE LoopInv
  OBVIOUS
<1>1. SafeInv
  BY InitSafe
<1>2. ASSUME NEW p \in Pages PROVE PageInv(p)
  BY DEF Init, PageInv, RowOf, Newest, NoRow, Absent, Live
<1>3. ASSUME NEW w \in Workers PROVE LoadInv(worker[w])
  BY NothingLoaded DEF Init, IdleWorker, Unloaded
<1> QED BY <1>1, <1>2, <1>3 DEF LoopInv

-----------------------------------------------------------------------------
(* The three shapes of a step. *)

\* Page p changes in Notion or in the search index, and no row does.
LEMMA PageMoves ==
    ASSUME TypeOK, TypeOK', NEW p \in Pages, PageInv(p), rows'[p] = rows[p],
           found'[p] \in {found[p], notion'[p]},
           notion'[p].state = "absent" => notion'[p].rev = 0,
           notion'[p].state # "absent" => notion'[p].rev # 0,
           notion[p].rev <= notion'[p].rev,
           \/ notion'[p].edited = notion[p].edited /\ notion'[p].rev = notion[p].rev
              /\ (Stays(notion'[p]) => Stays(notion[p]))
           \/ notion[p].edited <= notion'[p].edited
              /\ (OneEditPerMinute => notion[p].edited < notion'[p].edited)
    PROVE  PageInv(p)' /\ Newest(p) <= Newest(p)'
<1> USE DEF Live, Stays
<1>n. /\ notion[p].rev \in Nat /\ notion[p].edited \in Nat
      /\ found[p].rev \in Nat /\ found[p].edited \in Nat
      /\ rows[p].rev \in Nat /\ rows[p].edited \in Nat /\ rows[p].synced \in Nat
      /\ notion'[p].rev \in Nat /\ notion'[p].edited \in Nat
      /\ found'[p].rev \in Nat /\ found'[p].edited \in Nat
  BY Numbers, SyncAssumption DEF TypeOK, Time
<1>1. Newest(p) <= Newest(p)'
  BY <1>n DEF Newest, PageInv
<1>2. Newest(p) \in Nat /\ Newest(p)' \in Nat
  BY <1>n DEF Newest
<1>3. RowOf(p, rows[p])'
  BY <1>n, <1>1, <1>2 DEF RowOf, PageInv
<1> QED BY <1>n, <1>1, <1>3 DEF PageInv

LEMMA LoadStays ==
    ASSUME TypeOK, TypeOK', NEW r \in WorkerRecords, LoadInv(r), HeldInv(r),
           UNCHANGED rows,
           \A p \in Pages :
              /\ PageInv(p) /\ Newest(p) <= Newest(p)'
              /\ \/ notion'[p].edited = notion[p].edited /\ notion'[p].rev = notion[p].rev
                    /\ (Stays(notion'[p]) => Stays(notion[p]))
                 \/ notion[p].edited <= notion'[p].edited
                    /\ (OneEditPerMinute => notion[p].edited < notion'[p].edited)
    PROVE  LoadInv(r)'
<1> SUFFICES ASSUME NEW p, p = r.held.id PROVE LoadInv(r)'
  OBVIOUS
<1>1. r.held.rev \in Nat /\ r.held.edited \in Nat
  BY SyncAssumption DEF WorkerRecords, Objects, Time
<1>2. r.pc \in {"store", "storeLoose", "content"} => p \in Pages
  BY DEF LoadInv, HeldInv
<1>3. ASSUME p \in Pages
      PROVE  /\ notion[p].edited \in Nat /\ notion'[p].edited \in Nat
             /\ Newest(p) \in Nat /\ rows[p].edited \in Nat /\ rows[p].rev \in Nat
             /\ Newest(p)' \in Nat /\ Newest(p) <= Newest(p)'
             /\ rows[p].edited <= notion[p].edited
  <2>1. /\ notion[p].edited \in Nat /\ notion[p].rev \in Nat /\ found[p].rev \in Nat
        /\ rows[p].edited \in Nat /\ rows[p].rev \in Nat
    BY <1>3, Numbers
  <2>2. notion'[p].edited \in Nat /\ notion'[p].rev \in Nat /\ found'[p].rev \in Nat
    BY <1>3, SyncAssumption DEF TypeOK, Time
  <2>3. Newest(p) \in Nat /\ Newest(p)' \in Nat
    BY <2>1, <2>2 DEF Newest
  <2>4. Newest(p) <= Newest(p)' /\ PageInv(p)
    BY <1>3
  <2> QED BY <2>1, <2>2, <2>3, <2>4 DEF PageInv, RowOf
<1>4. ASSUME r.pc \in {"store", "storeLoose"}
      PROVE  rows'[p].rev <= r.held.rev /\ r.held.rev <= Newest(p)'
             /\ r.held.edited <= notion'[p].edited
  <2>1. rows[p].rev <= r.held.rev /\ r.held.rev <= Newest(p)
        /\ r.held.edited <= notion[p].edited
    BY <1>4 DEF LoadInv
  <2>2. p \in Pages /\ notion[p].edited <= notion'[p].edited
    BY <1>2, <1>3, <1>4
  <2> QED BY <2>1, <2>2, <1>1, <1>3
<1>5. ASSUME r.pc = "content", OneEditPerMinute, Stays(notion'[p]), rows'[p].known,
             rows'[p].edited = notion'[p].edited
      PROVE  r.held.rev = notion'[p].rev
  <2>1. p \in Pages /\ rows'[p] = rows[p]
    BY <1>2, <1>5
  <2>2. notion'[p].edited = notion[p].edited /\ notion'[p].rev = notion[p].rev
        /\ Stays(notion[p])
    BY <2>1, <1>3, <1>5
  <2> QED BY <2>1, <2>2, <1>5 DEF LoadInv
<1> QED BY <1>2, <1>4, <1>5 DEF LoadInv

LEMMA LoopBecomes ==
    ASSUME LoopInv, SafeInv', NEW w \in Workers, NEW r,
           worker' = [worker EXCEPT ![w] = r], UNCHANGED <<notion, found, rows>>,
           LoadInv(r)
    PROVE  LoopInv'
<1>1. ASSUME NEW p \in Pages PROVE PageInv(p)'
  BY DEF LoopInv, PageInv, RowOf, Newest
<1>2. ASSUME NEW v \in Workers PROVE LoadInv(worker[v])'
  <2> PICK u : u = worker'[v]
    OBVIOUS
  <2>1. LoadInv(u)
    BY DEF LoopInv, SafeInv, TypeOK
  <2>2. \A p : Newest(p)' = Newest(p)
    BY DEF Newest
  <2>3. LoadInv(u)'
    BY <2>1, <2>2 DEF LoadInv
  <2> QED BY <2>3 DEF LoadInv
<1> QED BY <1>1, <1>2 DEF LoopInv

\* The loop writes a row and has nothing in hand any more.
LEMMA LoopWrites ==
    ASSUME LoopAlone, LoopInv, SafeInv', NEW w \in Workers, NEW r,
           NEW p \in Pages, NEW row, RowOf(p, row),
           rows' = [rows EXCEPT ![p] = row], worker' = [worker EXCEPT ![w] = r],
           UNCHANGED <<notion, found>>, Unloaded(r)
    PROVE  LoopInv'
<1>1. ASSUME NEW q \in Pages PROVE PageInv(q)'
  <2>1. rows'[q] = IF q = p THEN row ELSE rows[q]
    BY DEF LoopInv, SafeInv, TypeOK
  <2>2. RowOf(q, rows'[q])
    BY <2>1 DEF LoopInv, PageInv
  <2> QED BY <2>2 DEF LoopInv, PageInv, RowOf, Newest
<1>2. ASSUME NEW v \in Workers PROVE LoadInv(worker[v])'
  <2>1. v = w /\ worker'[v] = r
    BY DEF LoopAlone, LoopInv, SafeInv, TypeOK
  <2>2. Unloaded(worker'[v])
    BY <2>1
  <2> QED BY <2>2 DEF LoadInv, Unloaded
<1> QED BY <1>1, <1>2 DEF LoopInv

LEMMA ObjectOfLive ==
    ASSUME NEW p, NEW page, Live(page)
    PROVE  /\ ObjectOf(p, page).id = p /\ ObjectOf(p, page).rev = page.rev
           /\ ObjectOf(p, page).edited = page.edited
           /\ ~ObjectOf(p, page).trash
BY DEF ObjectOf, Live

LEMMA UpsertedRow ==
    ASSUME TypeOK, NEW p \in Pages, PageInv(p), NEW r \in WorkerRecords, LoadInv(r),
           r.pc \in {"store", "storeLoose"}, p = r.held.id, NEW source
    PROVE  RowOf(p, UpsertRow(rows[p], r.held, source))
<1> DEFINE row == UpsertRow(rows[p], r.held, source)
<1>1. /\ row.rev = r.held.rev /\ row.edited = r.held.edited
      /\ row.synced = rows[p].synced /\ row.body = rows[p].body
  BY DEF UpsertRow, TypeOK, Rows
<1> QED BY <1>1 DEF LoadInv, PageInv, RowOf

LEMMA TrashedRow ==
    ASSUME TypeOK, NEW p \in Pages, PageInv(p)
    PROVE  RowOf(p, TrashRow(rows[p]))
BY DEF TrashRow, PageInv, RowOf, TypeOK, Rows

-----------------------------------------------------------------------------
(* The actions. *)

\* Page p becomes page: what was read of it before is older, or says the same.
LEMMA ChangeLoop ==
    ASSUME LoopInv, SafeInv', NEW p \in Pages, NEW page, Change(p, page),
           page.state # "absent", page.rev # 0,
           notion[p].rev <= page.rev,
           \/ page.edited = notion[p].edited /\ page.rev = notion[p].rev /\ ~Stays(page)
           \/ notion[p].edited <= page.edited
              /\ (OneEditPerMinute => notion[p].edited < page.edited)
    PROVE  LoopInv'
<1>1. /\ UNCHANGED <<rows, worker>>
      /\ notion' = [notion EXCEPT ![p] = page]
      /\ found' = found \/ found' = [found EXCEPT ![p] = page]
      /\ TypeOK /\ TypeOK'
  BY DEF Change, mirror, LoopInv, SafeInv
<1>2. ASSUME NEW q \in Pages PROVE PageInv(q)' /\ Newest(q) <= Newest(q)'
  <2>1. /\ notion'[q] = IF q = p THEN page ELSE notion[q]
        /\ found'[q] \in {found[q], notion'[q]} /\ rows'[q] = rows[q]
    BY <1>1 DEF TypeOK
  <2>2. PageInv(q) /\ notion[q].rev <= notion[q].rev
    BY Numbers, <1>1 DEF LoopInv
  <2>3. /\ notion'[q].state = "absent" => notion'[q].rev = 0
        /\ notion'[q].state # "absent" => notion'[q].rev # 0
        /\ notion[q].rev <= notion'[q].rev
    BY <2>1, <2>2 DEF PageInv
  <2> QED BY <1>1, <2>1, <2>2, <2>3, PageMoves
<1>3. ASSUME NEW w \in Workers PROVE LoadInv(worker[w])'
  <2>1. worker[w] \in WorkerRecords /\ LoadInv(worker[w]) /\ HeldInv(worker[w])
    BY DEF LoopInv, SafeInv, TypeOK, WorkerInv
  <2>2. \A q \in Pages : notion'[q] = IF q = p THEN page ELSE notion[q]
    BY <1>1 DEF TypeOK
  <2>3. \A q \in Pages : PageInv(q)
    BY DEF LoopInv
  <2> PICK r : r = worker[w]
    OBVIOUS
  <2>4. LoadInv(r)'
    BY <1>1, <1>2, <2>1, <2>2, <2>3, LoadStays
  <2>5. worker'[w] = r
    BY <1>1
  <2> QED BY <2>4, <2>5 DEF LoadInv
<1> QED BY <1>2, <1>3 DEF LoopInv

LEMMA EnvironmentLoop ==
    ASSUME LoopInv, Environment
    PROVE  LoopInv'
<1>0. TypeOK /\ TypeOK' /\ SafeInv'
  BY EnvironmentSafe DEF LoopInv, SafeInv
<1>1. CASE Tick
  BY <1>0, <1>1 DEF Tick, mirror, LoopInv, PageInv, RowOf, LoadInv, Newest
<1>2. ASSUME NEW p \in Pages, Edit(p) PROVE LoopInv'
  <2> DEFINE page == [state |-> Again(notion[p]), edited |-> now, rev |-> notion[p].rev + 1]
  <2>1. Change(p, page) /\ (OneEditPerMinute => notion[p].edited < now)
    BY <1>2 DEF Edit, MayEdit
  <2>2. notion[p].edited <= now /\ notion[p].rev \in Nat
    BY <1>0, Numbers DEF LoopInv, SafeInv, TimesInv
  <2>3. /\ page.state # "absent" /\ page.edited = now /\ page.rev = notion[p].rev + 1
    BY DEF Again
  <2> HIDE DEF page
  <2>4. page.state # "absent" /\ page.rev # 0 /\ notion[p].rev <= page.rev
    BY <2>2, <2>3
  <2> QED BY <1>0, <2>1, <2>2, <2>3, <2>4, ChangeLoop
<1>3. ASSUME NEW p \in Pages, Delete(p) PROVE LoopInv'
  <2> DEFINE page == [notion[p] EXCEPT !.state = "trashed"]
  <2>1. page.state = "trashed" /\ page.edited = notion[p].edited /\ page.rev = notion[p].rev
    BY <1>0 DEF TypeOK
  <2>2. Change(p, page)
    BY <1>3 DEF Delete
  <2>3. notion[p].rev <= notion[p].rev /\ notion[p].rev # 0
    BY <1>0, <1>3, Numbers DEF Delete, Live, LoopInv, PageInv
  <2> HIDE DEF page
  <2>4. /\ page.state # "absent" /\ ~Stays(page)
        /\ notion[p].rev <= page.rev /\ page.rev # 0
    BY <2>1, <2>3 DEF Stays
  <2> QED BY <1>0, <2>1, <2>2, <2>4, ChangeLoop
<1>4. ASSUME NEW p \in Pages, Return(p) PROVE LoopInv'
  <2> DEFINE page == [notion[p] EXCEPT !.state = "returned"]
  <2>1. page.state = "returned" /\ page.edited = notion[p].edited /\ page.rev = notion[p].rev
    BY <1>0 DEF TypeOK
  <2>2. Change(p, page)
    BY <1>4 DEF Return
  <2>3. notion[p].rev <= notion[p].rev /\ notion[p].rev # 0
    BY <1>0, <1>4, Numbers DEF Return, LoopInv, PageInv
  <2> HIDE DEF page
  <2>4. /\ page.state # "absent" /\ ~Stays(page)
        /\ notion[p].rev <= page.rev /\ page.rev # 0
    BY <2>1, <2>3 DEF Stays
  <2> QED BY <1>0, <2>1, <2>2, <2>4, ChangeLoop
<1>5. ASSUME NEW p \in Pages, SearchCatchesUp(p) PROVE LoopInv'
  <2>1. /\ UNCHANGED <<notion, rows, worker>>
        /\ found' = [found EXCEPT ![p] = notion[p]]
    BY <1>5 DEF SearchCatchesUp, mirror
  <2>2. ASSUME NEW q \in Pages PROVE PageInv(q)' /\ Newest(q) <= Newest(q)'
    <3>1. rows'[q] = rows[q] /\ found'[q] \in {found[q], notion'[q]} /\ notion'[q] = notion[q]
      BY <1>0, <2>1 DEF TypeOK
    <3>2. PageInv(q) /\ notion[q].rev <= notion[q].rev
      BY <1>0, Numbers DEF LoopInv
    <3>3. /\ notion'[q].state = "absent" => notion'[q].rev = 0
          /\ notion'[q].state # "absent" => notion'[q].rev # 0
      BY <3>1, <3>2 DEF PageInv
    <3> QED BY <1>0, <3>1, <3>2, <3>3, PageMoves
  <2>3. ASSUME NEW w \in Workers PROVE LoadInv(worker[w])'
    <3>1. worker[w] \in WorkerRecords /\ LoadInv(worker[w]) /\ HeldInv(worker[w])
      BY DEF LoopInv, SafeInv, TypeOK, WorkerInv
    <3> PICK r : r = worker[w]
      OBVIOUS
    <3>2. LoadInv(r)'
      BY <1>0, <2>1, <2>2, <3>1, LoadStays DEF LoopInv
    <3> QED BY <3>2, <2>1 DEF LoadInv
  <2> QED BY <1>0, <2>2, <2>3 DEF LoopInv
<1> QED BY <1>1, <1>2, <1>3, <1>4, <1>5 DEF Environment

LEMMA AdvanceLoop ==
    ASSUME LoopAlone, LoopInv, NEW w \in Workers, Advance(w)
    PROVE  LoopInv'
<1> DEFINE r == worker[w]
<1>r. r \in WorkerRecords /\ LoadInv(r) /\ HeldInv(r) /\ SuspectInv(r) /\ TypeOK
  BY DEF LoopInv, SafeInv, TypeOK, WorkerInv
<1>s. SafeInv'
  BY AdvanceSafe DEF LoopInv
<1>b. ASSUME NEW q, Becomes(w, q), LoadInv(q) PROVE LoopInv'
  BY <1>s, <1>b, LoopBecomes DEF Becomes, external, mirror
<1>n. ASSUME NEW q, Becomes(w, q), Unloaded(q) PROVE LoopInv'
  BY <1>b, <1>n, NothingLoaded
<1>w. ASSUME NEW q, NEW p \in Pages, NEW row, Writes(w, q, p, row), RowOf(p, row), Unloaded(q)
      PROVE  LoopInv'
  BY <1>s, <1>w, LoopWrites DEF Writes, external
<1>1. CASE StartSource(w)
  <2> PICK s \in r.todo :
        Becomes(w, [r EXCEPT !.pc = "rows", !.src = s, !.todo = @ \ {s},
                             !.base = r.snap[s], !.snap[s] = 0,
                             !.began = now, !.more = TRUE])
    BY <1>1 DEF StartSource
  <2> DEFINE q == [r EXCEPT !.pc = "rows", !.src = s, !.todo = @ \ {s},
                            !.base = r.snap[s], !.snap[s] = 0,
                            !.began = now, !.more = TRUE]
  <2>1. q.pc = "rows" /\ q.src = s /\ s # NoSource
    BY <1>r, SyncAssumption DEF WorkerRecords
  <2> QED BY <2>1, <1>n DEF Unloaded
<1>2. CASE ReadRow(w)
  <2> PICK p \in Due(r) :
        Becomes(w, [r EXCEPT !.pc = "store", !.held = ObjectOf(p, notion[p]),
                             !.more = Due(r) # {p},
                             !.cur = <<notion[p].edited, p>>])
    BY <1>2 DEF ReadRow
  <2> DEFINE q == [r EXCEPT !.pc = "store", !.held = ObjectOf(p, notion[p]),
                            !.more = Due(r) # {p},
                            !.cur = <<notion[p].edited, p>>]
  <2>1. p \in Pages /\ Live(notion[p]) /\ PageInv(p) /\ Home[p] # NoSource
    BY <1>2, <1>r DEF Due, LoopInv, LoadInv, ReadRow
  <2>2. q.pc = "store" /\ q.src = r.src /\ r.pc = "rows" /\ q.held = ObjectOf(p, notion[p])
    BY <1>2, <1>r DEF WorkerRecords, ReadRow
  <2> HIDE DEF q
  <2>3. /\ q.held.id = p /\ q.held.rev = notion[p].rev /\ q.held.edited = notion[p].edited
        /\ ~q.held.trash
    BY <2>1, <2>2, ObjectOfLive
  <2>4. notion[p].rev \in Nat /\ notion[p].edited \in Nat
    BY <2>1, <1>r, Numbers
  <2>5. LoadInv(q)
    BY <1>r, <2>1, <2>2, <2>3, <2>4 DEF LoadInv, PageInv, RowOf, Newest, Live
  <2> QED BY <2>5, <1>b DEF q
<1>3. CASE StoreRow(w)
  <2> DEFINE q == [r EXCEPT !.pc = IF r.more THEN "rows" ELSE "mark", !.held = NoPage,
                            !.cur = IF r.more THEN @ ELSE <<0, 0>>,
                            !.high = Larger(r.held.edited, @)]
  <2> PICK p : p = r.held.id
    OBVIOUS
  <2> DEFINE row == UpsertRow(rows[p], r.held, r.src)
  <2>1. p \in Pages /\ PageInv(p) /\ Writes(w, q, p, row) /\ r.pc = "store"
    BY <1>3, <1>r DEF StoreRow, HeldInv, LoopInv
  <2>2. Unloaded(q)
    BY <2>1, <1>r DEF WorkerRecords, LoadInv, Unloaded
  <2>3. RowOf(p, row)
    BY <1>r, <2>1, UpsertedRow
  <2> HIDE DEF q, row
  <2> QED BY <2>1, <2>2, <2>3, <1>w
<1>4. CASE EndRows(w)
  <2>1. Unloaded([r EXCEPT !.pc = "mark", !.cur = <<0, 0>>, !.more = FALSE])
    BY <1>r DEF WorkerRecords, Unloaded
  <2> QED BY <2>1, <1>4, <1>n DEF EndRows
<1>5. CASE SetWatermark(w)
  <2>1. LoadInv(AfterMark(r))
    BY <1>r, NothingLoaded DEF WorkerRecords, Unloaded, AfterMark, NextSource
  <2> QED BY <2>1, <1>5, <1>s, LoopBecomes DEF SetWatermark, external
<1>6. CASE ListKnown(w)
  <2>1. Unloaded([r EXCEPT !.pc = "live", !.ids = {p \in Pages : LiveRowOf(rows[p], r.src)}])
    BY <1>r DEF WorkerRecords, Unloaded
  <2> QED BY <2>1, <1>6, <1>n DEF ListKnown
<1>7. CASE ListLive(w)
  <2> PICK p \in Unlisted(r) : Becomes(w, [r EXCEPT !.ids = @ \ {p}, !.cur = <<0, p>>])
    BY <1>7 DEF ListLive
  <2>1. Unloaded([r EXCEPT !.ids = @ \ {p}, !.cur = <<0, p>>])
    BY <1>7, <1>r DEF WorkerRecords, Unloaded, ListLive
  <2> QED BY <2>1, <1>n
<1>8. CASE EndListLive(w)
  <2>1. Unloaded([r EXCEPT !.pc = "trash", !.cur = <<0, 0>>])
    BY <1>r DEF WorkerRecords, Unloaded
  <2> QED BY <2>1, <1>8, <1>n DEF EndListLive
<1>9. CASE TrashPage(w)
  <2> PICK p \in r.ids : Writes(w, [r EXCEPT !.ids = @ \ {p}], p, TrashRow(rows[p]))
    BY <1>9 DEF TrashPage
  <2>1. p \in Pages /\ PageInv(p)
    BY <1>r DEF WorkerRecords, LoopInv
  <2>2. Unloaded([r EXCEPT !.ids = @ \ {p}])
    BY <1>9, <1>r DEF WorkerRecords, Unloaded, TrashPage
  <2>3. RowOf(p, TrashRow(rows[p]))
    BY <2>1, TrashedRow, <1>r
  <2> QED BY <2>1, <2>2, <2>3, <1>w
<1>10. CASE EndReconcile(w)
  <2>1. Unloaded(NextSource(r))
    BY <1>r DEF WorkerRecords, Unloaded, NextSource
  <2> QED BY <2>1, <1>10, <1>n DEF EndReconcile
<1>11. CASE StartLoose(w)
  <2>1. Unloaded([r EXCEPT !.pc = "loose", !.base = looseMark, !.high = looseMark,
                           !.began = now, !.more = TRUE, !.cur = <<MaxTime + 1, 0>>])
    BY <1>r DEF WorkerRecords, Unloaded
  <2> QED BY <2>1, <1>11, <1>n DEF StartLoose
<1>12. CASE ReadLoose(w)
  <2> DEFINE seen(p) == [r EXCEPT !.cur = <<found[p].edited, p>>,
                                  !.more = LeftToSearch(r) # {p},
                                  !.high = Larger(found[p].edited, @)]
             next(p) == IF Home[p] = NoSource
                        THEN [seen(p) EXCEPT !.pc = "storeLoose",
                                             !.held = ObjectOf(p, found[p])]
                        ELSE seen(p)
  <2> PICK p \in Pages : NextFound(r, p) /\ Becomes(w, next(p))
    BY <1>12 DEF ReadLoose
  <2>1. Live(found[p]) /\ PageInv(p) /\ seen(p).pc = "loose"
    BY <1>12, <1>r DEF NextFound, LeftToSearch, LoopInv, WorkerRecords, ReadLoose
  <2>2. CASE Home[p] = NoSource
    <3> DEFINE q == [seen(p) EXCEPT !.pc = "storeLoose", !.held = ObjectOf(p, found[p])]
    <3>1. Becomes(w, q)
      BY <2>2
    <3>2. q.pc = "storeLoose" /\ q.held = ObjectOf(p, found[p])
      BY <1>r DEF WorkerRecords
    <3> HIDE DEF q
    <3>3. /\ q.held.id = p /\ q.held.rev = found[p].rev /\ q.held.edited = found[p].edited
          /\ ~q.held.trash
      BY <2>1, <3>2, ObjectOfLive
    <3>4. found[p].rev \in Nat
      BY <1>r, Numbers
    <3>5. LoadInv(q)
      BY <2>1, <2>2, <3>2, <3>3, <3>4 DEF LoadInv, PageInv, RowOf, Newest
    <3> QED BY <3>1, <3>5, <1>b
  <2>3. CASE Home[p] # NoSource
    <3>1. Becomes(w, seen(p))
      BY <2>3
    <3>2. Unloaded(seen(p))
      BY <2>1 DEF Unloaded
    <3> HIDE DEF seen
    <3> QED BY <3>1, <3>2, <1>n
  <2> QED BY <2>2, <2>3
<1>13. CASE StoreLoose(w)
  <2> DEFINE q == [r EXCEPT !.pc = "loose", !.held = NoPage]
  <2> PICK p : p = r.held.id
    OBVIOUS
  <2> DEFINE row == UpsertRow(rows[p], r.held, NoSource)
  <2>1. p \in Pages /\ PageInv(p) /\ Writes(w, q, p, row) /\ r.pc = "storeLoose"
    BY <1>13, <1>r DEF StoreLoose, HeldInv, LoopInv
  <2>2. Unloaded(q)
    BY <1>r DEF WorkerRecords, Unloaded
  <2>3. RowOf(p, row)
    BY <1>r, <2>1, UpsertedRow
  <2> HIDE DEF q, row
  <2> QED BY <2>1, <2>2, <2>3, <1>w
<1>14. CASE EndLoose(w)
  <2>1. LoadInv(AfterLoose(r))
    BY <1>r, NothingLoaded DEF WorkerRecords, Unloaded, AfterLoose, NextSource
  <2> QED BY <2>1, <1>14, <1>s, LoopBecomes DEF EndLoose, external
<1>15. CASE ListPending(w)
  <2>1. Unloaded([r EXCEPT !.pc = "fetch", !.ids = {p \in Pages : ContentPending(rows[p])}])
    BY <1>r DEF WorkerRecords, Unloaded
  <2> QED BY <2>1, <1>15, <1>n DEF ListPending
<1>16. CASE ReadBlocks(w)
  <2> DEFINE o(p) == [NoPage EXCEPT !.id = p,
                         !.rev = IF Live(notion[p]) THEN notion[p].rev ELSE 0]
             next(p) == [r EXCEPT !.pc = "content", !.ids = @ \ {p}, !.held = o(p)]
  <2> PICK p \in r.ids : Becomes(w, next(p))
    BY <1>16 DEF ReadBlocks
  <2>1. p \in Pages
    BY <1>r DEF WorkerRecords
  <2>2. next(p).pc = "content" /\ next(p).held.id = p
        /\ (Stays(notion[p]) => next(p).held.rev = notion[p].rev)
    BY <1>r DEF WorkerRecords, NoPage, Stays, Live
  <2> HIDE DEF next
  <2>3. LoadInv(next(p))
    BY <2>1, <2>2 DEF LoadInv
  <2> QED BY <2>3, <1>b
<1>17. CASE StoreContent(w)
  <2> DEFINE q == [r EXCEPT !.pc = "fetch", !.held = NoPage]
  <2> PICK p : p = r.held.id
    OBVIOUS
  <2> DEFINE row == WriteContent(rows[p], r.held.rev)
  <2>1. p \in Pages /\ PageInv(p) /\ Writes(w, q, p, row) /\ r.pc = "content"
    BY <1>17, <1>r DEF StoreContent, LoadInv, LoopInv
  <2>2. Unloaded(q)
    BY <1>r DEF WorkerRecords, Unloaded
  <2>r. rows[p] \in Rows /\ RowOf(p, rows[p])
    BY <1>r, <2>1 DEF PageInv, TypeOK
  <2>l. OneEditPerMinute /\ Stays(notion[p]) /\ rows[p].known
        /\ rows[p].edited = notion[p].edited => r.held.rev = notion[p].rev
    BY <1>r, <2>1 DEF LoadInv
  <2>3. RowOf(p, row)
    BY <2>r, <2>l DEF WriteContent, RowOf, Rows
  <2> HIDE DEF q, row
  <2> QED BY <2>1, <2>2, <2>3, <1>w
<1>18. CASE EndPass(w)
  BY <1>18, <1>n DEF EndPass, IdleWorker, Unloaded
<1>19. CASE StoreResync(w)
  BY <1>19, <1>r DEF StoreResync, LoadInv
<1> QED
  BY <1>1, <1>2, <1>3, <1>4, <1>5, <1>6, <1>7, <1>8, <1>9, <1>10, <1>11, <1>12,
     <1>13, <1>14, <1>15, <1>16, <1>17, <1>18, <1>19 DEF Advance

LEMMA FailsLoop ==
    ASSUME LoopAlone, LoopInv, NEW w \in Workers, Fails(w)
    PROVE  LoopInv'
<1> DEFINE r == worker[w]
<1>r. r \in WorkerRecords /\ LoadInv(r) /\ TypeOK
  BY DEF LoopInv, SafeInv, TypeOK
<1>s. SafeInv'
  BY FailsSafe DEF LoopInv
<1>g. ASSUME NEW q, GivesUp(w, q), Unloaded(q) PROVE LoopInv'
  BY <1>s, <1>g, LoopBecomes, NothingLoaded DEF GivesUp, external, mirror
<1>n. Unloaded(NextSource(r)) /\ Unloaded(AfterLoose(r)) /\ Unloaded(IdleWorker)
  BY <1>r DEF WorkerRecords, Unloaded, AfterLoose, NextSource, IdleWorker
<1>1. CASE RowsFail(w)
  BY <1>1, <1>n, <1>g DEF RowsFail
<1>2. CASE SetWatermarkFails(w)
  BY <1>2, <1>n, <1>g DEF SetWatermarkFails
<1>3. CASE ReconcileFails(w)
  <2>1. CASE GivesUp(w, NextSource(r))
    BY <2>1, <1>n, <1>g
  <2>2. ASSUME NEW p \in r.ids,
               rows' = [rows EXCEPT ![p] = TrashRow(rows[p])],
               worker' = [worker EXCEPT ![w] = NextSource(r)],
               UNCHANGED external
        PROVE  LoopInv'
    <3>1. p \in Pages /\ PageInv(p)
      BY <1>r DEF WorkerRecords, LoopInv
    <3>2. RowOf(p, TrashRow(rows[p]))
      BY <1>r, <3>1, TrashedRow
    <3> QED BY <2>2, <3>1, <3>2, <1>n, <1>s, LoopWrites DEF external
  <2> QED BY <2>1, <2>2, <1>3 DEF ReconcileFails
<1>4. CASE LooseFails(w)
  BY <1>4, <1>n, <1>g DEF LooseFails
<1>5. CASE ContentFails(w)
  <2>1. r.pc = "fetch" => \A p \in r.ids : Unloaded([r EXCEPT !.ids = @ \ {p}])
    BY <1>r DEF WorkerRecords, Unloaded
  <2>2. Unloaded([r EXCEPT !.pc = "fetch", !.held = NoPage])
    BY <1>r DEF WorkerRecords, Unloaded
  <2> QED BY <2>1, <2>2, <1>5, <1>n, <1>g DEF ContentFails
<1>6. CASE ResyncFails(w)
  BY <1>6, <1>r DEF ResyncFails, LoadInv
<1> QED BY <1>1, <1>2, <1>3, <1>4, <1>5, <1>6 DEF Fails

LEMMA NextLoop ==
    ASSUME LoopAlone, LoopInv, [Next]_vars
    PROVE  LoopInv'
<1>s. SafeInv' /\ TypeOK
  BY NextSafe DEF LoopInv, SafeInv
<1>1. CASE Environment
  BY <1>1, EnvironmentLoop
<1>2. ASSUME NEW w \in Workers, Start(w) PROVE LoopInv'
  <2>1. PICK full \in BOOLEAN : StartPass(w, full)
    BY <1>2 DEF Start, LoopAlone
  <2> DEFINE q == [IdleWorker EXCEPT !.pc = "source", !.full = full,
                                     !.todo = Sources, !.snap = watermark]
  <2>2. LoadInv(q)
    BY NothingLoaded DEF IdleWorker, Unloaded
  <2>3. Becomes(w, q)
    BY <2>1 DEF StartPass
  <2> HIDE DEF q
  <2> QED BY <2>2, <2>3, <1>s, LoopBecomes DEF Becomes, external, mirror
<1>3. ASSUME NEW w \in Workers, Advance(w) \/ Fails(w) PROVE LoopInv'
  BY <1>3, AdvanceLoop, FailsLoop
<1>4. CASE Crash
  <2>1. \A w \in Workers : LoadInv(worker'[w])
    BY <1>4, NothingLoaded DEF Crash, IdleWorker, Unloaded
  <2>2. UNCHANGED <<notion, found, rows>>
    BY <1>4 DEF Crash, external, mirror
  <2> QED BY <1>s, <2>1, <2>2 DEF LoopInv, PageInv, RowOf, LoadInv, Newest
<1>5. CASE UNCHANGED vars
  BY <1>s, <1>5 DEF vars, LoopInv, PageInv, RowOf, LoadInv, Newest
<1> QED BY <1>1, <1>2, <1>3, <1>4, <1>5 DEF Next

(***************************************************************************)
(* With the sync loop alone, what it reads it stores before anything else  *)
(* writes that row: rows and what is in flight stay in the order of        *)
(* revisions and edit times, through every failure and crash.              *)
(***************************************************************************)
THEOREM LoopInOrder ==
    ASSUME LoopAlone
    PROVE  Spec => []LoopInv
BY LoopInit, NextLoop, PTL DEF Spec

(***************************************************************************)
(* SetContent stamps a body with the edit time the row has when it runs.   *)
(* With the sync loop alone, and no two edits in a minute, the stamp is    *)
(* right: a body with the page's present edit time is its present body.    *)
(***************************************************************************)
THEOREM StampsAreTrue ==
    ASSUME LoopAlone, OneEditPerMinute
    PROVE  Spec => []StampedBodyIsCurrent
<1>1. LoopInv => StampedBodyIsCurrent
  BY DEF LoopInv, PageInv, RowOf, StampedBodyIsCurrent, StampedIsCurrent
<1> QED BY <1>1, LoopInOrder, PTL

-----------------------------------------------------------------------------
(* The refinement: what each step is to the promise. *)

LEMMA Mapped ==
    /\ Truth = [p \in Pages |-> [live |-> Live(notion[p]), rev |-> notion[p].rev]]
    /\ Truth' = [p \in Pages |-> [live |-> Live(notion'[p]), rev |-> notion'[p].rev]]
    /\ Copy = [p \in Pages |-> [live |-> rows[p].known /\ ~rows[p].trash, rev |-> rows[p].rev]]
    /\ Copy' = [p \in Pages |->
                  [live |-> rows'[p].known /\ ~rows'[p].trash, rev |-> rows'[p].rev]]
    /\ Back = {p \in Pages : notion[p].state = "returned"}
    /\ Back' = {p \in Pages : notion'[p].state = "returned"}
BY DEF Truth, Copy, Back, Live

\* One page changes, or one row.
LEMMA TruthAt ==
    ASSUME NEW p \in Pages, NEW page,
           \A q \in Pages : notion'[q] = IF q = p THEN page ELSE notion[q]
    PROVE  Truth' = [Truth EXCEPT ![p] = [live |-> Live(page), rev |-> page.rev]]
BY Mapped

LEMMA CopyAt ==
    ASSUME NEW p \in Pages, NEW row,
           \A q \in Pages : rows'[q] = IF q = p THEN row ELSE rows[q]
    PROVE  Copy' = [Copy EXCEPT ![p] = [live |-> row.known /\ ~row.trash, rev |-> row.rev]]
BY Mapped

\* Neither Notion nor a row changes.
LEMMA PromiseStutters == UNCHANGED <<notion, rows>> => UNCHANGED Promise!vars
BY Mapped DEF Promise!vars

\* What is edited or deleted is there, or was never there; what comes back was there.
LEMMA PromiseChanges ==
    ASSUME LoopInv, NEW p \in Pages, Edit(p) \/ Delete(p) \/ Return(p)
    PROVE  Promise!Next
<1>0. TypeOK /\ PageInv(p) /\ rows' = rows /\ notion[p].rev \in Nat
  BY Numbers DEF Edit, Delete, Return, Change, mirror, LoopInv, SafeInv
<1>1. Copy' = Copy
  BY <1>0, Mapped
<1>2. CASE Edit(p)
  <2>1. notion' = [notion EXCEPT ![p] = [state |-> Again(notion[p]), edited |-> now,
                                         rev |-> notion[p].rev + 1]]
    BY <1>2 DEF Edit, Change
  <2> DEFINE page == [state |-> Again(notion[p]), edited |-> now, rev |-> notion[p].rev + 1]
  <2>a. \A q \in Pages : notion'[q] = IF q = p THEN page ELSE notion[q]
    BY <1>0, <2>1 DEF TypeOK
  <2>b. Live(page) = TRUE /\ page.rev = Truth[p].rev + 1
    BY Mapped DEF Live, Again
  <2>c. (page.state = "returned") = (notion[p].state = "returned")
    BY <1>2 DEF Edit, Again, Gone
  <2> HIDE DEF page
  <2>d. Back' = Back
    BY <2>a, <2>c, Mapped
  <2>2. Truth' = [Truth EXCEPT ![p] = [live |-> TRUE, rev |-> Truth[p].rev + 1]]
    BY <2>a, <2>b, TruthAt
  <2>3. Truth[p].live \/ Truth[p] = Promise!Nothing
    <3>1. Live(notion[p]) \/ notion[p].state = "absent"
      BY <1>0, <1>2 DEF Edit, TypeOK, PageStates, Live
    <3>2. CASE Live(notion[p])
      BY <3>2, Mapped
    <3>3. CASE notion[p].state = "absent"
      <4>1. Live(notion[p]) = FALSE /\ notion[p].rev = 0
        BY <1>0, <3>3 DEF Live, PageInv
      <4> QED BY <4>1, Mapped DEF Promise!Nothing
    <3> QED BY <3>1, <3>2, <3>3
  <2> QED BY <1>1, <2>2, <2>3, <2>d DEF Promise!Next, Promise!Change
<1>3. CASE Delete(p)
  <2>1. notion' = [notion EXCEPT ![p] = [notion[p] EXCEPT !.state = "trashed"]]
        /\ Live(notion[p])
    BY <1>3 DEF Delete, Change
  <2> DEFINE page == [notion[p] EXCEPT !.state = "trashed"]
  <2>a. \A q \in Pages : notion'[q] = IF q = p THEN page ELSE notion[q]
    BY <1>0, <2>1 DEF TypeOK
  <2>b. Live(page) = FALSE /\ page.rev = notion[p].rev /\ page.state = "trashed"
    BY <1>0 DEF Live, TypeOK
  <2> HIDE DEF page
  <2>2. Truth' = [Truth EXCEPT ![p].live = FALSE]
    BY <2>a, <2>b, Mapped
  <2>3. Truth[p].live
    BY <2>1, Mapped
  <2>4. Back' = Back \ {p}
    BY <2>a, <2>b, Mapped
  <2> QED BY <1>1, <2>2, <2>3, <2>4 DEF Promise!Next, Promise!Vanish
<1>4. CASE Return(p)
  <2>1. notion' = [notion EXCEPT ![p] = [notion[p] EXCEPT !.state = "returned"]]
        /\ notion[p].state = "trashed"
    BY <1>4 DEF Return, Change
  <2> DEFINE page == [notion[p] EXCEPT !.state = "returned"]
  <2>a. \A q \in Pages : notion'[q] = IF q = p THEN page ELSE notion[q]
    BY <1>0, <2>1 DEF TypeOK
  <2>b. Live(page) = TRUE /\ page.rev = notion[p].rev /\ page.state = "returned"
    BY <1>0 DEF Live, TypeOK
  <2> HIDE DEF page
  <2>2. Truth' = [Truth EXCEPT ![p].live = TRUE]
    BY <2>a, <2>b, Mapped
  <2>3. ~Truth[p].live /\ Truth[p].rev # 0
    BY <1>0, <2>1, Mapped DEF Live, PageInv
  <2>4. Truth[p] # Promise!Nothing
    BY <2>3 DEF Promise!Nothing
  <2>5. Back' = Back \cup {p}
    BY <2>a, <2>b, Mapped
  <2> QED BY <1>1, <2>2, <2>3, <2>4, <2>5 DEF Promise!Next, Promise!Return
<1> QED BY <1>2, <1>3, <1>4

\* A live object is stored: the copy catches up.
LEMMA PromiseCatchesUp ==
    ASSUME LoopInv, NEW w \in Workers, worker[w].pc \in {"store", "storeLoose"}, NEW source,
           NEW p, p = worker[w].held.id, UNCHANGED notion,
           rows' = [rows EXCEPT ![p] = UpsertRow(rows[p], worker[w].held, source)]
    PROVE  Promise!Next
<1> DEFINE r == worker[w]
<1>1. r \in WorkerRecords /\ LoadInv(r) /\ HeldInv(r) /\ TypeOK
  BY DEF LoopInv, SafeInv, TypeOK, WorkerInv
<1>2. p \in Pages /\ PageInv(p)
  BY <1>1 DEF HeldInv, LoopInv
<1>3. /\ notion[p].rev \in Nat /\ found[p].rev \in Nat /\ rows[p].rev \in Nat
      /\ r.held.rev \in Nat
  BY <1>1, <1>2, Numbers DEF WorkerRecords, Objects
<1>4. Newest(p) <= notion[p].rev /\ Newest(p) \in Nat
  BY <1>2, <1>3 DEF PageInv, Newest
<1>5. /\ rows[p].rev <= r.held.rev /\ r.held.rev <= Newest(p)
      /\ r.held.rev # 0 /\ r.held.trash = FALSE
  <2>1. /\ rows[p].rev <= r.held.rev /\ r.held.rev <= Newest(p)
        /\ r.held.rev # 0 /\ ~r.held.trash
    BY <1>1 DEF LoadInv
  <2>2. r.held.trash \in BOOLEAN
    BY <1>1 DEF WorkerRecords, Objects
  <2> QED BY <2>1, <2>2
<1>6. r.held.rev \in Copy[p].rev .. Truth[p].rev
  <2>1. Copy[p].rev = rows[p].rev /\ Truth[p].rev = notion[p].rev
    BY <1>2, Mapped
  <2>2. rows[p].rev <= r.held.rev /\ r.held.rev <= notion[p].rev
    BY <1>3, <1>4, <1>5
  <2> HIDE DEF r
  <2> QED BY <2>1, <2>2, <1>3
<1>7. Copy' = [Copy EXCEPT ![p] = [live |-> TRUE, rev |-> r.held.rev]]
  <2> DEFINE row == UpsertRow(rows[p], r.held, source)
  <2>1. row.known = TRUE /\ row.trash = FALSE /\ row.rev = r.held.rev
    BY <1>1, <1>2, <1>5 DEF UpsertRow, TypeOK, Rows
  <2>2. \A q \in Pages : rows'[q] = IF q = p THEN row ELSE rows[q]
    BY <1>1, <1>2 DEF TypeOK
  <2> HIDE DEF row
  <2>3. Copy' = [Copy EXCEPT ![p] = [live |-> row.known /\ ~row.trash, rev |-> row.rev]]
    BY <2>2, <1>2, CopyAt
  <2> QED BY <2>1, <2>3
<1>8. Truth' = Truth /\ Back' = Back
  BY Mapped
<1> QED BY <1>2, <1>5, <1>6, <1>7, <1>8 DEF Promise!Next, Promise!CatchUp

\* A row is trashed: its page is gone, or was.
LEMMA PromiseWithdraws ==
    ASSUME LoopInv, NEW w \in Workers, worker[w].pc = "trash", NEW p \in worker[w].ids,
           UNCHANGED notion, rows' = [rows EXCEPT ![p] = TrashRow(rows[p])]
    PROVE  Promise!Next
<1>1. worker[w] \in WorkerRecords /\ SuspectInv(worker[w]) /\ TypeOK
  BY DEF LoopInv, SafeInv, TypeOK, WorkerInv
<1>2. p \in Pages /\ Gone(notion[p])
  BY <1>1 DEF WorkerRecords, SuspectInv
<1>3. Copy' = [Copy EXCEPT ![p].live = FALSE]
  <2> DEFINE row == TrashRow(rows[p])
  <2>1. (row.known /\ ~row.trash) = FALSE /\ row.rev = rows[p].rev
    BY <1>1, <1>2 DEF TrashRow, TypeOK, Rows
  <2>2. \A q \in Pages : rows'[q] = IF q = p THEN row ELSE rows[q]
    BY <1>1, <1>2 DEF TypeOK
  <2> HIDE DEF row
  <2> DEFINE served(q) == rows[q].known /\ ~rows[q].trash
  <2>3. Copy = [q \in Pages |-> [live |-> served(q), rev |-> rows[q].rev]]
    BY Mapped
  <2>4. Copy' = [q \in Pages |-> [live |-> IF q = p THEN FALSE ELSE served(q),
                                 rev |-> rows[q].rev]]
    BY <2>1, <2>2, Mapped
  <2> HIDE DEF served
  <2> QED BY <1>2, <2>3, <2>4
<1>4. Truth' = Truth /\ Back' = Back /\ (~Truth[p].live \/ p \in Back)
  BY <1>2, Mapped DEF Gone, Live
<1> QED BY <1>2, <1>3, <1>4 DEF Promise!Next, Promise!Withdraw

\* A body is stored: what is served of the page is not its revision.
LEMMA PromiseIgnoresBodies ==
    ASSUME TypeOK, NEW w \in Workers, StoreContent(w)
    PROVE  UNCHANGED Promise!vars
<1> PICK p : p = worker[w].held.id
  OBVIOUS
<1> DEFINE row == WriteContent(rows[p], worker[w].held.rev)
<1>1. rows' = [rows EXCEPT ![p] = row] /\ notion' = notion
  BY DEF StoreContent, Writes, external
<1>2. p \in Pages => row.known = rows[p].known /\ row.trash = rows[p].trash
                     /\ row.rev = rows[p].rev
  BY DEF WriteContent, TypeOK, Rows
<1> HIDE DEF row
<1>3. \A q \in Pages : rows'[q] = IF q = p THEN row ELSE rows[q]
  BY <1>1 DEF TypeOK
<1>4. Copy' = Copy
  BY <1>2, <1>3, Mapped
<1>5. Truth' = Truth /\ Back' = Back
  BY <1>1, Mapped
<1> QED BY <1>4, <1>5 DEF Promise!vars

LEMMA PromiseAdvances ==
    ASSUME LoopInv, NEW w \in Workers, Advance(w)
    PROVE  [Promise!Next]_(Promise!vars)
<1>1. CASE StoreRow(w)
  BY <1>1, PromiseCatchesUp DEF StoreRow, Writes, external
<1>2. CASE StoreLoose(w)
  BY <1>2, PromiseCatchesUp DEF StoreLoose, Writes, external
<1>3. CASE TrashPage(w)
  BY <1>3, PromiseWithdraws DEF TrashPage, Writes, external
<1>4. CASE StoreContent(w)
  BY <1>4, PromiseIgnoresBodies DEF LoopInv, SafeInv
<1>5. CASE StoreResync(w)
  BY <1>5 DEF StoreResync, LoopInv, LoadInv
<1>6. CASE SetWatermark(w) \/ EndLoose(w)
  BY <1>6, PromiseStutters DEF SetWatermark, EndLoose, external
<1>7. CASE \E r : Becomes(w, r)
  BY <1>7, PromiseStutters DEF Becomes, external, mirror
<1>8. \/ \E r : Becomes(w, r)
      \/ StoreRow(w) \/ StoreLoose(w) \/ TrashPage(w) \/ StoreContent(w) \/ StoreResync(w)
      \/ SetWatermark(w) \/ EndLoose(w)
  BY DEF Advance, StartSource, ReadRow, EndRows, ListKnown, ListLive, EndListLive,
         EndReconcile, StartLoose, ReadLoose, ListPending, ReadBlocks, EndPass
<1> QED BY <1>1, <1>2, <1>3, <1>4, <1>5, <1>6, <1>7, <1>8

LEMMA PromiseFails ==
    ASSUME LoopInv, NEW w \in Workers, Fails(w)
    PROVE  [Promise!Next]_(Promise!vars)
<1>1. CASE \E r : Becomes(w, r) \/ GivesUp(w, r)
  BY <1>1, PromiseStutters DEF Becomes, GivesUp, external, mirror
<1>2. CASE /\ worker[w].pc = "trash" /\ UNCHANGED external
           /\ \E p \in worker[w].ids : rows' = [rows EXCEPT ![p] = TrashRow(rows[p])]
  BY <1>2, PromiseWithdraws DEF external
<1> QED BY <1>1, <1>2 DEF Fails, RowsFail, SetWatermarkFails, ReconcileFails, LooseFails,
             ContentFails, ResyncFails

LEMMA PromiseSteps ==
    ASSUME LoopAlone, LoopInv, [Next]_vars
    PROVE  [Promise!Next]_(Promise!vars)
<1>1. CASE Environment
  BY <1>1, PromiseChanges, PromiseStutters DEF Environment, Tick, SearchCatchesUp, mirror
<1>2. ASSUME NEW w \in Workers, Start(w) \/ Advance(w) \/ Fails(w)
      PROVE  [Promise!Next]_(Promise!vars)
  <2>1. CASE Start(w)
    BY <2>1, PromiseStutters DEF Start, StartPass, StartResync, Becomes, external, mirror
  <2> QED BY <1>2, <2>1, PromiseAdvances, PromiseFails
<1>3. CASE Crash \/ UNCHANGED vars
  BY <1>3, PromiseStutters DEF Crash, vars, external, mirror
<1> QED BY <1>1, <1>2, <1>3 DEF Next

(***************************************************************************)
(* The sync loop alone implements the promise, step by step: whatever      *)
(* fails, lags or dies, a page's row is a state the page was in, moves     *)
(* forward only, and is withdrawn only of a page that has been away.       *)
(***************************************************************************)
THEOREM PromiseKept ==
    ASSUME LoopAlone
    PROVE  Spec => Promise!Init /\ [][Promise!Next]_(Promise!vars)
<1>1. Init => Promise!Init
  <2> SUFFICES ASSUME Init PROVE Promise!Init
    OBVIOUS
  <2>1. \A p \in Pages : /\ Live(notion[p]) = FALSE /\ notion[p].rev = 0
                         /\ (rows[p].known /\ ~rows[p].trash) = FALSE /\ rows[p].rev = 0
    BY DEF Init, NoRow, Absent, Live
  <2>2. Truth = [p \in Pages |-> Promise!Nothing] /\ Copy = [p \in Pages |-> Promise!Nothing]
    BY <2>1, Mapped DEF Promise!Nothing
  <2>3. Back = {}
    BY Mapped DEF Init, Absent
  <2> QED BY <2>2, <2>3 DEF Promise!Init
<1> QED BY <1>1, PromiseSteps, LoopInOrder, PTL DEF Spec
=============================================================================
