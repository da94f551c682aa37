---------------------------- MODULE Views_proofs ----------------------------
(***************************************************************************)
(* Proofs about Views.                                                     *)
(*                                                                         *)
(* The views of a mirror that one daemon keeps, for any data sources and   *)
(* whatever fails: each agrees with the row it was made for, or is being   *)
(* remade, or was given up by a statement that failed.  The argument is    *)
(* about what the daemon has yet to do.  A view that a death left torn is  *)
(* of a stored source and so among those EnsureViews still has before it,  *)
(* or of a source that is not stored, which the next Discover takes for    *)
(* new.                                                                    *)
(*                                                                         *)
(* For any number of daemons: the types, and that a query finds the        *)
(* properties of a page through the view of its schema.                    *)
(***************************************************************************)
EXTENDS Views, TLAPS

AllSchemas == UNION {SchemasOf(s) : s \in Sources}
Sheets == [Sources -> AllSchemas]
Records == [pc : PcStates, todo : SUBSET Sources, source : Sources \cup {NoForm},
            lazy : BOOLEAN, parents : SUBSET {ParentOf[s] : s \in Sources}, schemas : Sheets]

TypeInv ==
    /\ DOMAIN remote = Sources
    /\ \A s \in Sources : remote[s] \in FormsOf[s] \cup {NoForm}
    /\ rows \in Sheets /\ views \in Sheets
    /\ proc \in [Daemons -> Records]
    /\ failed \subseteq torn /\ torn \subseteq Sources
    /\ \A d \in Daemons :
          proc[d].pc \in {"ensure create", "drop", "create", "store"} => proc[d].source \in Sources

\* The stored sources whose view is torn, and no statement has failed.
Torn == {s \in Stored : s \in torn /\ s \notin failed}

\* What daemon state r has yet to do about them, and what it knows of the one in hand.
Keeps(r) ==
    /\ r.pc = "ensure" => Torn \subseteq r.todo
    /\ r.pc = "ensure create" =>
          Torn \subseteq r.todo \cup {r.source} /\ views[r.source] = NoForm
    /\ r.pc \in {"ensure", "ensure create"} => r.schemas = rows
    /\ r.pc \in {"idle", "walk", "drop", "parents", "pass"} => Torn = {}
    /\ r.pc \in {"create", "store"} => Torn \subseteq {r.source}
    /\ r.pc = "create" => r.source \in torn \ failed
    /\ r.pc = "store" =>
          /\ r.source \in torn \ failed => views[r.source] = r.schemas[r.source]
          /\ r.source \notin torn => rows[r.source] = r.schemas[r.source]

ViewsInv ==
    /\ TypeInv
    /\ \A s \in Sources \ torn : views[s] = rows[s]
    /\ \A d \in Daemons : Keeps(proc[d])

OneDaemon == \A d, e \in Daemons : d = e

-----------------------------------------------------------------------------
(* Types. *)

LEMMA SchemaType ==
    ASSUME NEW s \in Sources, NEW f \in FormsOf[s] \cup {NoForm}
    PROVE  Schema(f) \in SchemasOf(s) /\ Schema(f) \in AllSchemas /\ NoForm \in AllSchemas
BY DEF Schema, SchemasOf, AllSchemas

LEMMA OffType ==
    ASSUME TypeInv
    PROVE  /\ Off \in Records /\ Off.pc = "off" /\ Off.todo = {}
           /\ [s \in Sources |-> Schema(remote[s])] \in Sheets
<1>1. \A s \in Sources : NoForm \in AllSchemas
  BY DEF SchemasOf, AllSchemas
<1>2. [s \in Sources |-> NoForm] \in Sheets
  BY <1>1 DEF Sheets
<1>3. \A s \in Sources : Schema(remote[s]) \in AllSchemas
  BY SchemaType DEF TypeInv
<1> QED BY <1>2, <1>3 DEF Off, Records, PcStates, Sheets

\* Daemon d goes on as r, and nothing else that is typed changes but the tables.
LEMMA GoesType ==
    ASSUME TypeInv, NEW d \in Daemons, NEW r \in Records, Goes(d, r),
           r.pc \in {"ensure create", "drop", "create", "store"} => r.source \in Sources,
           remote' = remote, rows' \in Sheets, views' \in Sheets,
           failed' \subseteq torn', torn' \subseteq Sources
    PROVE  TypeInv' /\ proc'[d] = r /\ \A e \in Daemons \ {d} : proc'[e] = proc[e]
BY DEF TypeInv, Goes

LEMMA RecordType ==
    ASSUME TypeInv, NEW d \in Daemons
    PROVE  /\ proc[d] \in Records
           /\ \A pc \in PcStates : [proc[d] EXCEPT !.pc = pc] \in Records
           /\ \A pc \in PcStates, todo \in SUBSET Sources :
                 /\ [proc[d] EXCEPT !.todo = todo] \in Records
                 /\ [Off EXCEPT !.pc = pc, !.todo = todo] \in Records
           /\ \A pc \in PcStates : [Off EXCEPT !.pc = pc] \in Records
BY OffType DEF TypeInv, Records

-----------------------------------------------------------------------------
(* Steps. *)

\* The one daemon takes a step.
LEMMA StepInv ==
    ASSUME OneDaemon, TypeInv', NEW d \in Daemons, Keeps(proc[d])',
           \A s \in Sources \ torn' : views'[s] = rows'[s]
    PROVE  ViewsInv'
<1>1. \A e \in Daemons : e = d
  BY DEF OneDaemon
<1> QED BY <1>1 DEF ViewsInv

\* Steps that leave the tables and what is torn of them alone.
LEMMA TablesKept ==
    ASSUME OneDaemon, ViewsInv, NEW d \in Daemons, NEW r \in Records, Goes(d, r),
           r.pc \in {"ensure create", "drop", "create", "store"} => r.source \in Sources,
           UNCHANGED <<remote, rows, views, torn, failed>>, Keeps(r)
    PROVE  ViewsInv'
<1>1. TypeInv' /\ proc'[d] = r
  BY GoesType DEF ViewsInv, TypeInv
<1>2. Keeps(proc[d])'
  BY <1>1 DEF Keeps, Torn, Stored
<1> QED BY <1>1, <1>2, StepInv DEF ViewsInv

LEMMA EnsureInv ==
    ASSUME OneDaemon, ViewsInv, NEW d \in Daemons,
           Open(d) \/ EnsureDrop(d) \/ EnsureCreate(d) \/ Serve(d)
    PROVE  ViewsInv'
<1> USE DEF ViewsInv
<1>0. proc[d] \in Records /\ Keeps(proc[d]) /\ Off \in Records
  BY RecordType, OffType
<1>1. CASE Open(d)
  <2> DEFINE r == [Off EXCEPT !.pc = "ensure", !.todo = Stored, !.schemas = rows]
  <2>1. r \in Records /\ r.pc = "ensure" /\ r.todo = Stored /\ r.schemas = rows
    BY <1>0 DEF Records, PcStates, Stored, TypeInv
  <2>2. Goes(d, r) /\ UNCHANGED <<remote, rows, views, torn, failed>>
    BY <1>1 DEF Open
  <2> HIDE DEF r
  <2>3. Keeps(r)
    BY <2>1 DEF Keeps, Torn
  <2> QED BY <2>1, <2>2, <2>3, TablesKept
<1>2. CASE EnsureDrop(d)
  <2>1. PICK s \in proc[d].todo :
           /\ Dropped(s)
           /\ Goes(d, [proc[d] EXCEPT !.pc = "ensure create", !.source = s, !.todo = @ \ {s}])
    BY <1>2 DEF EnsureDrop
  <2> DEFINE r == [proc[d] EXCEPT !.pc = "ensure create", !.source = s, !.todo = @ \ {s}]
  <2>2. proc[d].pc = "ensure" /\ UNCHANGED <<remote, rows>> /\ s \in Sources
    BY <1>0, <1>2 DEF EnsureDrop, At, Records
  <2>3. /\ r \in Records /\ r.pc = "ensure create" /\ r.source = s
        /\ r.todo = proc[d].todo \ {s} /\ r.schemas = proc[d].schemas
    BY <1>0, <2>2 DEF Records, PcStates
  <2>4. /\ views' \in Sheets /\ views'[s] = NoForm
        /\ \A t \in Sources \ {s} : views'[t] = views[t]
        /\ torn' = torn \cup {s} /\ failed' = failed \ {s}
    <3>1. NoForm \in AllSchemas
      BY <2>2, SchemaType
    <3> QED BY <2>1, <2>2, <3>1 DEF Dropped, TypeInv, Sheets
  <2> HIDE DEF r
  <2>5. TypeInv' /\ proc'[d] = r
    BY <2>1, <2>2, <2>3, <2>4, GoesType DEF TypeInv, r
  <2>6. Torn' \subseteq Torn \cup {s} /\ Torn \subseteq proc[d].todo /\ proc[d].schemas = rows
    BY <1>0, <2>2, <2>4 DEF Torn, Stored, Keeps
  <2>7. Keeps(proc[d])'
    BY <2>2, <2>3, <2>4, <2>5, <2>6 DEF Keeps
  <2> QED BY <2>2, <2>4, <2>5, <2>7, StepInv
<1>3. CASE EnsureCreate(d)
  <2> DEFINE s == proc[d].source
  <2>1. /\ proc[d].pc = "ensure create" /\ s \in Sources /\ views[s] = NoForm
        /\ proc[d].schemas = rows /\ Torn \subseteq proc[d].todo \cup {s}
    BY <1>0, <1>3 DEF EnsureCreate, At, TypeInv, Keeps
  <2>2. /\ views' = [views EXCEPT ![s] = rows[s]] /\ Made(s)
        /\ Goes(d, [proc[d] EXCEPT !.pc = "ensure"]) /\ UNCHANGED <<remote, rows>>
    BY <1>3, <2>1 DEF EnsureCreate, Moves
  <2>3. LET r == [proc[d] EXCEPT !.pc = "ensure"] IN
        r \in Records /\ r.pc = "ensure" /\ r.todo = proc[d].todo /\ r.schemas = rows
    BY <1>0, <2>1 DEF Records, PcStates
  <2> HIDE DEF s
  <2>4. /\ views' \in Sheets /\ views'[s] = rows[s]
        /\ \A t \in Sources \ {s} : views'[t] = views[t]
        /\ torn' = torn \ {s} /\ failed' = failed \ {s}
    BY <2>1, <2>2 DEF Made, TypeInv, Sheets
  <2>5. TypeInv' /\ proc'[d] = [proc[d] EXCEPT !.pc = "ensure"]
    BY <2>2, <2>3, <2>4, GoesType DEF TypeInv
  <2>6. Torn' \subseteq proc[d].todo
    BY <2>1, <2>2, <2>4 DEF Torn, Stored
  <2>7. Keeps(proc[d])'
    BY <2>2, <2>3, <2>5, <2>6 DEF Keeps
  <2> QED BY <2>2, <2>4, <2>5, <2>7, StepInv
<1>4. CASE Serve(d)
  <2>1. PICK r \in Records : Goes(d, r) /\ r.pc \in {"off", "idle"}
    <3>1. Goes(d, Off) \/ Goes(d, [Off EXCEPT !.pc = "idle"])
      BY <1>4 DEF Serve
    <3>2. [Off EXCEPT !.pc = "idle"] \in Records /\ [Off EXCEPT !.pc = "idle"].pc = "idle"
      BY <1>0 DEF Records, PcStates
    <3> QED BY <1>0, <3>1, <3>2, OffType
  <2>2. proc[d].pc = "ensure" /\ Torn = {} /\ UNCHANGED <<remote, rows, views, torn, failed>>
    BY <1>0, <1>4 DEF Serve, At, Keeps
  <2>3. Keeps(r)
    BY <2>1, <2>2 DEF Keeps
  <2> QED BY <2>1, <2>2, <2>3, TablesKept
<1> QED BY <1>1, <1>2, <1>3, <1>4

\* States in which nothing of a view is in hand.
Resting == {"off", "idle", "walk", "drop", "parents", "pass"}

\* From one of them, or when the view in hand is no matter, the daemon goes on to another.
LEMMA RestingInv ==
    ASSUME OneDaemon, ViewsInv, NEW d \in Daemons, NEW r \in Records, Goes(d, r),
           r.pc \in Resting, r.pc = "drop" => r.source \in Sources,
           r.pc # "off" => Torn = {},
           UNCHANGED <<remote, rows, views, torn, failed>>
    PROVE  ViewsInv'
<1>1. Keeps(r)
  BY DEF Keeps, Resting
<1>2. r.pc \in {"ensure create", "drop", "create", "store"} => r.source \in Sources
  BY DEF Resting
<1> QED BY <1>1, <1>2, TablesKept

LEMMA WalkInv ==
    ASSUME OneDaemon, ViewsInv, NEW d \in Daemons,
           Discover(d) \/ FallBack(d) \/ EndWalk(d) \/ StoreParents(d) \/ StorePage(d) \/ EndPass(d)
    PROVE  ViewsInv'
<1> USE DEF ViewsInv
<1>0. proc[d] \in Records /\ Keeps(proc[d]) /\ Off \in Records
  BY RecordType, OffType
<1>1. UNCHANGED <<remote, rows, views, torn, failed>> /\ Torn = {}
  BY <1>0 DEF Discover, FallBack, EndWalk, StoreParents, StorePage, EndPass, At, Keeps
<1>2. ASSUME NEW r \in Records, Goes(d, r), r.pc \in {"idle", "walk", "parents", "pass"}
      PROVE  ViewsInv'
  BY <1>1, <1>2, RestingInv DEF Resting
<1>3. CASE Discover(d)
  <2> DEFINE schemas == [s \in Sources |-> Schema(remote[s])]
             r == [Off EXCEPT !.pc = "walk", !.todo = Shared, !.schemas = schemas]
  <2>1. schemas \in Sheets /\ Shared \in SUBSET Sources
    BY OffType DEF Shared
  <2>2. Goes(d, r)
    BY <1>3 DEF Discover
  <2> HIDE DEF schemas
  <2>3. r \in Records /\ r.pc = "walk"
    BY <1>0, <2>1 DEF Records, PcStates
  <2> QED BY <1>2, <2>2, <2>3
<1>4. CASE FallBack(d)
  <2>1. PICK todo \in SUBSET Sources : Goes(d, [proc[d] EXCEPT !.lazy = TRUE, !.todo = todo])
    BY <1>4 DEF FallBack
  <2>2. proc[d].pc = "walk"
    BY <1>4 DEF FallBack, At
  <2>3. LET r == [proc[d] EXCEPT !.lazy = TRUE, !.todo = todo] IN
        r \in Records /\ r.pc = "walk"
    BY <1>0, <2>2 DEF Records
  <2> QED BY <1>2, <2>1, <2>3
<1>5. CASE EndWalk(d)
  <2>1. LET r == [proc[d] EXCEPT !.pc = "parents"] IN r \in Records /\ r.pc = "parents"
    BY <1>0 DEF Records, PcStates
  <2> QED BY <1>2, <1>5, <2>1 DEF EndWalk, Moves
<1>6. CASE StoreParents(d)
  <2>1. Stored \in SUBSET Sources
    BY DEF Stored
  <2>2. LET r == [Off EXCEPT !.pc = "pass", !.todo = Stored] IN r \in Records /\ r.pc = "pass"
    BY <1>0, <2>1 DEF Records, PcStates
  <2> QED BY <1>2, <1>6, <2>2 DEF StoreParents
<1>7. CASE StorePage(d)
  <2>1. PICK s \in proc[d].todo : Goes(d, [proc[d] EXCEPT !.todo = @ \ {s}])
    BY <1>7 DEF StorePage
  <2>2. LET r == [proc[d] EXCEPT !.todo = @ \ {s}] IN r \in Records /\ r.pc = "pass"
    BY <1>0, <1>7 DEF Records, StorePage, At
  <2> QED BY <1>2, <2>1, <2>2
<1>8. CASE EndPass(d)
  <2>1. LET r == [Off EXCEPT !.pc = "idle"] IN r \in Records /\ r.pc = "idle"
    BY <1>0 DEF Records, PcStates
  <2> QED BY <1>2, <1>8, <2>1 DEF EndPass
<1> QED BY <1>3, <1>4, <1>5, <1>6, <1>7, <1>8

LEMMA TakeInv ==
    ASSUME OneDaemon, ViewsInv, NEW d \in Daemons, Take(d)
    PROVE  ViewsInv'
<1> USE DEF ViewsInv
<1>0. proc[d] \in Records /\ Keeps(proc[d]) /\ proc[d].pc = "walk" /\ Torn = {}
  BY RecordType DEF Take, At, Keeps
<1>1. UNCHANGED <<remote, rows, views, torn, failed>>
  BY DEF Take
<1>2. PICK s \in proc[d].todo, schema \in AllSchemas :
         LET r == [proc[d] EXCEPT !.todo = @ \ {s}] IN
         Goes(d, IF schema = NoForm THEN r
                 ELSE [r EXCEPT !.source = s, !.schemas[s] = schema,
                                !.pc = IF schema = rows[s] THEN "store" ELSE "drop"])
  <2>1. PICK s \in proc[d].todo :
           LET schema == IF proc[d].lazy THEN Schema(remote[s]) ELSE proc[d].schemas[s]
               r == [proc[d] EXCEPT !.todo = @ \ {s}]
           IN Goes(d, IF schema = NoForm THEN r
                      ELSE [r EXCEPT !.source = s, !.schemas[s] = schema,
                                     !.pc = IF schema = rows[s] THEN "store" ELSE "drop"])
    BY DEF Take
  <2>2. s \in Sources
    BY <1>0, <2>1 DEF Records
  <2>3. Schema(remote[s]) \in AllSchemas /\ proc[d].schemas[s] \in AllSchemas
    BY <1>0, <2>2, SchemaType DEF TypeInv, Records, Sheets
  <2> QED BY <2>1, <2>3
<1> DEFINE todo == proc[d].todo \ {s}
           sheet == [proc[d].schemas EXCEPT ![s] = schema]
<1>3. s \in Sources /\ todo \in SUBSET Sources /\ sheet \in Sheets /\ sheet[s] = schema
  BY <1>0, <1>2 DEF Records, Sheets
<1>4. CASE schema = NoForm
  <2>1. LET r == [proc[d] EXCEPT !.todo = @ \ {s}] IN
        r \in Records /\ r.pc = "walk" /\ Goes(d, r)
    BY <1>0, <1>2, <1>3, <1>4 DEF Records
  <2> QED BY <1>0, <1>1, <2>1, RestingInv DEF Resting
<1>5. CASE schema # NoForm
  <2>1. PICK pc \in {"store", "drop"} :
           /\ pc = "store" <=> schema = rows[s]
           /\ Goes(d, [[proc[d] EXCEPT !.todo = @ \ {s}] EXCEPT
                         !.source = s, !.schemas[s] = schema, !.pc = pc])
    BY <1>2, <1>5
  <2> DEFINE r == [[proc[d] EXCEPT !.todo = @ \ {s}] EXCEPT
                      !.source = s, !.schemas[s] = schema, !.pc = pc]
  <2>2. /\ r \in Records /\ r.pc = pc /\ r.source = s /\ r.schemas = sheet
    BY <1>0, <1>3, <2>1 DEF Records, PcStates
  <2> HIDE DEF r, sheet
  <2>3. Keeps(r)
    <3>1. pc = "store" /\ s \in torn \ failed => s \in Torn
      BY <1>3, <1>5, <2>1 DEF Torn, Stored
    <3> QED BY <1>0, <1>3, <2>1, <2>2, <3>1 DEF Keeps
  <2>4. Goes(d, r)
    BY <2>1 DEF r
  <2> QED BY <1>1, <1>3, <2>2, <2>3, <2>4, TablesKept
<1> QED BY <1>4, <1>5

LEMMA RemakeInv ==
    ASSUME OneDaemon, ViewsInv, NEW d \in Daemons, Drop(d) \/ Create(d) \/ Store(d)
    PROVE  ViewsInv'
<1> USE DEF ViewsInv
<1> DEFINE s == proc[d].source
<1>0. proc[d] \in Records /\ Keeps(proc[d]) /\ s \in Sources /\ proc[d].schemas[s] \in AllSchemas
  <2>1. proc[d] \in Records /\ Keeps(proc[d])
    BY RecordType
  <2>2. proc[d].pc \in {"drop", "create", "store"}
    BY DEF Drop, Create, Store, At
  <2>3. s \in Sources
    BY <2>2 DEF TypeInv
  <2>4. proc[d].schemas \in Sheets
    BY <2>1 DEF Records
  <2> QED BY <2>1, <2>3, <2>4 DEF Sheets
<1>1. CASE Drop(d)
  <2> DEFINE r == [proc[d] EXCEPT !.pc = "create"]
  <2>1. /\ proc[d].pc = "drop" /\ Torn = {} /\ UNCHANGED <<remote, rows>>
        /\ Dropped(s) /\ Goes(d, r)
    BY <1>0, <1>1 DEF Drop, At, Moves, Keeps
  <2>2. /\ r \in Records /\ r.pc = "create" /\ r.source = s
    BY <1>0 DEF Records, PcStates
  <2> HIDE DEF r, s
  <2>3. /\ views' \in Sheets /\ \A t \in Sources \ {s} : views'[t] = views[t]
        /\ torn' = torn \cup {s} /\ failed' = failed \ {s}
    <3>1. NoForm \in AllSchemas
      BY <1>0, SchemaType
    <3> QED BY <1>0, <2>1, <3>1 DEF Dropped, TypeInv, Sheets
  <2>4. TypeInv' /\ proc'[d] = r
    BY <1>0, <2>1, <2>2, <2>3, GoesType DEF TypeInv
  <2>5. Torn' \subseteq {s}
    BY <2>1, <2>3 DEF Torn, Stored
  <2>6. Keeps(proc[d])'
    BY <2>2, <2>3, <2>4, <2>5 DEF Keeps
  <2> QED BY <2>1, <2>3, <2>4, <2>6, StepInv
<1>2. CASE Create(d) /\ views[s] # NoForm
  <2> DEFINE r == [proc[d] EXCEPT !.pc = "walk"]
  <2>1. /\ Torn \subseteq {s} /\ s \in torn /\ UNCHANGED <<remote, rows, views, torn>>
        /\ failed' = failed \cup {s} /\ Goes(d, r)
    BY <1>0, <1>2 DEF Create, At, Moves, Keeps
  <2>2. r \in Records /\ r.pc = "walk"
    BY <1>0 DEF Records, PcStates
  <2> HIDE DEF r, s
  <2>3. TypeInv' /\ proc'[d] = r
    BY <2>1, <2>2, GoesType DEF TypeInv
  <2>4. Torn' = {}
    BY <2>1 DEF Torn, Stored
  <2>5. Keeps(proc[d])'
    BY <2>2, <2>3, <2>4 DEF Keeps
  <2> QED BY <2>1, <2>3, <2>5, StepInv
<1>3. CASE Create(d) /\ views[s] = NoForm
  <2> DEFINE r == [proc[d] EXCEPT !.pc = "store"]
  <2>1. /\ Torn \subseteq {s} /\ s \in torn \ failed /\ UNCHANGED <<remote, rows, torn, failed>>
        /\ views' = [views EXCEPT ![s] = proc[d].schemas[s]] /\ Goes(d, r)
    BY <1>0, <1>3 DEF Create, At, Moves, Keeps
  <2>2. r \in Records /\ r.pc = "store" /\ r.source = s /\ r.schemas = proc[d].schemas
    BY <1>0 DEF Records, PcStates
  <2> HIDE DEF r, s
  <2>3. /\ views' \in Sheets /\ views'[s] = proc[d].schemas[s]
        /\ \A t \in Sources \ {s} : views'[t] = views[t]
    BY <1>0, <2>1 DEF TypeInv, Sheets
  <2>4. TypeInv' /\ proc'[d] = r
    BY <2>1, <2>2, <2>3, <1>0, GoesType DEF TypeInv
  <2>5. Torn' \subseteq {s}
    BY <2>1 DEF Torn, Stored
  <2>6. Keeps(proc[d])'
    BY <2>1, <2>2, <2>3, <2>4, <2>5 DEF Keeps
  <2> QED BY <2>1, <2>3, <2>4, <2>6, StepInv
<1>4. CASE Store(d)
  <2>1. /\ proc[d].pc = "store" /\ Torn \subseteq {s}
        /\ s \in torn \ failed => views[s] = proc[d].schemas[s]
        /\ s \notin torn => views[s] = proc[d].schemas[s]
    BY <1>0, <1>4 DEF Store, At, Keeps
  <2>2. /\ rows' = [rows EXCEPT ![s] = proc[d].schemas[s]] /\ UNCHANGED <<remote, views>>
        /\ IF views[s] = rows'[s] THEN Made(s) ELSE UNCHANGED <<torn, failed>>
    BY <1>4 DEF Store
  <2>3. PICK r \in Records : Goes(d, r) /\ r.pc = "walk"
    <3>1. PICK parents \in SUBSET {ParentOf[t] : t \in Sources} :
             Goes(d, [proc[d] EXCEPT !.pc = "walk", !.parents = parents])
      <4>1. proc[d].parents \cup {ParentOf[s]} \in SUBSET {ParentOf[t] : t \in Sources}
        BY <1>0 DEF Records
      <4>2. proc[d].parents \in SUBSET {ParentOf[t] : t \in Sources}
        BY <1>0 DEF Records
      <4> QED BY <1>4, <4>1, <4>2 DEF Store
    <3>2. LET r == [proc[d] EXCEPT !.pc = "walk", !.parents = parents] IN
          r \in Records /\ r.pc = "walk"
      BY <1>0, <3>1 DEF Records, PcStates
    <3> QED BY <3>1, <3>2
  <2> HIDE DEF s
  <2>4. /\ rows' \in Sheets /\ rows'[s] = proc[d].schemas[s]
        /\ \A t \in Sources \ {s} : rows'[t] = rows[t]
    BY <1>0, <2>2 DEF TypeInv, Sheets
  <2>5. /\ \/ views[s] = rows'[s] /\ torn' = torn \ {s} /\ failed' = failed \ {s}
           \/ s \in failed /\ s \in torn /\ torn' = torn /\ failed' = failed
    BY <2>1, <2>2, <2>4 DEF Made, TypeInv
  <2>6. TypeInv' /\ proc'[d] = r
    <3>1. failed' \subseteq torn' /\ torn' \subseteq Sources
      BY <2>5 DEF TypeInv
    <3> QED BY <2>2, <2>3, <2>4, <3>1, GoesType DEF TypeInv
  <2>7. Torn' = {}
    BY <2>1, <2>4, <2>5 DEF Torn, Stored
  <2>8. Keeps(proc[d])'
    BY <2>3, <2>6, <2>7 DEF Keeps
  <2>9. \A t \in Sources \ torn' : views'[t] = rows'[t]
    BY <2>2, <2>4, <2>5
  <2> QED BY <2>6, <2>8, <2>9, StepInv
<1> QED BY <1>1, <1>2, <1>3, <1>4

LEMMA FailsInv ==
    ASSUME OneDaemon, ViewsInv, NEW d \in Daemons, Fails(d) \/ Dies(d)
    PROVE  ViewsInv'
<1> USE DEF ViewsInv
<1>0. /\ proc[d] \in Records /\ Keeps(proc[d]) /\ Off \in Records /\ Off.pc = "off"
      /\ UNCHANGED <<remote, rows, views, torn>> /\ Stored \in SUBSET Sources
  BY RecordType, OffType DEF Fails, Dies, Stored
<1>1. CASE Dies(d)
  <2>1. Goes(d, Off) /\ failed' = failed
    BY <1>1 DEF Dies
  <2> QED BY <1>0, <2>1, RestingInv DEF Resting
<1>2. CASE Fails(d) /\ proc[d].pc = "ensure create"
  <2>1. Goes(d, Off) /\ failed' = failed
    BY <1>2 DEF Fails, At
  <2> QED BY <1>0, <2>1, RestingInv DEF Resting
<1>3. CASE Fails(d) /\ proc[d].pc \in {"drop", "create", "store"}
  <2> DEFINE s == proc[d].source
             r == [proc[d] EXCEPT !.pc = "walk"]
  <2>1. /\ Goes(d, r)
        /\ failed' = IF proc[d].pc \in {"create", "store"} THEN failed \cup ({s} \cap torn)
                     ELSE failed
    BY <1>3 DEF Fails, At, Moves
  <2>2. r \in Records /\ r.pc = "walk"
    BY <1>0 DEF Records, PcStates
  <2>3. /\ proc[d].pc = "drop" => Torn = {}
        /\ proc[d].pc \in {"create", "store"} => Torn \subseteq {s}
    BY <1>0 DEF Keeps
  <2> HIDE DEF r, s
  <2>4. TypeInv' /\ proc'[d] = r
    BY <1>0, <2>1, <2>2, GoesType DEF TypeInv
  <2>5. Torn' = {}
    BY <1>0, <1>3, <2>1, <2>3 DEF Torn, Stored
  <2>6. Keeps(proc[d])'
    BY <2>2, <2>4, <2>5 DEF Keeps
  <2> QED BY <1>0, <2>4, <2>6, StepInv
<1>4. CASE Fails(d) /\ proc[d].pc \in {"walk", "parents", "pass"}
  <2>1. Torn = {} /\ failed' = failed
    BY <1>0, <1>4 DEF Fails, Keeps
  <2>2. ASSUME NEW r \in Records, Goes(d, r), r.pc \in {"idle", "walk", "pass"}
        PROVE  ViewsInv'
    BY <1>0, <2>1, <2>2, RestingInv DEF Resting
  <2>3. ASSUME NEW s \in proc[d].todo, proc[d].pc \in {"walk", "pass"},
               Goes(d, [proc[d] EXCEPT !.todo = @ \ {s}])
        PROVE  ViewsInv'
    <3>1. LET r == [proc[d] EXCEPT !.todo = @ \ {s}] IN
          r \in Records /\ r.pc \in {"walk", "pass"}
      BY <1>0, <2>3 DEF Records
    <3> QED BY <2>2, <2>3, <3>1
  <2>4. ASSUME Goes(d, [Off EXCEPT !.pc = "idle"]) PROVE ViewsInv'
    <3>1. LET r == [Off EXCEPT !.pc = "idle"] IN r \in Records /\ r.pc = "idle"
      BY <1>0 DEF Records, PcStates
    <3> QED BY <2>2, <2>4, <3>1
  <2>5. ASSUME Goes(d, [Off EXCEPT !.pc = "pass", !.todo = Stored]) PROVE ViewsInv'
    <3>1. LET r == [Off EXCEPT !.pc = "pass", !.todo = Stored] IN r \in Records /\ r.pc = "pass"
      BY <1>0 DEF Records, PcStates
    <3> QED BY <2>2, <2>5, <3>1
  <2> QED BY <1>4, <2>3, <2>4, <2>5 DEF Fails, At
<1> QED BY <1>1, <1>2, <1>3, <1>4 DEF Fails

LEMMA EditInv ==
    ASSUME ViewsInv, (\E s \in Sources : Edit(s)) \/ UNCHANGED vars
    PROVE  ViewsInv'
<1> USE DEF ViewsInv
<1>1. UNCHANGED <<rows, views, proc, torn, failed>>
  BY DEF Edit, vars
<1>2. DOMAIN remote' = Sources /\ \A s \in Sources : remote'[s] \in FormsOf[s] \cup {NoForm}
  <2>1. CASE \E s \in Sources : Edit(s)
    <3>1. PICK s \in Sources : Edit(s)
      BY <2>1
    <3>2. PICK f \in FormsOf[s] \cup {NoForm} : remote' = [remote EXCEPT ![s] = f]
      BY <3>1 DEF Edit
    <3> QED BY <3>2 DEF TypeInv
  <2>2. CASE UNCHANGED vars
    BY <2>2 DEF vars, TypeInv
  <2> QED BY <2>1, <2>2
<1>3. \A d \in Daemons : Keeps(proc[d])'
  BY <1>1 DEF Keeps, Torn, Stored
<1> QED BY <1>1, <1>2, <1>3 DEF TypeInv

LEMMA InitInv == Init => ViewsInv
<1> SUFFICES ASSUME Init PROVE ViewsInv
  OBVIOUS
<1>1. \A s \in Sources : remote[s] \in FormsOf[s] \cup {NoForm}
  BY ViewsAssumption DEF Init
<1>2. [s \in Sources |-> NoForm] \in Sheets
  BY SchemaType DEF Sheets
<1>3. Off \in Records /\ Off.pc = "off"
  <2>1. NoForm \in AllSchemas \/ Sources = {}
    BY SchemaType
  <2> QED BY <1>2 DEF Off, Records, PcStates
<1>4. TypeInv
  BY <1>1, <1>2, <1>3 DEF Init, TypeInv
<1>5. \A d \in Daemons : Keeps(proc[d])
  BY <1>3 DEF Init, Keeps
<1> QED BY <1>4, <1>5 DEF Init, ViewsInv

LEMMA Invariant ==
    ASSUME OneDaemon
    PROVE  Spec => []ViewsInv
<1>1. ViewsInv /\ [Next]_vars => ViewsInv'
  BY EnsureInv, WalkInv, TakeInv, RemakeInv, FailsInv, EditInv DEF Next, Progress
<1> QED BY <1>1, InitInv, PTL DEF Spec

(***************************************************************************)
(* With one daemon: for any data sources and schemas, and any number of    *)
(* failed statements and deaths, UpsertDataSource and EnsureViews keep the *)
(* view of each stored data source that of its row, unless it is in hand   *)
(* or a statement of its remaking failed.  (With two daemons they do not:  *)
(* MCViewsTogether.cfg.)                                                   *)
(***************************************************************************)
THEOREM ViewsAreCurrent ==
    ASSUME OneDaemon
    PROVE  Spec => []ViewIsCurrent
<1>1. ViewsInv => ViewIsCurrent
  <2> SUFFICES ASSUME ViewsInv, NEW s \in Stored
               PROVE  /\ s \notin torn => views[s] = rows[s]
                      /\ s \in torn \ failed =>
                           \/ \A d \in Daemons : ~Serving(d)
                           \/ \E d \in Daemons :
                                /\ proc[d].source = s
                                /\ proc[d].pc \in {"ensure create", "create", "store"}
    BY DEF ViewIsCurrent
  <2>1. s \notin torn => views[s] = rows[s]
    BY DEF ViewsInv, Stored
  <2>2. ASSUME s \in torn \ failed, NEW d \in Daemons, Serving(d)
        PROVE  proc[d].source = s /\ proc[d].pc \in {"ensure create", "create", "store"}
    <3>1. s \in Torn
      BY <2>2 DEF Torn
    <3>2. proc[d].pc \in PcStates /\ Keeps(proc[d])
      BY DEF ViewsInv, TypeInv, Records
    <3> QED BY <2>2, <3>1, <3>2 DEF Keeps, Serving, PcStates
  <2> QED BY <2>1, <2>2
<1> QED BY <1>1, Invariant, PTL

-----------------------------------------------------------------------------
(* Types, for any number of daemons. *)

Columns == {"props", "cells", "relations", "live"}

\* The tables have a schema of the data source in each row.
TablesTyped ==
    /\ DOMAIN remote = Sources /\ DOMAIN past = Sources /\ DOMAIN pages = Sources
    /\ rows \in Sheets /\ views \in Sheets
    /\ \A s \in Sources :
          /\ remote[s] \in FormsOf[s] \cup {NoForm}
          /\ past[s] \subseteq FormsOf[s] \cup {NoForm} /\ remote[s] \in past[s]
          /\ rows[s] \in SchemasOf(s) /\ views[s] \in SchemasOf(s)
          /\ pages[s] # NoForm => /\ DOMAIN pages[s] = Columns
                                  /\ pages[s].cells = Flatten(pages[s].props)
    /\ databases \subseteq {ParentOf[s] : s \in Sources}
    /\ failed \subseteq torn /\ torn \subseteq Sources
    /\ edits \in 0 .. MaxEdits /\ faults \in 0 .. MaxFaults

\* So has what a daemon has read.
Fitting == {r \in Records :
              /\ r.pc \in {"ensure create", "drop", "create", "store"} => r.source \in Sources
              /\ \A s \in Sources : r.schemas[s] \in SchemasOf(s)}

Typed == TablesTyped /\ proc \in [Daemons -> Fitting]

LEMMA SchemaFits ==
    ASSUME NEW s \in Sources, NEW f \in FormsOf[s] \cup {NoForm}
    PROVE  Schema(f) \in SchemasOf(s) /\ NoForm \in SchemasOf(s)
BY DEF Schema, SchemasOf

LEMMA FittingSheets ==
    ASSUME NEW f, DOMAIN f = Sources, f = [s \in Sources |-> f[s]],
           \A s \in Sources : f[s] \in SchemasOf(s)
    PROVE  f \in Sheets
BY DEF Sheets, AllSchemas

LEMMA OffFits ==
    /\ Off \in Fitting
    /\ \A pc \in {"off", "ensure", "idle", "walk", "parents", "pass"}, todo \in SUBSET Sources :
          /\ [Off EXCEPT !.pc = pc] \in Fitting
          /\ [Off EXCEPT !.pc = pc, !.todo = todo] \in Fitting
<1>1. \A s \in Sources : NoForm \in SchemasOf(s)
  BY SchemaFits
<1>2. [s \in Sources |-> NoForm] \in Sheets
  BY <1>1, FittingSheets
<1>3. Off \in Records /\ \A s \in Sources : Off.schemas[s] \in SchemasOf(s)
  BY <1>1, <1>2 DEF Off, Records, PcStates
<1>4. Off.pc = "off"
  BY DEF Off
<1> QED BY <1>3, <1>4 DEF Fitting, Records, PcStates

\* Daemon d goes on as r.
LEMMA GoesFits ==
    ASSUME Typed, TablesTyped', NEW d \in Daemons, NEW r \in Fitting, Goes(d, r)
    PROVE  Typed'
BY DEF Typed, Goes

\* The same when the tables stay as they are.
LEMMA OnlyGoesFits ==
    ASSUME Typed, NEW d \in Daemons, NEW r \in Fitting, Goes(d, r),
           UNCHANGED <<remote, past, edits, rows, databases, views, pages, torn, failed, faults>>
    PROVE  Typed'
<1>1. TablesTyped'
  BY DEF Typed, TablesTyped
<1> QED BY <1>1, GoesFits

\* What daemon d may go on as, from what it is.
LEMMA RecordFits ==
    ASSUME Typed, NEW d \in Daemons
    PROVE  /\ proc[d] \in Fitting
           /\ \A pc \in {"idle", "ensure", "walk", "parents", "pass"} :
                 [proc[d] EXCEPT !.pc = pc] \in Fitting
           /\ \A pc \in PcStates : proc[d].source \in Sources =>
                 [proc[d] EXCEPT !.pc = pc] \in Fitting
           /\ \A todo \in SUBSET Sources : [proc[d] EXCEPT !.todo = todo] \in Fitting
<1>1. proc[d] \in Fitting
  BY DEF Typed
<1> QED BY <1>1 DEF Fitting, Records, PcStates

LEMMA EditFits ==
    ASSUME Typed, NEW s \in Sources, Edit(s)
    PROVE  Typed'
<1>1. PICK f \in FormsOf[s] \cup {NoForm} : /\ remote' = [remote EXCEPT ![s] = f]
                             /\ past' = [past EXCEPT ![s] = @ \cup {f}]
  BY DEF Edit
<1>2. \A q \in Sources : /\ remote'[q] = IF q = s THEN f ELSE remote[q]
                         /\ past'[q] = IF q = s THEN past[q] \cup {f} ELSE past[q]
  BY <1>1 DEF Typed, TablesTyped
<1>3. edits' \in 0 .. MaxEdits
  BY ViewsAssumption DEF Edit, Typed, TablesTyped
<1>4. UNCHANGED <<rows, databases, views, pages, proc, torn, failed, faults>>
  BY DEF Edit
<1>5. DOMAIN remote' = Sources /\ DOMAIN past' = Sources
  BY <1>1 DEF Typed, TablesTyped
<1>6. \A q \in Sources :
         /\ remote'[q] \in FormsOf[q] \cup {NoForm}
         /\ past'[q] \subseteq FormsOf[q] \cup {NoForm} /\ remote'[q] \in past'[q]
  BY <1>2 DEF Typed, TablesTyped
<1> QED BY <1>3, <1>4, <1>5, <1>6 DEF Typed, TablesTyped

\* Views are dropped and made.
LEMMA ViewsFit ==
    ASSUME Typed, NEW s \in Sources, NEW schema \in SchemasOf(s),
           views' = [views EXCEPT ![s] = schema],
           failed' \subseteq torn', torn' \subseteq torn \cup {s},
           UNCHANGED <<remote, past, edits, rows, databases, pages, faults>>
    PROVE  TablesTyped'
<1>1. \A q \in Sources : views'[q] = IF q = s THEN schema ELSE views[q]
  BY DEF Typed, TablesTyped, Sheets
<1>2. DOMAIN views' = Sources /\ views' = [q \in Sources |-> views'[q]]
  BY DEF Typed, TablesTyped, Sheets
<1>3. \A q \in Sources : views'[q] \in SchemasOf(q)
  BY <1>1 DEF Typed, TablesTyped
<1>4. views' \in Sheets
  BY <1>2, <1>3, FittingSheets
<1> QED BY <1>3, <1>4 DEF Typed, TablesTyped

LEMMA DroppedFits ==
    ASSUME Typed, NEW s \in Sources, Dropped(s),
           UNCHANGED <<remote, past, edits, rows, databases, pages, faults>>
    PROVE  TablesTyped'
<1>1. NoForm \in SchemasOf(s)
  BY DEF SchemasOf
<1>2. failed' \subseteq torn' /\ torn' \subseteq torn \cup {s}
  BY DEF Dropped, Typed, TablesTyped
<1> QED BY <1>1, <1>2, ViewsFit DEF Dropped

LEMMA EnsureFits ==
    ASSUME Typed, NEW d \in Daemons,
           Open(d) \/ EnsureDrop(d) \/ EnsureCreate(d) \/ Serve(d)
    PROVE  Typed'
<1>0. proc[d] \in Fitting /\ proc[d] \in Records
  BY RecordFits DEF Fitting
<1>o. Off \in Records /\ Stored \in SUBSET Sources /\ rows \in Sheets
  BY OffFits DEF Fitting, Stored, Typed, TablesTyped
<1>1. CASE Open(d)
  <2> PICK r : r = [Off EXCEPT !.pc = "ensure", !.todo = Stored, !.schemas = rows]
    OBVIOUS
  <2>1. r \in Records /\ r.pc = "ensure" /\ r.schemas = rows
    BY <1>o DEF Records, PcStates
  <2>2. r \in Fitting
    BY <2>1 DEF Fitting, Typed, TablesTyped
  <2> QED BY <1>1, <2>2, OnlyGoesFits DEF Open
<1>2. CASE EnsureDrop(d)
  <2>1. PICK s \in proc[d].todo :
           /\ Dropped(s)
           /\ Goes(d, [proc[d] EXCEPT !.pc = "ensure create", !.source = s, !.todo = @ \ {s}])
    BY <1>2 DEF EnsureDrop
  <2>2. s \in Sources
    BY <1>0 DEF Records
  <2>3. [proc[d] EXCEPT !.pc = "ensure create", !.source = s, !.todo = @ \ {s}] \in Fitting
    BY <1>0, <2>2 DEF Fitting, Records, PcStates
  <2>4. TablesTyped'
    BY <1>2, <2>1, <2>2, DroppedFits DEF EnsureDrop
  <2> QED BY <2>1, <2>3, <2>4, GoesFits
<1>3. CASE EnsureCreate(d)
  <2> PICK s : s = proc[d].source
    OBVIOUS
  <2>0. s \in Sources /\ proc[d].schemas[s] \in SchemasOf(s)
    BY <1>0, <1>3 DEF EnsureCreate, At, Fitting
  <2>1. CASE views[s] # NoForm
    BY <1>3, <2>1, OffFits, OnlyGoesFits DEF EnsureCreate
  <2>2. CASE views[s] = NoForm
    <3>1. /\ views' = [views EXCEPT ![s] = proc[d].schemas[s]]
          /\ Made(s) /\ Goes(d, [proc[d] EXCEPT !.pc = "ensure"])
          /\ UNCHANGED <<remote, past, edits, rows, databases, pages, faults>>
      BY <1>3, <2>2 DEF EnsureCreate, Moves
    <3>2. failed' \subseteq torn' /\ torn' \subseteq torn \cup {s}
      BY <3>1 DEF Made, Typed, TablesTyped
    <3>3. TablesTyped'
      BY <2>0, <3>1, <3>2, ViewsFit
    <3> QED BY <3>1, <3>3, RecordFits, GoesFits
  <2> QED BY <2>1, <2>2
<1>4. CASE Serve(d)
  <2>1. [Off EXCEPT !.pc = "idle"] \in Fitting
    BY OffFits
  <2>2. PICK r \in Fitting : Goes(d, r)
    BY <1>4, <2>1, OffFits DEF Serve
  <2> QED BY <1>4, <2>2, OnlyGoesFits DEF Serve
<1> QED BY <1>1, <1>2, <1>3, <1>4

LEMMA WalkFits ==
    ASSUME Typed, NEW d \in Daemons,
           Discover(d) \/ FallBack(d) \/ Take(d) \/ EndWalk(d) \/ StoreParents(d)
    PROVE  Typed'
<1>0. proc[d] \in Fitting /\ proc[d] \in Records
  BY RecordFits DEF Fitting
<1>o. Off \in Records /\ Shared \in SUBSET Sources
  BY OffFits DEF Fitting, Shared
<1>1. CASE Discover(d)
  <2> PICK schemas : schemas = [s \in Sources |-> Schema(remote[s])]
    OBVIOUS
  <2>1. \A s \in Sources : schemas[s] \in SchemasOf(s)
    BY SchemaFits DEF Typed, TablesTyped
  <2>2. schemas \in Sheets
    BY <2>1, FittingSheets
  <2> PICK r : r = [Off EXCEPT !.pc = "walk", !.todo = Shared, !.schemas = schemas]
    OBVIOUS
  <2>3. r \in Records /\ r.pc = "walk" /\ r.schemas = schemas
    BY <1>o, <2>2 DEF Records, PcStates
  <2>4. r \in Fitting
    BY <2>1, <2>3 DEF Fitting
  <2> QED BY <1>1, <2>4, OnlyGoesFits DEF Discover
<1>2. CASE FallBack(d)
  <2> PICK found : found = {ParentOf[s] : s \in Shared}
    OBVIOUS
  <2>1. /\ databases' = databases \cup found
        /\ Goes(d, [proc[d] EXCEPT !.lazy = TRUE, !.todo = {s \in Sources : ParentOf[s] \in found}])
        /\ UNCHANGED <<remote, past, edits, rows, views, pages, torn, failed, faults>>
    BY <1>2 DEF FallBack
  <2>2. [proc[d] EXCEPT !.lazy = TRUE, !.todo = {s \in Sources : ParentOf[s] \in found}] \in Fitting
    BY <1>0 DEF Fitting, Records
  <2>3. databases' \subseteq {ParentOf[s] : s \in Sources}
    BY <2>1 DEF Typed, TablesTyped, Shared
  <2>4. TablesTyped'
    BY <2>1, <2>3 DEF Typed, TablesTyped
  <2> QED BY <2>1, <2>2, <2>4, GoesFits
<1>3. CASE Take(d)
  <2>1. PICK s \in proc[d].todo :
          LET schema == IF proc[d].lazy THEN Schema(remote[s]) ELSE proc[d].schemas[s]
              r == [proc[d] EXCEPT !.todo = @ \ {s}]
          IN Goes(d, IF schema = NoForm THEN r
                     ELSE [r EXCEPT !.source = s, !.schemas[s] = schema,
                                    !.pc = IF schema = rows[s] THEN "store" ELSE "drop"])
    BY <1>3 DEF Take
  <2> PICK schema : schema = IF proc[d].lazy THEN Schema(remote[s]) ELSE proc[d].schemas[s]
    OBVIOUS
  <2> PICK r : r = [proc[d] EXCEPT !.todo = @ \ {s}]
    OBVIOUS
  <2>2. s \in Sources /\ schema \in SchemasOf(s)
    BY <1>0, SchemaFits DEF Fitting, Records, Typed, TablesTyped
  <2>3. r \in Fitting /\ r \in Records
    BY <1>0, RecordFits DEF Fitting, Records
  <2> PICK pc : pc = IF schema = rows[s] THEN "store" ELSE "drop"
    OBVIOUS
  <2> PICK q : q = [r EXCEPT !.source = s, !.schemas[s] = schema, !.pc = pc]
    OBVIOUS
  <2>4. q.schemas = [r.schemas EXCEPT ![s] = schema]
    BY <2>3 DEF Records
  <2>5. \A t \in Sources : q.schemas[t] \in SchemasOf(t)
    BY <2>2, <2>3, <2>4 DEF Fitting, Records, Sheets
  <2>6. q.schemas \in Sheets
    <3>1. r.schemas \in Sheets
      BY <2>3 DEF Records
    <3>2. \A t \in Sources : q.schemas[t] \in AllSchemas
      BY <2>5 DEF AllSchemas
    <3>3. DOMAIN q.schemas = Sources /\ q.schemas = [t \in Sources |-> q.schemas[t]]
      BY <2>4, <3>1 DEF Sheets
    <3> QED BY <3>2, <3>3 DEF Sheets
  <2>7. q \in Records /\ q.source = s
    BY <2>2, <2>3, <2>6 DEF Records, PcStates
  <2>8. q \in Fitting
    BY <2>2, <2>5, <2>7 DEF Fitting
  <2>9. Goes(d, IF schema = NoForm THEN r ELSE q)
    BY <2>1
  <2> QED BY <1>3, <2>3, <2>8, <2>9, OnlyGoesFits DEF Take
<1>4. CASE EndWalk(d)
  BY <1>4, RecordFits, OnlyGoesFits DEF EndWalk, Moves
<1>5. CASE StoreParents(d)
  <2>1. [Off EXCEPT !.pc = "pass", !.todo = Stored] \in Fitting
    BY OffFits DEF Stored
  <2>2. databases' \subseteq {ParentOf[s] : s \in Sources}
    BY <1>0, <1>5 DEF StoreParents, Typed, TablesTyped, Records
  <2>3. TablesTyped'
    BY <1>5, <2>2 DEF StoreParents, Typed, TablesTyped
  <2> QED BY <1>5, <2>1, <2>3, GoesFits DEF StoreParents
<1> QED BY <1>1, <1>2, <1>3, <1>4, <1>5

LEMMA RemakeFits ==
    ASSUME Typed, NEW d \in Daemons, Drop(d) \/ Create(d) \/ Store(d)
    PROVE  Typed'
<1> PICK s : s = proc[d].source
  OBVIOUS
<1>0. /\ proc[d] \in Fitting /\ proc[d] \in Records
      /\ s \in Sources /\ proc[d].schemas[s] \in SchemasOf(s)
  BY RecordFits DEF Fitting, Drop, Create, Store, At
<1>1. CASE Drop(d)
  <2>1. TablesTyped'
    BY <1>0, <1>1, DroppedFits DEF Drop
  <2>2. [proc[d] EXCEPT !.pc = "create"] \in Fitting
    BY <1>0, RecordFits DEF PcStates
  <2> QED BY <1>1, <2>1, <2>2, GoesFits DEF Drop, Moves
<1>2. CASE Create(d)
  <2>1. CASE views[s] # NoForm
    <3>1. /\ Goes(d, [proc[d] EXCEPT !.pc = "walk"])
          /\ failed' = failed \cup ({s} \cap torn)
          /\ UNCHANGED <<remote, past, edits, rows, databases, views, pages, torn, faults>>
      BY <1>2, <2>1 DEF Create, Moves
    <3>2. TablesTyped'
      BY <3>1 DEF Typed, TablesTyped
    <3> QED BY <3>1, <3>2, RecordFits, GoesFits
  <2>2. CASE views[s] = NoForm
    <3>1. /\ Goes(d, [proc[d] EXCEPT !.pc = "store"])
          /\ views' = [views EXCEPT ![s] = proc[d].schemas[s]]
          /\ UNCHANGED <<remote, past, edits, rows, databases, pages, torn, failed, faults>>
      BY <1>2, <2>2 DEF Create, Moves
    <3>2. failed' \subseteq torn' /\ torn' \subseteq torn \cup {s}
      BY <3>1 DEF Typed, TablesTyped
    <3>3. TablesTyped'
      BY <1>0, <3>1, <3>2, ViewsFit
    <3>4. [proc[d] EXCEPT !.pc = "store"] \in Fitting
      BY <1>0, RecordFits DEF PcStates
    <3> QED BY <3>1, <3>3, <3>4, GoesFits
  <2> QED BY <2>1, <2>2
<1>3. CASE Store(d)
  <2>1. /\ rows' = [rows EXCEPT ![s] = proc[d].schemas[s]]
        /\ UNCHANGED <<remote, past, edits, databases, views, pages, faults>>
    BY <1>3 DEF Store
  <2>2. failed' \subseteq torn' /\ torn' \subseteq Sources
    BY <1>3 DEF Store, Made, Typed, TablesTyped
  <2>3. \A q \in Sources : rows'[q] = IF q = s THEN proc[d].schemas[s] ELSE rows[q]
    BY <2>1 DEF Typed, TablesTyped, Sheets
  <2>4. DOMAIN rows' = Sources /\ rows' = [q \in Sources |-> rows'[q]]
    BY <2>1 DEF Typed, TablesTyped, Sheets
  <2>5. \A q \in Sources : rows'[q] \in SchemasOf(q)
    BY <1>0, <2>3 DEF Typed, TablesTyped
  <2>6. rows' \in Sheets
    BY <2>4, <2>5, FittingSheets
  <2>7. TablesTyped'
    BY <2>1, <2>2, <2>5, <2>6 DEF Typed, TablesTyped
  <2> PICK r : r = [proc[d] EXCEPT !.pc = "walk",
                       !.parents = IF proc[d].lazy THEN @ ELSE @ \cup {ParentOf[s]}]
    OBVIOUS
  <2>8. r \in Fitting
    BY <1>0 DEF Fitting, Records, PcStates
  <2>9. Goes(d, r)
    BY <1>3 DEF Store
  <2> QED BY <2>7, <2>8, <2>9, GoesFits
<1> QED BY <1>1, <1>2, <1>3

LEMMA PassFits ==
    ASSUME Typed, NEW d \in Daemons, StorePage(d) \/ EndPass(d)
    PROVE  Typed'
<1>0. proc[d] \in Fitting /\ proc[d] \in Records
  BY RecordFits DEF Fitting
<1>1. CASE StorePage(d)
  <2>1. PICK s \in proc[d].todo :
           /\ pages' = [pages EXCEPT ![s] = PageOf(remote[s], @)]
           /\ Goes(d, [proc[d] EXCEPT !.todo = @ \ {s}])
    BY <1>1 DEF StorePage
  <2>2. UNCHANGED <<remote, past, edits, rows, databases, views, torn, failed, faults>>
    BY <1>1 DEF StorePage
  <2>3. s \in Sources /\ [proc[d] EXCEPT !.todo = @ \ {s}] \in Fitting
    BY <1>0 DEF Fitting, Records
  <2> PICK page : page = PageOf(remote[s], pages[s])
    OBVIOUS
  <2>4. page # NoForm => DOMAIN page = Columns /\ page.cells = Flatten(page.props)
    <3>0. pages[s] # NoForm => DOMAIN pages[s] = Columns /\ pages[s].cells = Flatten(pages[s].props)
      BY <2>3 DEF Typed, TablesTyped
    <3>1. CASE remote[s] # NoForm /\ remote[s].live
      BY <3>1 DEF PageOf, Columns
    <3>2. CASE remote[s] # NoForm /\ ~remote[s].live /\ pages[s] # NoForm
      <4>1. page = [pages[s] EXCEPT !.live = FALSE]
        BY <3>2 DEF PageOf
      <4> QED BY <3>0, <3>2, <4>1 DEF Columns
    <3>3. CASE remote[s] # NoForm /\ ~remote[s].live /\ pages[s] = NoForm
      BY <3>3 DEF PageOf
    <3>4. CASE remote[s] = NoForm
      BY <3>0, <3>4 DEF PageOf
    <3> QED BY <3>1, <3>2, <3>3, <3>4
  <2>5. DOMAIN pages' = Sources /\ \A q \in Sources : pages'[q] = IF q = s THEN page ELSE pages[q]
    BY <2>1 DEF Typed, TablesTyped
  <2>6. TablesTyped'
    BY <2>2, <2>4, <2>5 DEF Typed, TablesTyped
  <2> QED BY <2>1, <2>3, <2>6, GoesFits
<1>2. CASE EndPass(d)
  <2>1. [Off EXCEPT !.pc = "idle"] \in Fitting
    BY OffFits
  <2> QED BY <1>2, <2>1, OnlyGoesFits DEF EndPass
<1> QED BY <1>1, <1>2

LEMMA FaultFits ==
    ASSUME Typed, NEW d \in Daemons, Fails(d) \/ Dies(d)
    PROVE  Typed'
<1>0. proc[d] \in Fitting /\ proc[d] \in Records
  BY RecordFits DEF Fitting
<1>1. faults' \in 0 .. MaxFaults
  <2>1. faults < MaxFaults /\ faults' = faults + 1
    BY DEF Fails, Dies
  <2>2. faults \in 0 .. MaxFaults /\ MaxFaults \in Nat
    BY ViewsAssumption DEF Typed, TablesTyped
  <2> QED BY <2>1, <2>2
<1>2. failed' \subseteq torn
  BY DEF Fails, Dies, Typed, TablesTyped
<1>3. TablesTyped'
  BY <1>1, <1>2 DEF Fails, Dies, Typed, TablesTyped
<1>4. Stored \in SUBSET Sources
  BY DEF Stored
<1>5. [proc[d] EXCEPT !.pc = "walk"] \in Fitting
  BY RecordFits
<1>6. /\ [Off EXCEPT !.pc = "idle"] \in Fitting
      /\ [Off EXCEPT !.pc = "pass", !.todo = Stored] \in Fitting
  BY <1>4, OffFits
<1>7. \A s : [proc[d] EXCEPT !.todo = @ \ {s}] \in Fitting
  BY <1>0 DEF Fitting, Records
<1>8. \/ Goes(d, Off) \/ Goes(d, [proc[d] EXCEPT !.pc = "walk"])
      \/ Goes(d, [Off EXCEPT !.pc = "idle"])
      \/ Goes(d, [Off EXCEPT !.pc = "pass", !.todo = Stored])
      \/ \E s : Goes(d, [proc[d] EXCEPT !.todo = @ \ {s}])
  BY DEF Fails, Dies, Moves
<1> QED BY <1>3, <1>5, <1>6, <1>7, <1>8, OffFits, GoesFits

LEMMA InitFits == Init => Typed
<1> SUFFICES ASSUME Init PROVE Typed
  OBVIOUS
<1>1. \A s \in Sources : remote[s] \in FormsOf[s] \cup {NoForm}
  BY ViewsAssumption DEF Init
<1>2. [s \in Sources |-> NoForm] \in Sheets /\ \A s \in Sources : NoForm \in SchemasOf(s)
  BY SchemaFits, FittingSheets
<1>3. DOMAIN remote = Sources
  BY DEF Init
<1>4. edits \in 0 .. MaxEdits /\ faults \in 0 .. MaxFaults
  BY ViewsAssumption DEF Init
<1> QED BY <1>1, <1>2, <1>3, <1>4, OffFits DEF Init, Typed, TablesTyped

LEMMA StepFits == Typed /\ [Next]_vars => Typed'
<1> SUFFICES ASSUME Typed, [Next]_vars PROVE Typed'
  OBVIOUS
<1>1. CASE UNCHANGED vars
  BY <1>1 DEF vars, Typed, TablesTyped
<1>2. ASSUME NEW d \in Daemons, Open(d) \/ Progress(d) \/ Fails(d) \/ Dies(d) PROVE Typed'
  BY <1>2, EnsureFits, WalkFits, RemakeFits, PassFits, FaultFits DEF Progress
<1> QED BY <1>1, <1>2, EditFits DEF Next

LEMMA TypeInvariant == Spec => []Typed
BY InitFits, StepFits, PTL DEF Spec

(***************************************************************************)
(* Types, whatever the number of daemons: the schemas in a row and in a    *)
(* view are ones its data source has had, and the columns of a stored page *)
(* are those of its properties.                                            *)
(***************************************************************************)
THEOREM TypeCorrect == Spec => []TypeOK
<1>1. Typed => TypeOK
  BY DEF Typed, TablesTyped, Fitting, Records, TypeOK
<1> QED BY <1>1, TypeInvariant, PTL

-----------------------------------------------------------------------------
(* The columns of a page and of the view it is read through. *)

LEMMA ColumnsAre ==
    ASSUME NEW name, NEW v
    PROVE  FlattenOne(name, v) = [c \in ColumnsOf(name, v.type) |-> FlattenOne(name, v)[c]]
<1>1. CASE v.type = "date"
  <2>1. FlattenOne(name, v) = DateCells(name, v.of) /\ ColumnsOf(name, v.type) = DateColumns(name)
    BY <1>1 DEF FlattenOne, ColumnsOf
  <2>2. DateCells(name, v.of) = [c \in DateColumns(name) |-> DateCells(name, v.of)[c]]
    <3> DEFINE cell(c) ==
          CASE v.of = <<>> -> Null
            [] c = DateColumn(name, "start") -> Cell("text", <<v.of[1]>>)
            [] c = DateColumn(name, "is_datetime") ->
                  Cell("number", <<IF v.of[1] \in Timed THEN "1" ELSE "0">>)
            [] OTHER -> OrNull("text", Tail(v.of))
    <3>1. DateCells(name, v.of) = [c \in DateColumns(name) |-> cell(c)]
      BY Zenon DEF DateCells
    <3> HIDE DEF cell
    <3> QED BY <3>1
  <2> QED BY <2>1, <2>2
<1>2. CASE v.type # "date"
  BY <1>2 DEF FlattenOne, ColumnsOf
<1> QED BY <1>1, <1>2

\* No other property takes a column of this one.
LEMMA FlattenKeeps ==
    ASSUME NEW props, Storable(props), NEW name \in DOMAIN props,
           NEW c \in ColumnsOf(name, props[name].type)
    PROVE  c \in DOMAIN Flatten(props) /\ Flatten(props)[c] = FlattenOne(name, props[name])[c]
<1> DEFINE Owner == CHOOSE m \in DOMAIN props : c \in DOMAIN FlattenOne(m, props[m])
<1>1. c \in DOMAIN FlattenOne(name, props[name])
  BY ColumnsAre
<1>2. Owner \in DOMAIN props /\ c \in DOMAIN FlattenOne(Owner, props[Owner])
  BY <1>1
<1>3. Owner = name
  BY <1>1, <1>2 DEF Storable
<1>4. c \in UNION {DOMAIN FlattenOne(m, props[m]) : m \in DOMAIN props}
  BY <1>1
<1>5. c \in DOMAIN Flatten(props) /\ Flatten(props)[c] = FlattenOne(Owner, props[Owner])[c]
  BY <1>4, Zenon DEF Flatten
<1> QED BY <1>3, <1>5

\* Of the forms a data source may have, no two values of a property look alike in its columns.
ValuesDiffer ==
    \A s \in Sources : \A f, g \in FormsOf[s] : \A name \in DOMAIN f.schema :
       f.schema = g.schema /\ FlattenOne(name, f.props[name]) = FlattenOne(name, g.props[name])
          => f.props[name] = g.props[name]

LEMMA RowsDiffer ==
    ASSUME ValuesDiffer, NEW s \in Sources, NEW f \in FormsOf[s], NEW g \in FormsOf[s],
           f.schema = g.schema, Flatten(f.props) = Flatten(g.props)
    PROVE  f.props = g.props
<1>0. /\ Storable(f.props) /\ Storable(g.props)
      /\ f.props = [name \in DOMAIN f.schema |-> f.props[name]]
      /\ g.props = [name \in DOMAIN f.schema |-> g.props[name]]
  BY ViewsAssumption, FormsFit
<1>t. /\ \A name \in DOMAIN f.schema : f.props[name].type = f.schema[name]
      /\ \A name \in DOMAIN g.schema : g.props[name].type = g.schema[name]
  BY FormsFit, Zenon
<1>1. ASSUME NEW name \in DOMAIN f.schema
      PROVE  f.props[name] = g.props[name]
  <2>1. f.props[name].type = f.schema[name] /\ g.props[name].type = f.schema[name]
    BY <1>t
  <2>2. name \in DOMAIN f.props /\ name \in DOMAIN g.props
    BY <1>0
  <2>3. \A c \in ColumnsOf(name, f.schema[name]) :
           FlattenOne(name, f.props[name])[c] = FlattenOne(name, g.props[name])[c]
    <3> TAKE c \in ColumnsOf(name, f.schema[name])
    <3>1. Flatten(f.props)[c] = FlattenOne(name, f.props[name])[c]
      BY <1>0, <2>1, <2>2, FlattenKeeps
    <3>2. Flatten(g.props)[c] = FlattenOne(name, g.props[name])[c]
      BY <1>0, <2>1, <2>2, FlattenKeeps
    <3> QED BY <3>1, <3>2
  <2>4. FlattenOne(name, f.props[name]) = FlattenOne(name, g.props[name])
    BY <2>1, <2>3, ColumnsAre
  <2> QED BY <2>4 DEF ValuesDiffer
<1>2. [name \in DOMAIN f.schema |-> f.props[name]] = [name \in DOMAIN f.schema |-> g.props[name]]
  BY <1>1
<1> QED BY <1>0, <1>2, Zenon

\* A query through the view of a page's schema finds each property where it was stored.
LEMMA QueryFinds ==
    ASSUME Typed, NEW s \in Sources, CaughtUp(s),
           NEW name \in DOMAIN remote[s].schema,
           NEW c \in ColumnsOf(name, remote[s].schema[name])
    PROVE  /\ c \in DOMAIN QueryRow(s)
           /\ QueryRow(s)[c] = FlattenOne(name, remote[s].props[name])[c]
<1>1. /\ remote[s] \in FormsOf[s] /\ views[s] = remote[s].schema
      /\ pages[s].cells = Flatten(remote[s].props)
  BY DEF CaughtUp, Typed, TablesTyped
<1>2. c \in SchemaColumns(views[s]) /\ c \notin FixedOf(views[s])
  BY <1>1 DEF SchemaColumns, FixedOf
<1>3. Storable(remote[s].props) /\ name \in DOMAIN remote[s].props
      /\ remote[s].props[name].type = remote[s].schema[name]
  BY <1>1, ViewsAssumption, FormsFit
<1>4. c \in DOMAIN pages[s].cells /\ pages[s].cells[c] = FlattenOne(name, remote[s].props[name])[c]
  BY <1>1, <1>3, FlattenKeeps
<1> QED BY <1>2, <1>4 DEF QueryRow

(***************************************************************************)
(* FlattenProperties and ViewSQL come to the same names: through the view  *)
(* of its schema every property of a page is found in the columns it was   *)
(* stored under, the row's own columns give way to it, and two rows that   *)
(* differ in the value of a property differ in one of its columns.         *)
(***************************************************************************)
THEOREM QueriesTellProperties ==
    ASSUME ValuesDiffer
    PROVE  Spec => []QueryTellsProperties
<1>1. Typed => QueryTellsProperties
  <2> SUFFICES ASSUME Typed, NEW s \in Sources, CaughtUp(s)
               PROVE  PropertiesFound(s) /\ PropertiesTold(s)
    BY DEF QueryTellsProperties
  <2>1. remote[s] \in FormsOf[s] /\ pages[s].cells = Flatten(remote[s].props)
    BY DEF CaughtUp, Typed, TablesTyped
  <2>2. PropertiesTold(s)
    BY <2>1, RowsDiffer DEF PropertiesTold
  <2>3. PropertiesFound(s)
    BY QueryFinds DEF PropertiesFound
  <2> QED BY <2>2, <2>3
<1> QED BY <1>1, TypeInvariant, PTL
=============================================================================
