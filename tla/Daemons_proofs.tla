--------------------------- MODULE Daemons_proofs ---------------------------
(***************************************************************************)
(* Proofs about Daemons: the types, and that a daemon in charge of the     *)
(* socket stays in charge, whoever starts or ends beside it.               *)
(***************************************************************************)
EXTENDS Daemons, TLAPS

LEMMA InitType == Init => TypeOK
BY DaemonsAssumption DEF Init, TypeOK, Procs, DaemonStates, SessionStates

\* The steps of mirror.Open, which daemons and sessions share.
LEMMA OpenType ==
    ASSUME TypeOK, NEW x \in Procs, Open(x)
    PROVE  TypeOK'
<1>d. x \in Daemons => x \notin Sessions
  BY DaemonsAssumption
<1>1. CASE CreateFile(x)
  BY <1>1, <1>d DEF CreateFile, Goes, TypeOK, Procs, DaemonStates, SessionStates
<1>2. CASE ApplySchema(x)
  BY <1>2, <1>d DEF ApplySchema, Goes, TypeOK, Procs, DaemonStates, SessionStates
<1>3. CASE CheckVersion(x)
  BY <1>3, <1>d DEF CheckVersion, Opened, Goes, TypeOK, Procs, DaemonStates, SessionStates
<1>4. CASE InsertVersion(x)
  BY <1>4, <1>d DEF InsertVersion, Opened, Goes, TypeOK, Procs, DaemonStates, SessionStates
<1> QED BY <1>1, <1>2, <1>3, <1>4 DEF Open

LEMMA ListenType ==
    ASSUME TypeOK, NEW d \in Daemons, Listen(d) \/ Exit(d)
    PROVE  TypeOK'
<1> USE DaemonsAssumption DEF Goes, TypeOK, Procs, DaemonStates
<1>1. CASE StatSocket(d)
  BY <1>1 DEF StatSocket
<1>2. CASE DialSocket(d)
  BY <1>2 DEF DialSocket
<1>3. CASE RemoveSocket(d)
  BY <1>3 DEF RemoveSocket
<1>4. CASE BindSocket(d)
  BY <1>4 DEF BindSocket
<1>5. CASE ListenSocket(d)
  BY <1>5 DEF ListenSocket
<1>6. CASE Exit(d)
  BY <1>6 DEF Exit
<1> QED BY <1>1, <1>2, <1>3, <1>4, <1>5, <1>6 DEF Listen

\* What a call of Notion may bring, and where the loop goes on.
LEMMA BringsType ==
    ASSUME TypeOK, NEW d \in Daemons, NEW fact \in {"sources", "users", "bootstrapped"},
           NEW next \in {"users", "pass", "ticks"}, NEW other \in {"users", "pass", "ticks"},
           Brings(fact, d, next, other), UNCHANGED <<path, file, pc>>
    PROVE  TypeOK'
<1>1. loop' \in [Daemons -> {"off", "meta", "discover", "users", "pass", "ticks"}]
  BY DEF Brings, LoopGoes, TypeOK
<1>2. known' = known \cup {fact} \/ known' = known
  BY DEF Brings
<1>3. known' \in SUBSET {"sources", "users", "bootstrapped"}
  BY <1>2 DEF TypeOK
<1>4. faults' \in 0 .. MaxFaults
  BY DaemonsAssumption DEF Brings, TypeOK
<1> QED BY <1>1, <1>3, <1>4 DEF TypeOK

LEMMA LoopType ==
    ASSUME TypeOK, NEW d \in Daemons, SyncLoop(d)
    PROVE  TypeOK'
<1>1. CASE ReadBootstrapped(d)
  BY <1>1 DEF ReadBootstrapped, LoopGoes, TypeOK
<1>2. CASE BootDiscover(d)
  BY <1>2, BringsType DEF BootDiscover
<1>3. CASE BootUsers(d)
  BY <1>3, BringsType DEF BootUsers
<1>4. CASE BootPass(d)
  BY <1>4, BringsType DEF BootPass
<1>5. CASE FullTick(d)
  BY <1>5, BringsType DEF FullTick
<1> QED BY <1>1, <1>2, <1>3, <1>4, <1>5 DEF SyncLoop

LEMMA SessionType ==
    ASSUME TypeOK, NEW s \in Sessions, Serve(s) \/ EndSession(s)
    PROVE  TypeOK'
<1>d. s \notin Daemons /\ s \in Procs
  BY DaemonsAssumption DEF Procs
<1>1. CASE Launch(s)
  <2> PICK d \in Daemons : pc' = [pc EXCEPT ![s] = "poll", ![d] = "create"]
    BY <1>1 DEF Launch
  <2> QED BY <1>1, <1>d DEF Launch, TypeOK, Procs, DaemonStates, SessionStates
<1>2. CASE Open(s)
  BY <1>2, <1>d, OpenType
<1>3. CASE StartSession(s) \/ Probe(s) \/ Polled(s)
  BY <1>3, <1>d DEF StartSession, Probe, Polled, Goes, TypeOK, Procs, SessionStates
<1>4. CASE EnsureMirror(s) \/ OpenReadOnly(s) \/ EndSession(s)
  BY <1>4, <1>d DEF EnsureMirror, OpenReadOnly, EndSession, Goes, TypeOK, Procs, SessionStates
<1> QED BY <1>1, <1>2, <1>3, <1>4 DEF Serve

LEMMA NextType == TypeOK /\ [Next]_vars => TypeOK'
<1> SUFFICES ASSUME TypeOK, [Next]_vars PROVE TypeOK'
  OBVIOUS
<1>1. ASSUME NEW d \in Daemons, Run(d) PROVE TypeOK'
  BY <1>1, OpenType, ListenType DEF Run, Procs
<1>2. ASSUME NEW d \in Daemons, SyncLoop(d) PROVE TypeOK'
  BY <1>2, LoopType
<1>3. ASSUME NEW d \in Daemons, Shutdown(d) \/ StartDaemon(d) PROVE TypeOK'
  <2>1. CASE Shutdown(d)
    BY <2>1, DaemonsAssumption DEF Shutdown, Goes, TypeOK, Procs, DaemonStates
  <2>2. CASE StartDaemon(d)
    BY <2>2, DaemonsAssumption DEF StartDaemon, Goes, TypeOK, Procs, DaemonStates
  <2> QED BY <1>3, <2>1, <2>2
<1>4. ASSUME NEW s \in Sessions, Serve(s) \/ EndSession(s) PROVE TypeOK'
  BY <1>4, SessionType
<1>5. ASSUME NEW x \in Procs, Die(x) PROVE TypeOK'
  <2>1. pc' = [pc EXCEPT ![x] = "off"] /\ UNCHANGED <<path, file, known>>
    BY <1>5 DEF Die, Goes
  <2>2. loop' \in [Daemons -> {"off", "meta", "discover", "users", "pass", "ticks"}]
    <3>1. loop' = [d \in Daemons |-> IF d = x THEN "off" ELSE loop[d]]
      BY <1>5 DEF Die
    <3> QED BY <3>1 DEF TypeOK
  <2>3. faults' \in 0 .. MaxFaults
    BY <1>5, DaemonsAssumption DEF Die, TypeOK
  <2> QED BY <2>1, <2>2, <2>3 DEF TypeOK, Procs, DaemonStates, SessionStates
<1>6. CASE UNCHANGED vars
  BY <1>6 DEF vars, TypeOK
<1> QED BY <1>1, <1>2, <1>3, <1>4, <1>5, <1>6 DEF Next

(***************************************************************************)
(* Every state the daemon and serve commands reach is of its type.         *)
(***************************************************************************)
THEOREM TypeCorrect == Spec => []TypeOK
BY InitType, NextType, PTL DEF Spec

-----------------------------------------------------------------------------
Kept(d) == InCharge(d) => InCharge(d)' \/ pc'[d] # "serve"

\* Steps that leave the socket alone and bring no daemon past its dial.
LEMMA QuietKeeps ==
    ASSUME NEW d \in Daemons, path' = path,
           \A e \in Daemons : \/ pc'[e] = pc[e]
                             \/ pc'[e] \notin {"remove", "bind", "listen", "serve"}
    PROVE  Kept(d)
BY DEF Kept, InCharge

\* A daemon that opens the mirror has not come to the socket; a session does not.
LEMMA OpenKeeps ==
    ASSUME TypeOK, NEW x \in Procs, Open(x), NEW d \in Daemons
    PROVE  Kept(d)
<1>1. path' = path /\ \A e \in Daemons \ {x} : pc'[e] = pc[e]
  BY DEF Open, CreateFile, ApplySchema, CheckVersion, InsertVersion, Goes, TypeOK, Procs
<1>2. x \in Daemons => pc'[x] \in {"schema", "version", "insert", "stat", "off"}
  BY DEF Open, CreateFile, ApplySchema, CheckVersion, InsertVersion, Opened, Goes, TypeOK, Procs
<1> QED BY <1>1, <1>2, QuietKeeps

(***************************************************************************)
(* The steps of ipc.Listen, beside a daemon in charge: Stat finds a socket *)
(* file, the dial an answer; nobody is further than that.                  *)
(***************************************************************************)
LEMMA ListenKeeps ==
    ASSUME TypeOK, NEW e \in Daemons, Listen(e), NEW d \in Daemons
    PROVE  Kept(d)
<1>o. \A f \in Daemons \ {e} : pc'[f] = pc[f]
  BY DEF Listen, StatSocket, DialSocket, RemoveSocket, BindSocket, ListenSocket, Goes, TypeOK, Procs
<1>1. CASE StatSocket(e)
  <2>1. /\ pc[e] = "stat" /\ path' = path
        /\ pc'[e] = IF path = NoOne THEN "bind" ELSE "dial"
    BY <1>1 DEF StatSocket, Goes, TypeOK, Procs
  <2> QED BY <2>1, <1>o, DaemonsAssumption DEF Kept, InCharge
<1>2. CASE DialSocket(e)
  <2>1. /\ pc[e] = "dial" /\ path' = path
        /\ pc'[e] = IF Answers THEN "off" ELSE "remove"
    BY <1>2 DEF DialSocket, Goes, TypeOK, Procs
  <2>2. InCharge(d) => Answers
    BY DEF InCharge, Answers
  <2> QED BY <2>1, <2>2, <1>o DEF Kept, InCharge
<1>3. CASE RemoveSocket(e) \/ BindSocket(e) \/ ListenSocket(e)
  BY <1>3 DEF RemoveSocket, BindSocket, ListenSocket, Kept, InCharge
<1> QED BY <1>1, <1>2, <1>3 DEF Listen

\* A daemon that ends is the one in charge, or has closed its listener before.
LEMMA ShutdownKeeps ==
    ASSUME TypeOK, NEW e \in Daemons, Shutdown(e) \/ Exit(e), NEW d \in Daemons
    PROVE  Kept(d)
<1>1. CASE Shutdown(e)
  <2>1. pc[e] = "serve" /\ pc'[e] = "closing"
    BY <1>1 DEF Shutdown, Goes, TypeOK, Procs
  <2> QED BY <2>1 DEF Kept, InCharge
<1>2. CASE Exit(e)
  BY <1>2, QuietKeeps DEF Exit, Goes, TypeOK, Procs
<1> QED BY <1>1, <1>2

LEMMA SessionKeeps ==
    ASSUME TypeOK, NEW s \in Sessions, Serve(s) \/ EndSession(s), NEW d \in Daemons
    PROVE  Kept(d)
<1>s. s \in Procs /\ s \notin Daemons
  BY DaemonsAssumption DEF Procs
<1>1. CASE Launch(s)
  BY <1>1, <1>s, QuietKeeps DEF Launch, TypeOK, Procs
<1>2. CASE Open(s)
  BY <1>2, <1>s, OpenKeeps
<1>3. CASE StartSession(s) \/ Probe(s) \/ Polled(s) \/ EnsureMirror(s) \/ OpenReadOnly(s)
           \/ EndSession(s)
  BY <1>3, <1>s, QuietKeeps
     DEF StartSession, Probe, Polled, EnsureMirror, OpenReadOnly, EndSession, Goes, TypeOK, Procs
<1> QED BY <1>1, <1>2, <1>3 DEF Serve

LEMMA NextKeeps ==
    ASSUME TypeOK, [Next]_vars, NEW d \in Daemons
    PROVE  Kept(d)
<1>1. ASSUME NEW e \in Daemons, Run(e) PROVE Kept(d)
  BY <1>1, OpenKeeps, ListenKeeps, ShutdownKeeps DEF Run, Procs
<1>2. ASSUME NEW e \in Daemons, SyncLoop(e) PROVE Kept(d)
  <2>1. path' = path /\ pc' = pc
    BY <1>2 DEF SyncLoop, ReadBootstrapped, BootDiscover, BootUsers, BootPass, FullTick
  <2> QED BY <2>1, QuietKeeps
<1>3. ASSUME NEW e \in Daemons, StartDaemon(e) PROVE Kept(d)
  BY <1>3, QuietKeeps DEF StartDaemon, Goes, TypeOK, Procs
<1>4. ASSUME NEW e \in Daemons, Shutdown(e) PROVE Kept(d)
  BY <1>4, ShutdownKeeps
<1>5. ASSUME NEW s \in Sessions, Serve(s) \/ EndSession(s) PROVE Kept(d)
  BY <1>5, SessionKeeps
<1>6. ASSUME NEW x \in Procs, Die(x) PROVE Kept(d)
  BY <1>6, QuietKeeps DEF Die, Goes, TypeOK, Procs
<1>7. CASE UNCHANGED vars
  BY <1>7, QuietKeeps DEF vars
<1> QED BY <1>1, <1>2, <1>3, <1>4, <1>5, <1>6, <1>7 DEF Next

(***************************************************************************)
(* Whatever any number of daemons and sessions do at once, with crashes    *)
(* and signals: a daemon that serves, is reached, and is alone past the    *)
(* dial keeps the socket and stays the only one to serve until it ends.    *)
(***************************************************************************)
THEOREM ChargeIsKept == Spec => Undisturbed
<1>1. TypeOK /\ [Next]_vars => [\A d \in Daemons : InCharge(d) => InCharge(d)' \/ pc'[d] # "serve"]_vars
  BY NextKeeps DEF Kept
<1> QED BY TypeCorrect, <1>1, PTL DEF Spec, Undisturbed
=============================================================================
