------------------------------- MODULE Daemons -------------------------------
(***************************************************************************)
(* The processes of one board, from internal/daemon, internal/ipc, the     *)
(* opening of internal/mirror, and cmd: stdio processes ("sessions") start *)
(* a daemon when none answers; a daemon opens the mirror, takes the socket *)
(* from whoever left it behind, bootstraps, and serves.                    *)
(*                                                                         *)
(* The processes share two files and no lock: the socket and the mirror.   *)
(* Every system call and SQLite statement is one step.  Deadlines (how     *)
(* long a session waits for the daemon and for the mirror) may pass at any *)
(* moment.                                                                 *)
(***************************************************************************)
EXTENDS Naturals

CONSTANTS
    Daemons,     \* processes that run the daemon command
    Sessions,    \* processes that run the serve command
    NoOne,       \* no socket file
    MaxFaults    \* bound: crashes, shutdowns and failed calls of Notion

ASSUME DaemonsAssumption ==
    /\ NoOne \notin Daemons
    /\ Daemons \cap Sessions = {}
    /\ MaxFaults \in Nat

VARIABLES
    path,    \* the daemon that made the socket file, dead or alive
    file,    \* what the mirror file holds
    known,   \* what the mirror knows: "sources", "users", "bootstrapped"
    pc,      \* where each process is
    loop,    \* where the sync loop of each daemon is
    faults   \* failures so far

vars == <<path, file, known, pc, loop, faults>>

Procs == Daemons \cup Sessions

Init ==
    /\ path = NoOne
    /\ file = "absent"
    /\ known = {}
    /\ pc = [x \in Procs |-> "off"]
    /\ loop = [d \in Daemons |-> "off"]
    /\ faults = 0

Goes(x, label) == pc' = [pc EXCEPT ![x] = label]

\* A dial of the socket finds somebody.
Answers == \E d \in Daemons : path = d /\ pc[d] = "serve"

-----------------------------------------------------------------------------
(* mirror.Open, in a daemon or in a session that found no mirror. *)

\* Plausible bug: a session that has made the mirror goes on like a daemon.
OpenedAlike(x) == "stat"

\* The open mirror is handed on, to Run or to OpenReadOnly.
Opened(x) == IF x \in Daemons THEN "stat" ELSE "open"

\* The first connection creates the file.
CreateFile(x) ==
    /\ pc[x] = "create"
    /\ file' = IF file = "absent" THEN "blank" ELSE file
    /\ Goes(x, "schema")
    /\ UNCHANGED <<path, known, loop, faults>>

\* The ddl makes what is not there yet.
ApplySchema(x) ==
    /\ pc[x] = "schema"
    /\ file' = IF file = "blank" THEN "unversioned" ELSE file
    /\ Goes(x, "version")
    /\ UNCHANGED <<path, known, loop, faults>>

\* checkVersion reads the version.
CheckVersion(x) ==
    /\ pc[x] = "version"
    /\ Goes(x, IF file = "versioned" THEN Opened(x) ELSE "insert")
    /\ UNCHANGED <<path, file, known, loop, faults>>

\* ... and inserts it when there was none; the key may be there by now, which
\* is an error that ends the process.
InsertVersion(x) ==
    /\ pc[x] = "insert"
    /\ file' = "versioned"
    /\ Goes(x, IF file = "versioned" THEN "off" ELSE Opened(x))
    /\ UNCHANGED <<path, known, loop, faults>>

-----------------------------------------------------------------------------
(* ipc.Listen and Server.Close. *)

StatSocket(d) ==
    /\ pc[d] = "stat"
    /\ Goes(d, IF path = NoOne THEN "bind" ELSE "dial")
    /\ UNCHANGED <<path, file, known, loop, faults>>

\* Plausible bugs: a socket is always taken for a stale one, or for a live one.
DialSocketNever(d) ==
    /\ pc[d] = "dial"
    /\ Goes(d, "remove")
    /\ UNCHANGED <<path, file, known, loop, faults>>

DialSocketTrusting(d) ==
    /\ pc[d] = "dial"
    /\ Goes(d, "off")
    /\ UNCHANGED <<path, file, known, loop, faults>>

\* Whoever answers is another daemon, and this one ends.
DialSocket(d) ==
    /\ pc[d] = "dial"
    /\ Goes(d, IF Answers THEN "off" ELSE "remove")
    /\ UNCHANGED <<path, file, known, loop, faults>>

\* The socket is removed, whoever's it is by now; if it is gone already, that
\* is an error.
RemoveSocket(d) ==
    /\ pc[d] = "remove"
    /\ path' = NoOne
    /\ Goes(d, IF path = NoOne THEN "off" ELSE "bind")
    /\ UNCHANGED <<file, known, loop, faults>>

\* bind fails when there is a file.
BindSocket(d) ==
    /\ pc[d] = "bind"
    /\ path' = IF path = NoOne THEN d ELSE path
    /\ Goes(d, IF path = NoOne THEN "listen" ELSE "off")
    /\ UNCHANGED <<file, known, loop, faults>>

\* From here on dials succeed; Run starts the loops.
ListenSocket(d) ==
    /\ pc[d] = "listen"
    /\ Goes(d, "serve")
    /\ loop' = [loop EXCEPT ![d] = "meta"]
    /\ UNCHANGED <<path, file, known, faults>>

\* A signal: the listener removes the socket file, whoever's it is by now.
Shutdown(d) ==
    /\ faults < MaxFaults
    /\ faults' = faults + 1
    /\ pc[d] = "serve"
    /\ path' = NoOne
    /\ Goes(d, "closing")
    /\ loop' = [loop EXCEPT ![d] = "off"]
    /\ UNCHANGED <<file, known>>

\* Plausible bug: Run removes the socket file once more on its way out.
ExitRemoving(d) ==
    /\ pc[d] = "closing"
    /\ path' = NoOne
    /\ Goes(d, "off")
    /\ UNCHANGED <<file, known, loop, faults>>

\* The listener is closed and the process ends.
Exit(d) ==
    /\ pc[d] = "closing"
    /\ Goes(d, "off")
    /\ UNCHANGED <<path, file, known, loop, faults>>

-----------------------------------------------------------------------------
(* syncLoop, as far as the start-up is concerned. *)

LoopGoes(d, label) == loop' = [loop EXCEPT ![d] = label]

\* What a call of Notion brings: what it is for, or an error.
Brings(fact, d, onSuccess, onError) ==
    \/ /\ known' = known \cup {fact}
       /\ LoopGoes(d, onSuccess)
       /\ UNCHANGED faults
    \/ /\ faults < MaxFaults
       /\ faults' = faults + 1
       /\ LoopGoes(d, onError)
       /\ UNCHANGED known

ReadBootstrapped(d) ==
    /\ loop[d] = "meta"
    /\ LoopGoes(d, IF "bootstrapped" \in known THEN "ticks" ELSE "discover")
    /\ UNCHANGED <<path, file, known, pc, faults>>

\* bootstrap: without data sources it ends.
BootDiscover(d) ==
    /\ loop[d] = "discover"
    /\ Brings("sources", d, "users", "ticks")
    /\ UNCHANGED <<path, file, pc>>

\* bootstrap: it goes on without users.
BootUsers(d) ==
    /\ loop[d] = "users"
    /\ Brings("users", d, "pass", "pass")
    /\ UNCHANGED <<path, file, pc>>

\* bootstrap: the full pass, and the mark that it was the first.
BootPass(d) ==
    /\ loop[d] = "pass"
    /\ Brings("bootstrapped", d, "ticks", "ticks")
    /\ UNCHANGED <<path, file, pc>>

\* Plausible bug: only the bootstrap looks for data sources.
FullTickWithoutDiscover(d) ==
    /\ loop[d] = "ticks"
    /\ "sources" \in known
    /\ Brings("sources", d, "ticks", "ticks")
    /\ UNCHANGED <<path, file, pc>>

\* runPass for the full ticker discovers again.
FullTick(d) ==
    /\ loop[d] = "ticks"
    /\ Brings("sources", d, "ticks", "ticks")
    /\ UNCHANGED <<path, file, pc>>

-----------------------------------------------------------------------------
(* runServe. *)

StartSession(s) ==
    /\ pc[s] = "off"
    /\ Goes(s, "probe")
    /\ UNCHANGED <<path, file, known, loop, faults>>

\* The daemon command, by hand.
StartDaemon(d) ==
    /\ pc[d] = "off"
    /\ Goes(d, "create")
    /\ UNCHANGED <<path, file, known, loop, faults>>

\* Nobody answers: startDaemon launches one, whoever else has just done so.
Launch(s) ==
    /\ pc[s] = "probe" /\ ~Answers
    /\ \E d \in Daemons :
          /\ pc[d] = "off"
          /\ pc' = [pc EXCEPT ![s] = "poll", ![d] = "create"]
    /\ UNCHANGED <<path, file, known, loop, faults>>

\* Somebody answers, or the daemon cannot be launched.
Probe(s) ==
    /\ pc[s] = "probe"
    /\ Answers \/ \A d \in Daemons : pc[d] # "off"
    /\ Goes(s, "wait")
    /\ UNCHANGED <<path, file, known, loop, faults>>

\* startDaemon returns: the daemon answers, or has not done so in time.
Polled(s) ==
    /\ pc[s] = "poll"
    /\ Goes(s, "wait")
    /\ UNCHANGED <<path, file, known, loop, faults>>

\* ensureMirror: there is a file, or the session makes one after a while.
EnsureMirror(s) ==
    /\ pc[s] = "wait"
    /\ Goes(s, IF file = "absent" THEN "create" ELSE "open")
    /\ UNCHANGED <<path, file, known, loop, faults>>

\* OpenReadOnly wants a file and looks no further.
OpenReadOnly(s) ==
    /\ pc[s] = "open"
    /\ Goes(s, "ready")
    /\ UNCHANGED <<path, file, known, loop, faults>>

\* The gateway ends the session.
EndSession(s) ==
    /\ pc[s] = "ready"
    /\ Goes(s, "off")
    /\ UNCHANGED <<path, file, known, loop, faults>>

-----------------------------------------------------------------------------
\* A process dies anywhere; the socket file stays.
Die(x) ==
    /\ faults < MaxFaults
    /\ faults' = faults + 1
    /\ pc[x] # "off"
    /\ Goes(x, "off")
    /\ loop' = [d \in Daemons |-> IF d = x THEN "off" ELSE loop[d]]
    /\ UNCHANGED <<path, file, known>>

Open(x) == CreateFile(x) \/ ApplySchema(x) \/ CheckVersion(x) \/ InsertVersion(x)

Listen(d) ==
    StatSocket(d) \/ DialSocket(d) \/ RemoveSocket(d) \/ BindSocket(d) \/ ListenSocket(d)

SyncLoop(d) ==
    ReadBootstrapped(d) \/ BootDiscover(d) \/ BootUsers(d) \/ BootPass(d) \/ FullTick(d)

Run(d) == Open(d) \/ Listen(d) \/ Exit(d)

Serve(s) ==
    \/ StartSession(s) \/ Launch(s) \/ Probe(s) \/ Polled(s) \/ EnsureMirror(s) \/ Open(s)
    \/ OpenReadOnly(s)

Next ==
    \/ \E d \in Daemons : StartDaemon(d) \/ Run(d) \/ SyncLoop(d) \/ Shutdown(d)
    \/ \E s \in Sessions : Serve(s) \/ EndSession(s)
    \/ \E x \in Procs : Die(x)

\* Processes that run go on, tickers tick, and sessions end and come again.
Fairness ==
    /\ \A d \in Daemons : WF_vars(Run(d)) /\ WF_vars(SyncLoop(d))
    /\ \A s \in Sessions : WF_vars(Serve(s)) /\ WF_vars(EndSession(s))

Spec == Init /\ [][Next]_vars /\ Fairness

-----------------------------------------------------------------------------
(* Properties. *)

DaemonStates == {"off", "create", "schema", "version", "insert", "stat", "dial", "remove",
                 "bind", "listen", "serve", "closing"}
SessionStates == {"off", "probe", "poll", "wait", "create", "schema", "version", "insert",
                  "open", "ready"}

\* Every variable keeps its type.
TypeOK ==
    /\ path \in Daemons \cup {NoOne}
    /\ file \in {"absent", "blank", "unversioned", "versioned"}
    /\ known \in SUBSET {"sources", "users", "bootstrapped"}
    /\ pc \in [Procs -> DaemonStates \cup SessionStates]
    /\ \A d \in Daemons : pc[d] \in DaemonStates
    /\ \A s \in Sessions : pc[s] \in SessionStates
    /\ loop \in [Daemons -> {"off", "meta", "discover", "users", "pass", "ticks"}]
    /\ faults \in 0 .. MaxFaults

(***************************************************************************)
(* One daemon per board (the comment of package daemon): two never serve.  *)
(* The code does not keep this when daemons start at once.                 *)
(***************************************************************************)
OneDaemon == \A d, e \in Daemons : pc[d] = "serve" /\ pc[e] = "serve" => d = e

\* Dials reach daemon d, and what other daemons have seen of the socket dates
\* from when they could reach it, or is still to be seen.
InCharge(d) ==
    /\ pc[d] = "serve" /\ path = d
    /\ \A e \in Daemons \ {d} : pc[e] \notin {"remove", "bind", "listen", "serve"}

(***************************************************************************)
(* A daemon that serves and is reached, with no other past its dial of the *)
(* socket, is not disturbed until it ends: however many daemons start, at  *)
(* once or not, none of them takes its socket or comes to serve beside it, *)
(* nor does one that is ending remove it.                                  *)
(***************************************************************************)
Undisturbed ==
    [][\A d \in Daemons : InCharge(d) => InCharge(d)' \/ pc'[d] # "serve"]_vars

(***************************************************************************)
(* As long as sessions come, a daemon ends up answering, and goes on, in   *)
(* spite of stale sockets and half-made mirrors that crashes leave.        *)
(***************************************************************************)
DaemonAnswers == <>[]Answers

(***************************************************************************)
(* The data sources end up mirrored, whichever call of which bootstrap     *)
(* failed: full passes discover too.                                       *)
(***************************************************************************)
SourcesDiscovered == <>[]("sources" \in known)
=============================================================================
