------------------------------- MODULE Calls -------------------------------
(***************************************************************************)
(* internal/mcp, internal/tools, internal/jsonrpc and internal/ipc: what   *)
(* becomes of the lines a gateway writes to a session's standard input.    *)
(*                                                                         *)
(* A session handles one line at a time.  For what needs the model or the  *)
(* Notion token it dials the daemon, once per call, and waits for one      *)
(* reply until a deadline; the daemon serves each connection in a          *)
(* goroutine that does not notice when the session has gone, and takes up  *)
(* connections late.  The daemon may hang, die and start again.            *)
(***************************************************************************)
EXTENDS Naturals, Sequences

CONSTANTS
    Sessions,   \* stdio processes
    Lines,      \* what may be on a line of input
    MaxLines,   \* bound: lines of each session's input
    HasModel,   \* whether the daemon has opened a model
    Supported,  \* protocol revisions, by number; the largest is ProtocolVersion
    MaxCrashes  \* bound: deaths of the daemon

(***************************************************************************)
(* A line: malformed, a notification (no id), a response (no method), or a *)
(* request for a method; of a tools/call the tool, with mode the retrieval *)
(* mode of a search ("" is left out, "none" a search without a query); a   *)
(* recall has no mode, and "none" is a recall without an entity.           *)
(***************************************************************************)
Modes == {"", "none", "keyword", "vector", "hybrid"}

ASSUME CallsAssumption ==
    /\ Lines \subseteq [kind : {"malformed", "notification", "response", "request"},
                        method : STRING, tool : STRING, mode : Modes, version : Nat]
    /\ \A l \in Lines : l.tool # "" => l.method = "tools/call"
    /\ \A l \in Lines : l.tool = "recall" => l.mode \in {"", "none"}
    /\ HasModel \in BOOLEAN
    /\ Supported \subseteq Nat \ {0} /\ \E v \in Supported : \A w \in Supported : w <= v
    /\ MaxLines \in Nat /\ MaxCrashes \in Nat

VARIABLES
    input,      \* the lines of each session, never changed
    at,         \* how many of them the session has read
    pc,         \* what each session is doing: reading, dialling, waiting, searching itself
    replies,    \* what each session has written to its standard output
    conns,      \* the connections a session holds open, each with the reply that has arrived
    backlog,    \* connections the daemon has not yet accepted, and the call written to each
    workers,    \* goroutines of the daemon: the connection and the call it serves
    up,         \* whether the daemon serves its socket
    crashes,
    ran         \* not in the code: of each resync asked for, how often it was begun, and ended

vars == <<input, at, pc, replies, conns, backlog, workers, up, crashes, ran>>

Asked == Sessions \X (1 .. MaxLines)
NoReply == [of |-> <<>>, ok |-> FALSE, used |-> ""]

Init ==
    /\ input \in [Sessions -> UNION {[1 .. n -> Lines] : n \in 1 .. MaxLines}]
    /\ at = [s \in Sessions |-> 0]
    /\ pc = [s \in Sessions |-> "read"]
    /\ replies = [s \in Sessions |-> <<>>]
    /\ conns = [c \in {} |-> NoReply]
    /\ backlog = {} /\ workers = {}
    /\ up \in BOOLEAN
    /\ crashes = 0
    /\ ran = [a \in Asked |-> [begun |-> 0, ended |-> 0]]

Current(s) == input[s][at[s]]
Call(s) == <<s, at[s]>>

\* Plausible bug: the first connection of a session serves all its calls.
ConnOfSession(s) == <<s, 1>>

\* The client dials anew for each call.
ConnOf(s) == Call(s)

-----------------------------------------------------------------------------
(* internal/mcp: Serve, dispatch and call. *)

\* What a reply says: the mode a search reports, the one that ran, whether it is degraded.
Plain(kind) == [kind |-> kind, version |-> 0, mode |-> "", used |-> "", degraded |-> FALSE]

\* Session s writes a reply to its n-th line, with what was found for the line of.
Reply(s, n, of, said) ==
    replies' = [replies EXCEPT ![s] = Append(@, [to |-> n, of |-> of, said |-> said])]
ReplyHere(s, said) == Reply(s, at[s], at[s], said)

Negotiated(version) ==
    IF version \in Supported THEN version ELSE CHOOSE v \in Supported : \A w \in Supported : w <= v

\* Plausible bug: whatever has a method is dispatched.
AnswerableMethod(l) == l.kind \in {"notification", "request"}

\* IsRequest: the other lines are passed over in silence.
Answerable(l) == l.kind = "request"

NeedsModel(mode) == mode \in {"", "hybrid", "vector"}

\* Recall finds its entity by Search, without a mode.
Searches(l) == l.tool \in {"search", "recall"}

\* Where a request leads: to the daemon, to the mirror, or to an answer at once.
Leads(l) ==
    CASE l.method = "tools/call" /\ l.tool \in {"resync", "status"} -> "dial"
      [] l.method = "tools/call" /\ Searches(l) /\ l.mode # "none" ->
            IF NeedsModel(l.mode) THEN "dial" ELSE "search"
      [] OTHER -> "read"

AnswerAtOnce(l) ==
    CASE l.method = "initialize" -> [Plain("result") EXCEPT !.version = Negotiated(l.version)]
      [] l.method = "unknown" -> Plain("error")
      [] l.method = "tools/call" ->
            Plain(IF l.tool \in {"no params", "unknown"} THEN "error"
                  ELSE IF l.tool = "bad arguments" \/ l.mode = "none" THEN "tool error"
                  ELSE "result")
      [] OTHER -> Plain("result")

ReadLine(s) ==
    /\ pc[s] = "read" /\ at[s] < Len(input[s])
    /\ at' = [at EXCEPT ![s] = @ + 1]
    /\ LET l == input[s][at[s] + 1] IN
       IF ~Answerable(l) THEN UNCHANGED <<pc, replies>>
       ELSE /\ pc' = [pc EXCEPT ![s] = Leads(l)]
            /\ IF Leads(l) = "read" THEN Reply(s, at[s] + 1, at[s] + 1, AnswerAtOnce(l)) ELSE UNCHANGED replies
    /\ UNCHANGED <<input, conns, backlog, workers, up, crashes, ran>>

-----------------------------------------------------------------------------
(* internal/tools and the client of internal/ipc. *)

\* A status from the mirror: Stats reads it, and may fail.
StatusHere(s) == \E kind \in {"result", "tool error"} : ReplyHere(s, Plain(kind))

\* Plausible bug: a resync that fails is asked for once more.
FallsBackAgain(s) ==
    /\ pc' = [pc EXCEPT ![s] = CASE Searches(Current(s)) -> "search"
                                 [] Current(s).tool = "resync" -> "dial"
                                 [] OTHER -> "read"]
    /\ IF Current(s).tool = "status" THEN StatusHere(s) ELSE UNCHANGED replies

\* What the session does when the daemon cannot be asked, or does not answer well:
\* a search goes on by keyword, a status comes from the mirror, a resync fails.
FallsBack(s) ==
    /\ pc' = [pc EXCEPT ![s] = IF Searches(Current(s)) THEN "search" ELSE "read"]
    /\ CASE Searches(Current(s)) -> UNCHANGED replies
         [] Current(s).tool = "status" -> StatusHere(s)
         [] OTHER -> ReplyHere(s, Plain("tool error"))

Closed(s) == [c \in DOMAIN conns \ {ConnOf(s)} |-> conns[c]]

\* The dial, and the request after it.
Dial(s) ==
    /\ pc[s] = "dial" /\ up
    /\ conns' = [c \in DOMAIN conns \cup {ConnOf(s)} |->
                   IF c = ConnOf(s) THEN [answered |-> FALSE, reply |-> NoReply] ELSE conns[c]]
    /\ backlog' = backlog \cup {[conn |-> ConnOf(s), call |-> Call(s)]}
    /\ pc' = [pc EXCEPT ![s] = "wait"]
    /\ UNCHANGED <<input, at, replies, workers, up, crashes, ran>>

DialFails(s) ==
    /\ pc[s] = "dial" /\ ~up
    /\ FallsBack(s)
    /\ UNCHANGED <<input, at, conns, backlog, workers, up, crashes, ran>>

\* The mode a search asks for.
AskedMode(l) == IF ~Searches(l) THEN "" ELSE IF l.mode = "" THEN "hybrid" ELSE l.mode

(***************************************************************************)
(* What may be said when mode was asked for and used has run.  A recall    *)
(* drops the mode and what Degraded says, and goes on to read the          *)
(* relations of its best match, which may fail.                            *)
(***************************************************************************)
Found(l, mode, used, degraded) ==
    IF l.tool = "recall" THEN {[Plain("result") EXCEPT !.used = used], Plain("tool error")}
    ELSE {[Plain("result") EXCEPT !.mode = mode, !.used = used, !.degraded = degraded]}

\* A reply has arrived: a search reports the mode that was asked for.
Receive(s) ==
    LET c == ConnOf(s) r == conns[c].reply l == Current(s) IN
    /\ pc[s] = "wait" /\ c \in DOMAIN conns /\ conns[c].answered
    /\ conns' = Closed(s)
    /\ IF ~r.ok THEN FallsBack(s)
       ELSE /\ pc' = [pc EXCEPT ![s] = "read"]
            /\ \E said \in Found(l, AskedMode(l), r.used, FALSE) : Reply(s, at[s], r.of[2], said)
    /\ UNCHANGED <<input, at, backlog, workers, up, crashes, ran>>

\* Plausible bug: the connection has no deadline.
DeadlineNever(s) == FALSE

\* The deadline of the call passes, at any time.
Deadline(s) == pc[s] = "wait"

(***************************************************************************)
(* The deadline passes, or the connection breaks with the daemon.  The     *)
(* session closes its end; what it wrote stays in the daemon's backlog.    *)
(***************************************************************************)
GiveUp(s) ==
    /\ pc[s] = "wait"
    /\ Deadline(s) \/ ConnOf(s) \notin DOMAIN conns
    /\ conns' = Closed(s)
    /\ FallsBack(s)
    /\ UNCHANGED <<input, at, backlog, workers, up, crashes, ran>>

\* Plausible bug: the reply does not say why.
DegradedNever(l) == FALSE

\* A search that had needed the model says that it did without.
Degraded(l) == NeedsModel(l.mode)

\* Index.Search in the session's own process, by keyword, on the mirror: it may fail.
SearchHere(s) ==
    /\ pc[s] = "search"
    /\ pc' = [pc EXCEPT ![s] = "read"]
    /\ UNCHANGED <<input, at, conns, backlog, workers, up, crashes, ran>>
    /\ \E said \in Found(Current(s), "keyword", "keyword", Degraded(Current(s)))
                      \cup {Plain("tool error")} : ReplyHere(s, said)

-----------------------------------------------------------------------------
(* The server of internal/ipc, and the daemon behind it. *)

LineOf(call) == input[call[1]][call[2]]
IsResync(call) == LineOf(call).tool = "resync"

\* A goroutine takes the request from a connection and begins with it, though the
\* session may have closed its end.
Accept ==
    /\ up
    /\ \E b \in backlog :
          /\ backlog' = backlog \ {b}
          /\ workers' = workers \cup {b}
          /\ ran' = IF IsResync(b.call) THEN [ran EXCEPT ![b.call].begun = @ + 1] ELSE ran
    /\ UNCHANGED <<input, at, pc, replies, conns, up, crashes>>

\* Daemon.Search runs without the model what it cannot run with it.
UsedMode(l) ==
    IF Searches(l) /\ ~HasModel THEN "keyword" ELSE AskedMode(l)

(***************************************************************************)
(* The handler returns, with an error or not, and the goroutine writes its *)
(* reply: to a connection that the session may have closed.                *)
(***************************************************************************)
Finish ==
    /\ \E w \in workers, ok \in BOOLEAN :
          /\ workers' = workers \ {w}
          /\ conns' = IF w.conn \notin DOMAIN conns THEN conns
                      ELSE [conns EXCEPT
                              ![w.conn].answered = TRUE,
                              ![w.conn].reply = [of |-> w.call, ok |-> ok,
                                                 used |-> UsedMode(LineOf(w.call))]]
          /\ ran' = IF IsResync(w.call) /\ ok THEN [ran EXCEPT ![w.call].ended = @ + 1] ELSE ran
    /\ UNCHANGED <<input, at, pc, replies, backlog, up, crashes>>

\* The daemon dies: its goroutines and all connections are gone.
Crash ==
    /\ up /\ crashes < MaxCrashes
    /\ up' = FALSE
    /\ crashes' = crashes + 1
    /\ backlog' = {} /\ workers' = {}
    /\ conns' = [c \in {} |-> NoReply]
    /\ UNCHANGED <<input, at, pc, replies, ran>>

StartDaemon ==
    /\ ~up
    /\ up' = TRUE
    /\ UNCHANGED <<input, at, pc, replies, conns, backlog, workers, crashes, ran>>

-----------------------------------------------------------------------------
SessionStep(s) ==
    \/ ReadLine(s) \/ Dial(s) \/ DialFails(s) \/ Receive(s) \/ GiveUp(s) \/ SearchHere(s)

Next == (\E s \in Sessions : SessionStep(s)) \/ Accept \/ Finish \/ Crash \/ StartDaemon

\* Sessions run, and deadlines pass; nothing is assumed of the daemon.
Fairness == \A s \in Sessions : WF_vars(SessionStep(s))

Spec == Init /\ [][Next]_vars /\ Fairness

-----------------------------------------------------------------------------
(* Properties. *)

PcStates == {"read", "dial", "wait", "search"}

\* Every variable keeps its type.
TypeOK ==
    /\ at \in [Sessions -> 0 .. MaxLines]
    /\ pc \in [Sessions -> PcStates]
    /\ \A s \in Sessions : \A n \in DOMAIN replies[s] :
          replies[s][n].said.kind \in {"result", "error", "tool error"}
    /\ DOMAIN conns \subseteq Asked
    /\ \A c \in DOMAIN conns : conns[c].answered \in BOOLEAN
    /\ backlog \cup workers \subseteq [conn : Asked, call : Asked]
    /\ up \in BOOLEAN /\ crashes \in 0 .. MaxCrashes
    /\ ran \in [Asked -> [begun : Nat, ended : Nat]]

\* The requests among the lines that session s is done with.
Answered(s) ==
    {n \in 1 .. at[s] : input[s][n].kind = "request" /\ (n = at[s] => pc[s] = "read")}

(***************************************************************************)
(* Each request is answered once, in the order of the input, to its own id *)
(* and with what was found for it: a reply that comes after the deadline,  *)
(* or from a daemon that has been replaced, is nobody's answer.  Nothing   *)
(* else is written to the gateway.                                         *)
(***************************************************************************)
AnswersMatchRequests ==
    \A s \in Sessions :
       /\ {replies[s][n].to : n \in DOMAIN replies[s]} = Answered(s)
       /\ \A n \in DOMAIN replies[s] : replies[s][n].of = replies[s][n].to
       /\ \A m, n \in DOMAIN replies[s] : m < n => replies[s][m].to < replies[s][n].to

(***************************************************************************)
(* A resync runs at most once for each call, however its connection ends   *)
(* and though the daemon may take it up when its session has given up, and *)
(* one that was reported as done has run to its end.                       *)
(***************************************************************************)
ResyncRunsOnce ==
    /\ \A a \in Asked : ran[a].ended <= ran[a].begun /\ ran[a].begun <= 1
    /\ \A s \in Sessions : \A n \in DOMAIN replies[s] :
          LET r == replies[s][n] IN
          input[s][r.to].tool = "resync" /\ r.said.kind = "result" => ran[<<s, r.to>>].ended = 1

(***************************************************************************)
(* Service.Search's comment: a search that had to do without the model     *)
(* says so.  A reply reports the mode that ran, or that it is degraded.    *)
(* It holds for the search tool and a daemon with a model: a recall drops  *)
(* what Search says.                                                       *)
(***************************************************************************)
DegradationIsSaid ==
    \A s \in Sessions : \A n \in DOMAIN replies[s] :
       LET r == replies[s][n] l == input[s][r.to] IN
       l.tool = "search" /\ r.said.kind = "result" =>
          /\ r.said.mode = r.said.used
          /\ r.said.degraded <=> NeedsModel(l.mode) /\ r.said.used = "keyword"

(***************************************************************************)
(* A session gets through its input, whether the daemon answers, hangs or  *)
(* dies.                                                                   *)
(***************************************************************************)
InputIsAnswered == \A s \in Sessions : <>[](at[s] = Len(input[s]) /\ pc[s] = "read")
=============================================================================
