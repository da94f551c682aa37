--------------------------- MODULE Calls_proofs ---------------------------
(***************************************************************************)
(* What a session answers, for any number of sessions, any input and       *)
(* however often the daemon dies.                                          *)
(*                                                                         *)
(* The argument: a connection is named after the one call it was dialled   *)
(* for and is only there while its session waits for that call, so that a  *)
(* reply on it is the answer to the session's present line.  A resync is   *)
(* begun when its connection is taken from the backlog, where it stays     *)
(* when its session gives up: that happens to a connection once, and a     *)
(* call is dialled once.                                                   *)
(***************************************************************************)
EXTENDS Calls, SequenceTheorems, TLAPS

Numbers == 1 .. MaxLines
Said == [kind : {"result", "error", "tool error"}, version : Nat, mode : Modes,
         used : Modes, degraded : BOOLEAN]
Replies == [to : Numbers, of : Numbers, said : Said]
DaemonReplies == [of : Asked \cup {<<>>}, ok : BOOLEAN, used : Modes]
Connections == [answered : BOOLEAN, reply : DaemonReplies]
Works == [conn : Asked, call : Asked]

TypeInv ==
    /\ input \in [Sessions -> Seq(Lines)]
    /\ \A s \in Sessions : Len(input[s]) <= MaxLines
    /\ at \in [Sessions -> Nat]
    /\ \A s \in Sessions : at[s] <= Len(input[s])
    /\ pc \in [Sessions -> PcStates]
    /\ replies \in [Sessions -> Seq(Replies)]
    /\ DOMAIN conns \subseteq Asked
    /\ \A c \in DOMAIN conns : conns[c] \in Connections
    /\ backlog \subseteq Works /\ workers \subseteq Works
    /\ up \in BOOLEAN /\ crashes \in 0 .. MaxCrashes
    /\ ran \in [Asked -> [begun : Nat, ended : Nat]]

\* What a session is busy with fits the line it has read.
Fits(state, l) ==
    /\ l.kind = "request" /\ l.method = "tools/call"
    /\ state \in {"dial", "wait"} =>
          \/ l.tool \in {"resync", "status"}
          \/ Searches(l) /\ NeedsModel(l.mode)
    /\ state = "search" => Searches(l)

AskInv ==
    \A s \in Sessions : pc[s] # "read" => at[s] > 0 /\ Fits(pc[s], Current(s))

\* A connection belongs to the line its session waits for, and its reply too.
ConnInv ==
    /\ \A c \in DOMAIN conns :
          /\ pc[c[1]] = "wait" /\ at[c[1]] = c[2]
          /\ conns[c].answered =>
                conns[c].reply.of = c /\ conns[c].reply.used = UsedMode(LineOf(c))
    /\ \A w \in backlog \cup workers : w.conn = w.call

\* What has been dialled is of a line that was read, and not the one still to be dialled.
Dialled(a) == a[2] <= at[a[1]] /\ (a[2] = at[a[1]] => pc[a[1]] # "dial")

\* How far the resync of each call has got.
RanInv ==
    /\ \A a \in Asked : ran[a].ended <= ran[a].begun /\ ran[a].begun <= 1
    /\ \A s \in Sessions : pc[s] = "dial" => ran[Call(s)].begun = 0
    /\ \A s \in Sessions, n \in Numbers : n > at[s] => ran[<<s, n>>].begun = 0
    /\ \A c \in DOMAIN conns :
          conns[c].answered /\ conns[c].reply.ok /\ IsResync(c) => ran[c].ended = 1
    /\ \A b \in backlog : Dialled(b.call) /\ ran[b.call].begun = 0
    /\ \A w \in workers : IsResync(w.call) => ran[w.call].begun = 1 /\ ran[w.call].ended = 0

\* The sequence q of replies answers the lines of A.
Answers(q, A) ==
    /\ {q[n].to : n \in DOMAIN q} = A
    /\ \A n \in DOMAIN q : q[n].of = q[n].to
    /\ \A m, n \in DOMAIN q : m < n => q[m].to < q[n].to

MatchInv == \A s \in Sessions : Answers(replies[s], Answered(s))

ResyncSaid(s, r) ==
    input[s][r.to].tool = "resync" /\ r.said.kind = "result" => ran[<<s, r.to>>].ended = 1

SearchSaid(s, r) ==
    LET l == input[s][r.to] IN
    l.tool = "search" /\ r.said.kind = "result" =>
       /\ r.said.mode = r.said.used
       /\ r.said.degraded <=> NeedsModel(l.mode) /\ r.said.used = "keyword"

TrueOf(s, r) == ResyncSaid(s, r) /\ (HasModel => SearchSaid(s, r))

SaidInv == \A s \in Sessions : \A n \in DOMAIN replies[s] : TrueOf(s, replies[s][n])

CallsInv == TypeInv /\ AskInv /\ ConnInv /\ RanInv /\ MatchInv /\ SaidInv

-----------------------------------------------------------------------------
(* What is said, and types. *)

LEMMA Constants ==
    /\ MaxLines \in Nat /\ MaxCrashes \in Nat
    /\ Supported \subseteq Nat /\ \E v \in Supported : \A w \in Supported : w <= v
BY CallsAssumption

LEMMA LineFields ==
    ASSUME NEW l \in Lines
    PROVE  /\ l.version \in Nat /\ l.mode \in Modes
           /\ l.tool # "" => l.method = "tools/call"
           /\ l.tool = "recall" => l.mode \in {"", "none"}
<1>1. /\ l.tool # "" => l.method = "tools/call"
      /\ l.tool = "recall" => l.mode \in {"", "none"}
  BY CallsAssumption
<1>2. l \in [kind : {"malformed", "notification", "response", "request"},
             method : STRING, tool : STRING, mode : Modes, version : Nat]
  BY CallsAssumption
<1>3. l.version \in Nat /\ l.mode \in Modes
  BY <1>2
<1> QED BY <1>1, <1>3

LEMMA NegotiatedType == ASSUME NEW v \in Nat PROVE Negotiated(v) \in Nat
<1>1. (CHOOSE u \in Supported : \A w \in Supported : w <= u) \in Supported
  BY Constants
<1> QED BY <1>1, Constants DEF Negotiated

LEMMA PlainType ==
    ASSUME NEW k \in {"result", "error", "tool error"}
    PROVE  Plain(k) \in Said /\ Plain(k).kind = k
BY DEF Plain, Said, Modes

LEMMA LineType ==
    ASSUME TypeInv, NEW s \in Sessions, NEW n \in 1 .. Len(input[s])
    PROVE  /\ input[s][n] \in Lines /\ n \in Numbers
           /\ input[s][n].version \in Nat
           /\ input[s][n].mode \in Modes
           /\ input[s][n].tool # "" => input[s][n].method = "tools/call"
           /\ input[s][n].tool = "recall" => input[s][n].mode \in {"", "none"}
<1>1. input[s] \in Seq(Lines) /\ Len(input[s]) \in Nat /\ Len(input[s]) <= MaxLines
  BY DEF TypeInv
<1>2. input[s][n] \in Lines
  BY <1>1
<1>3. n \in Numbers
  BY <1>1, Constants DEF Numbers
<1> QED BY <1>2, <1>3, LineFields

LEMMA AtOnceType ==
    ASSUME NEW l \in Lines
    PROVE  AnswerAtOnce(l) \in Said
<1>0. l.version \in Nat
  BY LineFields
<1>1. Negotiated(l.version) \in Nat
  BY <1>0, NegotiatedType
<1>2. [Plain("result") EXCEPT !.version = Negotiated(l.version)] \in Said
  <2> DEFINE v == Negotiated(l.version)
  <2>1. v \in Nat
    BY <1>1
  <2> HIDE DEF v
  <2>2. [Plain("result") EXCEPT !.version = v] \in Said
    BY <2>1 DEF Plain, Said, Modes
  <2> QED BY <2>2 DEF v
<1> QED BY <1>2, PlainType DEF AnswerAtOnce

LEMMA AskedModeType == ASSUME NEW l, l.mode \in Modes PROVE AskedMode(l) \in Modes /\ UsedMode(l) \in Modes
BY DEF AskedMode, UsedMode, Modes

\* A session that replies appends to its own replies and leaves the others.
LEMMA ReplyType ==
    ASSUME TypeInv, NEW s \in Sessions, NEW n \in Numbers, NEW m \in Numbers, NEW said \in Said,
           Reply(s, n, m, said)
    PROVE  /\ replies' \in [Sessions -> Seq(Replies)]
           /\ replies'[s] = Append(replies[s], [to |-> n, of |-> m, said |-> said])
           /\ \A t \in Sessions \ {s} : replies'[t] = replies[t]
<1>1. [to |-> n, of |-> m, said |-> said] \in Replies
  BY DEF Replies
<1>2. replies[s] \in Seq(Replies) /\ replies \in [Sessions -> Seq(Replies)]
  BY DEF TypeInv
<1>3. Append(replies[s], [to |-> n, of |-> m, said |-> said]) \in Seq(Replies)
  BY <1>1, <1>2, AppendProperties
<1> QED BY <1>2, <1>3 DEF Reply

LEMMA CurrentType ==
    ASSUME TypeInv, AskInv, NEW s \in Sessions, pc[s] # "read"
    PROVE  /\ Current(s) \in Lines /\ Current(s).mode \in Modes /\ at[s] \in Numbers
           /\ Call(s) \in Asked
<1>1. at[s] \in 1 .. Len(input[s])
  BY DEF TypeInv, AskInv, Fits
<1> QED BY <1>1, LineType DEF Current, Call, Asked, Numbers

\* What may be said after a search that ran in mode u.
LEMMA FoundType ==
    ASSUME NEW l, NEW m \in Modes, NEW u \in Modes, NEW d \in BOOLEAN, NEW said \in Found(l, m, u, d)
    PROVE  /\ said \in Said
           /\ l.tool # "recall" => /\ said.kind = "result" /\ said.degraded = d
                                   /\ said.mode = m /\ said.used = u
<1>1. CASE l.tool = "recall"
  <2>1. said = [Plain("result") EXCEPT !.used = u] \/ said = Plain("tool error")
    BY <1>1 DEF Found
  <2>2. [Plain("result") EXCEPT !.used = u] \in Said
    BY DEF Plain, Said, Modes
  <2> QED BY <1>1, <2>1, <2>2, PlainType
<1>2. CASE l.tool # "recall"
  <2>1. said = [Plain("result") EXCEPT !.mode = m, !.used = u, !.degraded = d]
    BY <1>2 DEF Found
  <2> QED BY <2>1 DEF Plain, Said
<1> QED BY <1>1, <1>2

-----------------------------------------------------------------------------
(* What a session writes in a step. *)

\* Session s replies to its n-th line, and truly.
Speaks(s, n) ==
    \E said \in Said : /\ Reply(s, n, n, said)
                       /\ TrueOf(s, [to |-> n, of |-> n, said |-> said])

AtSame(s) == at' = at /\ pc[s] # "read"
AtNext(s) == /\ pc[s] = "read" /\ at[s] < Len(input[s])
             /\ at' = [at EXCEPT ![s] = @ + 1]

PcGoes(s) == \E x \in PcStates : pc' = [pc EXCEPT ![s] = x]

Outcome(s) ==
    /\ AtSame(s) \/ AtNext(s)
    /\ pc' = pc \/ PcGoes(s)
    /\ UNCHANGED <<input, ran>>
    /\ \/ /\ pc'[s] = "read" /\ Speaks(s, at'[s])
          /\ input[s][at'[s]].kind = "request"
       \/ /\ replies' = replies
          /\ \/ pc'[s] # "read"
             \/ AtNext(s) /\ pc' = pc /\ input[s][at'[s]].kind # "request"

LEMMA ErrorIsTrue ==
    ASSUME NEW s \in Sessions, NEW n, NEW said, said.kind # "result"
    PROVE  TrueOf(s, [to |-> n, of |-> n, said |-> said])
BY DEF TrueOf, ResyncSaid, SearchSaid

LEMMA OtherIsTrue ==
    ASSUME NEW s \in Sessions, NEW n, NEW said, input[s][n].tool \notin {"resync", "search"}
    PROVE  TrueOf(s, [to |-> n, of |-> n, said |-> said])
BY DEF TrueOf, ResyncSaid, SearchSaid

\* The answers at once: only a tools/call is about a tool, and none that is
\* answered at once and well is a search or a resync.
LEMMA AtOnceIsTrue ==
    ASSUME TypeInv, NEW s \in Sessions, NEW n \in 1 .. Len(input[s]),
           Leads(input[s][n]) = "read"
    PROVE  TrueOf(s, [to |-> n, of |-> n, said |-> AnswerAtOnce(input[s][n])])
<1> DEFINE l == input[s][n]
<1>1. CASE l.tool \notin {"resync", "search"}
  BY <1>1, OtherIsTrue
<1>2. CASE l.tool = "resync"
  BY <1>2, LineType DEF Leads
<1>3. CASE l.tool = "search"
  <2>1. l.method = "tools/call" /\ l.mode = "none"
    BY <1>3, LineType DEF Leads, NeedsModel, Searches
  <2>2. AnswerAtOnce(l) = Plain("tool error")
    BY <1>3, <2>1 DEF AnswerAtOnce
  <2>3. AnswerAtOnce(l).kind # "result"
    BY <2>2, PlainType
  <2> QED BY <2>3, ErrorIsTrue
<1> QED BY <1>1, <1>2, <1>3

LEMMA ReadLineOutcome ==
    ASSUME CallsInv, NEW s \in Sessions, ReadLine(s)
    PROVE  Outcome(s)
<1> DEFINE n == at[s] + 1
           l == input[s][n]
<1>1. AtNext(s) /\ at'[s] = n /\ pc \in [Sessions -> PcStates] /\ UNCHANGED <<input, ran>>
  BY DEF ReadLine, AtNext, CallsInv, TypeInv
<1>2. n \in 1 .. Len(input[s]) /\ n \in Numbers /\ l \in Lines
  <2>1. n \in 1 .. Len(input[s])
    BY DEF ReadLine, CallsInv, TypeInv
  <2> QED BY <2>1, LineType DEF CallsInv
<1>3. CASE ~Answerable(l)
  BY <1>1, <1>3 DEF ReadLine, Outcome, Answerable
<1>4. CASE Answerable(l) /\ Leads(l) = "read"
  <2>1. pc' = [pc EXCEPT ![s] = "read"] /\ Reply(s, n, n, AnswerAtOnce(l))
    BY <1>4 DEF ReadLine
  <2>2. Speaks(s, n)
    BY <1>2, <1>4, <2>1, AtOnceType, AtOnceIsTrue DEF Speaks, CallsInv
  <2> QED BY <1>1, <1>4, <2>1, <2>2 DEF Outcome, PcGoes, PcStates, Answerable
<1>5. CASE Answerable(l) /\ Leads(l) # "read"
  <2>1. Leads(l) \in PcStates
    BY DEF Leads, PcStates
  <2>2. pc' = [pc EXCEPT ![s] = Leads(l)] /\ replies' = replies
    BY <1>5 DEF ReadLine
  <2>3. pc'[s] # "read" /\ PcGoes(s)
    BY <1>1, <1>5, <2>1, <2>2 DEF PcGoes
  <2> QED BY <1>1, <2>2, <2>3 DEF Outcome
<1> QED BY <1>3, <1>4, <1>5

\* A session that is busy replies to its line.
LEMMA SpeaksHere ==
    ASSUME CallsInv, NEW s \in Sessions, pc[s] # "read", UNCHANGED <<input, at, ran>>,
           pc' = [pc EXCEPT ![s] = "read"], Speaks(s, at[s])
    PROVE  Outcome(s)
<1>1. AtSame(s) /\ PcGoes(s)
  BY DEF AtSame, PcGoes, PcStates
<1>2. pc'[s] = "read" /\ input[s][at'[s]].kind = "request"
  BY DEF CallsInv, TypeInv, AskInv, Fits, Current
<1> QED BY <1>1, <1>2 DEF Outcome

LEMMA Goes ==
    ASSUME CallsInv, NEW s \in Sessions, pc[s] # "read", UNCHANGED <<input, at, ran, replies>>,
           NEW x \in PcStates \ {"read"}, pc' = [pc EXCEPT ![s] = x]
    PROVE  Outcome(s)
<1>1. AtSame(s) /\ PcGoes(s) /\ pc'[s] # "read"
  BY DEF AtSame, PcGoes, CallsInv, TypeInv
<1> QED BY <1>1 DEF Outcome

LEMMA FallsBackOutcome ==
    ASSUME CallsInv, NEW s \in Sessions, pc[s] \in {"dial", "wait"}, FallsBack(s),
           UNCHANGED <<input, at, ran>>
    PROVE  Outcome(s)
<1> DEFINE l == Current(s)
<1>0. at[s] \in Numbers /\ l = input[s][at[s]] /\ pc[s] # "read"
  BY CurrentType DEF Current, CallsInv
<1>1. CASE Searches(l)
  <2>1. pc' = [pc EXCEPT ![s] = "search"] /\ replies' = replies
    BY <1>1 DEF FallsBack, Searches
  <2>2. "search" \in PcStates \ {"read"}
    BY DEF PcStates
  <2> QED BY <1>0, <2>1, <2>2, Goes
<1>2. CASE l.tool = "status"
  <2>1. PICK kind \in {"result", "tool error"} : Reply(s, at[s], at[s], Plain(kind))
    BY <1>2 DEF FallsBack, StatusHere, ReplyHere, Searches
  <2>2. pc' = [pc EXCEPT ![s] = "read"]
    BY <1>2 DEF FallsBack, Searches
  <2>3. Speaks(s, at[s])
    BY <1>0, <1>2, <2>1, PlainType, OtherIsTrue DEF Speaks
  <2> QED BY <1>0, <2>2, <2>3, SpeaksHere
<1>3. CASE ~Searches(l) /\ l.tool # "status"
  <2>1. pc' = [pc EXCEPT ![s] = "read"] /\ Reply(s, at[s], at[s], Plain("tool error"))
    BY <1>3 DEF FallsBack, ReplyHere
  <2>2. Speaks(s, at[s])
    BY <1>0, <2>1, PlainType, ErrorIsTrue DEF Speaks
  <2> QED BY <1>0, <2>1, <2>2, SpeaksHere
<1> QED BY <1>1, <1>2, <1>3

\* A reply on the connection of a session that waits is that of its own call.
LEMMA ReceiveOutcome ==
    ASSUME CallsInv, NEW s \in Sessions, Receive(s)
    PROVE  Outcome(s)
<1> DEFINE c == ConnOf(s)
           l == Current(s)
           m == AskedMode(l)
           u == UsedMode(l)
<1>0. /\ pc[s] = "wait" /\ c \in DOMAIN conns /\ conns[c].answered
      /\ c = <<s, at[s]>> /\ l = input[s][at[s]]
      /\ UNCHANGED <<input, at, ran>>
  BY DEF Receive, ConnOf, Call, Current
<1>1. CASE ~conns[c].reply.ok
  BY <1>0, <1>1, FallsBackOutcome DEF Receive
<1>2. CASE conns[c].reply.ok
  <2>1. conns[c].reply.of = c /\ conns[c].reply.used = u /\ LineOf(c) = l
    BY <1>0 DEF CallsInv, ConnInv, LineOf
  <2>2. pc' = [pc EXCEPT ![s] = "read"] /\ \E said \in Found(l, m, u, FALSE) : Reply(s, at[s], at[s], said)
    <3>1. c[2] = at[s]
      BY <1>0
    <3>2. /\ pc' = [pc EXCEPT ![s] = "read"]
          /\ \E said \in Found(l, m, conns[c].reply.used, FALSE) :
                Reply(s, at[s], conns[c].reply.of[2], said)
      BY <1>2 DEF Receive
    <3> HIDE DEF l, m, u, c
    <3> QED BY <2>1, <3>1, <3>2
  <2>3. at[s] \in Numbers /\ m \in Modes /\ u \in Modes
    BY <1>0, CurrentType, AskedModeType DEF CallsInv
  <2>4. PICK said \in Found(l, m, u, FALSE) : Reply(s, at[s], at[s], said)
    BY <2>2
  <2>5. /\ said \in Said
        /\ l.tool # "recall" => /\ said.kind = "result" /\ said.degraded = FALSE
                                /\ said.mode = m /\ said.used = u
    <3> HIDE DEF l, m, u
    <3> QED BY <2>3, <2>4, FoundType
  <2>6. TrueOf(s, [to |-> at[s], of |-> at[s], said |-> said])
    <3> DEFINE r == [to |-> at[s], of |-> at[s], said |-> said]
    <3>0. r.to = at[s] /\ r.said = said
      OBVIOUS
    <3> HIDE DEF r
    <3>1. ResyncSaid(s, r)
      <4>1. l.tool = "resync" => ran[c].ended = 1
        BY <1>0, <1>2, <2>1 DEF CallsInv, RanInv, IsResync
      <4> QED BY <1>0, <3>0, <4>1 DEF ResyncSaid
    <3>2. HasModel => SearchSaid(s, r)
      <4>1. l.tool = "search" => NeedsModel(l.mode)
        BY <1>0 DEF CallsInv, AskInv, Fits
      <4>2. l.tool = "search" /\ HasModel => u = m /\ m # "keyword"
        BY <4>1 DEF UsedMode, AskedMode, NeedsModel, Searches
      <4> QED BY <1>0, <2>5, <3>0, <4>2 DEF SearchSaid
    <3> QED BY <3>1, <3>2 DEF TrueOf, r
  <2>7. Speaks(s, at[s])
    BY <2>3, <2>4, <2>5, <2>6 DEF Speaks
  <2> QED BY <1>0, <2>2, <2>7, SpeaksHere
<1> QED BY <1>1, <1>2

LEMMA SearchHereOutcome ==
    ASSUME CallsInv, NEW s \in Sessions, SearchHere(s)
    PROVE  Outcome(s)
<1> DEFINE l == Current(s)
           d == Degraded(l)
<1>0. /\ pc[s] = "search" /\ l = input[s][at[s]] /\ at[s] \in Numbers
      /\ UNCHANGED <<input, at, ran>> /\ pc' = [pc EXCEPT ![s] = "read"]
      /\ \E said \in Found(l, "keyword", "keyword", d) \cup {Plain("tool error")} :
            Reply(s, at[s], at[s], said)
  BY CurrentType DEF SearchHere, ReplyHere, Current, CallsInv
<1>1. d \in BOOLEAN /\ "keyword" \in Modes
  BY DEF Degraded, NeedsModel, Modes
<1>2. PICK said \in Found(l, "keyword", "keyword", d) \cup {Plain("tool error")} :
         Reply(s, at[s], at[s], said)
  BY <1>0
<1>3. CASE said = Plain("tool error")
  <2>1. Speaks(s, at[s])
    BY <1>0, <1>2, <1>3, PlainType, ErrorIsTrue DEF Speaks
  <2> QED BY <1>0, <2>1, SpeaksHere
<1>4. CASE said \in Found(l, "keyword", "keyword", d)
  <2>1. /\ said \in Said
        /\ l.tool # "recall" => /\ said.mode = "keyword" /\ said.used = "keyword"
                                /\ said.degraded = d
    <3> DEFINE k == "keyword"
    <3>1. k \in Modes /\ said \in Found(l, k, k, d) /\ d \in BOOLEAN
      BY <1>1, <1>4
    <3> HIDE DEF l, d, k
    <3>2. said \in Said
      BY <3>1, FoundType
    <3>3. l.tool # "recall" => said.mode = k /\ said.used = k /\ said.degraded = d
      BY <3>1 DEF Found, Plain
    <3> QED BY <3>2, <3>3 DEF k
  <2>2. TrueOf(s, [to |-> at[s], of |-> at[s], said |-> said])
    <3> DEFINE r == [to |-> at[s], of |-> at[s], said |-> said]
    <3>0. r.to = at[s] /\ r.said = said
      OBVIOUS
    <3> HIDE DEF r
    <3>1. Searches(l)
      BY <1>0 DEF CallsInv, AskInv, Fits
    <3>2. SearchSaid(s, r)
      BY <1>0, <2>1, <3>0 DEF SearchSaid, Degraded
    <3>3. ResyncSaid(s, r)
      BY <1>0, <3>0, <3>1 DEF ResyncSaid, Searches
    <3> QED BY <3>2, <3>3 DEF TrueOf, r
  <2>3. Speaks(s, at[s])
    BY <1>0, <1>2, <2>1, <2>2 DEF Speaks
  <2> QED BY <1>0, <2>3, SpeaksHere
<1> QED BY <1>2, <1>3, <1>4

LEMMA SessionOutcome ==
    ASSUME CallsInv, NEW s \in Sessions, SessionStep(s)
    PROVE  Outcome(s)
<1>1. CASE ReadLine(s)
  BY <1>1, ReadLineOutcome
<1>2. CASE Dial(s)
  <2>1. "wait" \in PcStates \ {"read"}
    BY DEF PcStates
  <2> QED BY <1>2, <2>1, Goes DEF Dial
<1>3. CASE DialFails(s)
  BY <1>3, FallsBackOutcome DEF DialFails
<1>4. CASE Receive(s)
  BY <1>4, ReceiveOutcome
<1>5. CASE GiveUp(s)
  BY <1>5, FallsBackOutcome DEF GiveUp
<1>6. CASE SearchHere(s)
  BY <1>6, SearchHereOutcome
<1> QED BY <1>1, <1>2, <1>3, <1>4, <1>5, <1>6 DEF SessionStep

-----------------------------------------------------------------------------
(* Steps of a session keep the invariant. *)

LEMMA OutcomeType ==
    ASSUME CallsInv, NEW s \in Sessions, Outcome(s)
    PROVE  /\ at' \in [Sessions -> Nat] /\ pc' \in [Sessions -> PcStates]
           /\ \A t \in Sessions : at'[t] <= Len(input[t])
           /\ \A t \in Sessions \ {s} : at'[t] = at[t] /\ pc'[t] = pc[t]
           /\ at'[s] = at[s] \/ at'[s] = at[s] + 1
           /\ replies' \in [Sessions -> Seq(Replies)]
<1> USE DEF CallsInv, TypeInv
<1>1. /\ at' \in [Sessions -> Nat] /\ pc' \in [Sessions -> PcStates]
      /\ \A t \in Sessions \ {s} : at'[t] = at[t] /\ pc'[t] = pc[t]
      /\ at'[s] = at[s] \/ at'[s] = at[s] + 1
  <2>1. at \in [Sessions -> Nat] /\ pc \in [Sessions -> PcStates]
    OBVIOUS
  <2>2. at' = at \/ at' = [at EXCEPT ![s] = at[s] + 1]
    BY DEF Outcome, AtSame, AtNext
  <2>3. pc' = pc \/ \E x \in PcStates : pc' = [pc EXCEPT ![s] = x]
    BY DEF Outcome, PcGoes
  <2> HIDE DEF CallsInv, TypeInv
  <2>4. /\ at' \in [Sessions -> Nat] /\ \A t \in Sessions \ {s} : at'[t] = at[t]
        /\ at'[s] = at[s] \/ at'[s] = at[s] + 1
    BY <2>1, <2>2
  <2>5. pc' \in [Sessions -> PcStates] /\ \A t \in Sessions \ {s} : pc'[t] = pc[t]
    BY <2>1, <2>3
  <2> QED BY <2>4, <2>5
<1>2. \A t \in Sessions : at'[t] <= Len(input[t])
  BY <1>1 DEF Outcome, AtSame, AtNext
<1>3. CASE Speaks(s, at'[s])
  <2>1. at'[s] > 0
    BY <1>1 DEF Outcome, AtSame, AtNext, AskInv, Fits
  <2>2. at'[s] \in 1 .. Len(input[s])
    BY <1>1, <1>2, <2>1
  <2>3. at'[s] \in Numbers
    BY <2>2, LineType
  <2> QED BY <1>1, <1>2, <1>3, <2>3, ReplyType DEF Speaks
<1>4. CASE replies' = replies
  BY <1>1, <1>2, <1>4
<1> QED BY <1>1, <1>2, <1>3, <1>4 DEF Outcome

\* Of session s the connections to its present line may be gone, or made.
LEMMA SessionConns ==
    ASSUME CallsInv, NEW s \in Sessions, SessionStep(s)
    PROVE  /\ UNCHANGED <<input, workers, up, crashes, ran>>
           /\ \/ backlog' = backlog
              \/ Dial(s) /\ backlog' = backlog \cup {[conn |-> Call(s), call |-> Call(s)]}
           /\ \A c \in DOMAIN conns' : \/ /\ Dial(s) /\ c = Call(s) /\ pc'[s] = "wait"
                                          /\ conns'[c] = [answered |-> FALSE, reply |-> NoReply]
                                       \/ /\ c \in DOMAIN conns /\ conns'[c] = conns[c]
                                          /\ c[1] # s
<1>0. \A c \in DOMAIN conns : c[1] = s => c = Call(s) /\ pc[s] = "wait"
  <2> SUFFICES ASSUME NEW c \in DOMAIN conns, c[1] = s PROVE c = Call(s) /\ pc[s] = "wait"
    OBVIOUS
  <2>1. c \in Sessions \X Numbers /\ pc[c[1]] = "wait" /\ at[c[1]] = c[2]
    BY DEF CallsInv, TypeInv, ConnInv, Asked, Numbers
  <2> QED BY <2>1 DEF Call
<1>1. CASE Dial(s)
  <2>1. /\ pc[s] = "dial" /\ pc'[s] = "wait" /\ UNCHANGED <<input, workers, up, crashes, ran>>
        /\ conns' = [c \in DOMAIN conns \cup {Call(s)} |->
                       IF c = Call(s)
                       THEN [answered |-> FALSE, reply |-> NoReply] ELSE conns[c]]
        /\ backlog' = backlog \cup {[conn |-> Call(s), call |-> Call(s)]}
    BY <1>1 DEF Dial, ConnOf, CallsInv, TypeInv
  <2> QED BY <1>0, <1>1, <2>1
<1>2. CASE ReadLine(s) \/ DialFails(s) \/ SearchHere(s)
  <2>1. /\ conns' = conns /\ UNCHANGED <<input, backlog, workers, up, crashes, ran>>
        /\ pc[s] # "wait"
    BY <1>2 DEF ReadLine, DialFails, SearchHere
  <2> QED BY <1>0, <2>1
<1>3. CASE Receive(s) \/ GiveUp(s)
  <2>1. conns' = [c \in DOMAIN conns \ {Call(s)} |-> conns[c]]
    BY <1>3 DEF Receive, GiveUp, Closed, ConnOf
  <2>2. UNCHANGED <<input, backlog, workers, up, crashes, ran>>
    BY <1>3 DEF Receive, GiveUp
  <2> QED BY <1>0, <2>1, <2>2
<1> QED BY <1>1, <1>2, <1>3 DEF SessionStep

LEMMA OpenConnection == [answered |-> FALSE, reply |-> NoReply] \in Connections
BY DEF Connections, DaemonReplies, NoReply, Modes

LEMMA SessionType ==
    ASSUME CallsInv, NEW s \in Sessions, SessionStep(s)
    PROVE  TypeInv'
<1>1. Outcome(s)
  BY SessionOutcome
<1>2. \A c \in DOMAIN conns' : c \in Asked /\ conns'[c] \in Connections
  <2> SUFFICES ASSUME NEW c \in DOMAIN conns' PROVE c \in Asked /\ conns'[c] \in Connections
    OBVIOUS
  <2>1. Dial(s) => Call(s) \in Asked
    BY CurrentType DEF Dial, CallsInv
  <2> QED BY <2>1, SessionConns, OpenConnection DEF CallsInv, TypeInv
<1>3. UNCHANGED <<input, workers, up, crashes, ran>> /\ backlog' \subseteq Works
  <2>1. Dial(s) => [conn |-> Call(s), call |-> Call(s)] \in Works
    BY CurrentType DEF Dial, CallsInv, Works
  <2> QED BY <2>1, SessionConns DEF CallsInv, TypeInv
<1> QED BY <1>1, <1>2, <1>3, OutcomeType DEF CallsInv, TypeInv

LEMMA SessionAsk ==
    ASSUME CallsInv, NEW s \in Sessions, SessionStep(s)
    PROVE  AskInv'
<1> USE DEF CallsInv, TypeInv
<1>0. Outcome(s) /\ input' = input
  BY SessionOutcome DEF Outcome
<1> SUFFICES ASSUME pc'[s] # "read" PROVE at'[s] > 0 /\ Fits(pc'[s], input[s][at'[s]])
  <2>1. \A t \in Sessions \ {s} : at'[t] = at[t] /\ pc'[t] = pc[t]
    BY <1>0, OutcomeType
  <2> QED BY <1>0, <2>1 DEF AskInv, Fits, Current
<1>1. CASE ReadLine(s)
  <2> DEFINE l == input[s][at[s] + 1]
  <2>1. at'[s] = at[s] + 1 /\ at[s] \in Nat /\ pc[s] = "read"
    BY <1>1 DEF ReadLine
  <2>2. Answerable(l) /\ pc'[s] = Leads(l) /\ Leads(l) # "read"
    BY <1>1, <2>1 DEF ReadLine
  <2>3. Fits(Leads(l), l)
    BY <2>2 DEF Leads, Answerable, Fits
  <2> QED BY <2>1, <2>2, <2>3
<1>2. CASE Dial(s)
  BY <1>2 DEF Dial, AskInv, Fits, Current
<1>3. CASE (DialFails(s) \/ Receive(s) \/ GiveUp(s)) /\ FallsBack(s)
  BY <1>3 DEF DialFails, Receive, GiveUp, FallsBack, AskInv, Fits, Current
<1>4. CASE Receive(s) /\ ~FallsBack(s)
  BY <1>4 DEF Receive
<1>5. CASE SearchHere(s)
  BY <1>5 DEF SearchHere
<1> QED BY <1>1, <1>2, <1>3, <1>4, <1>5 DEF SessionStep, DialFails, GiveUp

LEMMA SessionConn ==
    ASSUME CallsInv, NEW s \in Sessions, SessionStep(s)
    PROVE  ConnInv' /\ RanInv'
<1>0. Outcome(s)
  BY SessionOutcome
<1>1. ConnInv'
  <2>1. ASSUME NEW c \in DOMAIN conns'
        PROVE  /\ pc'[c[1]] = "wait" /\ at'[c[1]] = c[2]
               /\ conns'[c].answered =>
                     conns'[c].reply.of = c /\ conns'[c].reply.used = UsedMode(LineOf(c))'
    <3>1. CASE Dial(s) /\ c = Call(s)
      <4>1. conns'[c] = [answered |-> FALSE, reply |-> NoReply] /\ pc'[s] = "wait" /\ at' = at
        BY <3>1, SessionConns DEF Dial, Call, CallsInv, TypeInv, ConnInv
      <4> QED BY <3>1, <4>1 DEF Call
    <3>2. CASE c \in DOMAIN conns /\ conns'[c] = conns[c] /\ c[1] # s
      <4>1. c[1] \in Sessions
        BY <3>2 DEF CallsInv, TypeInv, Asked
      <4>2. pc'[c[1]] = pc[c[1]] /\ at'[c[1]] = at[c[1]]
        BY <1>0, <3>2, <4>1, OutcomeType
      <4>3. UsedMode(LineOf(c))' = UsedMode(LineOf(c))
        BY SessionConns DEF UsedMode, AskedMode, LineOf
      <4> QED BY <3>2, <4>2, <4>3 DEF CallsInv, ConnInv
    <3> QED BY <3>1, <3>2, SessionConns
  <2>2. \A w \in backlog' \cup workers' : w.conn = w.call
    BY SessionConns DEF ConnInv, CallsInv
  <2> QED BY <2>1, <2>2 DEF ConnInv
<1>2. RanInv'
  <2>1. \A c \in DOMAIN conns' :
          conns'[c].answered /\ conns'[c].reply.ok /\ IsResync(c) => ran[c].ended = 1
    <3> SUFFICES ASSUME NEW c \in DOMAIN conns'
                 PROVE  conns'[c].answered /\ conns'[c].reply.ok /\ IsResync(c) => ran[c].ended = 1
      OBVIOUS
    <3>1. CASE conns'[c] = [answered |-> FALSE, reply |-> NoReply]
      BY <3>1
    <3>2. CASE c \in DOMAIN conns /\ conns'[c] = conns[c]
      BY <3>2 DEF CallsInv, RanInv
    <3> QED BY <3>1, <3>2, SessionConns
  <2>2. \A t \in Sessions : pc'[t] = "dial" => ran[<<t, at'[t]>>].begun = 0
    <3>1. CASE ReadLine(s)
      <4>1. pc'[s] = "dial" => at[s] + 1 \in Numbers /\ at'[s] = at[s] + 1 /\ at[s] \in Nat
        <5>1. at[s] + 1 \in 1 .. Len(input[s])
          BY <3>1 DEF ReadLine, CallsInv, TypeInv
        <5> QED BY <3>1, <5>1, LineType DEF ReadLine, CallsInv, TypeInv
      <4>2. pc'[s] = "dial" => ran[<<s, at'[s]>>].begun = 0
        BY <4>1 DEF CallsInv, RanInv
      <4> QED BY <1>0, <4>2, OutcomeType DEF CallsInv, RanInv, Call
    <3>2. CASE ~ReadLine(s)
      <4>1. pc'[s] # "dial"
        BY <3>2 DEF SessionStep, Dial, DialFails, Receive, GiveUp, SearchHere, FallsBack, CallsInv, TypeInv
      <4> QED BY <1>0, <4>1, OutcomeType DEF CallsInv, RanInv, Call
    <3> QED BY <3>1, <3>2
  <2>3. \A t \in Sessions, n \in Numbers : n > at'[t] => ran[<<t, n>>].begun = 0
    <3>1. \A t \in Sessions : at'[t] >= at[t] /\ at[t] \in Nat /\ at'[t] \in Nat
      <4>1. at \in [Sessions -> Nat]
        BY DEF CallsInv, TypeInv
      <4>2. /\ at' \in [Sessions -> Nat] /\ (at'[s] = at[s] \/ at'[s] = at[s] + 1)
            /\ \A t \in Sessions \ {s} : at'[t] = at[t]
        BY <1>0, OutcomeType
      <4> QED BY <4>1, <4>2
    <3> QED BY <3>1 DEF CallsInv, RanInv, Numbers
  <2>4. \A b \in backlog' : Dialled(b.call)' /\ ran[b.call].begun = 0
    <3>1. ASSUME NEW b \in backlog PROVE Dialled(b.call)' /\ ran[b.call].begun = 0
      <4> DEFINE t == b.call[1]
      <4>0. b.call \in Sessions \X Numbers /\ Dialled(b.call) /\ ran[b.call].begun = 0
        BY DEF CallsInv, TypeInv, RanInv, Works, Asked, Numbers
      <4>1. t \in Sessions /\ b.call[2] \in Nat
        BY <4>0, Constants DEF Numbers
      <4>2. CASE t # s
        <5>1. at'[t] = at[t] /\ pc'[t] = pc[t]
          BY <1>0, <4>1, <4>2, OutcomeType
        <5> QED BY <4>0, <5>1 DEF Dialled
      <4>3. CASE t = s /\ ReadLine(s)
        <5>1. at'[s] = at[s] + 1 /\ at[s] \in Nat
          BY <4>3 DEF ReadLine, CallsInv, TypeInv
        <5> QED BY <4>0, <4>1, <4>3, <5>1 DEF Dialled
      <4>4. CASE t = s /\ ~ReadLine(s)
        <5>1. pc'[s] # "dial" /\ at' = at
          BY <4>4 DEF SessionStep, Dial, DialFails, Receive, GiveUp, SearchHere, FallsBack, CallsInv, TypeInv
        <5> QED BY <4>0, <4>4, <5>1 DEF Dialled
      <4> QED BY <4>2, <4>3, <4>4
    <3>2. Dial(s) => at' = at /\ at[s] \in Nat /\ pc'[s] # "dial" /\ ran[<<s, at[s]>>].begun = 0
      BY DEF Dial, Call, CallsInv, RanInv, TypeInv
    <3> DEFINE e == [conn |-> Call(s), call |-> Call(s)]
    <3>3. backlog' = backlog \/ (Dial(s) /\ backlog' = backlog \cup {e})
      BY SessionConns, Zenon
    <3>4. e.call = <<s, at[s]>>
      BY DEF Call
    <3> HIDE DEF e
    <3>5. ASSUME NEW b \in backlog' PROVE Dialled(b.call)' /\ ran[b.call].begun = 0
      <4>1. CASE b \in backlog
        BY <3>1, <4>1
      <4>2. CASE Dial(s) /\ b = e
        BY <3>2, <3>4, <4>2 DEF Dialled
      <4> QED BY <3>3, <4>1, <4>2
    <3> QED BY <3>5
  <2> QED BY <2>1, <2>2, <2>3, <2>4, SessionConns DEF CallsInv, RanInv, Call, IsResync, LineOf
<1> QED BY <1>1, <1>2

\* One more reply, to a line after all those answered.
LEMMA Extends ==
    ASSUME NEW q \in Seq(Replies), NEW A \in SUBSET Nat, NEW e \in Replies, Answers(q, A),
           e.of = e.to, \A a \in A : a < e.to
    PROVE  Answers(Append(q, e), A \cup {e.to})
<1> DEFINE r == Append(q, e)
<1>1. /\ r \in Seq(Replies) /\ Len(q) \in Nat /\ Len(r) = Len(q) + 1
      /\ DOMAIN q = 1 .. Len(q) /\ DOMAIN r = 1 .. Len(q) + 1
      /\ \A n \in 1 .. Len(q) : r[n] = q[n]
      /\ r[Len(q) + 1] = e
  BY AppendProperties
<1> HIDE DEF r
<1>2. \A n \in DOMAIN r : n \in DOMAIN q \/ n = Len(q) + 1
  BY <1>1
<1>3. \A n \in DOMAIN q : r[n] = q[n] /\ q[n].to \in A
  BY <1>1 DEF Answers
<1>4. {r[n].to : n \in DOMAIN r} = A \cup {e.to}
  BY <1>1, <1>2, <1>3 DEF Answers
<1>5. \A n \in DOMAIN r : r[n].of = r[n].to
  BY <1>1, <1>2, <1>3 DEF Answers
<1>6. ASSUME NEW m \in DOMAIN r, NEW n \in DOMAIN r, m < n
      PROVE  r[m].to < r[n].to
  <2>1. m \in DOMAIN q
    BY <1>1, <1>6
  <2>2. CASE n \in DOMAIN q
    BY <1>3, <1>6, <2>1, <2>2 DEF Answers
  <2>3. CASE n = Len(q) + 1
    BY <1>1, <1>3, <2>1, <2>3
  <2> QED BY <1>2, <2>2, <2>3
<1> QED BY <1>4, <1>5, <1>6 DEF Answers, r

LEMMA SessionMatch ==
    ASSUME CallsInv, NEW s \in Sessions, SessionStep(s)
    PROVE  MatchInv'
<1>0. Outcome(s) /\ input' = input
  BY SessionOutcome DEF Outcome
<1>1. \A t \in Sessions \ {s} : Answered(t)' = Answered(t)
  BY <1>0, OutcomeType DEF Answered
<1>2. /\ Answered(s) \subseteq Nat /\ \A n \in Answered(s) : n <= at[s]
      /\ at[s] \in Nat /\ at'[s] \in Nat
      /\ pc[s] # "read" => at[s] \notin Answered(s)
  BY <1>0, OutcomeType DEF Answered, CallsInv, TypeInv
<1>3. CASE pc'[s] = "read" /\ Speaks(s, at'[s]) /\ input[s][at'[s]].kind = "request"
  <2> DEFINE n == at'[s]
  <2>1. PICK said \in Said : Reply(s, n, n, said)
    BY <1>3 DEF Speaks
  <2> DEFINE e == [to |-> n, of |-> n, said |-> said]
  <2>2. n > 0 /\ n <= Len(input[s])
    BY <1>0, <1>2, OutcomeType DEF Outcome, AtSame, AtNext, CallsInv, AskInv, TypeInv
  <2>3. n \in Numbers
    <3>1. n \in 1 .. Len(input[s])
      BY <1>2, <2>2 DEF CallsInv, TypeInv
    <3> QED BY <3>1, LineType DEF CallsInv
  <2>4. /\ replies'[s] = Append(replies[s], e)
        /\ \A t \in Sessions \ {s} : replies'[t] = replies[t]
    BY <2>1, <2>3, ReplyType DEF CallsInv
  <2>5. e \in Replies /\ e.of = e.to /\ e.to = n
    BY <2>3 DEF Replies
  <2>6. Answered(s)' = Answered(s) \cup {n}
    <3>1. CASE AtSame(s)
      BY <1>0, <1>2, <1>3, <2>2, <3>1 DEF AtSame, Answered
    <3>2. CASE AtNext(s)
      <4>1. n = at[s] + 1 /\ pc[s] = "read"
        BY <3>2 DEF AtNext, CallsInv, TypeInv
      <4>2. \A k \in Nat : k \in 1 .. n <=> k \in 1 .. at[s] \/ k = n
        BY <1>2, <4>1
      <4> QED BY <1>0, <1>2, <1>3, <4>1, <4>2 DEF Answered
    <3> QED BY <1>0, <3>1, <3>2 DEF Outcome
  <2>7. \A a \in Answered(s) : a < n
    <3>1. CASE AtSame(s)
      BY <1>2, <3>1 DEF AtSame
    <3>2. CASE AtNext(s)
      <4>1. n = at[s] + 1
        BY <3>2 DEF AtNext, CallsInv, TypeInv
      <4> QED BY <1>2, <4>1
    <3> QED BY <1>0, <3>1, <3>2 DEF Outcome
  <2>8. replies[s] \in Seq(Replies) /\ Answers(replies[s], Answered(s))
    BY DEF CallsInv, TypeInv, MatchInv
  <2> HIDE DEF n, e
  <2>9. Answers(replies'[s], Answered(s)')
    <3>1. Answered(s) \in SUBSET Nat
      BY <1>2
    <3>2. Answers(Append(replies[s], e), Answered(s) \cup {e.to})
      BY <2>5, <2>7, <2>8, <3>1, Extends
    <3> QED BY <2>4, <2>5, <2>6, <3>2
  <2>10. ASSUME NEW t \in Sessions PROVE Answers(replies'[t], Answered(t)')
    <3>1. CASE t = s
      BY <2>9, <3>1
    <3>2. CASE t # s
      <4>1. replies'[t] = replies[t] /\ Answered(t)' = Answered(t)
        BY <1>1, <2>4, <3>2
      <4>2. Answers(replies[t], Answered(t))
        BY DEF MatchInv, CallsInv
      <4> QED BY <4>1, <4>2
    <3> QED BY <3>1, <3>2
  <2> QED BY <2>10 DEF MatchInv, Answers
<1>4. CASE /\ replies' = replies
           /\ \/ pc'[s] # "read"
              \/ AtNext(s) /\ pc' = pc /\ input[s][at'[s]].kind # "request"
  <2>1. Answered(s)' = Answered(s)
    <3>1. CASE AtSame(s)
      <4>1. at' = at /\ pc[s] # "read" /\ pc'[s] # "read"
        BY <1>4, <3>1 DEF AtSame, AtNext
      <4> QED BY <1>0, <4>1 DEF Answered
    <3>2. CASE AtNext(s)
      <4>1. at'[s] = at[s] + 1 /\ pc[s] = "read"
        BY <3>2 DEF AtNext, CallsInv, TypeInv
      <4>2. \A k \in Nat : k \in 1 .. at'[s] <=> k \in 1 .. at[s] \/ k = at'[s]
        BY <1>2, <4>1
      <4>3. pc'[s] # "read" \/ input[s][at'[s]].kind # "request"
        BY <1>4
      <4> QED BY <1>0, <1>2, <4>1, <4>2, <4>3 DEF Answered
    <3> QED BY <1>0, <3>1, <3>2 DEF Outcome
  <2> QED BY <1>1, <1>4, <2>1 DEF MatchInv, CallsInv, Answers
<1> QED BY <1>0, <1>3, <1>4 DEF Outcome

LEMMA SessionSaid ==
    ASSUME CallsInv, NEW s \in Sessions, SessionStep(s)
    PROVE  SaidInv'
<1>0. Outcome(s) /\ input' = input /\ ran' = ran
  BY SessionOutcome DEF Outcome
<1>1. \A t \in Sessions : \A r : TrueOf(t, r)' = TrueOf(t, r)
  BY <1>0 DEF TrueOf, ResyncSaid, SearchSaid
<1>2. CASE Speaks(s, at'[s])
  <2> DEFINE n == at'[s]
  <2>0. n > 0 /\ n <= Len(input[s]) /\ n \in Nat
    BY <1>0, OutcomeType DEF Outcome, AtSame, AtNext, CallsInv, AskInv, TypeInv
  <2>1. n \in Numbers
    <3>1. n \in 1 .. Len(input[s])
      BY <2>0 DEF CallsInv, TypeInv
    <3> QED BY <3>1, LineType DEF CallsInv
  <2>2. PICK said \in Said : /\ Reply(s, n, n, said)
                             /\ TrueOf(s, [to |-> n, of |-> n, said |-> said])
    BY <1>2 DEF Speaks
  <2> DEFINE e == [to |-> n, of |-> n, said |-> said]
  <2>3. /\ replies'[s] = Append(replies[s], e)
        /\ \A t \in Sessions \ {s} : replies'[t] = replies[t]
    BY <2>1, <2>2, ReplyType DEF CallsInv
  <2>4. replies[s] \in Seq(Replies) /\ e \in Replies /\ TrueOf(s, e)
    BY <2>1, <2>2 DEF CallsInv, TypeInv, Replies
  <2> HIDE DEF n, e
  <2>5. \A k \in DOMAIN replies'[s] :
          \/ k \in DOMAIN replies[s] /\ replies'[s][k] = replies[s][k]
          \/ replies'[s][k] = e
    BY <2>3, <2>4, AppendProperties
  <2>6. \A k \in DOMAIN replies'[s] : TrueOf(s, replies'[s][k])
    BY <2>4, <2>5 DEF CallsInv, SaidInv
  <2>7. \A t \in Sessions : \A k \in DOMAIN replies'[t] : TrueOf(t, replies'[t][k])
    BY <2>3, <2>6 DEF CallsInv, SaidInv
  <2> QED BY <1>1, <2>7 DEF SaidInv
<1>3. CASE replies' = replies
  BY <1>1, <1>3 DEF CallsInv, SaidInv
<1> QED BY <1>0, <1>2, <1>3 DEF Outcome

LEMMA SessionInv ==
    ASSUME CallsInv, NEW s \in Sessions, SessionStep(s)
    PROVE  CallsInv'
BY SessionType, SessionAsk, SessionConn, SessionMatch, SessionSaid DEF CallsInv

-----------------------------------------------------------------------------
(* Steps of the daemon. *)

LEMMA RepliesTyped ==
    ASSUME TypeInv, NEW s \in Sessions, NEW n \in DOMAIN replies[s]
    PROVE  /\ replies[s][n] \in Replies /\ replies[s][n].to \in Numbers
           /\ replies[s][n].said.kind \in {"result", "error", "tool error"}
<1>1. replies[s] \in Seq(Replies)
  BY DEF TypeInv
<1>2. replies[s][n] \in Replies
  BY <1>1
<1> QED BY <1>2 DEF Replies, Said

\* What speaks of sessions only is kept when nothing of a session changes.
LEMMA SessionsKept ==
    ASSUME CallsInv, UNCHANGED <<input, at, pc, replies>>,
           \A a \in Asked : ran[a].ended = 1 => ran'[a].ended = 1
    PROVE  AskInv' /\ MatchInv' /\ SaidInv'
<1>1. AskInv'
  BY DEF CallsInv, AskInv, Current
<1>2. \A s \in Sessions : Answered(s)' = Answered(s)
  BY DEF Answered
<1>3. MatchInv'
  BY <1>2 DEF CallsInv, MatchInv, Answers
<1>4. ASSUME NEW s \in Sessions, NEW n \in DOMAIN replies[s]
      PROVE  TrueOf(s, replies[s][n])'
  <2>1. replies[s][n].to \in Numbers
    BY RepliesTyped DEF CallsInv
  <2>2. <<s, replies[s][n].to>> \in Asked
    BY <2>1 DEF Asked, Numbers
  <2>3. TrueOf(s, replies[s][n])
    BY DEF CallsInv, SaidInv
  <2> QED BY <2>2, <2>3 DEF TrueOf, ResyncSaid, SearchSaid
<1> QED BY <1>1, <1>3, <1>4 DEF SaidInv

LEMMA AcceptInv ==
    ASSUME CallsInv, Accept
    PROVE  CallsInv'
<1> USE DEF CallsInv
<1>0. UNCHANGED <<input, at, pc, replies, conns, up, crashes>>
  BY DEF Accept
<1>1. PICK b \in backlog :
         /\ backlog' = backlog \ {b}
         /\ workers' = workers \cup {b}
         /\ ran' = IF IsResync(b.call) THEN [ran EXCEPT ![b.call].begun = @ + 1] ELSE ran
  BY DEF Accept
<1> DEFINE c == b.call
<1>2. b \in Works /\ b.conn = c /\ c \in Asked /\ Dialled(c) /\ ran[c].begun = 0
  BY <1>1 DEF TypeInv, ConnInv, RanInv, Works
<1>3. /\ ran' \in [Asked -> [begun : Nat, ended : Nat]]
      /\ \A a \in Asked : ran'[a].ended = ran[a].ended
      /\ \A a \in Asked \ {c} : ran'[a].begun = ran[a].begun
      /\ ran'[c].begun = IF IsResync(c) THEN 1 ELSE 0
  <2>1. ran \in [Asked -> [begun : Nat, ended : Nat]]
    BY DEF TypeInv
  <2>2. CASE IsResync(c)
    <3>1. ran' = [ran EXCEPT ![c].begun = @ + 1]
      BY <1>1, <2>2
    <3> HIDE DEF c
    <3> QED BY <1>2, <2>1, <2>2, <3>1
  <2>3. CASE ~IsResync(c)
    <3>1. ran' = ran
      BY <1>1, <2>3
    <3> HIDE DEF c
    <3> QED BY <1>2, <2>1, <2>3, <3>1
  <2> QED BY <2>2, <2>3
<1> HIDE DEF c
<1>4. TypeInv'
  BY <1>0, <1>1, <1>2, <1>3 DEF TypeInv
<1>5. ConnInv'
  <2>1. \A d : UsedMode(LineOf(d))' = UsedMode(LineOf(d))
    BY <1>0 DEF UsedMode, AskedMode, LineOf
  <2> QED BY <1>0, <1>1, <2>1 DEF ConnInv
<1>6. RanInv'
  <2>0. \A a : IsResync(a)' = IsResync(a)
    BY <1>0 DEF IsResync, LineOf
  <2>d. \A a : Dialled(a)' <=> Dialled(a)
    BY <1>0 DEF Dialled
  <2>1. ASSUME NEW a \in Asked PROVE ran'[a].ended <= ran'[a].begun /\ ran'[a].begun <= 1
    <3>1. ran[a].ended <= ran[a].begun /\ ran[a].begun <= 1 /\ ran[a].ended \in Nat
      BY DEF RanInv, TypeInv
    <3>2. CASE a = c
      BY <1>2, <1>3, <3>1, <3>2
    <3>3. CASE a # c
      BY <1>3, <3>1, <3>3
    <3> QED BY <3>2, <3>3
  <2>2. ASSUME NEW s \in Sessions, pc'[s] = "dial" PROVE ran'[Call(s)].begun = 0
    <3>1. Call(s) \in Asked /\ pc[s] = "dial"
      BY <1>0, <2>2, CurrentType
    <3>2. Call(s) # c
      BY <1>2, <3>1 DEF Dialled, Call
    <3> QED BY <1>3, <3>1, <3>2 DEF RanInv
  <2>3. ASSUME NEW s \in Sessions, NEW n \in Numbers, n > at'[s] PROVE ran'[<<s, n>>].begun = 0
    <3>1. <<s, n>> \in Asked /\ n > at[s] /\ at[s] \in Nat /\ n \in Nat
      BY <1>0, <2>3, Constants DEF Asked, Numbers, TypeInv
    <3>2. <<s, n>> # c
      BY <1>2, <3>1 DEF Dialled
    <3> QED BY <1>3, <3>1, <3>2 DEF RanInv
  <2>4. ASSUME NEW d \in DOMAIN conns', conns'[d].answered, conns'[d].reply.ok, IsResync(d)
        PROVE  ran'[d].ended = 1
    BY <1>0, <1>3, <2>4 DEF RanInv, TypeInv
  <2>5. ASSUME NEW x \in backlog' PROVE Dialled(x.call) /\ ran'[x.call].begun = 0
    <3>1. x \in backlog /\ x # b /\ x \in Works /\ x.conn = x.call
      BY <1>1 DEF TypeInv, ConnInv
    <3>2. x.call # c /\ x.call \in Asked
      BY <1>2, <3>1 DEF c, Works
    <3> QED BY <1>3, <3>1, <3>2 DEF RanInv
  <2>6. ASSUME NEW w \in workers', IsResync(w.call)
        PROVE  ran'[w.call].begun = 1 /\ ran'[w.call].ended = 0
    <3>1. CASE w \in workers
      <4>1. w.call \in Asked /\ w.call # c
        BY <1>2, <2>6, <3>1 DEF TypeInv, RanInv, Works
      <4> QED BY <1>3, <2>6, <3>1, <4>1 DEF RanInv
    <3>2. CASE w = b
      BY <1>2, <1>3, <2>6, <3>2 DEF RanInv, TypeInv, c
    <3> QED BY <1>1, <3>1, <3>2
  <2> QED BY <1>0, <2>0, <2>d, <2>1, <2>2, <2>3, <2>4, <2>5, <2>6 DEF RanInv, Call
<1> QED BY <1>0, <1>3, <1>4, <1>5, <1>6, SessionsKept

LEMMA FinishInv ==
    ASSUME CallsInv, Finish
    PROVE  CallsInv'
<1> USE DEF CallsInv
<1>0. UNCHANGED <<input, at, pc, replies, backlog, up, crashes>>
  BY DEF Finish
<1>1. PICK w \in workers, ok \in BOOLEAN :
         /\ workers' = workers \ {w}
         /\ conns' = IF w.conn \notin DOMAIN conns THEN conns
                     ELSE [conns EXCEPT
                             ![w.conn].answered = TRUE,
                             ![w.conn].reply = [of |-> w.call, ok |-> ok,
                                                used |-> UsedMode(LineOf(w.call))]]
         /\ ran' = IF IsResync(w.call) /\ ok THEN [ran EXCEPT ![w.call].ended = @ + 1] ELSE ran
  BY DEF Finish
<1> DEFINE c == w.call
           answer == [of |-> c, ok |-> ok, used |-> UsedMode(LineOf(c))]
<1>2. w.conn = c /\ c \in Asked /\ (IsResync(c) => ran[c].begun = 1 /\ ran[c].ended = 0)
  BY DEF TypeInv, ConnInv, RanInv, Works
<1>3. /\ DOMAIN conns' = DOMAIN conns
      /\ c \in DOMAIN conns => conns'[c] = [conns[c] EXCEPT !.answered = TRUE, !.reply = answer]
      /\ \A d \in DOMAIN conns \ {c} : conns'[d] = conns[d]
  BY <1>1, <1>2
<1>4. /\ ran' \in [Asked -> [begun : Nat, ended : Nat]]
      /\ \A a \in Asked : ran'[a].begun = ran[a].begun
      /\ \A a \in Asked \ {c} : ran'[a].ended = ran[a].ended
      /\ ran'[c].ended = IF IsResync(c) /\ ok THEN 1 ELSE ran[c].ended
  <2>1. ran \in [Asked -> [begun : Nat, ended : Nat]]
    BY DEF TypeInv
  <2>2. CASE IsResync(c) /\ ok
    <3>1. ran' = [ran EXCEPT ![c].ended = @ + 1]
      BY <1>1, <2>2
    <3>2. ran[c].ended = 0 /\ c \in Asked
      BY <1>2, <2>2
    <3> HIDE DEF c
    <3> QED BY <2>1, <2>2, <3>1, <3>2
  <2>3. CASE ~(IsResync(c) /\ ok)
    <3>1. ran' = ran
      BY <1>1, <2>3
    <3> QED BY <2>1, <2>3, <3>1
  <2> QED BY <2>2, <2>3
<1> HIDE DEF c
<1>5. ASSUME c \in DOMAIN conns
      PROVE  /\ conns'[c] \in Connections /\ conns'[c].answered
             /\ conns'[c].reply = answer
  <2>1. LineOf(c).mode \in Modes
    <3>1. c = <<c[1], c[2]>> /\ c[1] \in Sessions /\ pc[c[1]] = "wait" /\ at[c[1]] = c[2]
      BY <1>2, <1>5 DEF ConnInv, Asked
    <3>2. Current(c[1]).mode \in Modes
      BY <3>1, CurrentType
    <3> QED BY <3>1, <3>2 DEF Current, LineOf
  <2>2. answer \in DaemonReplies
    BY <1>2, <2>1, AskedModeType DEF DaemonReplies
  <2> HIDE DEF answer
  <2>3. conns[c] \in Connections
    BY <1>5 DEF TypeInv
  <2> QED BY <1>3, <1>5, <2>2, <2>3 DEF Connections
<1>6. TypeInv'
  <2>1. \A d \in DOMAIN conns' : conns'[d] \in Connections
    BY <1>3, <1>5 DEF TypeInv
  <2> QED BY <1>0, <1>1, <1>3, <1>4, <2>1 DEF TypeInv
<1>7. ConnInv'
  <2>0. \A d : UsedMode(LineOf(d))' = UsedMode(LineOf(d))
    BY <1>0 DEF UsedMode, AskedMode, LineOf
  <2>1. ASSUME NEW d \in DOMAIN conns'
        PROVE  /\ pc'[d[1]] = "wait" /\ at'[d[1]] = d[2]
               /\ conns'[d].answered =>
                     conns'[d].reply.of = d /\ conns'[d].reply.used = UsedMode(LineOf(d))
    <3>1. CASE d = c
      BY <1>0, <1>3, <1>5, <3>1 DEF ConnInv
    <3>2. CASE d # c
      BY <1>0, <1>3, <3>2 DEF ConnInv
    <3> QED BY <3>1, <3>2
  <2> QED BY <1>0, <1>1, <2>0, <2>1 DEF ConnInv
<1>8. RanInv'
  <2>0. \A a : IsResync(a)' = IsResync(a)
    BY <1>0 DEF IsResync, LineOf
  <2>d. \A a : Dialled(a)' <=> Dialled(a)
    BY <1>0 DEF Dialled
  <2>1. \A a \in Asked : ran'[a].ended <= ran'[a].begun /\ ran'[a].begun <= 1
    BY <1>2, <1>4 DEF RanInv, TypeInv
  <2>2. \A s \in Sessions : pc[s] = "dial" => Call(s) \in Asked
    BY CurrentType
  <2>3. \A s \in Sessions, n \in Numbers : <<s, n>> \in Asked
    BY DEF Asked, Numbers
  <2>4. ASSUME NEW d \in DOMAIN conns'
        PROVE  conns'[d].answered /\ conns'[d].reply.ok /\ IsResync(d) => ran'[d].ended = 1
    <3>1. d \in DOMAIN conns /\ d \in Asked
      BY <1>3 DEF TypeInv
    <3>2. CASE d = c
      BY <1>4, <1>5, <3>1, <3>2
    <3>3. CASE d # c
      BY <1>3, <1>4, <3>1, <3>3 DEF RanInv
    <3> QED BY <3>2, <3>3
  <2>5. ASSUME NEW v \in workers', IsResync(v.call)
        PROVE  ran'[v.call].begun = 1 /\ ran'[v.call].ended = 0
    <3>1. v \in workers /\ v # w /\ v \in Works /\ v.conn = v.call
      BY <1>1 DEF TypeInv, ConnInv
    <3>2. w \in Works /\ w.conn = w.call
      BY DEF TypeInv, ConnInv
    <3>3. v.call # c /\ v.call \in Asked
      BY <3>1, <3>2 DEF c, Works
    <3> QED BY <1>4, <2>5, <3>1, <3>3 DEF RanInv
  <2>6. \A b \in backlog : b.call \in Asked
    BY DEF TypeInv, Works
  <2> QED BY <1>0, <1>4, <2>0, <2>d, <2>1, <2>2, <2>3, <2>4, <2>5, <2>6 DEF RanInv, Call
<1>9. \A a \in Asked : ran[a].ended = 1 => ran'[a].ended = 1
  BY <1>2, <1>4
<1> QED BY <1>0, <1>6, <1>7, <1>8, <1>9, SessionsKept

LEMMA DaemonInv ==
    ASSUME CallsInv, Crash \/ StartDaemon \/ UNCHANGED vars
    PROVE  CallsInv'
<1> USE DEF CallsInv
<1>0. UNCHANGED <<input, at, pc, replies, ran>>
  BY DEF Crash, StartDaemon, vars
<1>1. /\ DOMAIN conns' \subseteq DOMAIN conns
      /\ \A c \in DOMAIN conns' : conns'[c] = conns[c]
      /\ backlog' \subseteq backlog /\ workers' \subseteq workers
  BY DEF Crash, StartDaemon, vars
<1>2. up' \in BOOLEAN /\ crashes' \in 0 .. MaxCrashes
  <2>0. up \in BOOLEAN /\ crashes \in 0 .. MaxCrashes
    BY DEF TypeInv
  <2>1. CASE Crash
    <3>1. crashes < MaxCrashes /\ crashes' = crashes + 1
      BY <2>1 DEF Crash
    <3>2. up' \in BOOLEAN
      BY <2>1 DEF Crash
    <3> QED BY <2>0, <3>1, <3>2, Constants
  <2>2. CASE StartDaemon
    BY <2>0, <2>2 DEF StartDaemon
  <2>3. CASE UNCHANGED vars
    BY <2>0, <2>3 DEF vars
  <2> QED BY <2>1, <2>2, <2>3
<1>3. TypeInv'
  BY <1>0, <1>1, <1>2 DEF TypeInv
<1>4. ConnInv'
  <2>1. \A c : UsedMode(LineOf(c))' = UsedMode(LineOf(c))
    BY <1>0 DEF UsedMode, AskedMode, LineOf
  <2> QED BY <1>0, <1>1, <2>1 DEF ConnInv
<1>5. RanInv'
  BY <1>0, <1>1 DEF RanInv, Call, IsResync, LineOf, Dialled
<1> QED BY <1>0, <1>3, <1>4, <1>5, SessionsKept

-----------------------------------------------------------------------------
LEMMA InitInv == Init => CallsInv
<1> SUFFICES ASSUME Init PROVE CallsInv
  OBVIOUS
<1>1. \A s \in Sessions : input[s] \in Seq(Lines) /\ Len(input[s]) <= MaxLines
  <2> SUFFICES ASSUME NEW s \in Sessions PROVE input[s] \in Seq(Lines) /\ Len(input[s]) <= MaxLines
    OBVIOUS
  <2>1. input[s] \in UNION {[1 .. n -> Lines] : n \in 1 .. MaxLines}
    BY DEF Init
  <2>2. PICK n \in 1 .. MaxLines : input[s] \in [1 .. n -> Lines]
    BY <2>1
  <2>3. n \in Nat /\ n <= MaxLines
    BY Constants
  <2> QED BY <2>2, <2>3
<1>2. /\ \A s \in Sessions : at[s] = 0 /\ pc[s] = "read" /\ replies[s] = <<>>
      /\ DOMAIN conns = {} /\ backlog = {} /\ workers = {}
      /\ \A a \in Asked : ran[a] = [begun |-> 0, ended |-> 0]
  BY DEF Init
<1>3. TypeInv
  <2>1. input \in [Sessions -> Seq(Lines)]
    BY <1>1 DEF Init
  <2>2. replies \in [Sessions -> Seq(Replies)]
    BY DEF Init
  <2>3. /\ at \in [Sessions -> Nat] /\ pc \in [Sessions -> PcStates]
        /\ ran \in [Asked -> [begun : Nat, ended : Nat]]
        /\ crashes \in 0 .. MaxCrashes /\ up \in BOOLEAN
    BY Constants DEF Init, PcStates
  <2> QED BY <1>1, <1>2, <2>1, <2>2, <2>3 DEF TypeInv
<1>4. AskInv /\ ConnInv
  BY <1>2 DEF AskInv, ConnInv
<1>5. RanInv
  <2>1. \A s \in Sessions, n \in Numbers : ran[<<s, n>>].begun = 0
    BY <1>2 DEF Asked, Numbers
  <2> QED BY <1>2, <2>1 DEF RanInv
<1>6. MatchInv /\ SaidInv
  <2>1. \A s \in Sessions : DOMAIN replies[s] = {} /\ Answered(s) = {}
    <3> SUFFICES ASSUME NEW s \in Sessions PROVE DOMAIN replies[s] = {} /\ Answered(s) = {}
      OBVIOUS
    <3>1. DOMAIN replies[s] = {}
      BY <1>2
    <3>2. 1 .. at[s] = {}
      BY <1>2
    <3> QED BY <3>1, <3>2 DEF Answered
  <2> QED BY <2>1 DEF MatchInv, SaidInv, Answers
<1> QED BY <1>3, <1>4, <1>5, <1>6 DEF CallsInv

LEMMA Invariant == Spec => []CallsInv
<1>1. CallsInv /\ [Next]_vars => CallsInv'
  BY SessionInv, AcceptInv, FinishInv, DaemonInv DEF Next
<1> QED BY <1>1, InitInv, PTL DEF Spec

\* Every variable of a session, a connection and the daemon keeps its type.
THEOREM TypeCorrect == Spec => []TypeOK
<1>1. CallsInv => TypeOK
  <2> SUFFICES ASSUME TypeInv PROVE TypeOK
    BY DEF CallsInv
  <2>1. at \in [Sessions -> 0 .. MaxLines]
    BY Constants DEF TypeInv
  <2>2. \A s \in Sessions : \A n \in DOMAIN replies[s] :
           replies[s][n].said.kind \in {"result", "error", "tool error"}
    BY RepliesTyped
  <2>3. \A c \in DOMAIN conns : conns[c].answered \in BOOLEAN
    BY DEF TypeInv, Connections
  <2> QED BY <2>1, <2>2, <2>3 DEF TypeInv, TypeOK, Works
<1> QED BY <1>1, Invariant, PTL

(***************************************************************************)
(* For any number of sessions and any input: Serve answers each request    *)
(* once and in order, and Client.call never hands it another call's        *)
(* reply, however late the daemon is and however often it dies.            *)
(***************************************************************************)
THEOREM RequestsAreAnswered == Spec => []AnswersMatchRequests
<1>1. CallsInv => AnswersMatchRequests
  BY DEF CallsInv, MatchInv, Answers, AnswersMatchRequests
<1> QED BY <1>1, Invariant, PTL

(***************************************************************************)
(* For any number of sessions: the daemon begins each resync that a        *)
(* session asks for at most once, and Service.Resync reports as done only  *)
(* those that have run to their end.                                       *)
(***************************************************************************)
THEOREM ResyncsRunOnce == Spec => []ResyncRunsOnce
<1>1. CallsInv => ResyncRunsOnce
  BY DEF CallsInv, RanInv, SaidInv, TrueOf, ResyncSaid, ResyncRunsOnce
<1> QED BY <1>1, Invariant, PTL

(***************************************************************************)
(* With a model in the daemon, an answer of the search tool names the mode *)
(* that ran, and says that it is degraded when it had to do without the    *)
(* model.  (Without one it does not: MCCallsNoModel.cfg.)                  *)
(***************************************************************************)
THEOREM DegradedSearchSaysSo ==
    ASSUME HasModel
    PROVE  Spec => []DegradationIsSaid
<1>1. CallsInv => DegradationIsSaid
  BY DEF CallsInv, SaidInv, TrueOf, SearchSaid, DegradationIsSaid
<1> QED BY <1>1, Invariant, PTL
=============================================================================
