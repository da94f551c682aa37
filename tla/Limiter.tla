------------------------------ MODULE Limiter ------------------------------
(***************************************************************************)
(* internal/notion, limiter.go and client.go: every goroutine that talks   *)
(* to Notion goes through one limiter, which hands out the moments at      *)
(* which requests may leave, and through the retry loop of Client.do.      *)
(*                                                                         *)
(* Moments are counted in ticks from now, so that a moment in the future   *)
(* is a positive number.  A timer fires at its moment or up to MaxLate     *)
(* ticks after it; a response may take any time.                           *)
(***************************************************************************)
EXTENDS Integers

CONSTANTS
    Callers,      \* goroutines in a call of the API
    Interval,     \* limiter.interval
    MaxRetries,   \* Options.MaxRetries
    Base, Cap,    \* the first backoff, and the longest
    RetryAfters,  \* what a Retry-After header may say; 0 for none
    MaxLate,      \* how late a timer may wake a caller
    MaxLead       \* bound: no call starts while slots are taken further ahead

Larger(a, b) == IF a > b THEN a ELSE b
Smaller(a, b) == IF a < b THEN a ELSE b

\* backoff.
Backoff(attempt) == Smaller(Base * 2 ^ attempt, Cap)

ASSUME LimiterAssumption ==
    /\ Interval \in Nat \ {0} /\ MaxRetries \in Nat /\ MaxLead \in Nat
    /\ RetryAfters \subseteq Nat
    /\ MaxLate \in Nat /\ MaxLate < Interval
    /\ \A a \in 0 .. MaxRetries : Backoff(a) \in Nat

VARIABLES
    next,    \* limiter.next; a moment in the past counts as now
    caller,  \* what each goroutine is doing
    quiet    \* ticks since a request left, up to Interval

vars == <<next, caller, quiet>>

(***************************************************************************)
(* A caller waits for its slot, is in flight, has failed with a code, or   *)
(* pauses before a retry.  left is the time to the slot or to the end of   *)
(* the pause; barred what is left of the last Retry-After it was given.    *)
(***************************************************************************)
Idle == [pc |-> "idle", left |-> 0, attempt |-> 0, code |-> "none", barred |-> 0]

Init ==
    /\ next = 0
    /\ caller = [c \in Callers |-> Idle]
    /\ quiet = Interval

Back(c) == caller' = [caller EXCEPT ![c] = [Idle EXCEPT !.barred = caller[c].barred]]

-----------------------------------------------------------------------------
(* The limiter. *)

\* A caller that has the next slot.
Reserved(r, attempt) ==
    [r EXCEPT !.pc = "wait", !.left = next, !.attempt = attempt, !.code = "none"]

\* Plausible bug: a moment in the past is handed out as it is, once only.
ReserveSameSlot(c, attempt) ==
    /\ caller' = [caller EXCEPT ![c] = Reserved(caller[c], attempt)]
    /\ next' = Larger(next, Interval)

\* wait takes the next slot, under the lock.
Reserve(c, attempt) ==
    /\ caller' = [caller EXCEPT ![c] = Reserved(caller[c], attempt)]
    /\ next' = next + Interval

\* Plausible bugs: the later moment is not kept; the delay is ignored.
PenalizedAlways(slot, delay) == IF delay > 0 THEN delay ELSE slot
PenalizedNever(slot, delay) == slot

\* penalize.
Penalized(slot, delay) == Larger(slot, delay)

-----------------------------------------------------------------------------
(* Client.do and Client.attempt. *)

Call(c) ==
    /\ caller[c].pc = "idle"
    /\ next <= MaxLead
    /\ Reserve(c, 0)
    /\ UNCHANGED quiet

\* The slot has come: the request leaves.
Send(c) ==
    /\ caller[c].pc = "wait"
    /\ caller[c].left <= 0
    /\ caller' = [caller EXCEPT ![c].pc = "flight", ![c].left = 0]
    /\ quiet' = 0
    /\ UNCHANGED next

\* A 2xx response, or no response at all: the call ends.
Answer(c) ==
    /\ caller[c].pc = "flight"
    /\ Back(c)
    /\ UNCHANGED <<next, quiet>>

\* Any other status; attempt honours its Retry-After.
Refuse(c) ==
    /\ caller[c].pc = "flight"
    /\ \E code \in {"429", "5xx", "4xx"}, after \in RetryAfters :
          /\ caller' = [caller EXCEPT ![c].pc = "failed", ![c].code = code,
                                      ![c].barred = after]
          /\ next' = Penalized(next, after)
    /\ UNCHANGED quiet

Retryable(c) == caller[c].code # "4xx" /\ caller[c].attempt < MaxRetries

\* do gives up on an error that a retry cannot mend, or after the last retry.
GiveUp(c) ==
    /\ caller[c].pc = "failed"
    /\ ~Retryable(c)
    /\ Back(c)
    /\ UNCHANGED <<next, quiet>>

\* Otherwise do backs off, with everybody else after a 429.
BackOff(c) ==
    LET delay == Backoff(caller[c].attempt) IN
    /\ caller[c].pc = "failed"
    /\ Retryable(c)
    /\ caller' = [caller EXCEPT ![c].pc = "pause", ![c].left = delay]
    /\ next' = IF caller[c].code = "429" THEN Penalized(next, delay) ELSE next
    /\ UNCHANGED quiet

\* Plausible bug: the attempts are not counted.
RetryUncounted(c) ==
    /\ caller[c].pc = "pause"
    /\ caller[c].left = 0
    /\ Reserve(c, caller[c].attempt)
    /\ UNCHANGED quiet

Retry(c) ==
    /\ caller[c].pc = "pause"
    /\ caller[c].left = 0
    /\ Reserve(c, caller[c].attempt + 1)
    /\ UNCHANGED quiet

\* The context ends.  A slot that was taken stays taken.
Cancel(c) ==
    /\ caller[c].pc \in {"wait", "flight", "pause"}
    /\ Back(c)
    /\ UNCHANGED <<next, quiet>>

-----------------------------------------------------------------------------
\* A tick passes, unless somebody is overdue.
TickOf(r) ==
    [r EXCEPT !.left = IF r.pc = "wait" THEN r.left - 1 ELSE Larger(r.left - 1, 0),
              !.barred = Larger(r.barred - 1, 0)]

Tick ==
    /\ \A c \in Callers : caller[c].pc = "wait" => caller[c].left > -MaxLate
    /\ caller' = [c \in Callers |-> TickOf(caller[c])]
    /\ next' = Larger(next - 1, 0)
    /\ quiet' = Smaller(quiet + 1, Interval)

Proceed(c) ==
    Send(c) \/ Answer(c) \/ Refuse(c) \/ GiveUp(c) \/ BackOff(c) \/ Retry(c)

Next == Tick \/ \E c \in Callers : Call(c) \/ Proceed(c) \/ Cancel(c)

\* Timers fire, the HTTP client's timeout ends every request, and time passes.
Fairness == WF_vars(Tick) /\ \A c \in Callers : WF_vars(Proceed(c))

Spec == Init /\ [][Next]_vars /\ Fairness

-----------------------------------------------------------------------------
(* Properties. *)

CallerStates == {"idle", "wait", "flight", "failed", "pause"}
Attempts == 0 .. MaxRetries
Codes == {"none", "429", "5xx", "4xx"}
CallerRecords ==
    [pc : CallerStates, left : Int, attempt : Attempts, code : Codes, barred : Nat]

\* Every variable keeps its type, and no call is tried more than 1 + MaxRetries
\* times.
TypeOK ==
    /\ next \in Nat
    /\ caller \in [Callers -> CallerRecords]
    /\ quiet \in 0 .. Interval

(***************************************************************************)
(* Two requests leave at least an interval apart, less what a timer may be *)
(* late, whoever sends them and whatever calls failed, were retried or     *)
(* were cancelled in between: the pacing newLimiter's comment promises.    *)
(***************************************************************************)
SendsSpaced == [][(\E c \in Callers : Send(c)) => quiet >= Interval - MaxLate]_vars

(***************************************************************************)
(* After a response with a Retry-After, the goroutine that got it sends    *)
(* nothing before that time is over, neither the retry nor another call.   *)
(***************************************************************************)
RetryAfterHonoured == \A c \in Callers : caller[c].pc = "flight" => caller[c].barred = 0

(***************************************************************************)
(* Every call ends: no caller starves behind the slots of the others, and  *)
(* no answer makes it try for ever.                                        *)
(***************************************************************************)
CallsEnd == \A c \in Callers : caller[c].pc # "idle" ~> caller[c].pc = "idle"

(***************************************************************************)
(* Why: slots are an interval apart from each other, from the next one and *)
(* from the last request, a caller is never overdue, and a Retry-After is  *)
(* over before the slot of whoever must wait for it.  A caller that pauses  *)
(* has a retry left.                                                       *)
(***************************************************************************)
Waits(c) == caller[c].pc = "wait"

SlotsApart ==
    /\ \A c \in Callers : Waits(c) => caller[c].left + Interval <= next
    /\ \A c, d \in Callers :
          Waits(c) /\ Waits(d) /\ c # d
             => \/ caller[c].left + Interval <= caller[d].left
                \/ caller[d].left + Interval <= caller[c].left

SendsApart ==
    /\ quiet + next >= Interval - MaxLate
    /\ \A c \in Callers : Waits(c) => quiet + caller[c].left >= Interval - MaxLate

NobodyOverdue == \A c \in Callers : Waits(c) => caller[c].left >= -MaxLate

BarredApart ==
    \A c \in Callers :
       /\ caller[c].pc # "flight" => caller[c].barred <= next
       /\ Waits(c) /\ caller[c].barred > 0 => caller[c].barred <= caller[c].left

RetriesLeft == \A c \in Callers : caller[c].pc = "pause" => caller[c].attempt < MaxRetries

LimiterInv ==
    SlotsApart /\ SendsApart /\ NobodyOverdue /\ BarredApart /\ RetryAfterHonoured /\ RetriesLeft
=============================================================================
