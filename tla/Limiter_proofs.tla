-------------------------- MODULE Limiter_proofs --------------------------
(***************************************************************************)
(* The pacing of Limiter, for any number of callers, any interval, backoff *)
(* and lateness of timers.                                                 *)
(***************************************************************************)
EXTENDS Limiter, TLAPS

-----------------------------------------------------------------------------
(* Types. *)

LEMMA Members ==
    /\ \A s \in {"idle", "wait", "flight", "failed", "pause"} : s \in CallerStates
    /\ \A s \in {"none", "429", "5xx", "4xx"} : s \in Codes
    /\ 0 \in Attempts
BY LimiterAssumption DEF CallerStates, Codes, Attempts

\* The record of a caller that takes a slot.
LEMMA ReservedType ==
    ASSUME NEW r \in CallerRecords, NEW a \in Attempts, next \in Int
    PROVE  Reserved(r, a) \in CallerRecords
BY Members DEF Reserved, CallerRecords

\* The record of a caller that goes on in another state.
LEMMA EnterType ==
    ASSUME NEW r \in CallerRecords, NEW s \in CallerStates, NEW n \in Int
    PROVE  [r EXCEPT !.pc = s, !.left = n] \in CallerRecords
BY DEF CallerRecords

LEMMA FlightType ==
    ASSUME NEW r \in CallerRecords
    PROVE  [r EXCEPT !.pc = "flight", !.left = 0] \in CallerRecords
<1>1. PICK n \in Int : n = 0
  OBVIOUS
<1>2. "flight" \in CallerStates
  BY Members
<1>3. [r EXCEPT !.pc = "flight", !.left = n] \in CallerRecords
  BY <1>2, EnterType
<1> QED
  BY <1>1, <1>3

LEMMA FailedType ==
    ASSUME NEW r \in CallerRecords, NEW k \in Codes, NEW b \in Nat
    PROVE  [r EXCEPT !.pc = "failed", !.code = k, !.barred = b] \in CallerRecords
BY Members DEF CallerRecords

LEMMA IdleType ==
    ASSUME NEW r \in CallerRecords
    PROVE  [Idle EXCEPT !.barred = r.barred] \in CallerRecords
<1>1. r.barred \in Nat
  BY DEF CallerRecords
<1> QED
  BY <1>1, Members DEF Idle, CallerRecords

LEMMA TickType ==
    ASSUME NEW r \in CallerRecords
    PROVE  TickOf(r) \in CallerRecords
<1> DEFINE left == IF r.pc = "wait" THEN r.left - 1 ELSE Larger(r.left - 1, 0)
           barred == Larger(r.barred - 1, 0)
<1>1. left \in Int /\ barred \in Nat
  BY DEF Larger, CallerRecords
<1>2. TickOf(r) = [r EXCEPT !.left = left, !.barred = barred]
  BY DEF TickOf
<1> HIDE DEF left, barred
<1> QED
  BY <1>1, <1>2 DEF CallerRecords

LEMMA TypeInit == Init => TypeOK
<1> SUFFICES ASSUME Init PROVE TypeOK
  OBVIOUS
<1>1. Idle \in CallerRecords
  BY Members DEF Idle, CallerRecords
<1> QED
  BY <1>1, LimiterAssumption DEF Init, TypeOK

LEMMA TypeStep == TypeOK /\ RetriesLeft /\ [Next]_vars => TypeOK'
<1> SUFFICES ASSUME TypeOK, RetriesLeft, [Next]_vars PROVE TypeOK'
  OBVIOUS
<1> USE DEF TypeOK
<1>0. Interval \in Nat /\ RetryAfters \subseteq Nat
  BY LimiterAssumption
<1>1. CASE Tick
  <2>1. next' \in Nat /\ quiet' \in 0 .. Interval
    BY <1>0, <1>1 DEF Tick, Larger, Smaller
  <2> QED
    BY <1>1, <2>1, TickType DEF Tick
<1>2. ASSUME NEW c \in Callers, NEW a \in Attempts, Reserve(c, a), UNCHANGED quiet
      PROVE  TypeOK'
  <2>1. Reserved(caller[c], a) \in CallerRecords
    BY ReservedType
  <2>2. next + Interval \in Nat
    BY <1>0
  <2> QED
    BY <1>2, <2>1, <2>2 DEF Reserve
<1>3. ASSUME NEW c \in Callers, Call(c) PROVE TypeOK'
  BY <1>2, <1>3, Members DEF Call
<1>4. ASSUME NEW c \in Callers, Send(c) PROVE TypeOK'
  <2>1. [caller[c] EXCEPT !.pc = "flight", !.left = 0] \in CallerRecords
    BY FlightType
  <2>2. caller' = [caller EXCEPT ![c] = [caller[c] EXCEPT !.pc = "flight", !.left = 0]]
    BY <1>4 DEF Send
  <2>3. next' = next /\ quiet' \in 0 .. Interval
    BY <1>0, <1>4 DEF Send
  <2> QED
    BY <2>1, <2>2, <2>3
<1>5. ASSUME NEW c \in Callers, Back(c), UNCHANGED <<next, quiet>> PROVE TypeOK'
  BY <1>5, IdleType DEF Back
<1>6. ASSUME NEW c \in Callers, Refuse(c) PROVE TypeOK'
  <2>1. PICK k \in {"429", "5xx", "4xx"}, after \in RetryAfters :
           /\ caller' = [caller EXCEPT ![c].pc = "failed", ![c].code = k,
                                       ![c].barred = after]
           /\ next' = Penalized(next, after)
    BY <1>6 DEF Refuse
  <2>2. [caller[c] EXCEPT !.pc = "failed", !.code = k, !.barred = after] \in CallerRecords
    <3>1. caller[c] \in CallerRecords /\ k \in Codes /\ after \in Nat
      BY <1>0, Members
    <3> QED
      BY <3>1, FailedType
  <2>3. next' \in Nat
    BY <1>0, <2>1 DEF Penalized, Larger
  <2> QED
    BY <1>6, <2>1, <2>2, <2>3 DEF Refuse
<1>7. ASSUME NEW c \in Callers, BackOff(c) PROVE TypeOK'
  <2> DEFINE delay == Backoff(caller[c].attempt)
  <2>1. delay \in Nat
    <3>1. caller[c].attempt \in 0 .. MaxRetries
      BY DEF CallerRecords, Attempts
    <3> QED
      BY <3>1, LimiterAssumption
  <2>2. [caller[c] EXCEPT !.pc = "pause", !.left = delay] \in CallerRecords
    <3>1. caller[c] \in CallerRecords /\ "pause" \in CallerStates /\ delay \in Int
      BY <2>1, Members
    <3> HIDE DEF delay
    <3> QED
      BY <3>1, EnterType
  <2>3. /\ caller' = [caller EXCEPT ![c] =
                        [caller[c] EXCEPT !.pc = "pause", !.left = delay]]
        /\ next' \in {next, Larger(next, delay)}
        /\ quiet' = quiet
    BY <1>7 DEF BackOff, Penalized
  <2> HIDE DEF delay
  <2>4. next' \in Nat
    BY <2>1, <2>3 DEF Larger
  <2> QED
    BY <2>2, <2>3, <2>4
<1>8. ASSUME NEW c \in Callers, Retry(c) PROVE TypeOK'
  <2>1. caller[c].attempt \in Attempts /\ caller[c].attempt < MaxRetries
    BY <1>8 DEF Retry, RetriesLeft, CallerRecords
  <2>2. caller[c].attempt + 1 \in Attempts
    BY <2>1, LimiterAssumption DEF Attempts
  <2> QED
    BY <1>2, <1>8, <2>2 DEF Retry
<1>9. CASE UNCHANGED vars
  BY <1>9 DEF vars
<1> QED
  BY <1>1, <1>3, <1>4, <1>5, <1>6, <1>7, <1>8, <1>9
     DEF Next, Proceed, Answer, GiveUp, Cancel

-----------------------------------------------------------------------------
(* Slots and requests stay apart. *)

LEMMA Numbers ==
    ASSUME TypeOK
    PROVE  /\ next \in Nat /\ quiet \in Nat /\ quiet <= Interval
           /\ Interval \in Nat /\ Interval > 0 /\ MaxLate \in Nat /\ MaxLate < Interval
           /\ \A c \in Callers : caller[c].left \in Int /\ caller[c].barred \in Nat
BY LimiterAssumption DEF TypeOK, CallerRecords

LEMMA InvInit == Init => LimiterInv
BY LimiterAssumption
   DEF Init, Idle, LimiterInv, SlotsApart, SendsApart, NobodyOverdue, BarredApart,
       RetryAfterHonoured, RetriesLeft, Waits

\* A caller fails, pauses or ends its call: the next slot only moves away.
LEMMA LeavesInv ==
    ASSUME TypeOK, TypeOK', LimiterInv, NEW c \in Callers, NEW r,
           caller' = [caller EXCEPT ![c] = r], r.pc \in {"idle", "failed", "pause"},
           r.pc = "pause" => r.attempt < MaxRetries, r.barred <= next', next' >= next,
           quiet' = quiet
    PROVE  LimiterInv'
<1>1. \A d \in Callers : IF d = c THEN caller'[d] = r ELSE caller'[d] = caller[d]
  BY DEF TypeOK
<1>2. \A d \in Callers : Waits(d)' => d # c /\ Waits(d) /\ caller'[d] = caller[d]
  BY <1>1 DEF Waits
<1>3. next' \in Nat
  BY DEF TypeOK
<1>4. SlotsApart'
  BY <1>2, <1>3, Numbers DEF LimiterInv, SlotsApart
<1>5. SendsApart'
  BY <1>2, <1>3, Numbers DEF LimiterInv, SendsApart
<1>6. NobodyOverdue'
  BY <1>2 DEF LimiterInv, NobodyOverdue
<1>7. BarredApart'
  BY <1>1, <1>2, <1>3, Numbers DEF LimiterInv, BarredApart, Waits
<1>8. RetryAfterHonoured' /\ RetriesLeft'
  BY <1>1 DEF LimiterInv, RetryAfterHonoured, RetriesLeft
<1> QED
  BY <1>4, <1>5, <1>6, <1>7, <1>8 DEF LimiterInv

\* A caller that is not in flight takes the next slot.
LEMMA ReserveInv ==
    ASSUME TypeOK, TypeOK', LimiterInv, NEW c \in Callers, NEW a, Reserve(c, a),
           caller[c].pc \in {"idle", "pause"}, quiet' = quiet
    PROVE  LimiterInv'
<1> DEFINE r == Reserved(caller[c], a)
<1>1. /\ \A d \in Callers : IF d = c THEN caller'[d] = r ELSE caller'[d] = caller[d]
      /\ next' = next + Interval
  BY DEF TypeOK, Reserve
<1>2. /\ r.pc = "wait" /\ r.left = next /\ r.barred = caller[c].barred
      /\ ~Waits(c) /\ caller[c].barred <= next
  BY DEF Reserved, TypeOK, CallerRecords, LimiterInv, BarredApart, Waits
<1> HIDE DEF r
<1>3. \A d \in Callers : Waits(d)' => d = c \/ (d # c /\ Waits(d) /\ caller'[d] = caller[d])
  BY <1>1 DEF Waits
<1>4. SlotsApart'
  BY <1>1, <1>2, <1>3, Numbers DEF LimiterInv, SlotsApart
<1>5. SendsApart'
  BY <1>1, <1>2, <1>3, Numbers DEF LimiterInv, SendsApart
<1>6. NobodyOverdue'
  BY <1>1, <1>2, <1>3, Numbers DEF LimiterInv, NobodyOverdue
<1>7. BarredApart'
  BY <1>1, <1>2, <1>3, Numbers DEF LimiterInv, BarredApart, Waits
<1>8. RetryAfterHonoured' /\ RetriesLeft'
  BY <1>1, <1>2 DEF LimiterInv, RetryAfterHonoured, RetriesLeft
<1> QED
  BY <1>4, <1>5, <1>6, <1>7, <1>8 DEF LimiterInv

\* A request leaves: whoever still waits has a slot after the one it used.
LEMMA SendInv ==
    ASSUME TypeOK, TypeOK', LimiterInv, NEW c \in Callers, Send(c)
    PROVE  LimiterInv'
<1> DEFINE r == [caller[c] EXCEPT !.pc = "flight", !.left = 0]
<1>1. /\ \A d \in Callers : IF d = c THEN caller'[d] = r ELSE caller'[d] = caller[d]
      /\ next' = next /\ quiet' = 0
      /\ Waits(c) /\ caller[c].left <= 0 /\ caller[c].left >= -MaxLate
  BY DEF TypeOK, Send, Waits, LimiterInv, NobodyOverdue
<1>2. r.pc = "flight" /\ r.barred = caller[c].barred
  BY DEF TypeOK, CallerRecords
<1> HIDE DEF r
<1>3. \A d \in Callers : Waits(d)' => d # c /\ Waits(d) /\ caller'[d] = caller[d]
  BY <1>1, <1>2 DEF Waits
<1>4. SlotsApart'
  BY <1>1, <1>3 DEF LimiterInv, SlotsApart
<1>5. SendsApart'
  <2>1. next >= Interval - MaxLate
    BY <1>1, Numbers DEF LimiterInv, SlotsApart
  <2>2. ASSUME NEW d \in Callers, d # c, Waits(d) PROVE caller[d].left >= Interval - MaxLate
    <3>1. caller[d].left >= -MaxLate
      BY <2>2 DEF LimiterInv, NobodyOverdue
    <3>2. \/ caller[d].left + Interval <= caller[c].left
          \/ caller[c].left + Interval <= caller[d].left
      BY <1>1, <2>2 DEF LimiterInv, SlotsApart
    <3> QED
      BY <1>1, <3>1, <3>2, Numbers
  <2> QED
    BY <1>1, <1>3, <2>1, <2>2, Numbers DEF SendsApart
<1>6. NobodyOverdue'
  BY <1>3 DEF LimiterInv, NobodyOverdue
<1>7. BarredApart'
  BY <1>1, <1>2, <1>3 DEF LimiterInv, BarredApart, Waits
<1>8. RetryAfterHonoured' /\ RetriesLeft'
  <2>1. caller[c].barred = 0
    BY <1>1, Numbers DEF LimiterInv, BarredApart
  <2> QED
    BY <1>1, <1>2, <2>1 DEF LimiterInv, RetryAfterHonoured, RetriesLeft
<1> QED
  BY <1>4, <1>5, <1>6, <1>7, <1>8 DEF LimiterInv

\* A tick moves every slot, and the time since the last request, by one.
LEMMA TickInv ==
    ASSUME TypeOK, TypeOK', LimiterInv, Tick
    PROVE  LimiterInv'
<1>1. ASSUME NEW d \in Callers
      PROVE  /\ caller'[d].pc = caller[d].pc /\ caller'[d].attempt = caller[d].attempt
             /\ Waits(d) => caller'[d].left = caller[d].left - 1
             /\ caller'[d].barred = Larger(caller[d].barred - 1, 0)
             /\ Waits(d) => caller[d].left > -MaxLate
  BY DEF Tick, TickOf, TypeOK, CallerRecords, Waits
<1>2. /\ next' = Larger(next - 1, 0) /\ quiet' = Smaller(quiet + 1, Interval)
      /\ \A d \in Callers : Waits(d)' <=> Waits(d)
  BY <1>1 DEF Tick, Waits
<1>3. next' >= next - 1
  BY <1>2, Numbers DEF Larger
<1>4. /\ next' \in Nat
      /\ \A d \in Callers : caller'[d].left \in Int /\ caller'[d].barred \in Nat
  BY DEF TypeOK, CallerRecords
<1>5. SlotsApart'
  BY <1>1, <1>2, <1>3, <1>4, Numbers DEF LimiterInv, SlotsApart
<1>6. NobodyOverdue'
  BY <1>1, <1>2, <1>4, Numbers DEF NobodyOverdue
<1>7. SendsApart'
  <2>1. quiet' = Interval \/ quiet' = quiet + 1
    BY <1>2 DEF Smaller
  <2>2. CASE quiet' = Interval
    BY <1>2, <1>4, <1>6, <2>2, Numbers DEF SendsApart, NobodyOverdue
  <2>3. CASE quiet' = quiet + 1
    BY <1>1, <1>2, <1>3, <1>4, <2>3, Numbers DEF LimiterInv, SendsApart
  <2> QED
    BY <2>1, <2>2, <2>3
<1>8. BarredApart'
  BY <1>1, <1>2, <1>3, <1>4, Numbers DEF LimiterInv, BarredApart, Larger
<1>9. RetryAfterHonoured' /\ RetriesLeft'
  BY <1>1, Numbers DEF LimiterInv, RetryAfterHonoured, RetriesLeft, Larger
<1> QED
  BY <1>5, <1>6, <1>7, <1>8, <1>9 DEF LimiterInv

LEMMA InvStep == TypeOK /\ TypeOK' /\ LimiterInv /\ [Next]_vars => LimiterInv'
<1> SUFFICES ASSUME TypeOK, TypeOK', LimiterInv, [Next]_vars PROVE LimiterInv'
  OBVIOUS
<1>1. CASE Tick
  BY <1>1, TickInv
<1>2. ASSUME NEW c \in Callers, Call(c) \/ Retry(c) PROVE LimiterInv'
  <2>1. PICK a : Reserve(c, a)
    BY <1>2 DEF Call, Retry
  <2>2. caller[c].pc \in {"idle", "pause"} /\ quiet' = quiet
    BY <1>2 DEF Call, Retry
  <2> QED
    BY <2>1, <2>2, ReserveInv
<1>3. ASSUME NEW c \in Callers, Send(c) PROVE LimiterInv'
  BY <1>3, SendInv
<1>4. ASSUME NEW c \in Callers, Back(c), UNCHANGED <<next, quiet>> PROVE LimiterInv'
  <2> DEFINE r == [Idle EXCEPT !.barred = caller[c].barred]
  <2>1. caller[c].barred <= next
    BY Numbers DEF LimiterInv, BarredApart, RetryAfterHonoured
  <2>2. r.pc = "idle" /\ r.barred = caller[c].barred
    BY DEF Idle
  <2>3. caller' = [caller EXCEPT ![c] = r] /\ next' = next /\ quiet' = quiet
    BY <1>4 DEF Back
  <2> HIDE DEF r
  <2>4. r.barred <= next' /\ next' >= next
    BY <2>1, <2>2, <2>3, Numbers
  <2> QED
    BY <2>2, <2>3, <2>4, LeavesInv
<1>5. ASSUME NEW c \in Callers, Refuse(c) PROVE LimiterInv'
  <2>1. PICK k \in {"429", "5xx", "4xx"}, after \in RetryAfters :
           /\ caller' = [caller EXCEPT ![c].pc = "failed", ![c].code = k,
                                       ![c].barred = after]
           /\ next' = Penalized(next, after)
    BY <1>5 DEF Refuse
  <2> DEFINE r == [caller[c] EXCEPT !.pc = "failed", !.code = k, !.barred = after]
  <2>2. r.pc = "failed" /\ r.barred = after
    BY DEF TypeOK, CallerRecords
  <2>3. caller' = [caller EXCEPT ![c] = r]
    BY <2>1
  <2>4. after <= next' /\ next' >= next
    <3>1. after \in Nat
      BY LimiterAssumption
    <3> QED
      BY <2>1, <3>1, Numbers DEF Penalized, Larger
  <2>5. quiet' = quiet
    BY <1>5 DEF Refuse
  <2> HIDE DEF r
  <2> QED
    BY <2>2, <2>3, <2>4, <2>5, LeavesInv
<1>6. ASSUME NEW c \in Callers, BackOff(c) PROVE LimiterInv'
  <2> DEFINE delay == Backoff(caller[c].attempt)
             r == [caller[c] EXCEPT !.pc = "pause", !.left = delay]
  <2>1. /\ caller' = [caller EXCEPT ![c] = r]
        /\ next' \in {next, Larger(next, delay)} /\ quiet' = quiet
        /\ caller[c].pc = "failed" /\ caller[c].attempt < MaxRetries
    BY <1>6 DEF BackOff, Penalized, Retryable
  <2>2. r.pc = "pause" /\ r.attempt = caller[c].attempt /\ r.barred = caller[c].barred
    BY DEF TypeOK, CallerRecords
  <2>3. delay \in Nat
    <3>1. caller[c].attempt \in 0 .. MaxRetries
      BY DEF TypeOK, CallerRecords, Attempts
    <3> QED
      BY <3>1, LimiterAssumption
  <2> HIDE DEF delay, r
  <2>4. next' >= next
    BY <2>1, <2>3, Numbers DEF Larger
  <2>5. r.barred <= next'
    <3>1. caller[c].barred <= next
      BY <2>1 DEF LimiterInv, BarredApart
    <3>2. next' \in Nat
      BY DEF TypeOK
    <3> QED
      BY <2>2, <2>4, <3>1, <3>2, Numbers
  <2> QED
    BY <2>1, <2>2, <2>4, <2>5, LeavesInv
<1>7. CASE UNCHANGED vars
  BY <1>7 DEF vars, LimiterInv, SlotsApart, SendsApart, NobodyOverdue, BarredApart,
              RetryAfterHonoured, RetriesLeft, Waits
<1> QED
  BY <1>1, <1>2, <1>3, <1>4, <1>5, <1>6, <1>7 DEF Next, Proceed, Answer, GiveUp, Cancel

LEMMA Invariant == Spec => [](TypeOK /\ LimiterInv)
<1>1. Init => TypeOK /\ LimiterInv
  BY TypeInit, InvInit
<1>2. TypeOK /\ LimiterInv /\ [Next]_vars => (TypeOK /\ LimiterInv)'
  <2>1. LimiterInv => RetriesLeft
    BY DEF LimiterInv
  <2> QED
    BY <2>1, TypeStep, InvStep
<1> QED
  BY <1>1, <1>2, PTL DEF Spec

-----------------------------------------------------------------------------
(***************************************************************************)
(* For any number of goroutines: the slots that wait has handed out are an *)
(* interval apart, each is an interval before the next one to hand out,    *)
(* and a goroutine's own slot never comes before its Retry-After ends.     *)
(***************************************************************************)
THEOREM SlotsStayApart == Spec => []LimiterInv
BY Invariant, PTL

(***************************************************************************)
(* For any number of goroutines: after a Retry-After, the goroutine that   *)
(* got it sends nothing before that time is over (attempt's penalize, and  *)
(* wait's slot for the retry or for the next call).                        *)
(***************************************************************************)
THEOREM RetryAfterIsHonoured == Spec => []RetryAfterHonoured
<1>1. TypeOK /\ LimiterInv => RetryAfterHonoured
  BY DEF LimiterInv
<1> QED
  BY <1>1, Invariant, PTL

(***************************************************************************)
(* For any number of goroutines: requests leave an interval apart, less    *)
(* what timers may be late (newLimiter's one request per interval).        *)
(***************************************************************************)
THEOREM RequestsArePaced == Spec => SendsSpaced
<1>1. TypeOK /\ LimiterInv /\ [Next]_vars
         => [(\E c \in Callers : Send(c)) => quiet >= Interval - MaxLate]_vars
  <2> SUFFICES ASSUME TypeOK, LimiterInv, NEW c \in Callers, Send(c)
               PROVE  quiet >= Interval - MaxLate
    OBVIOUS
  <2>1. caller[c].left <= 0 /\ quiet + caller[c].left >= Interval - MaxLate
    BY DEF Send, LimiterInv, SendsApart, Waits
  <2> QED
    BY <2>1, Numbers
<1> QED
  BY <1>1, Invariant, PTL DEF Spec, SendsSpaced
=============================================================================
