------------------------ MODULE PaperlessClientProofs ------------------------
(***************************************************************************)
(* A request to Paperless-ngx for any number of retries and any timeouts:  *)
(* it is bounded in time, and it is one request to its caller.             *)
(***************************************************************************)
EXTENDS PaperlessClient, TLAPS

\* The time n attempts may take, with the waits between them.
Spent(n) == n * Timeout + (n - 1) * RetryWait

\* What each stage says about the time that has passed.
TimeInv ==
    /\ stage \in {"idle", "called"} => attempt = 0 /\ age = 0 /\ elapsed = 0
    /\ stage \in {"sending", "reading", "failed", "waiting"} => attempt >= 1
    /\ stage \in {"sending", "reading"} =>
          age <= Timeout /\ elapsed <= (attempt - 1) * (Timeout + RetryWait) + age
    /\ stage = "waiting" =>
          /\ attempt <= RetryCount /\ age <= RetryWait
          /\ elapsed <= Spent(attempt) + age
    /\ stage = "failed" =>
          \/ elapsed <= Spent(attempt)
          \/ /\ gone /\ attempt <= RetryCount
             /\ elapsed <= attempt * (Timeout + RetryWait)
    /\ stage = "done" => elapsed <= RequestTime

\* What each stage says about the response.
AnswerInv ==
    /\ stage = "idle" => ~gone
    /\ stage = "reading" => answer \in Answer
    /\ result # "none" <=> stage = "done"

CInv == TypeOK /\ TimeInv /\ AnswerInv

-----------------------------------------------------------------------------
LEMMA RequestTimeIsNat == RequestTime \in Nat
  BY RetryAssumption DEF RequestTime

\* Attempts that are left take no less than no time.
LEMMA Monotone ==
  ASSUME NEW m \in Nat, NEW n \in Nat, NEW k \in Nat, m <= n
  PROVE  m * k <= n * k
<1> PICK d \in Nat : n = m + d
  <2> WITNESS n - m \in Nat
  <2> QED OBVIOUS
<1>1. n * k = m * k + d * k
  OBVIOUS
<1>2. d * k \in Nat /\ m * k \in Nat
  OBVIOUS
<1> QED
  BY <1>1, <1>2

LEMMA SpentIsBounded ==
  ASSUME NEW n \in 1 .. RetryCount + 1
  PROVE  /\ Spent(n) \in Nat
         /\ Spent(n) <= RequestTime
         /\ Spent(n) = (n - 1) * (Timeout + RetryWait) + Timeout
         /\ n <= RetryCount => n * (Timeout + RetryWait) <= RequestTime
<1> USE RetryAssumption
<1>1. n * Timeout <= (RetryCount + 1) * Timeout
  BY Monotone
<1>2. (n - 1) * RetryWait <= RetryCount * RetryWait
  <2>1. n - 1 \in Nat /\ n - 1 <= RetryCount
    OBVIOUS
  <2> QED
    BY <2>1, Monotone
<1>3. ASSUME n <= RetryCount
      PROVE  n * (Timeout + RetryWait) <= RequestTime
  <2>1. n * (Timeout + RetryWait) <= RetryCount * (Timeout + RetryWait)
    BY <1>3, Monotone
  <2> QED
    BY <2>1 DEF RequestTime
<1>4. n * Timeout \in Nat /\ (n - 1) * RetryWait \in Nat
  OBVIOUS
<1>5. Spent(n) = (n - 1) * (Timeout + RetryWait) + Timeout
  BY DEF Spent
<1> QED
  BY <1>1, <1>2, <1>3, <1>4, <1>5 DEF Spent, RequestTime

LEMMA ZeroIsTyped ==
  0 \in 0 .. RetryCount + 1 /\ 0 \in 0 .. MaxBody /\ "none" \in Result
  BY RetryAssumption, BodyAssumption DEF Result

LEMMA InitInv == Init => CInv
<1> SUFFICES ASSUME Init PROVE CInv
  OBVIOUS
<1>1. TypeOK
  <2>1. gone \in BOOLEAN
    BY DEF Init
  <2> QED
    BY <2>1, ZeroIsTyped DEF Init, TypeOK
<1> QED
  BY <1>1 DEF Init, CInv, TimeInv, AnswerInv

\* Every response has a verdict.
LEMMA VerdictIsResult ==
  ASSUME body \in Nat, answer \in Answer
  PROVE  Verdict \in Result \ {"none"}
<1>1. CASE body > BodyLimit
  BY <1>1, BodyAssumption DEF Verdict, Result
<1>2. CASE body <= BodyLimit /\ answer.status # "2xx"
  BY <1>2, BodyAssumption DEF Verdict, Result
<1>3. CASE body <= BodyLimit /\ answer.status = "2xx" /\ Decodes
  BY <1>3, BodyAssumption DEF Verdict, Result
<1>4. CASE body <= BodyLimit /\ answer.status = "2xx" /\ ~Decodes
  BY <1>4, BodyAssumption DEF Verdict, Result
<1> QED
  BY <1>1, <1>2, <1>3, <1>4, BodyAssumption

-----------------------------------------------------------------------------
LEMMA TypeNext == CInv /\ [Next]_vars => TypeOK'
<1> SUFFICES ASSUME CInv, [Next]_vars PROVE TypeOK'
  OBVIOUS
<1> USE RetryAssumption, BodyAssumption DEF CInv, TypeOK
<1>1. CASE Respond
  BY <1>1 DEF Respond
<1>0. CASE ReadChunk
  BY <1>0 DEF ReadChunk, Answer
<1>9. CASE Cancel
  <2>1. gone' \in BOOLEAN
    BY <1>9 DEF Cancel
  <2> QED
    BY <1>9, <2>1 DEF Cancel
<1>8. CASE Return
  <2>1. gone' \in BOOLEAN
    BY <1>8 DEF Return
  <2>2. 0 \in 0 .. RetryCount + 1 /\ 0 \in 0 .. MaxBody /\ "none" \in Result
    BY ZeroIsTyped
  <2> QED
    BY <1>8, <2>1, <2>2 DEF Return
<1>2. CASE Begin \/ Send \/ Retry
  BY <1>2 DEF Begin, Send, Retry
<1>5. CASE Get \/ Fail \/ AbandonWait \/ UNCHANGED vars
  BY <1>5 DEF Get, Fail, AbandonWait, vars
<1>6. CASE GiveUp \/ NoURL
  BY <1>6 DEF GiveUp, NoURL, Result
<1>7. CASE Tick
  BY <1>7 DEF Tick
<1>3. CASE Resend
  BY <1>3 DEF Resend, TimeInv
<1>4. CASE Check
  <2>1. Verdict \in Result
    BY <1>4, VerdictIsResult DEF Check, AnswerInv
  <2> QED
    BY <1>4, <2>1 DEF Check
<1> QED
  BY <1>0, <1>1, <1>2, <1>3, <1>4, <1>5, <1>6, <1>7, <1>8, <1>9 DEF Next, RequestStep

LEMMA TimeNext == CInv /\ [Next]_vars => TimeInv'
<1> SUFFICES ASSUME CInv, [Next]_vars PROVE TimeInv'
  OBVIOUS
<1>t. TypeOK /\ TypeOK'
  BY TypeNext DEF CInv
<1>i. TimeInv
  BY DEF CInv
<1>s. ASSUME attempt >= 1
      PROVE  /\ Spent(attempt) \in Nat
             /\ Spent(attempt) <= RequestTime
             /\ Spent(attempt) = (attempt - 1) * (Timeout + RetryWait) + Timeout
             /\ attempt <= RetryCount => attempt * (Timeout + RetryWait) <= RequestTime
  <2>1. attempt \in 1 .. RetryCount + 1
    BY <1>t, <1>s, RetryAssumption DEF TypeOK
  <2> QED
    BY <2>1, SpentIsBounded
<1> USE RetryAssumption, <1>t DEF TypeOK
<1>1. CASE Begin \/ Send \/ NoURL
  <2>1. CASE Begin
    BY <1>i, <2>1 DEF Begin, TimeInv
  <2>2. CASE Send
    <3>1. /\ stage' = "sending" /\ attempt' = 1 /\ age' = 0 /\ elapsed' = 0
      BY <1>i, <2>2 DEF Send, TimeInv
    <3>2. (attempt' - 1) * (Timeout + RetryWait) = 0
      BY <3>1
    <3> QED
      BY <3>1, <3>2 DEF TimeInv
  <2>3. CASE NoURL
    <3>1. stage' = "done" /\ elapsed' = 0
      BY <1>i, <2>3 DEF NoURL, TimeInv
    <3> QED
      BY <3>1, RequestTimeIsNat DEF TimeInv
  <2> QED
    BY <1>1, <2>1, <2>2, <2>3
<1>2. CASE Respond \/ ReadChunk \/ Cancel \/ UNCHANGED vars
  BY <1>2, <1>i DEF Respond, ReadChunk, Cancel, vars, TimeInv, Spent
<1>0. ASSUME stage \in {"sending", "reading"}
      PROVE  attempt >= 1 /\ elapsed <= Spent(attempt)
  <2>1. attempt >= 1 /\ age <= Timeout
        /\ elapsed <= (attempt - 1) * (Timeout + RetryWait) + age
    BY <1>0, <1>i DEF TimeInv
  <2> QED
    BY <2>1, <1>s
<1>3. CASE Fail
  <2>1. stage = "sending" /\ stage' = "failed"
        /\ UNCHANGED <<attempt, age, elapsed, gone>>
    BY <1>3 DEF Fail
  <2>2. Spent(attempt)' = Spent(attempt)
    BY <2>1 DEF Spent
  <2> QED
    BY <1>0, <2>1, <2>2 DEF TimeInv
<1>10. CASE Get
  BY <1>10, <1>i DEF Get, TimeInv
<1>4. CASE Retry
  <2>1. /\ stage \in {"failed", "sending"} /\ stage' = "waiting"
        /\ attempt <= RetryCount /\ ~gone /\ age' = 0
        /\ UNCHANGED <<attempt, elapsed>>
    BY <1>4 DEF Retry, Unsuccessful
  <2>2. attempt >= 1 /\ elapsed <= Spent(attempt)
    BY <1>0, <2>1, <1>i DEF TimeInv
  <2>3. Spent(attempt)' = Spent(attempt) /\ Spent(attempt) \in Nat
    BY <2>1, <2>2, <1>s DEF Spent
  <2> QED
    BY <2>1, <2>2, <2>3 DEF TimeInv
<1>5. CASE Resend
  <2>1. /\ stage = "waiting" /\ stage' = "sending"
        /\ attempt' = attempt + 1 /\ age' = 0 /\ elapsed' = elapsed
    BY <1>5 DEF Resend
  <2>2. /\ attempt >= 1 /\ age <= RetryWait
        /\ elapsed <= Spent(attempt) + age
    BY <2>1, <1>i DEF TimeInv
  <2>3. Spent(attempt) + RetryWait = attempt * (Timeout + RetryWait)
    BY DEF Spent
  <2>4. elapsed <= attempt * (Timeout + RetryWait)
    BY <2>2, <2>3, <1>s
  <2>5. (attempt' - 1) = attempt
    BY <2>1
  <2> QED
    BY <2>1, <2>2, <2>4, <2>5 DEF TimeInv
<1>6. CASE AbandonWait
  <2>1. /\ stage = "waiting" /\ gone /\ stage' = "failed"
        /\ UNCHANGED <<attempt, age, elapsed, gone>>
    BY <1>6 DEF AbandonWait
  <2>2. /\ attempt >= 1 /\ attempt <= RetryCount /\ age <= RetryWait
        /\ elapsed <= Spent(attempt) + age
    BY <2>1, <1>i DEF TimeInv
  <2>3. Spent(attempt) + RetryWait = attempt * (Timeout + RetryWait)
    BY DEF Spent
  <2>4. elapsed <= attempt * (Timeout + RetryWait)
    BY <2>2, <2>3, <1>s
  <2> QED
    BY <2>1, <2>2, <2>4 DEF TimeInv
<1>7. CASE GiveUp \/ Check
  <2>1. /\ stage \in {"failed", "reading"} /\ stage' = "done"
        /\ UNCHANGED <<attempt, elapsed>>
    BY <1>7 DEF GiveUp, Check
  <2>2. elapsed <= RequestTime
    BY <1>0, <2>1, <1>i, <1>s, RequestTimeIsNat DEF TimeInv
  <2> QED
    BY <2>1, <2>2 DEF TimeInv
<1>8. CASE Tick
  <2>1. CASE InAttempt
    BY <1>8, <2>1, <1>i DEF Tick, InAttempt, Patience, TimeInv
  <2>2. CASE stage = "waiting"
    <3>1. Spent(attempt)' = Spent(attempt) /\ Spent(attempt) \in Nat
      BY <1>8, <2>2, <1>i, <1>s DEF Tick, Spent, TimeInv
    <3> QED
      BY <1>8, <2>2, <3>1, <1>i DEF Tick, InAttempt, Patience, TimeInv
  <2> QED
    BY <1>8, <2>1, <2>2 DEF Tick, InNetwork
<1>9. CASE Return
  BY <1>9 DEF Return, TimeInv
<1> QED
  BY <1>1, <1>2, <1>3, <1>4, <1>5, <1>6, <1>7, <1>8, <1>9, <1>10 DEF Next, RequestStep

LEMMA AnswerNext == CInv /\ [Next]_vars => AnswerInv'
<1> SUFFICES ASSUME CInv, [Next]_vars PROVE AnswerInv'
  OBVIOUS
<1> USE DEF CInv, TypeOK, AnswerInv
<1>1. CASE Check
  <2>1. Verdict # "none"
    BY <1>1, VerdictIsResult, BodyAssumption DEF Check
  <2> QED
    BY <1>1, <2>1 DEF Check
<1>2. CASE Get
  BY <1>2 DEF Get
<1>3. CASE Begin \/ Send \/ NoURL
  BY <1>3 DEF Begin, Send, NoURL
<1>4. CASE Respond \/ ReadChunk \/ Fail \/ Retry
  BY <1>4 DEF Respond, ReadChunk, Fail, Retry, Unsuccessful
<1>5. CASE Resend \/ AbandonWait \/ GiveUp
  BY <1>5 DEF Resend, AbandonWait, GiveUp
<1>6. CASE Cancel \/ UNCHANGED vars
  BY <1>6 DEF Cancel, vars
<1>7. CASE Tick \/ Return
  BY <1>7 DEF Tick, InNetwork, InAttempt, Return
<1> QED
  BY <1>1, <1>2, <1>3, <1>4, <1>5, <1>6, <1>7 DEF Next, RequestStep

LEMMA Invariance == Spec => []CInv
<1>1. CInv /\ [Next]_vars => CInv'
  BY TypeNext, TimeNext, AnswerNext DEF CInv
<1> QED
  BY InitInv, <1>1, PTL DEF Spec

\* At no time has a request lasted longer than all its attempts may.
LEMMA InTime == CInv => RequestIsBounded
<1> SUFFICES ASSUME CInv PROVE elapsed <= RequestTime
  BY DEF RequestIsBounded
<1> USE RetryAssumption, RequestTimeIsNat DEF CInv, TypeOK
<1>1. CASE stage \in {"idle", "called", "done"}
  BY <1>1 DEF TimeInv
<1>2. CASE stage \in {"sending", "reading", "failed", "waiting"}
  <2>1. attempt \in 1 .. RetryCount + 1
    BY <1>2 DEF TimeInv
  <2>2. /\ Spent(attempt) \in Nat
        /\ Spent(attempt) <= RequestTime
        /\ Spent(attempt) = (attempt - 1) * (Timeout + RetryWait) + Timeout
        /\ attempt <= RetryCount => attempt * (Timeout + RetryWait) <= RequestTime
    BY <2>1, SpentIsBounded
  <2>3. Spent(attempt) + RetryWait = attempt * (Timeout + RetryWait)
    BY DEF Spent
  <2> QED
    BY <1>2, <2>2, <2>3 DEF TimeInv
<1> QED
  BY <1>1, <1>2

LEMMA InTimeNext == CInv' => elapsed' <= RequestTime
<1>1. CInv' => RequestIsBounded'
  BY InTime, PTL
<1> QED
  BY <1>1 DEF RequestIsBounded, RequestTime

-----------------------------------------------------------------------------
\* Type correctness of the client; it never makes more than RetryCount + 1
\* attempts (main.go:53).
THEOREM TypeCorrect == Spec => []TypeOK
<1>1. CInv => TypeOK
  BY DEF CInv
<1> QED
  BY Invariance, <1>1, PTL

\* A request lasts no longer than its attempts and waits (main.go:52-54).
THEOREM RequestsAreBounded == Spec => []RequestIsBounded
  BY Invariance, InTime, PTL

-----------------------------------------------------------------------------
LEMMA RefinesInit == Init => Request!Init
  BY DEF Init, Request!Init

LEMMA RefinesNext == CInv /\ CInv' /\ [Next]_vars => [Request!Next]_(Request!vars)
<1> SUFFICES ASSUME CInv, CInv', [Next]_vars
             PROVE  [Request!Next]_(Request!vars)
  OBVIOUS
<1> USE DEF CInv, TypeOK, AnswerInv, Request!vars
<1>1. CASE Begin
  BY <1>1 DEF Begin, Request!Next, Request!Begin
<1>2. CASE Send \/ Respond \/ ReadChunk \/ Get \/ UNCHANGED vars
  BY <1>2 DEF Send, Respond, ReadChunk, Get, vars
<1>7. CASE Fail \/ Retry \/ Resend \/ AbandonWait
  BY <1>7 DEF Fail, Retry, Unsuccessful, Resend, AbandonWait
<1>3. CASE NoURL \/ GiveUp \/ Check
  <2>1. /\ stage \notin {"idle", "done"} /\ stage' = "done"
        /\ UNCHANGED <<elapsed, gone>>
        /\ result' # "none"
    BY <1>3 DEF NoURL, GiveUp, Check
  <2> QED
    BY <2>1 DEF Request!Next, Request!End, Request!Outcome
<1>4. CASE Cancel
  BY <1>4 DEF Cancel, Request!Next, Request!Cancel
<1>5. CASE Tick
  <2>1. elapsed' <= RequestTime
    BY InTimeNext
  <2>2. elapsed' = elapsed + 1 /\ elapsed < RequestTime
    BY <1>5, <2>1, RequestTimeIsNat DEF Tick
  <2> QED
    BY <1>5, <2>2 DEF Tick, InNetwork, InAttempt, Request!Next, Request!Tick
<1>6. CASE Return
  BY <1>6 DEF Return, Request!Next, Request!Forget
<1> QED
  BY <1>1, <1>2, <1>3, <1>4, <1>5, <1>6, <1>7 DEF Next, RequestStep

\* With all its attempts, a request is one bounded request to its caller, which
\* ends at once when the caller's context is cancelled (client.go:253-276).
THEOREM ClientRefinesRequest == Spec => ImplementsRequest
<1>1. CInv /\ CInv' /\ [Next]_vars => [Request!Next]_(Request!vars)
  BY RefinesNext
<1> QED
  BY Invariance, RefinesInit, <1>1, PTL DEF Spec, ImplementsRequest, Request!Spec
=============================================================================
