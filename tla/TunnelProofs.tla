----------------------------- MODULE TunnelProofs -----------------------------
(***************************************************************************)
(* Proofs about the tunnel as a whole: the bridge keeps what BridgeProofs  *)
(* shows of it while provisioners dial, fail and redial; the enroll token  *)
(* is spent on a stale certificate only; a stream is closed once and loses *)
(* nothing it could deliver; the pause between dials is the documented one *)
(* until it overflows; and whatever crashes and failed writes leave on     *)
(* disk, the TLS configuration in use is a certificate with its own key.   *)
(***************************************************************************)
EXTENDS MCTunnelSystem, BridgeProofs, FiniteSetTheorems

-----------------------------------------------------------------------------
(* The byte pump.                                                          *)

\* Has the pump put its result into the channel?
Reported(s) == pump[s] \in {"cancel", "close", "closing", "done"}
Results == (IF Reported("a") THEN 1 ELSE 0) + (IF Reported("b") THEN 1 ELSE 0)

\* Every result is in the channel or was taken; who has taken two closes.
ResultsKept ==
    /\ errs + got.n = Results
    /\ got.at = "collect" <=> got.n < 2

\* How far sync.Once is says how often the streams were closed, and nobody has
\* passed it before it is done.
ClosedOnce ==
    /\ closed["a"] = (IF once \in {"second", "done"} THEN 1 ELSE 0)
    /\ closed["b"] = (IF once = "done" THEN 1 ELSE 0)
    /\ got.at = "returned" => once = "done"

\* A chunk in the hands of a pump, or lost by it.
InHand ==
    \A s \in Side :
        /\ pump[s] = "read" => read[s] = delivered[Other(s)]
        /\ pump[s] = "write" => read[s] = delivered[Other(s)] + 1
        /\ read[s] \in {delivered[Other(s)], delivered[Other(s)] + 1}
        /\ read[s] # delivered[Other(s)] /\ pump[s] # "write" => failed[s] \/ closed[Other(s)] > 0
        /\ read[s] <= sent[s]

CopyInv == CopyTypeOK /\ ResultsKept /\ ClosedOnce /\ InHand

LEMMA Sides == /\ "a" \in Side /\ "b" \in Side /\ "a" # "b" /\ \A s \in Side : s = "a" \/ s = "b"
               /\ Other("a") = "b" /\ Other("b") = "a" /\ \A s \in Side : Other(s) \in Side /\ Other(s) # s
BY DEF Side, Other

LEMMA CopyInitInv == CopyInit => CopyInv
<1> SUFFICES ASSUME CopyInit PROVE CopyInv
  OBVIOUS
<1>1. CopyTypeOK
  <2>1. got \in [n : 0..2, at : Caller] /\ 0 \in 0..MaxChunks /\ 0 \in 0..2
    BY CopyConstants DEF CopyInit, Caller
  <2>2. /\ sent \in [Side -> 0..MaxChunks] /\ read \in [Side -> 0..MaxChunks] /\ delivered \in [Side -> 0..MaxChunks]
        /\ closed \in [Side -> Nat] /\ pump \in [Side -> PumpState]
    BY <2>1 DEF CopyInit, PumpState
  <2>3. eof \in [Side -> BOOLEAN] /\ failed \in [Side -> BOOLEAN] /\ ctx \in BOOLEAN
    BY DEF CopyInit
  <2> QED
    BY <2>1, <2>2, <2>3 DEF CopyInit, CopyTypeOK, TickState
<1>2. ResultsKept
  BY Sides DEF CopyInit, ResultsKept, Results, Reported
<1>3. ClosedOnce
  BY Sides DEF CopyInit, ClosedOnce
<1>4. InHand
  BY Sides DEF CopyInit, InHand
<1> QED
  BY <1>1, <1>2, <1>3, <1>4 DEF CopyInv

\* A step of one pump.
LEMMA PumpStep ==
    ASSUME CopyInv, NEW s \in Side, Send(s) \/ Finish(s) \/ Read(s) \/ Write(s) \/ Report(s) \/ CancelPump(s) \/ ClosePump(s)
    PROVE  CopyInv'
<1> USE CopyConstants, Sides DEF streams
<1>0. CopyTypeOK /\ ResultsKept /\ ClosedOnce /\ InHand
  BY DEF CopyInv
<1>1. PICK d \in Side : d = Other(s) /\ d # s /\ Other(d) = s /\ \A t \in Side : t = s \/ t = d
  BY DEF Other, Side
<1>2. errs + got.n = (IF Reported(s) THEN 1 ELSE 0) + (IF Reported(d) THEN 1 ELSE 0)
  BY <1>0, <1>1 DEF ResultsKept, Results
<1>3. CopyTypeOK'
  <2>1. CASE Send(s)
    BY <1>0, <2>1 DEF Send, CopyTypeOK
  <2>2. CASE Finish(s)
    BY <1>0, <2>2 DEF Finish, CopyTypeOK
  <2>3. CASE Read(s)
    BY <1>0, <2>3 DEF Read, CopyTypeOK, PumpState
  <2>4. CASE Write(s)
    <3>1. CASE pump' = [pump EXCEPT ![s] = "read"] /\ delivered' = [delivered EXCEPT ![d] = @ + 1] /\ UNCHANGED failed
      <4>1. delivered[d] + 1 \in 0..MaxChunks
        BY <1>0, <1>1, <2>4 DEF Write, InHand, CopyTypeOK
      <4> QED
        BY <1>0, <2>4, <3>1, <4>1 DEF Write, CopyTypeOK, PumpState
    <3>2. CASE pump' = [pump EXCEPT ![s] = "report"] /\ UNCHANGED delivered
      <4>1. failed' \in [Side -> BOOLEAN]
        BY ZenonT(40), <1>0, <2>4, <3>2 DEF Write, CopyTypeOK
      <4> QED
        BY <1>0, <2>4, <3>2, <4>1 DEF Write, CopyTypeOK, PumpState
    <3> QED
      BY <1>1, <2>4, <3>1, <3>2 DEF Write
  <2>5. CASE Report(s)
    BY <1>0, <2>5 DEF Report, CopyTypeOK, PumpState
  <2>6. CASE CancelPump(s)
    BY <1>0, <2>6 DEF CancelPump, CopyTypeOK, PumpState
  <2>7. CASE ClosePump(s)
    BY <1>0, <2>7 DEF ClosePump, Enter, CopyTypeOK, PumpState
  <2> QED
    BY <2>1, <2>2, <2>3, <2>4, <2>5, <2>6, <2>7
<1>4. pump'[d] = pump[d] /\ got' = got
  BY <1>0, <1>1 DEF Send, Finish, Read, Write, Report, CancelPump, ClosePump, CopyTypeOK
<1>5. \/ errs' = errs /\ (Reported(s)' <=> Reported(s))
      \/ errs' = errs + 1 /\ ~Reported(s) /\ Reported(s)'
  BY <1>0 DEF Send, Finish, Read, Write, Report, CancelPump, ClosePump, Enter, CopyTypeOK, Reported
<1>6. ResultsKept'
  <2>1. (errs + got.n)' = (IF Reported(s)' THEN 1 ELSE 0) + (IF Reported(d)' THEN 1 ELSE 0)
    BY <1>0, <1>2, <1>4, <1>5 DEF Reported, CopyTypeOK
  <2>2. Results' = (IF Reported(s)' THEN 1 ELSE 0) + (IF Reported(d)' THEN 1 ELSE 0)
    BY <1>1 DEF Results
  <2> QED
    BY <1>0, <1>4, <2>1, <2>2 DEF ResultsKept
<1>7. closed' = closed
  BY DEF Send, Finish, Read, Write, Report, CancelPump, ClosePump
<1>8. ClosedOnce'
  BY <1>0, <1>4, <1>7 DEF ClosedOnce, Send, Finish, Read, Write, Report, CancelPump, ClosePump, Enter
<1>9. InHand'
  <2>1. CASE Send(s)
    BY <1>0, <2>1 DEF Send, CopyTypeOK, InHand
  <2>2. CASE Finish(s)
    BY <1>0, <2>2 DEF Finish, CopyTypeOK, InHand
  <2>3. CASE Read(s)
    BY <1>0, <1>1, <2>3 DEF Read, CopyTypeOK, InHand
  <2>4. CASE Write(s)
    <3>0. /\ read[s] = delivered[d] + 1 /\ read[s] \in Nat /\ delivered[d] \in Nat /\ UNCHANGED <<read, sent, closed>>
          /\ closed[d] \in Nat /\ pump[s] = "write"
      BY <1>0, <1>1, <2>4 DEF Write, InHand, CopyTypeOK
    <3>1. CASE pump' = [pump EXCEPT ![s] = "read"] /\ delivered' = [delivered EXCEPT ![d] = @ + 1] /\ UNCHANGED failed
      <4>1. /\ pump'[s] = "read" /\ delivered'[d] = delivered[d] + 1
            /\ pump'[d] = pump[d] /\ delivered'[s] = delivered[s]
        BY <1>0, <1>1, <3>1 DEF CopyTypeOK
      <4> QED
        BY <1>0, <1>1, <3>0, <3>1, <4>1 DEF InHand
    <3>2. CASE pump' = [pump EXCEPT ![s] = "report"] /\ failed' = [failed EXCEPT ![s] = (closed[d] = 0)] /\ UNCHANGED delivered
      <4>1. pump'[s] = "report" /\ (failed'[s] <=> closed[d] = 0) /\ pump'[d] = pump[d] /\ (failed'[d] <=> failed[d])
        BY ZenonT(40), <1>0, <1>1, <3>2 DEF CopyTypeOK
      <4> QED
        BY <1>0, <1>1, <3>0, <3>2, <4>1 DEF InHand
    <3> QED
      BY <1>1, <2>4, <3>1, <3>2 DEF Write
  <2>5. CASE Report(s)
    BY <1>0, <2>5 DEF Report, CopyTypeOK, InHand
  <2>6. CASE CancelPump(s)
    BY <1>0, <2>6 DEF CancelPump, CopyTypeOK, InHand
  <2>7. CASE ClosePump(s)
    BY <1>0, <2>7 DEF ClosePump, Enter, CopyTypeOK, InHand
  <2> QED
    BY <2>1, <2>2, <2>3, <2>4, <2>5, <2>6, <2>7
<1> QED
  BY <1>3, <1>6, <1>8, <1>9 DEF CopyInv

\* A step of the caller, the ticker or the closing of a stream.
LEMMA CallerStep ==
    ASSUME CopyInv, Cancel \/ CloseA \/ CloseB \/ TickerDone \/ CloseTicker \/ Collect \/ CloseCaller
    PROVE  CopyInv'
<1> USE CopyConstants, Sides DEF streams
<1>0. CopyTypeOK /\ ResultsKept /\ ClosedOnce /\ InHand
  BY DEF CopyInv
<1>1. CASE Cancel \/ TickerDone \/ CloseTicker
  <2>1. CopyTypeOK'
    BY ZenonT(40), <1>0, <1>1 DEF Cancel, TickerDone, CloseTicker, Enter, CopyTypeOK, TickState
  <2>2. ResultsKept' /\ ClosedOnce'
    BY <1>0, <1>1 DEF Cancel, TickerDone, CloseTicker, Enter, ResultsKept, Results, Reported, ClosedOnce
  <2>3. InHand'
    BY <1>0, <1>1 DEF Cancel, TickerDone, CloseTicker, InHand
  <2> QED
    BY <2>1, <2>2, <2>3 DEF CopyInv
<1>2. CASE CloseA
  <2>1. CopyTypeOK'
    BY <1>0, <1>2 DEF CloseA, CloseStream, CopyTypeOK
  <2>2. ResultsKept'
    BY <1>0, <1>2 DEF CloseA, ResultsKept, Results, Reported
  <2>3. ClosedOnce'
    BY <1>0, <1>2 DEF CloseA, CloseStream, ClosedOnce, CopyTypeOK
  <2>4. InHand'
    BY <1>0, <1>2 DEF CloseA, CloseStream, InHand, CopyTypeOK
  <2> QED
    BY <2>1, <2>2, <2>3, <2>4 DEF CopyInv
<1>3. CASE CloseB
  <2>0. /\ \A s \in Side : pump'[s] = IF pump[s] = "closing" THEN "done" ELSE pump[s]
        /\ got'.n = got.n /\ got'.at = (IF got.at = "closing" THEN "returned" ELSE got.at) /\ got' \in [n : 0..2, at : Caller]
    BY <1>0, <1>3 DEF CloseB, CopyTypeOK, Caller
  <2>1. CopyTypeOK'
    BY <1>0, <1>3, <2>0 DEF CloseB, CloseStream, CopyTypeOK, PumpState, TickState
  <2>2. ResultsKept'
    <3>1. \A s \in Side : Reported(s)' <=> Reported(s)
      BY <2>0 DEF Reported
    <3>2. Results' = Results
      BY <3>1 DEF Results
    <3> QED
      BY <1>0, <1>3, <2>0, <3>2 DEF CloseB, ResultsKept
  <2>3. ClosedOnce'
    BY <1>0, <1>3, <2>0 DEF CloseB, CloseStream, ClosedOnce, CopyTypeOK
  <2>4. InHand'
    BY <1>0, <1>3, <2>0 DEF CloseB, CloseStream, InHand, CopyTypeOK
  <2> QED
    BY <2>1, <2>2, <2>3, <2>4 DEF CopyInv
<1>4. CASE Collect
  <2>0. got'.n = got.n + 1 /\ got'.at = (IF got.n + 1 = 2 THEN "close" ELSE "collect") /\ errs' = errs - 1 /\ errs \in 1..2 /\ got.n \in 0..1
    BY <1>0, <1>4 DEF Collect, CopyTypeOK, ResultsKept
  <2>1. CopyTypeOK'
    BY <1>0, <1>4, <2>0 DEF Collect, CopyTypeOK, Caller
  <2>2. ResultsKept'
    <3>1. Results' = Results
      BY <1>4 DEF Collect, Results, Reported
    <3> QED
      BY <1>0, <2>0, <3>1 DEF ResultsKept
  <2>3. ClosedOnce' /\ InHand'
    BY <1>0, <1>4, <2>0 DEF Collect, ClosedOnce, InHand
  <2> QED
    BY <2>1, <2>2, <2>3 DEF CopyInv
<1>5. CASE CloseCaller
  <2>0. /\ got.at = "close" /\ got'.n = got.n /\ got'.at \in {"returned", "closing"} /\ got' \in [n : 0..2, at : Caller]
        /\ (got'.at = "returned" => once = "done" /\ once' = once) /\ (got'.at = "closing" => once = "free" /\ once' = "first")
    BY <1>0, <1>5 DEF CloseCaller, Enter, CopyTypeOK, Caller
  <2>1. CopyTypeOK'
    BY <1>0, <1>5, <2>0 DEF CloseCaller, CopyTypeOK
  <2>2. ResultsKept'
    <3>1. Results' = Results
      BY <1>5 DEF CloseCaller, Results, Reported
    <3> QED
      BY <1>0, <1>5, <2>0, <3>1 DEF ResultsKept, CloseCaller
  <2>3. ClosedOnce'
    BY <1>0, <1>5, <2>0 DEF CloseCaller, ClosedOnce
  <2>4. InHand'
    BY <1>0, <1>5 DEF CloseCaller, InHand
  <2> QED
    BY <2>1, <2>2, <2>3, <2>4 DEF CopyInv
<1> QED
  BY <1>1, <1>2, <1>3, <1>4, <1>5

LEMMA CopyStep == CopyInv /\ [CopyNext]_copyVars => CopyInv'
<1>1. ASSUME CopyInv, CopyNext PROVE CopyInv'
  BY <1>1, PumpStep, CallerStep DEF CopyNext, Steps, Closing
<1>2. ASSUME CopyInv, UNCHANGED copyVars PROVE CopyInv'
  BY <1>2 DEF copyVars, CopyInv, CopyTypeOK, ResultsKept, Results, Reported, ClosedOnce, InHand
<1> QED
  BY <1>1, <1>2

LEMMA CopyRight == CopyInv => PumpFaithful
<1> SUFFICES ASSUME CopyInv PROVE PumpFaithful
  OBVIOUS
<1>1. CleanReturn
  BY Sides DEF CopyInv, CopyTypeOK, ResultsKept, Results, Reported, ClosedOnce, CleanReturn, Caller
<1>2. NothingDropped
  <2>1. ASSUME NEW s \in Side PROVE read[s] \in Nat /\ delivered[Other(s)] \in Nat
    BY Sides DEF CopyInv, CopyTypeOK
  <2> QED
    BY <2>1 DEF CopyInv, InHand, NothingDropped
<1> QED
  BY <1>1, <1>2 DEF PumpFaithful

-----------------------------------------------------------------------------
(* The pause between dials.                                                *)

\* No attempt that is counted doubles the base beyond a Duration.
NoOverflow == \A n \in 0..MaxTries : Base * 2^n < 2^(Width - 1)

LEMMA Powers == \A n \in Nat : 2^n \in Nat
<1> SUFFICES ASSUME NEW n \in Nat PROVE 2^n \in Nat
  OBVIOUS
<1>1. IsFiniteSet(1..n) /\ Cardinality(1..n) = n
  BY FS_Interval
<1>2. IsFiniteSet(SUBSET (1..n)) /\ Cardinality(SUBSET (1..n)) = 2^n
  BY <1>1, FS_SUBSET
<1> QED
  BY <1>2, FS_CardinalityType

LEMMA BackoffInitInv == BackoffInit => BackoffTypeOK /\ Ramp
BY BackoffConstants DEF BackoffInit, BackoffTypeOK, Ramp

LEMMA BackoffTypes == BackoffTypeOK /\ [BackoffNext]_backoffVars => BackoffTypeOK'
<1> SUFFICES ASSUME BackoffTypeOK, [BackoffNext]_backoffVars PROVE BackoffTypeOK'
  OBVIOUS
<1> USE BackoffConstants
<1>1. CASE Next_
  <2>1. PICK n \in 0..MaxTries : n = Counted /\ (n = 0 \/ n = attempts)
    BY DEF Counted, BackoffTypeOK
  <2>2. CASE GivesUp
    BY <1>1, <2>1, <2>2 DEF Next_, BackoffTypeOK
  <2>3. CASE ~GivesUp
    <3>1. n < MaxTries /\ attempts' = n + 1 /\ since' = 0 /\ retryLoop' = "wait"
      BY <1>1, <2>1, <2>3 DEF Next_
    <3>2. MaxAttempts > 0 => n < MaxAttempts
      BY <2>1, <2>3 DEF GivesUp
    <3>3. PICK d \in capped(n) : delay' \in Jittered(d)
      BY <1>1, <2>1, <2>3 DEF Next_
    <3>4. d \in Int
      <4>1. 2^n \in Nat /\ 2^(Width - 1) \in Int
        BY Powers
      <4>2. Base * 2^n \in Int
        BY <4>1
      <4>3. \A x \in Int : \A y \in ToDuration(x) : y \in Int
        BY <4>1 DEF ToDuration
      <4> QED
        BY <3>3, <4>2, <4>3 DEF capped
    <3>5. delay' \in Int
      <4>1. (d * Jitter) \div 10 \in Int
        BY <3>4
      <4> QED
        BY <3>3, <3>4, <4>1 DEF Jittered
    <3> QED
      BY <3>1, <3>2, <3>5 DEF BackoffTypeOK
  <2> QED
    BY <2>2, <2>3
<1>2. CASE Reset
  BY <1>2 DEF Reset, BackoffTypeOK
<1>3. CASE Wait
  <2>1. since' \in Int
    BY <1>3 DEF Wait, BackoffTypeOK
  <2> QED
    BY <1>3, <2>1 DEF Wait, BackoffTypeOK
<1>4. CASE UNCHANGED backoffVars
  BY <1>4 DEF backoffVars, BackoffTypeOK
<1> QED
  BY <1>1, <1>2, <1>3, <1>4 DEF BackoffNext

\* What jitter leaves of a delay.
LEMMA JitterShare ==
    ASSUME NEW w \in Nat, NEW x \in Jittered(w)
    PROVE  x \in Int /\ x <= w /\ 10 * x >= (10 - Jitter) * w
<1> USE BackoffConstants
<1>1. PICK j \in 0..10 : j = Jitter
  OBVIOUS
<1>2. PICK m \in Nat : m = w * j
  OBVIOUS
<1>3. (10 - j) * w = 10 * w - m
  BY <1>2
<1>4. PICK q \in Nat : q = m \div 10 /\ 10 * q <= m
  BY <1>2
<1>5. CASE w > 0 /\ q > 0
  <2>1. PICK s \in 0..(q - 1) : x = w - s
    BY <1>1, <1>2, <1>4, <1>5 DEF Jittered
  <2> QED
    BY <1>1, <1>3, <1>4, <2>1
<1>6. CASE ~(w > 0 /\ q > 0)
  <2>1. x = w
    BY <1>1, <1>2, <1>4, <1>6 DEF Jittered
  <2> QED
    BY <1>1, <1>2, <1>3, <2>1
<1> QED
  BY <1>5, <1>6

LEMMA RampStep == NoOverflow /\ BackoffTypeOK /\ Ramp /\ [BackoffNext]_backoffVars => Ramp'
<1> SUFFICES ASSUME NoOverflow, BackoffTypeOK, Ramp, [BackoffNext]_backoffVars PROVE Ramp'
  OBVIOUS
<1> USE BackoffConstants
<1>1. CASE Next_ /\ ~GivesUp
  <2>1. PICK n \in 0..MaxTries : n = Counted
    BY DEF Counted, BackoffTypeOK
  <2>2. attempts' = n + 1 /\ \E d \in capped(n) : delay' \in Jittered(d)
    BY <1>1, <2>1 DEF Next_
  <2>3. 2^n \in Nat /\ Base * 2^n < 2^(Width - 1)
    BY Powers DEF NoOverflow
  <2>4. PICK b \in Nat : b = Base * 2^n
    BY <2>3
  <2>5. PICK w \in Nat : w = (IF b > Max THEN Max ELSE b)
    OBVIOUS
  <2>6. capped(n) = {w}
    BY <2>3, <2>4, <2>5 DEF capped, ToDuration
  <2>7. delay' <= w /\ 10 * delay' >= (10 - Jitter) * w
    BY <2>2, <2>6, JitterShare
  <2>8. attempts' - 1 = n
    BY <2>2
  <2> QED
    BY <2>4, <2>5, <2>7, <2>8 DEF Ramp
<1>2. CASE Next_ /\ GivesUp
  BY <1>2 DEF Next_, Ramp
<1>3. CASE Reset
  BY <1>3 DEF Reset, Ramp
<1>4. CASE Wait
  BY <1>4 DEF Wait, Ramp
<1>5. CASE UNCHANGED backoffVars
  BY <1>5 DEF backoffVars, Ramp
<1> QED
  BY <1>1, <1>2, <1>3, <1>4, <1>5 DEF BackoffNext

-----------------------------------------------------------------------------
(* The control tunnel.                                                     *)

\* The locals of Run: a session while it has one, and the token is spent on a stale
\* certificate only.
AgentRight(a) ==
    /\ a.conn # None <=> a.pc \in {"handshake", "serve"}
    /\ a.pc = "reenroll" => a.stale
AgentsRight == agent \in [ClusterId -> Agent] /\ \A i \in ClusterId : AgentRight(agent[i])

SysInv == IInv /\ AgentsRight /\ faults \in 0..MaxFaults

LEMMA SysRight == SysInv => SysTypeOK /\ ReenrollOnlyStale
BY DEF SysInv, IInv, AgentsRight, AgentRight, SysTypeOK, ReenrollOnlyStale

LEMMA SysInitInv == SysInit => SysInv
<1> SUFFICES ASSUME SysInit PROVE SysInv
  OBVIOUS
<1>1. IInv /\ faults \in 0..MaxFaults
  BY InitOK, SystemConstants DEF SysInit
<1>2. PICK a : a = [pc |-> "dial", conn |-> None, certRejects |-> 0, stale |-> FALSE, cancelled |-> FALSE]
  OBVIOUS
<1>3. a \in Agent
  BY <1>2 DEF Agent
<1>4. AgentRight(a)
  BY <1>2 DEF AgentRight
<1>5. agent = [i \in ClusterId |-> a]
  BY <1>2 DEF SysInit
<1> QED
  BY <1>1, <1>3, <1>4, <1>5 DEF SysInv, AgentsRight

\* Whatever the provisioners do, the bridge takes a step of its own or none.
LEMMA BridgeMoves == SysNext => [Next]_vars
<1> SUFFICES ASSUME SysNext PROVE [Next]_vars
  OBVIOUS
<1>1. ASSUME NEW i \in ClusterId, AgentStep(i) PROVE [Next]_vars
  <2>1. CASE \E c \in Conn : DialAccepted(i, c)
    <3>1. PICK h \in Handshake : h = Hello(i)
      BY SystemConstants DEF Hello
    <3> QED
      BY <2>1, <3>1 DEF DialAccepted, Next
  <2> QED
    BY <1>1, <2>1 DEF AgentStep, Return, DialFails, Handshaken, ServeEnds, BackedOff, reenroll
<1>2. ASSUME NEW c \in Conn, BridgeStep(c) \/ Noticed(c) PROVE [Next]_vars
  BY <1>2 DEF BridgeStep, Noticed, Next
<1>3. CASE Environment
  BY <1>3 DEF Environment, LinkCut, DialSilent, Next, Pushes
<1> QED
  BY <1>1, <1>2, <1>3 DEF SysNext

\* One provisioner moves on.
LEMMA Became ==
    ASSUME AgentsRight, NEW i \in ClusterId, NEW a \in Agent, AgentRight(a), Become(i, a)
    PROVE  AgentsRight'
BY DEF AgentsRight, Become

\* A failed dial: the second rejection in a row calls reenroll.
LEMMA DialFailed ==
    ASSUME AgentsRight, NEW i \in ClusterId, NEW rejected \in BOOLEAN, dialFailed(i, rejected),
           rejected => agent[i].stale
    PROVE  AgentsRight'
<1>1. PICK s \in Agent : s = agent[i] /\ AgentRight(s)
  BY DEF AgentsRight
<1>0. PICK n \in 0..2 :
        /\ Become(i, [s EXCEPT !.certRejects = n, !.conn = None, !.pc = IF n >= 2 THEN "reenroll" ELSE "backoff"])
        /\ n >= 2 => s.stale
  <2>1. CASE rejected
    <3>1. (IF s.certRejects = 2 THEN 2 ELSE s.certRejects + 1) \in 0..2
      BY <1>1 DEF Agent
    <3> QED
      BY <1>1, <2>1, <3>1 DEF dialFailed
  <2>2. CASE ~rejected
    BY <1>1, <2>2 DEF dialFailed
  <2> QED
    BY <2>1, <2>2
<1>2. PICK a : a = [s EXCEPT !.certRejects = n, !.conn = None, !.pc = IF n >= 2 THEN "reenroll" ELSE "backoff"]
  OBVIOUS
<1>3. a \in Agent
  BY <1>1, <1>2 DEF Agent
<1>4. a.conn = None /\ a.pc = (IF n >= 2 THEN "reenroll" ELSE "backoff") /\ (a.stale <=> s.stale)
  BY <1>1, <1>2 DEF Agent
<1>5. AgentRight(a)
  BY <1>0, <1>4 DEF AgentRight
<1> QED
  BY <1>0, <1>2, <1>3, <1>5, Became

LEMMA AgentsStep ==
    ASSUME AgentsRight, NEW i \in ClusterId, AgentStep(i) \/ LinkCut(i) \/ DialSilent(i)
    PROVE  AgentsRight'
<1>1. PICK s \in Agent : s = agent[i] /\ AgentRight(s)
  BY DEF AgentsRight
<1>2. None \notin Conn
  BY BridgeConstants
<1>0. 0 \in 0..2 /\ FALSE \in BOOLEAN
  OBVIOUS
<1>3. CASE DialFails(i)
  BY <1>3, DialFailed DEF DialFails
<1>4. CASE Handshaken(i)
  <2>1. CASE dialFailed(i, FALSE)
    BY <2>1, DialFailed
  <2>2. CASE s.pc = "handshake" /\ Become(i, [s EXCEPT !.pc = "serve", !.certRejects = 0])
    <3>1. PICK a : a = [s EXCEPT !.pc = "serve", !.certRejects = 0]
      OBVIOUS
    <3>2. a \in Agent
      BY <1>1, <1>0, <3>1 DEF Agent
    <3>3. a.conn = s.conn /\ a.pc = "serve"
      BY <1>1, <3>1 DEF Agent
    <3>4. AgentRight(a)
      BY <1>1, <2>2, <3>3 DEF AgentRight
    <3> QED
      BY <2>2, <3>1, <3>2, <3>4, Became
  <2> QED
    BY <1>1, <1>4, <2>1, <2>2 DEF Handshaken
<1>5. CASE LinkCut(i)
  <2>1. CASE dialFailed(i, FALSE)
    BY <2>1, DialFailed
  <2>2. CASE Become(i, [s EXCEPT !.conn = None, !.pc = IF s.cancelled THEN "done" ELSE "dial"])
    <3>1. PICK a : a = [s EXCEPT !.conn = None, !.pc = IF s.cancelled THEN "done" ELSE "dial"]
      OBVIOUS
    <3>2. a \in Agent
      BY <1>1, <3>1 DEF Agent
    <3>3. a.conn = None /\ a.pc \in {"done", "dial"}
      BY <1>1, <3>1 DEF Agent
    <3>4. AgentRight(a)
      BY <3>3 DEF AgentRight
    <3> QED
      BY <2>2, <3>1, <3>2, <3>4, Became
  <2> QED
    BY <1>1, <1>5, <2>1, <2>2 DEF LinkCut
<1>6. CASE \E c \in Conn : DialAccepted(i, c)
  <2>0. PICK c \in Conn : Become(i, [s EXCEPT !.pc = "handshake", !.conn = c])
    BY <1>1, <1>6 DEF DialAccepted
  <2>1. PICK a : a = [s EXCEPT !.pc = "handshake", !.conn = c] /\ Become(i, a)
    BY <2>0
  <2>2. a \in Agent /\ AgentRight(a)
    BY <1>1, <1>2, <2>1 DEF Agent, AgentRight
  <2> QED
    BY <2>1, <2>2, Became
<1>7. CASE ServeEnds(i)
  <2>1. PICK a : a = [s EXCEPT !.conn = None, !.pc = IF s.cancelled THEN "done" ELSE "dial"] /\ Become(i, a)
    BY <1>1, <1>7 DEF ServeEnds
  <2>2. a \in Agent
    BY <1>1, <2>1 DEF Agent
  <2>3. a.conn = None /\ a.pc \in {"done", "dial"}
    BY <1>1, <2>1 DEF Agent
  <2>4. AgentRight(a)
    BY <2>3 DEF AgentRight
  <2> QED
    BY <2>1, <2>2, <2>4, Became
<1>8. CASE reenroll(i)
  <2>1. PICK a : /\ a = [s EXCEPT !.stale = FALSE, !.certRejects = 0, !.pc = "dial"] \/ a = [s EXCEPT !.pc = "backoff"]
                 /\ Become(i, a) /\ s.pc = "reenroll"
    BY <1>1, <1>8 DEF reenroll
  <2>2. a \in Agent /\ a.conn = s.conn /\ a.pc \in {"dial", "backoff"}
    <3>1. CASE a = [s EXCEPT !.stale = FALSE, !.certRejects = 0, !.pc = "dial"]
      <4>1. a \in Agent
        BY <1>1, <1>0, <3>1 DEF Agent
      <4> QED
        BY <1>1, <3>1, <4>1 DEF Agent
    <3>2. CASE a = [s EXCEPT !.pc = "backoff"]
      BY <1>1, <3>2 DEF Agent
    <3> QED
      BY <2>1, <3>1, <3>2
  <2>4. AgentRight(a)
    BY <1>1, <2>1, <2>2 DEF AgentRight
  <2> QED
    BY <2>1, <2>2, <2>4, Became
<1>9. CASE Return(i) \/ BackedOff(i) \/ DialSilent(i)
  <2>0. PICK p \in {"done", "dial", "silent"} : Become(i, [s EXCEPT !.pc = p]) /\ s.pc \in {"dial", "backoff"}
    BY <1>1, <1>9 DEF Return, BackedOff, DialSilent
  <2>1. PICK a : a = [s EXCEPT !.pc = p] /\ Become(i, a) /\ s.pc \in {"dial", "backoff"}
    BY <2>0
  <2>2. a \in Agent /\ AgentRight(a)
    BY <1>1, <2>1 DEF Agent, AgentRight
  <2> QED
    BY <2>1, <2>2, Became
<1> QED
  BY <1>3, <1>4, <1>5, <1>6, <1>7, <1>8, <1>9 DEF AgentStep

LEMMA EnvironmentStep ==
    ASSUME AgentsRight, Environment
    PROVE  AgentsRight'
<1>1. CASE \E i \in ClusterId : LinkCut(i) \/ DialSilent(i)
  BY <1>1, AgentsStep
<1>2. CASE UNCHANGED agent
  BY <1>2 DEF AgentsRight
<1>3. CASE agent' = [i \in ClusterId |-> [agent[i] EXCEPT !.stale = TRUE]]
  <2>1. ASSUME NEW i \in ClusterId PROVE agent'[i] \in Agent /\ AgentRight(agent'[i])
    <3>1. PICK s \in Agent : s = agent[i] /\ AgentRight(s)
      BY DEF AgentsRight
    <3>2. PICK a : a = [s EXCEPT !.stale = TRUE] /\ a = agent'[i]
      BY <1>3, <3>1
    <3>3. a \in Agent /\ AgentRight(a)
      BY ZenonT(40), <3>1, <3>2 DEF Agent, AgentRight
    <3> QED
      BY <3>2, <3>3
  <2> QED
    BY <1>3, <2>1 DEF AgentsRight
<1>4. ASSUME NEW i \in ClusterId, Become(i, [agent[i] EXCEPT !.cancelled = TRUE]) PROVE AgentsRight'
  <2>1. PICK s \in Agent : s = agent[i] /\ AgentRight(s)
    BY DEF AgentsRight
  <2>2. PICK a : a = [s EXCEPT !.cancelled = TRUE] /\ Become(i, a)
    BY <1>4, <2>1
  <2>3. a \in Agent /\ AgentRight(a)
    BY <2>1, <2>2 DEF Agent, AgentRight
  <2> QED
    BY <2>2, <2>3, Became
<1> QED
  BY <1>1, <1>2, <1>3, <1>4 DEF Environment

LEMMA SysStep == SysInv /\ [SysNext]_sysvars => SysInv'
<1>1. ASSUME SysInv, SysNext PROVE SysInv'
  <2>1. IInv'
    BY <1>1, BridgeMoves, StepOK DEF SysInv
  <2>2. UNCHANGED faults \/ (faults < MaxFaults /\ faults' = faults + 1)
    <3>1. CASE \E i \in ClusterId : AgentStep(i)
      <4>1. PICK i \in ClusterId : AgentStep(i)
        BY <3>1
      <4>2. CASE Return(i) \/ Handshaken(i) \/ ServeEnds(i) \/ BackedOff(i) \/ \E c \in Conn : DialAccepted(i, c)
        BY <4>2 DEF Return, Handshaken, ServeEnds, BackedOff, DialAccepted
      <4>3. CASE DialFails(i)
        BY <4>3 DEF DialFails, Fault
      <4>4. CASE reenroll(i)
        BY <4>4 DEF reenroll, Fault
      <4> QED
        BY <4>1, <4>2, <4>3, <4>4 DEF AgentStep
    <3>2. CASE \E c \in Conn : BridgeStep(c) \/ Noticed(c)
      BY <3>2 DEF BridgeStep, Noticed
    <3>3. CASE Environment
      BY <3>3 DEF Environment, Fault, LinkCut, DialSilent
    <3> QED
      BY <1>1, <3>1, <3>2, <3>3 DEF SysNext
  <2>4. faults' \in 0..MaxFaults
    BY <1>1, <2>2, SystemConstants DEF SysInv
  <2>3. AgentsRight'
    <3>1. CASE \E i \in ClusterId : AgentStep(i)
      BY <1>1, <3>1, AgentsStep DEF SysInv
    <3>2. CASE \E c \in Conn : BridgeStep(c) \/ Noticed(c)
      BY <1>1, <3>2 DEF BridgeStep, Noticed, SysInv, AgentsRight
    <3>3. CASE Environment
      BY <1>1, <3>3, EnvironmentStep DEF SysInv
    <3> QED
      BY <1>1, <3>1, <3>2, <3>3 DEF SysNext
  <2> QED
    BY <2>1, <2>3, <2>4 DEF SysInv
<1>2. ASSUME SysInv, UNCHANGED sysvars PROVE SysInv'
  <2>1. IInv'
    BY <1>2, StepOK DEF SysInv, sysvars
  <2> QED
    BY <1>2, <2>1 DEF SysInv, sysvars, AgentsRight
<1> QED
  BY <1>1, <1>2

-----------------------------------------------------------------------------
(* The certificate bundle.                                                 *)

\* NoCert is a model of nil: it is neither a certificate nor a pair.
LEMMA CertInitOK == CertInit => CertIInv
<1> SUFFICES ASSUME CertInit PROVE CertIInv
  OBVIOUS
<1>1. crt \in Cert \cup {NoCert} /\ key \in Nat \cup {NoCert}
  BY CertConstants DEF CertInit, Cert
<1>2. CertTypeOK
  BY <1>1, CertConstants DEF CertInit, CertTypeOK, Task, Stage
<1> QED BY <1>2 DEF CertInit, CertIInv, PairInUse, CheckedPair, Task

\* A task that moves on with a checked pair, or with none, keeps the invariant.
LEMMA GotoStep ==
    ASSUME CertIInv, NEW t \in Task, NEW stage \in Stage, NEW p \in Pair \cup {NoCert},
           Goto(t, stage, p),
           stage \in {"writeCert", "writeKey", "loadKey", "swap"} => p # NoCert,
           stage = "swap" => p.key = p.crt.serial,
           t = "boot" => stage # "idle",
           CertTypeOK => /\ now' \in 0..Horizon /\ ca' \in 0..MaxCA /\ issued' \in 0..MaxEnroll
                     /\ token' \in {"fresh", "consumed"}
                     /\ crt' \in Cert \cup {NoCert} /\ key' \in Nat \cup {NoCert}
                     /\ mishaps' \in 0..MaxMishaps
    PROVE  CertIInv'
<1>1. \A u \in Task : pc'[u] = (IF u = t THEN stage ELSE pc[u])
                      /\ held'[u] = (IF u = t THEN p ELSE held[u])
  BY DEF CertIInv, CertTypeOK, Goto
<1>2. pc' \in [Task -> Stage] /\ held' \in [Task -> Pair \cup {NoCert}]
  BY DEF CertIInv, CertTypeOK, Goto
<1>3. CertTypeOK'
  BY <1>1, <1>2 DEF CertIInv, CertTypeOK, Goto, Task
<1> QED BY <1>1, <1>3 DEF CertIInv, PairInUse, CheckedPair, Goto

\* Giving up, and the end of the process, discard what the task held.
LEMMA FailStep ==
    ASSUME CertIInv, NEW t \in Task, Fail(t) \/ Exit,
           CertTypeOK => /\ now' \in 0..Horizon /\ ca' \in 0..MaxCA /\ issued' \in 0..MaxEnroll
                     /\ token' \in {"fresh", "consumed"}
                     /\ crt' \in Cert \cup {NoCert} /\ key' \in Nat \cup {NoCert}
                     /\ mishaps' \in 0..MaxMishaps
    PROVE  CertIInv'
<1>1. CASE Exit
  BY <1>1 DEF Exit, CertIInv, CertTypeOK, PairInUse, CheckedPair, Task, Stage
<1>2. CASE Fail(t) /\ ~Exit
  <2>1. t # "boot" /\ Goto(t, "idle", NoCert)
    BY <1>2 DEF Fail, Goto
  <2> QED BY <2>1, GotoStep DEF Stage
<1> QED BY <1>1, <1>2

LEMMA EnrollStep ==
    ASSUME CertIInv, NEW t \in Task, Enroll(t)
    PROVE  CertIInv'
<1> USE CertConstants
<1>1. CASE BootstrapClusterCert(t)
  BY <1>1, GotoStep DEF BootstrapClusterCert, world, disk, CertTypeOK, Stage
<1>2. CASE postEnroll(t)
  <2> DEFINE c == [serial |-> issued + 1, ca |-> ca, notAfter |-> now + Lifetime]
             p == [crt |-> c, key |-> issued + 1]
  <2>1. c \in Cert /\ p \in Pair
    BY DEF CertIInv, CertTypeOK, Cert, Pair
  <2>2. CertTypeOK => /\ now' \in 0..Horizon /\ ca' \in 0..MaxCA /\ issued' \in 0..MaxEnroll
                  /\ token' \in {"fresh", "consumed"}
                  /\ crt' \in Cert \cup {NoCert} /\ key' \in Nat \cup {NoCert}
                     /\ mishaps' \in 0..MaxMishaps
    BY <1>2 DEF postEnroll, CertTypeOK, disk, Mishap
  <2>3. Goto(t, "writeCert", p) \/ Fail(t)
    BY <1>2 DEF postEnroll
  <2>4. p # NoCert
    BY <2>1
  <2> QED BY <2>1, <2>2, <2>3, <2>4, GotoStep, FailStep DEF Stage
<1>3. CASE writeCert(t)
  <2>1. held[t] \in Pair /\ held[t] # NoCert /\ held[t].crt \in Cert
    BY <1>3 DEF writeCert, CertIInv, CertTypeOK, Pair
  <2> QED BY <1>3, <2>1, GotoStep, FailStep DEF writeCert, world, CertTypeOK, Stage, Mishap
<1>4. CASE writeKey(t)
  <2>1. held[t] \in Pair /\ held[t].key \in Nat \cup {NoCert}
    BY <1>4 DEF writeKey, CertIInv, CertTypeOK, Pair
  <2> QED BY <1>4, <2>1, GotoStep, FailStep DEF writeKey, world, CertTypeOK, Stage, Mishap
<1>5. CASE loadCert(t)
  <2> DEFINE p == [crt |-> crt, key |-> NoCert]
  <2>1. crt # NoCert => p \in Pair
    BY DEF CertIInv, CertTypeOK, Pair
  <2>2. CASE crt = NoCert
    BY <1>5, <2>2, FailStep DEF loadCert, world, disk, CertTypeOK
  <2>3. CASE crt # NoCert
    <3>1. Goto(t, "loadKey", p) /\ p \in Pair
      BY <1>5, <2>1, <2>3 DEF loadCert
    <3> HIDE DEF p
    <3> QED BY <1>5, <3>1, GotoStep DEF loadCert, world, disk, CertTypeOK, Stage
  <2> QED BY <2>2, <2>3
<1>6. CASE loadKey(t)
  <2> DEFINE p == [held[t] EXCEPT !.key = key]
  <2>1. held[t] \in Pair
    BY <1>6 DEF loadKey, CertIInv, CertTypeOK
  <2>2. p \in Pair /\ p.key = key /\ p.crt = held[t].crt
    BY <2>1 DEF Pair, CertIInv, CertTypeOK
  <2>3. CASE key # held[t].crt.serial
    BY <1>6, <2>3, FailStep DEF loadKey, world, disk, CertTypeOK
  <2>4. CASE key = held[t].crt.serial
    <3>1. Goto(t, "swap", p)
      BY <1>6, <2>4 DEF loadKey
    <3> HIDE DEF p
    <3> QED BY <1>6, <2>2, <2>4, <3>1, GotoStep DEF loadKey, world, disk, CertTypeOK, Stage
  <2> QED BY <2>3, <2>4
<1>7. CASE swap(t)
  <2>1. held[t] \in Pair /\ held[t] # NoCert /\ held[t].key = held[t].crt.serial
    BY <1>7 DEF swap, CertIInv, CertTypeOK, CheckedPair
  <2>2. CertTypeOK'
    BY <1>7, <2>1 DEF swap, world, disk, CertIInv, CertTypeOK, Task, Stage
  <2>3. PairInUse' /\ CheckedPair'
    BY <1>7, <2>1 DEF swap, CertIInv, CertTypeOK, PairInUse, CheckedPair, Task
  <2> QED BY <2>2, <2>3 DEF CertIInv
<1> QED BY <1>1, <1>2, <1>3, <1>4, <1>5, <1>6, <1>7 DEF Enroll

LEMMA CertStepOK == CertIInv /\ [CertNext]_certVars => CertIInv'
<1> SUFFICES ASSUME CertIInv, [CertNext]_certVars PROVE CertIInv'
  OBVIOUS
<1> USE CertConstants DEF world, disk
<1>1. CASE Run
  BY <1>1 DEF Run, CertIInv, CertTypeOK, PairInUse, CheckedPair, Task, Stage, Running
<1>2. CASE Crash
  BY <1>2, FailStep DEF Mishap, Crash, CertTypeOK, Task
<1>3. CASE Day
  <2>1. now' \in 0..Horizon
    BY <1>3 DEF Day, CertIInv, CertTypeOK
  <2> QED BY <1>3, <2>1 DEF Day, CertIInv, CertTypeOK, PairInUse, CheckedPair
<1>4. CASE RotateCA
  BY <1>4 DEF RotateCA, CertIInv, CertTypeOK, PairInUse, CheckedPair
<1>5. ASSUME NEW t \in Task, Enroll(t) PROVE CertIInv'
  BY <1>5, EnrollStep
<1>6. CASE RunCertRenewer
  BY <1>6 DEF RunCertRenewer, CertIInv, CertTypeOK, PairInUse, CheckedPair, Task, Stage
<1>7. CASE ReenrollClusterCert
  BY <1>7, GotoStep DEF ReenrollClusterCert, CertTypeOK, Task, Stage
<1>8. CASE redial
  BY <1>8, GotoStep DEF redial, CertTypeOK, Task, Stage
<1>9. CASE UNCHANGED certVars
  BY <1>9 DEF certVars, CertIInv, CertTypeOK, PairInUse, CheckedPair
<1> QED BY <1>1, <1>2, <1>3, <1>4, <1>5, <1>6, <1>7, <1>8, <1>9 DEF CertNext

\* The provisioner never presents a certificate with another certificate's
\* key, whatever crashes and failed writes left of the bundle on disk
\* (BuildClusterTLSConfig).
THEOREM PairMatches == CertSpec => []PairInUse
<1>1. CertIInv => PairInUse
  BY DEF CertIInv
<1> QED BY <1>1, CertInitOK, CertStepOK, PTL DEF CertSpec

-----------------------------------------------------------------------------
(* All parts together.                                                     *)

Moves == AllInit /\ [][AllNext]_<<part, sysvars, copyVars, backoffVars, certVars>>

\* Each part moves by itself or stands still.
LEMMA PartsMove ==
    [AllNext]_<<part, sysvars, copyVars, backoffVars, certVars>> =>
        [SysNext]_sysvars /\ [CopyNext]_copyVars /\ [BackoffNext]_backoffVars /\ [CertNext]_certVars
BY DEF AllNext

AllInv == SysInv /\ CopyInv /\ BackoffTypeOK /\ CertIInv

LEMMA AllAlways == Moves => []AllInv
<1>1. AllInit => AllInv
  BY SysInitInv, CopyInitInv, BackoffInitInv, CertInitOK DEF AllInit, AllInv
<1>2. AllInv /\ [AllNext]_<<part, sysvars, copyVars, backoffVars, certVars>> => AllInv'
  BY PartsMove, SysStep, CopyStep, BackoffTypes, CertStepOK DEF AllInv
<1> QED
  BY <1>1, <1>2, PTL DEF Moves

LEMMA RampAlways == NoOverflow /\ Moves => []Ramp
<1>1. AllInit => Ramp
  BY BackoffInitInv DEF AllInit
<1>2. NoOverflow /\ AllInv /\ Ramp /\ [AllNext]_<<part, sysvars, copyVars, backoffVars, certVars>> => Ramp'
  BY PartsMove, RampStep DEF AllInv
<1>3. NoOverflow => []NoOverflow
  OBVIOUS
<1> QED
  BY <1>1, <1>2, <1>3, AllAlways, PTL DEF Moves

\* The values of the tunnel, its streams, the backoff and the certificate are well formed,
\* for any number of clusters, connections and faults (broker_client.go, copy.go,
\* backoff.go, cert_bootstrap.go).
THEOREM TunnelIsTyped == AllSpec => []AllTypeOK
<1>1. AllInv => AllTypeOK
  BY SysRight DEF AllInv, CopyInv, CertIInv, AllTypeOK
<1> QED
  BY <1>1, AllAlways, PTL DEF AllSpec, Moves

\* However dials fail, certificates go stale and sessions are cut, the enroll token is spent
\* on a certificate the bridge rejects and on no other (broker_client.go: Run, reenroll).
THEOREM TokenForStaleOnly == AllSpec => []ReenrollOnlyStale
<1>1. AllInv => ReenrollOnlyStale
  BY SysRight DEF AllInv
<1> QED
  BY <1>1, AllAlways, PTL DEF AllSpec, Moves

\* CopyStreams closes each stream once, returns with both pumps at rest and loses only the
\* chunk whose write failed, for streams of any length and every way of tearing them down
\* (copy.go: CopyStreams); and until Base * 2^n overflows a Duration the pause between dials
\* is the doubled base under its cap, less the jitter's share, for every configuration
\* (backoff.go: Next).
THEOREM LinkIsFaithful == NoOverflow /\ AllSpec => []LinkFaithful
<1>1. AllInv /\ Ramp => LinkFaithful
  BY CopyRight DEF AllInv, LinkFaithful
<1> QED
  BY <1>1, AllAlways, RampAlways, PTL DEF AllSpec, Moves

\* The same of the pump alone: it asks nothing of the backoff.
THEOREM PumpIsFaithful == AllSpec => []PumpFaithful
<1>1. AllInv => PumpFaithful
  BY CopyRight DEF AllInv
<1> QED
  BY <1>1, AllAlways, PTL DEF AllSpec, Moves

\* The certificate in use has its own key beside whatever else the tunnel does
\* (cert_bootstrap.go: BuildClusterTLSConfig).
THEOREM TunnelPairMatches == AllSpec => []PairInUse
<1>1. AllInv => PairInUse
  BY DEF AllInv, CertIInv
<1> QED
  BY <1>1, AllAlways, PTL DEF AllSpec, Moves

\* With real provisioners at the other end the bridge is the bridge of BridgeProofs: its
\* directory is exact and no request is forwarded over a superseded session, although a
\* provisioner redials while the bridge still believes in its old session and a goroutine
\* may register a session that is already dead (broker.go: serveCluster; handshake.go).
THEOREM TunnelKeepsDirectory == AllSpec => [](DirectoryExact /\ NoStaleForward)
<1>1. AllInv => DirectoryExact /\ NoStaleForward
  BY DEF AllInv, SysInv, IInv, DirectoryExact
<1> QED
  BY <1>1, AllAlways, PTL DEF AllSpec, Moves

\* The detailed tunnel implements the bridge seen alone, step by step: what a provisioner
\* does is a step of some peer, or nothing to the bridge.
THEOREM TunnelIsABridge == AllSpec => Spec
<1>1. AllInit => Init
  BY DEF AllInit, SysInit
<1>2. [AllNext]_<<part, sysvars, copyVars, backoffVars, certVars>> => [Next]_vars
  BY PartsMove, BridgeMoves DEF sysvars
<1> QED
  BY <1>1, <1>2, PTL DEF AllSpec, Spec

=============================================================================
