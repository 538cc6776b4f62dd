---------------------------- MODULE StopProofs ----------------------------
(***************************************************************************)
(* What a stop costs, for any number of deliveries and any timeouts that   *)
(* fit each other as TimeAssumption says.                                  *)
(*                                                                         *)
(* The argument.  A row that says sending and is not given up belongs to   *)
(* the holder of the gate, or was left by the last holder when the         *)
(* database had closed, after which no claim succeeds.  A send under way   *)
(* at the signal is at least as old as the signal, so it has ended before  *)
(* Shutdown gives up waiting.                                              *)
(***************************************************************************)
EXTENDS GracefulStop, TLAPS

Holding == {"sending", "recording"}

TypeOK ==
  /\ phase \in Running \cup {"exited"}
  /\ stopAge \in Nat
  /\ handler \in [Deliveries -> {"none", "waiting", "sending", "recording", "answered"}]
  /\ age \in [Deliveries -> Nat]
  /\ gate \in Deliveries \cup {None}
  /\ record \in [Deliveries -> {"none", "sending", "outcome", "unknown"}]
  /\ failed \in SUBSET Deliveries
  /\ atStop \in Deliveries \cup {None}

GateInv ==
  /\ \A d \in Deliveries : handler[d] \in Holding <=> gate = d
  /\ \A d \in Deliveries : handler[d] \in Holding => record[d] = "sending"
  /\ \A d \in Deliveries : handler[d] = "waiting" => record[d] = "none"
  /\ \A d \in Interrupted : gate = d \/ ~Open
  /\ \A d, e \in Interrupted : d = e

TimeInv ==
  /\ \A d \in Deliveries : handler[d] = "sending" => age[d] <= RequestTimeout
  /\ phase = "serving" => stopAge = 0
  /\ phase = "draining" => stopAge <= ShutdownTimeout
  /\ stopAge <= ShutdownTimeout + CloseTime

\* What has become of the delivery d that held the gate at the signal.
Spared(d) ==
  \/ record[d] = "outcome" \/ d \in failed
  \/ phase = "draining" /\ handler[d] = "sending" /\ stopAge <= age[d]
  \/ phase = "draining" /\ handler[d] = "recording" /\ stopAge <= age[d] + RequestTimeout
  \/ handler[d] \in {"recording", "answered"} /\ age[d] >= ShutdownTimeout - RequestTimeout

SpareInv == phase # "serving" /\ atStop # None => Spared(atStop)

Inv == TypeOK /\ GateInv /\ TimeInv /\ SpareInv

LEMMA InitInv == Init => Inv
<1> SUFFICES ASSUME Init PROVE Inv
  OBVIOUS
<1> USE DEF Init
<1>1. TypeOK
  BY DEF TypeOK, Running
<1>2. GateInv
  BY NoneAssumption DEF GateInv, Holding, Interrupted
<1>3. TimeInv /\ SpareInv
  BY TimeAssumption DEF TimeInv, SpareInv
<1> QED BY <1>1, <1>2, <1>3 DEF Inv

LEMMA TypeStep == TypeOK /\ [Next]_vars => TypeOK'
<1> SUFFICES ASSUME TypeOK, [Next]_vars PROVE TypeOK'
  OBVIOUS
<1> USE DEF TypeOK, Running, process, handlers
<1>1. ASSUME NEW d \in Deliveries, Handle(d)
      PROVE  TypeOK'
  BY <1>1 DEF Handle, Arrive, Cancel, Claim, SendEnds, Record, RecordFails, Becomes
<1>2. CASE Stop \/ Drain \/ Close \/ Exit
  BY <1>2 DEF Stop, Drain, Close, Exit
<1>3. CASE Restart
  BY <1>3 DEF Restart
<1>4. CASE Tick
  BY <1>4 DEF Tick
<1>5. CASE UNCHANGED vars
  BY <1>5 DEF vars
<1> QED BY <1>1, <1>2, <1>3, <1>4, <1>5 DEF Next

LEMMA GateStep == TypeOK /\ GateInv /\ [Next]_vars => GateInv'
<1> SUFFICES ASSUME TypeOK, GateInv, [Next]_vars PROVE GateInv'
  OBVIOUS
<1> USE NoneAssumption DEF TypeOK, GateInv, Holding, Interrupted, Open
<1>1. ASSUME NEW d \in Deliveries, Arrive(d) \/ Cancel(d) \/ SendEnds(d)
      PROVE  GateInv'
  BY <1>1 DEF Arrive, Cancel, SendEnds, Becomes, process
<1>2. ASSUME NEW d \in Deliveries, Claim(d)
      PROVE  GateInv'
  <2>1. CASE Open
    <3>1. Interrupted = {} /\ gate = None
      BY <1>2, <2>1 DEF Claim
    <3>2. gate' = d /\ UNCHANGED <<phase, failed>>
      BY <1>2, <2>1 DEF Claim, process
    <3>3. /\ record' = [record EXCEPT ![d] = "sending"]
          /\ handler' = [handler EXCEPT ![d] = "sending"]
      BY <1>2, <2>1 DEF Claim, Becomes
    <3>4. \A e \in Interrupted' : e = d
      BY <3>1, <3>2, <3>3
    <3> QED BY <3>1, <3>2, <3>3, <3>4
  <2>2. CASE ~Open
    BY <1>2, <2>2 DEF Claim, Becomes, process
  <2> QED BY <2>1, <2>2
<1>3. ASSUME NEW d \in Deliveries, Record(d)
      PROVE  GateInv'
  BY <1>3 DEF Record, process
<1>4. ASSUME NEW d \in Deliveries, RecordFails(d)
      PROVE  GateInv'
  BY <1>4 DEF RecordFails, process
<1>5. CASE Stop \/ Drain \/ Close \/ Exit
  BY <1>5 DEF Stop, Drain, Close, Exit, handlers
<1>6. CASE Restart
  BY <1>6 DEF Restart
<1>7. CASE Tick
  BY <1>7 DEF Tick
<1>8. CASE UNCHANGED vars
  BY <1>8 DEF vars
<1> QED BY <1>1, <1>2, <1>3, <1>4, <1>5, <1>6, <1>7, <1>8 DEF Next, Handle

LEMMA TimeStep == TypeOK /\ TimeInv /\ [Next]_vars => TimeInv'
<1> SUFFICES ASSUME TypeOK, TimeInv, [Next]_vars PROVE TimeInv'
  OBVIOUS
<1> USE TimeAssumption DEF TypeOK, TimeInv
<1>1. ASSUME NEW d \in Deliveries, Handle(d)
      PROVE  TimeInv'
  BY <1>1 DEF Handle, Arrive, Cancel, Claim, SendEnds, Record, RecordFails, Becomes, process
<1>2. CASE Stop \/ Drain \/ Close \/ Exit
  BY <1>2 DEF Stop, Drain, Close, Exit, handlers
<1>3. CASE Restart
  BY <1>3 DEF Restart
<1>4. CASE Tick
  BY <1>4 DEF Tick, ShutdownReturns, Alive, Running
<1>5. CASE UNCHANGED vars
  BY <1>5 DEF vars
<1> QED BY <1>1, <1>2, <1>3, <1>4, <1>5 DEF Next

LEMMA SpareStep == Inv /\ [Next]_vars => SpareInv'
<1> SUFFICES ASSUME Inv, [Next]_vars, phase' # "serving", atStop' # None
    PROVE  Spared(atStop)'
  BY DEF SpareInv
<1> USE TimeAssumption, NoneAssumption
<1>0. TypeOK /\ GateInv /\ TimeInv /\ SpareInv
  BY DEF Inv
<1>1. ASSUME NEW d \in Deliveries, Handle(d)
      PROVE  Spared(atStop)'
  <2>1. /\ UNCHANGED <<phase, stopAge, atStop>> /\ Spared(atStop) /\ atStop \in Deliveries
        /\ phase # "serving"
    BY <1>0, <1>1 DEF Handle, Arrive, Cancel, Claim, SendEnds, Record, RecordFails, process,
       SpareInv, TypeOK
  <2>2. CASE d # atStop
    BY <1>0, <1>1, <2>1, <2>2 DEF Handle, Arrive, Cancel, Claim, SendEnds, Record, RecordFails,
       Becomes, TypeOK, Spared
  <2>3. CASE d = atStop
    <3>1. CASE Arrive(d) \/ Cancel(d) \/ Claim(d)
      BY <1>0, <2>1, <2>3, <3>1 DEF Arrive, Cancel, Claim, Becomes, TypeOK, GateInv, Spared
    <3>2. CASE SendEnds(d)
      BY <1>0, <2>1, <2>3, <3>2 DEF SendEnds, Becomes, TypeOK, GateInv, TimeInv, Spared, Holding
    <3>3. CASE Record(d)
      BY <1>0, <2>1, <2>3, <3>3 DEF Record, TypeOK, Spared
    <3>4. CASE RecordFails(d)
      BY <1>0, <2>1, <2>3, <3>4 DEF RecordFails, TypeOK, Spared, Open
    <3> QED BY <1>1, <3>1, <3>2, <3>3, <3>4 DEF Handle
  <2> QED BY <2>2, <2>3
<1>2. CASE Stop
  <2>1. atStop' = gate /\ gate \in Deliveries /\ phase' = "draining" /\ stopAge' = 0
    BY <1>0, <1>2 DEF Stop, TypeOK
  <2>2. UNCHANGED <<handler, age, record, failed>> /\ handler[gate] \in Holding
    BY <1>0, <1>2, <2>1 DEF Stop, handlers, GateInv
  <2> QED BY <1>0, <2>1, <2>2 DEF Holding, Spared, TypeOK
<1>3. CASE Drain \/ Close \/ Exit
  <2>1. /\ UNCHANGED <<stopAge, atStop, handler, age, record, failed>>
        /\ Spared(atStop) /\ atStop \in Deliveries
    BY <1>0, <1>3 DEF Drain, Close, Exit, handlers, SpareInv, TypeOK
  <2>2. CASE Drain
    <3>1. handler[atStop] \in Holding => stopAge >= ShutdownTimeout
      BY <2>1, <2>2 DEF Drain, ShutdownReturns, Idle, Holding
    <3> QED BY <1>0, <2>1, <2>2, <3>1 DEF Spared, Holding, TypeOK, TimeInv
  <2>3. CASE Close \/ Exit
    BY <2>1, <2>3 DEF Close, Exit, Spared
  <2> QED BY <1>3, <2>2, <2>3
<1>4. CASE Restart
  BY <1>4 DEF Restart
<1>5. CASE Tick
  <2>1. /\ UNCHANGED <<phase, atStop, handler, record, failed>>
        /\ Spared(atStop) /\ atStop \in Deliveries /\ phase # "serving"
        /\ stopAge' = stopAge + 1
        /\ phase = "draining" => stopAge < ShutdownTimeout
    BY <1>0, <1>5 DEF Tick, SpareInv, TypeOK, ShutdownReturns
  <2>2. /\ handler[atStop] = "sending" => age'[atStop] = age[atStop] + 1
        /\ handler[atStop] = "recording" =>
             age'[atStop] = IF age[atStop] < ShutdownTimeout THEN age[atStop] + 1
                            ELSE age[atStop]
        /\ handler[atStop] = "answered" => age'[atStop] = age[atStop]
    BY <1>5, <2>1 DEF Tick
  <2> QED BY <1>0, <2>1, <2>2 DEF Spared, TypeOK
<1>6. CASE UNCHANGED vars
  BY <1>0, <1>6 DEF vars, SpareInv, Spared
<1> QED BY <1>1, <1>2, <1>3, <1>4, <1>5, <1>6 DEF Next

THEOREM Invariance == Spec => []Inv
<1>1. Inv /\ [Next]_vars => Inv'
  BY TypeStep, GateStep, TimeStep, SpareStep DEF Inv
<1> QED BY <1>1, InitInv, PTL DEF Spec

\* A stop leaves one delivery with an unknown outcome at most.
THEOREM StopCostsOne == Spec => []OneInterrupted
<1>1. Inv => OneInterrupted
  BY DEF Inv, GateInv, OneInterrupted
<1> QED BY <1>1, Invariance, PTL

\* The send under way at the signal is recorded.
THEOREM SendSurvivesStop == Spec => []StopSpares
<1>1. Inv => StopSpares
  BY DEF Inv, SpareInv, Spared, StopSpares
<1> QED BY <1>1, Invariance, PTL

\* The process ends within its grace period.
THEOREM StopEnds == Spec => []EndsInGrace
<1>1. Inv => EndsInGrace
  BY TimeAssumption DEF Inv, TypeOK, TimeInv, EndsInGrace
<1> QED BY <1>1, Invariance, PTL
=============================================================================
