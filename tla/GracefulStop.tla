---------------------------- MODULE GracefulStop ----------------------------
(***************************************************************************)
(* Stopping the process (cmd/orka-gateway-telegram/main.go) while          *)
(* deliveries wait for the provider gate, are being sent and are being     *)
(* recorded (internal/adapter/server.go): SIGTERM, Shutdown with its       *)
(* deadline, the deferred Close, and the exit, before Kubernetes kills it. *)
(*                                                                         *)
(* Time passes in ticks, and the deadlines of the code bound how many.     *)
(***************************************************************************)
EXTENDS Naturals

CONSTANTS
  Deliveries,       \* each with the handler that carries it out
  None,
  RequestTimeout,   \* of the HTTP client that calls Telegram
  ShutdownTimeout,
  CloseTime,        \* external: what closing the database takes at most
  Grace             \* external: terminationGracePeriodSeconds

ASSUME NoneAssumption == None \notin Deliveries
ASSUME TimeAssumption ==
  /\ RequestTimeout \in Nat /\ ShutdownTimeout \in Nat /\ CloseTime \in Nat /\ Grace \in Nat
  /\ RequestTimeout < ShutdownTimeout
  /\ ShutdownTimeout + CloseTime < Grace

VARIABLES
  phase,    \* serving, draining, closing, closed, exited
  stopAge,  \* ticks since the signal
  handler,  \* of each delivery: none, waiting, sending, recording, answered
  age,      \* ticks the handler has been sending, or recording
  gate,     \* who holds providerGate
  record,   \* the row of a delivery: none, sending, outcome, unknown
  failed,   \* deliveries whose outcome the store refused
  atStop    \* history: who held the gate when the signal came

vars == <<phase, stopAge, handler, age, gate, record, failed, atStop>>
handlers == <<handler, age, gate, record, failed>>
process == <<phase, stopAge, atStop>>

Running == {"serving", "draining", "closing", "closed"}
Alive == phase \in Running
Open == phase \in {"serving", "draining", "closing"}  \* the database

Init ==
  /\ phase = "serving" /\ stopAge = 0 /\ gate = None /\ atStop = None
  /\ handler = [d \in Deliveries |-> "none"]
  /\ age = [d \in Deliveries |-> 0]
  /\ record = [d \in Deliveries |-> "none"]
  /\ failed = {}

Becomes(d, step) ==
  handler' = [handler EXCEPT ![d] = step] /\ age' = [age EXCEPT ![d] = 0]

-----------------------------------------------------------------------------
(* A delivery.                                                             *)

\* Fault: the sending claim is made before the gate is entered.
ArriveClaimed(d) ==
  /\ phase = "serving" /\ handler[d] = "none" /\ record[d] = "none"
  /\ Becomes(d, "waiting") /\ record' = [record EXCEPT ![d] = "sending"]
  /\ UNCHANGED <<process, gate, failed>>

\* Orka posts it.  A recorded one is replayed, which takes no gate.
Arrive(d) ==
  /\ phase = "serving" /\ handler[d] = "none" /\ record[d] = "none"
  /\ Becomes(d, "waiting")
  /\ UNCHANGED <<process, gate, record, failed>>

\* Orka hangs up before the gate is entered; it may post it again.
Cancel(d) ==
  /\ Alive /\ handler[d] = "waiting"
  /\ Becomes(d, "none")
  /\ UNCHANGED <<process, gate, record, failed>>

\* Into the gate, and the claim; a closed database refuses it, and the
\* delivery is answered unsent.
Claim(d) ==
  /\ Alive /\ handler[d] = "waiting" /\ gate = None
  /\ IF Open
     THEN /\ Becomes(d, "sending")
          /\ gate' = d /\ record' = [record EXCEPT ![d] = "sending"]
     ELSE Becomes(d, "answered") /\ UNCHANGED <<gate, record>>
  /\ UNCHANGED <<process, failed>>

\* Telegram answers, the call fails, or its time is over.
SendEnds(d) ==
  /\ Alive /\ handler[d] = "sending"
  /\ Becomes(d, "recording")
  /\ UNCHANGED <<process, gate, record, failed>>

\* The outcome is stored, and the gate left.
Record(d) ==
  /\ Open /\ handler[d] = "recording"
  /\ handler' = [handler EXCEPT ![d] = "answered"]
  /\ gate' = None /\ record' = [record EXCEPT ![d] = "outcome"]
  /\ UNCHANGED <<process, age, failed>>

\* The store refuses it: an error, ten seconds of a busy disk, or closed.
RecordFails(d) ==
  /\ Alive /\ handler[d] = "recording"
  /\ handler' = [handler EXCEPT ![d] = "answered"]
  /\ gate' = None
  /\ failed' = IF Open THEN failed \cup {d} ELSE failed
  /\ UNCHANGED <<process, age, record>>

-----------------------------------------------------------------------------
(* The process.                                                            *)

\* Fault: what is deferred runs when the signal comes.
StopAtOnce ==
  /\ phase = "serving"
  /\ phase' = "closing" /\ stopAge' = 0 /\ atStop' = gate
  /\ UNCHANGED handlers

\* SIGTERM: no further request is accepted.
Stop ==
  /\ phase = "serving"
  /\ phase' = "draining" /\ stopAge' = 0 /\ atStop' = gate
  /\ UNCHANGED handlers

Idle == \A d \in Deliveries : handler[d] \in {"none", "answered"}

\* Fault: Shutdown without a deadline.
IdleOnly == Idle

\* Shutdown returns: nobody is being served, or the deadline has come.
ShutdownReturns == Idle \/ stopAge >= ShutdownTimeout

Drain ==
  /\ phase = "draining" /\ ShutdownReturns
  /\ phase' = "closing"
  /\ UNCHANGED <<stopAge, atStop, handlers>>

Close ==
  /\ phase = "closing"
  /\ phase' = "closed"
  /\ UNCHANGED <<stopAge, atStop, handlers>>

\* run has returned; the handlers that still run end with the process.
Exit ==
  /\ phase = "closed"
  /\ phase' = "exited"
  /\ UNCHANGED <<stopAge, atStop, handlers>>

\* The next process: recoverInterruptedDeliveries, and it serves.
Restart ==
  /\ phase = "exited"
  /\ phase' = "serving" /\ stopAge' = 0 /\ atStop' = None /\ gate' = None
  /\ handler' = [d \in Deliveries |-> "none"]
  /\ age' = [d \in Deliveries |-> 0]
  /\ record' = [d \in Deliveries |->
                  IF record[d] = "sending" THEN "unknown" ELSE record[d]]
  /\ failed' = {}

\* A tick: no timer that has come is still to fire, and once run has its
\* turn it goes on within the tick, but for closing the database.  A call has
\* its timeout; recording is given more than deliveryPersistenceContext gives.
Tick ==
  /\ Alive
  /\ \A d \in Deliveries : handler[d] = "sending" => age[d] < RequestTimeout
  /\ phase = "draining" => ~ShutdownReturns
  /\ phase = "closing" => stopAge < ShutdownTimeout + CloseTime
  /\ phase # "closed"
  /\ stopAge' = IF phase = "serving" THEN 0 ELSE stopAge + 1
  /\ age' = [d \in Deliveries |->
               IF handler[d] = "sending" THEN age[d] + 1
               ELSE IF handler[d] = "recording" /\ age[d] < ShutdownTimeout
               THEN age[d] + 1 ELSE age[d]]
  /\ UNCHANGED <<phase, atStop, handler, gate, record, failed>>

Handle(d) ==
  \/ Arrive(d) \/ Cancel(d) \/ Claim(d) \/ SendEnds(d) \/ Record(d) \/ RecordFails(d)

Next ==
  \/ \E d \in Deliveries : Handle(d)
  \/ Stop \/ Drain \/ Close \/ Exit \/ Restart \/ Tick

Spec == Init /\ [][Next]_vars

-----------------------------------------------------------------------------
(* Properties.                                                             *)

Interrupted == {d \in Deliveries : record[d] = "sending"} \ failed

\* A stop costs the outcome of one delivery at most, however many wait
\* ("A request waiting for this gate has no sending record, so a restart
\* cannot misclassify work that never reached Telegram as an ambiguous
\* outcome", server.go:348).
OneInterrupted == phase = "exited" => \A d, e \in Interrupted : d = e

\* A delivery that was being sent when the signal came is recorded before the
\* process ends, unless the store refused it or kept it waiting for longer
\* than the shutdown allows beside the call.
StopSpares ==
  phase = "exited" /\ atStop # None =>
    \/ record[atStop] = "outcome" \/ atStop \in failed
    \/ /\ handler[atStop] \in {"recording", "answered"}
       /\ age[atStop] >= ShutdownTimeout - RequestTimeout

\* However many deliveries wait and however long each may be sent, the process
\* has ended when its grace period is over, and Close has not been cut short.
EndsInGrace == Alive => stopAge < Grace

=============================================================================
