--------------------------- MODULE AtMostOnceDelivery ---------------------------
(***************************************************************************)
(* What outbound delivery promises to Orka, as if there were no store, no  *)
(* concurrency and no crash.  A logical delivery is tried until Telegram   *)
(* has it or its fate is decided, never while an earlier try may still     *)
(* become a message and never after the decision.  It is decided once, and *)
(* Orka is told nothing but decisions: "delivered" of a message that is in *)
(* the chat, "refused" of one that is not and never will be, "unknown" in  *)
(* all other cases.  Answers that it is too early to decide, and conflicts *)
(* of identity, are not promises and have no place here.                   *)
(***************************************************************************)
EXTENDS Naturals, TLAPS

CONSTANTS
  Keys,    \* logical deliveries
  Tries    \* the names tries get; 1 is one of an earlier adapter

VARIABLES
  flying,    \* per delivery, the tries that may yet become a message
  posted,    \* per delivery, its messages in the chat
  verdict,   \* per delivery, its decision: a set of at most one
  told       \* what Orka was told: [key, verdict]

vars == <<flying, posted, verdict, told>>

Delivered(n) == [kind |-> "delivered", msg |-> n]
Refused      == [kind |-> "refused", msg |-> 0]
Unknown      == [kind |-> "unknown", msg |-> 0]

\* The chat is, and will stay, without a message of k.
Free(k) == flying[k] = {} /\ posted[k] = {}

\* What may be decided of k.
Possible(k) == {Delivered(n) : n \in posted[k]} \cup {Unknown} \cup
               {v \in {Refused} : Free(k)}

\* An earlier adapter leaves deliveries tried at most once, decided or not.
Init ==
  /\ flying \in [Keys -> {{}, {1}}] /\ posted \in [Keys -> {{}, {1}}]
  /\ verdict \in [Keys -> {{}, {Refused}, {Unknown}, {Delivered(1)}}]
  /\ \A k \in Keys : /\ flying[k] = {} \/ posted[k] = {}
                     /\ verdict[k] \subseteq Possible(k)
  /\ told = {}

Try(k, n) ==
  /\ Free(k) /\ verdict[k] = {}
  /\ flying' = [flying EXCEPT ![k] = {n}]
  /\ UNCHANGED <<posted, verdict, told>>

Land(k, n) ==
  /\ flying[k] = {n}
  /\ flying' = [flying EXCEPT ![k] = {}]
  /\ posted' = [posted EXCEPT ![k] = {n}]
  /\ UNCHANGED <<verdict, told>>

\* The try is refused, or lost on its way.
Lose(k) ==
  /\ flying' = [flying EXCEPT ![k] = {}]
  /\ UNCHANGED <<posted, verdict, told>>

Decide(k, v) ==
  /\ verdict[k] = {} /\ v \in Possible(k)
  /\ verdict' = [verdict EXCEPT ![k] = {v}]
  /\ UNCHANGED <<flying, posted, told>>

\* Nobody can account for the deliveries in K any more.
GiveUp(K) ==
  /\ \A k \in K : verdict[k] = {}
  /\ verdict' = [k \in Keys |-> IF k \in K THEN {Unknown} ELSE verdict[k]]
  /\ UNCHANGED <<flying, posted, told>>

Tell(k, v) ==
  /\ verdict[k] = {v}
  /\ told' = told \cup {[key |-> k, verdict |-> v]}
  /\ UNCHANGED <<flying, posted, verdict>>

Step(k) ==
  \/ \E n \in Tries : Try(k, n)
  \/ \E n \in flying[k] : Land(k, n)
  \/ Lose(k)
  \/ \E v \in Possible(k) : Decide(k, v)
  \/ \E v \in verdict[k] : Tell(k, v)

Next == (\E k \in Keys : Step(k)) \/ (\E K \in SUBSET Keys : GiveUp(K))

Spec == Init /\ [][Next]_vars

-----------------------------------------------------------------------------
(* What Orka may rely on.                                                  *)

\* A delivery is, and will be, at most one message.
OneMessage == \A k \in Keys : \A m, n \in flying[k] \cup posted[k] : m = n

\* Orka is told one thing of a delivery, however often it asks.
ToldOnce == \A a, b \in told : a.key = b.key => a.verdict = b.verdict

\* What Orka was told is so, and stays so.
ToldTrue ==
  \A a \in told :
    /\ a.verdict.kind = "delivered" => posted[a.key] = {a.verdict.msg}
    /\ a.verdict.kind = "refused" => Free(a.key)

Promise == OneMessage /\ ToldOnce /\ ToldTrue

-----------------------------------------------------------------------------
(* Nothing flies of what is posted, a decision is true, and what was told  *)
(* is the decision.                                                        *)

Names == Tries \cup {1}

TypeOK ==
  /\ flying \in [Keys -> SUBSET Names] /\ posted \in [Keys -> SUBSET Names]
  /\ verdict \in [Keys -> SUBSET ({Refused, Unknown} \cup {Delivered(n) : n \in Names})]

Sound(k) ==
  /\ \A m, n \in flying[k] \cup posted[k] : m = n
  /\ flying[k] = {} \/ posted[k] = {}
  /\ \A v, w \in verdict[k] : v = w
  /\ Refused \in verdict[k] => Free(k)
  /\ \A n \in Names : Delivered(n) \in verdict[k] => posted[k] = {n}

Inv ==
  /\ TypeOK
  /\ \A k \in Keys : Sound(k)
  /\ \A a \in told : \E k \in Keys : \E v \in verdict[k] : a = [key |-> k, verdict |-> v]

LEMMA KindsDiffer ==
  /\ Refused # Unknown
  /\ \A n : Delivered(n) # Refused /\ Delivered(n) # Unknown
  /\ \A m, n : Delivered(m) = Delivered(n) => m = n
BY DEF Refused, Unknown, Delivered

LEMMA InitSound == Init => Inv
<1> SUFFICES ASSUME Init PROVE Inv
  OBVIOUS
<1>1. TypeOK
  BY DEF Init, TypeOK, Names
<1>2. ASSUME NEW k \in Keys PROVE Sound(k)
  <2>1. /\ flying[k] \in {{}, {1}} /\ posted[k] \in {{}, {1}}
        /\ verdict[k] \in {{}, {Refused}, {Unknown}, {Delivered(1)}}
        /\ flying[k] = {} \/ posted[k] = {}
        /\ verdict[k] \subseteq Possible(k)
    BY DEF Init
  <2>2. Refused \in Possible(k) => Free(k)
    BY KindsDiffer DEF Possible
  <2>3. \A n : Delivered(n) \in Possible(k) => n \in posted[k]
    BY KindsDiffer DEF Possible
  <2> QED BY <2>1, <2>2, <2>3 DEF Sound
<1> QED BY <1>1, <1>2 DEF Init, Inv

LEMMA StepSound == Inv /\ [Next]_vars => Inv'
<1> SUFFICES ASSUME Inv, [Next]_vars PROVE Inv'
  OBVIOUS
<1>1. TypeOK /\ \A k \in Keys : Sound(k)
  BY DEF Inv
<1>2. ASSUME NEW k \in Keys, flying' = [flying EXCEPT ![k] = {}],
             UNCHANGED <<posted, verdict, told>>
      PROVE  Inv'
  <2>1. TypeOK'
    BY <1>1, <1>2 DEF TypeOK
  <2>2. ASSUME NEW j \in Keys PROVE Sound(j)'
    <3>1. flying'[j] \in {{}, flying[j]}
      BY <1>1, <1>2 DEF TypeOK
    <3> QED BY <1>1, <1>2, <3>1 DEF Sound, Free
  <2> QED BY <1>2, <2>1, <2>2 DEF Inv
<1>3. ASSUME NEW k \in Keys, NEW n \in Tries, Try(k, n) PROVE Inv'
  <2>1. TypeOK'
    BY <1>1, <1>3 DEF TypeOK, Try, Names
  <2>2. ASSUME NEW j \in Keys PROVE Sound(j)'
    <3>1. CASE j = k
      <4>1. flying'[j] = {n} /\ posted'[j] = {} /\ verdict'[j] = {}
        BY <1>1, <1>3, <3>1 DEF TypeOK, Try, Free
      <4> QED BY <4>1 DEF Sound
    <3>2. CASE j # k
      <4>1. flying'[j] = flying[j] /\ posted' = posted /\ verdict' = verdict
        BY <1>1, <1>3, <3>2 DEF TypeOK, Try
      <4> QED BY <1>1, <4>1 DEF Sound, Free
    <3> QED BY <3>1, <3>2
  <2> QED BY <1>3, <2>1, <2>2 DEF Inv, Try
<1>4. ASSUME NEW k \in Keys, NEW n \in flying[k], Land(k, n) PROVE Inv'
  <2>1. n \in Names /\ TypeOK'
    BY <1>1, <1>4 DEF TypeOK, Land
  <2>2. ASSUME NEW j \in Keys PROVE Sound(j)'
    <3>1. CASE j = k
      <4>1. /\ flying'[j] = {} /\ posted'[j] = {n} /\ verdict' = verdict
            /\ flying[j] = {n}
        BY <1>1, <1>4, <3>1 DEF TypeOK, Land
      <4>2. posted[j] = {}
        BY <1>1, <4>1 DEF Sound
      <4>3. Refused \notin verdict[j] /\ \A m \in Names : Delivered(m) \notin verdict[j]
        BY <1>1, <4>1, <4>2 DEF Sound, Free
      <4> QED BY <1>1, <4>1, <4>3 DEF Sound
    <3>2. CASE j # k
      <4>1. flying'[j] = flying[j] /\ posted'[j] = posted[j] /\ verdict' = verdict
        BY <1>1, <1>4, <3>2 DEF TypeOK, Land
      <4> QED BY <1>1, <4>1 DEF Sound, Free
    <3> QED BY <3>1, <3>2
  <2> QED BY <1>4, <2>1, <2>2 DEF Inv, Land
<1>5. ASSUME NEW k \in Keys, NEW v \in Possible(k), Decide(k, v) PROVE Inv'
  <2>1. verdict[k] = {} /\ \/ v = Unknown
                           \/ v = Refused /\ Free(k)
                           \/ \E n \in posted[k] : v = Delivered(n)
    BY <1>5 DEF Decide, Possible
  <2>2. posted[k] \subseteq Names
    BY <1>1 DEF TypeOK
  <2>3. TypeOK'
    BY <1>1, <1>5, <2>1, <2>2 DEF TypeOK, Decide
  <2>4. ASSUME NEW j \in Keys PROVE Sound(j)'
    <3>1. CASE j = k
      <4>1. flying' = flying /\ posted' = posted /\ verdict'[j] = {v}
        BY <1>1, <1>5, <3>1 DEF TypeOK, Decide
      <4>2. v = Refused => Free(j)
        BY <2>1, <3>1, KindsDiffer
      <4>3. \A n \in Names : v = Delivered(n) => posted[j] = {n}
        <5>1. \A n \in Names : v = Delivered(n) => n \in posted[j]
          BY <2>1, <3>1, KindsDiffer
        <5> QED BY <1>1, <5>1 DEF Sound
      <4> QED BY <1>1, <4>1, <4>2, <4>3 DEF Sound, Free
    <3>2. CASE j # k
      <4>1. flying' = flying /\ posted' = posted /\ verdict'[j] = verdict[j]
        BY <1>1, <1>5, <3>2 DEF TypeOK, Decide
      <4> QED BY <1>1, <4>1 DEF Sound, Free
    <3> QED BY <3>1, <3>2
  <2>5. \A j \in Keys : verdict[j] \subseteq verdict'[j]
    BY <1>1, <1>5, <2>1 DEF TypeOK, Decide
  <2>6. told' = told
    BY <1>5 DEF Decide
  <2> QED BY <2>3, <2>4, <2>5, <2>6 DEF Inv
<1>6. ASSUME NEW K \in SUBSET Keys, GiveUp(K) PROVE Inv'
  <2>1. \A j \in Keys : verdict'[j] = IF j \in K THEN {Unknown} ELSE verdict[j]
    BY <1>6 DEF GiveUp
  <2>2. TypeOK'
    BY <1>1, <1>6 DEF TypeOK, GiveUp
  <2>3. ASSUME NEW j \in Keys PROVE Sound(j)'
    <3>1. flying' = flying /\ posted' = posted /\ verdict'[j] \in {{Unknown}, verdict[j]}
      BY <1>6, <2>1 DEF GiveUp
    <3> QED BY <1>1, <3>1, KindsDiffer DEF Sound, Free
  <2>4. \A j \in Keys : verdict[j] \subseteq verdict'[j]
    BY <1>6, <2>1 DEF GiveUp
  <2>5. told' = told
    BY <1>6 DEF GiveUp
  <2> QED BY <2>2, <2>3, <2>4, <2>5 DEF Inv
<1>7. ASSUME NEW k \in Keys, NEW v \in verdict[k], Tell(k, v) PROVE Inv'
  <2>1. flying' = flying /\ posted' = posted /\ verdict' = verdict
        /\ told' = told \cup {[key |-> k, verdict |-> v]}
    BY <1>7 DEF Tell
  <2>2. TypeOK' /\ \A j \in Keys : Sound(j)'
    BY <1>1, <2>1 DEF TypeOK, Sound, Free
  <2> QED BY <1>7, <2>1, <2>2 DEF Inv
<1>8. CASE UNCHANGED vars
  BY <1>8 DEF vars, Inv, TypeOK, Sound, Free
<1> QED BY <1>2, <1>3, <1>4, <1>5, <1>6, <1>7, <1>8 DEF Next, Step, Lose

LEMMA SoundKeeps == Inv => Promise
<1> SUFFICES ASSUME Inv PROVE Promise
  OBVIOUS
<1>1. OneMessage
  BY DEF Inv, Sound, OneMessage
<1>2. ASSUME NEW a \in told
      PROVE  \E k \in Keys : a.key = k /\ a.verdict \in verdict[k]
  BY DEF Inv
<1>3. ToldOnce
  BY <1>2 DEF Inv, Sound, ToldOnce
<1>4. ASSUME NEW a \in told
      PROVE  /\ a.verdict.kind = "delivered" => posted[a.key] = {a.verdict.msg}
             /\ a.verdict.kind = "refused" => Free(a.key)
  <2>1. PICK k \in Keys : a.key = k /\ a.verdict \in verdict[k]
    BY <1>2
  <2>2. a.verdict \in {Refused, Unknown} \cup {Delivered(n) : n \in Names}
    BY <2>1 DEF Inv, TypeOK
  <2>3. Sound(k)
    BY DEF Inv
  <2>4. CASE a.verdict = Refused
    BY <2>1, <2>3, <2>4 DEF Sound, Refused
  <2>5. CASE a.verdict = Unknown
    BY <2>5 DEF Unknown
  <2>6. ASSUME NEW n \in Names, a.verdict = Delivered(n)
        PROVE  posted[a.key] = {a.verdict.msg} /\ a.verdict.kind # "refused"
    <3>1. posted[k] = {n}
      BY <2>1, <2>3, <2>6 DEF Sound
    <3> QED BY <2>1, <2>6, <3>1 DEF Delivered
  <2> QED BY <2>2, <2>4, <2>5, <2>6
<1> QED BY <1>1, <1>3, <1>4 DEF Promise, ToldTrue

\* Trying only what is free and undecided, and telling only decisions, keeps
\* the promise for ever, late messages and late questions included.
THEOREM PromiseKept == Spec => []Promise
BY InitSound, StepSound, SoundKeeps, PTL DEF Spec
================================================================================
