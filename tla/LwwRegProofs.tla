---------------------------- MODULE LwwRegProofs ----------------------------
(***************************************************************************)
(* Theorems about the LwwReg and its replication, for every set of nodes   *)
(* and values and every bound.                                             *)
(***************************************************************************)
EXTENDS LwwRegSync, TLAPS

\* The value-and-time pairs an object or a message carries.
Held(r) == [value |-> r.value, ts |-> r.ts]
Pending(r) == [value |-> r.delta_value, ts |-> r.delta_ts]
Nothing == [value |-> None, ts |-> 0]

\* What may be held at time 0.
Unwritten == [value : Starts \cup {None}, ts : {0}]

LEMMA NothingIsUnwritten == Nothing \in Unwritten
BY DEF Nothing, Unwritten

\* A new register holds what it is made with.
LEMMA NewRegFields ==
  ASSUME NEW n \in Node, NEW v \in Starts
  PROVE  /\ NewReg(n, v) \in LwwRegType
         /\ Held(NewReg(n, v)) \in Unwritten /\ Pending(NewReg(n, v)) = Nothing
BY DEF NewReg, LwwRegType, Content, Held, Pending, Nothing, Unwritten

\* set stores the write, or nothing changes.
LEMMA SetRegFields ==
  ASSUME NEW r \in LwwRegType, NEW v \in Value, NEW t \in Nat
  PROVE  /\ SetReg(r, v, t) \in LwwRegType
         /\ Accepts(r, t) => /\ Held(SetReg(r, v, t)) = [value |-> v, ts |-> t]
                             /\ Pending(SetReg(r, v, t)) = [value |-> v, ts |-> t]
                             /\ t >= r.ts
         /\ ~Accepts(r, t) => SetReg(r, v, t) = r
<1>1. r.node_id \in Node /\ v \in Content
  BY DEF LwwRegType, Content
<1>2. CASE Accepts(r, t)
  <2>1. SetReg(r, v, t) = [r EXCEPT !.value = v, !.ts = t, !.delta_value = v,
                                    !.delta_ts = t, !.delta_node = r.node_id]
    BY <1>2 DEF SetReg
  <2>2. t >= r.ts
    BY <1>2 DEF Accepts, Later, LwwRegType
  <2>3. QED
    BY <1>1, <1>2, <2>1, <2>2 DEF LwwRegType, Held, Pending
<1>3. CASE ~Accepts(r, t)
  BY <1>3 DEF SetReg
<1>4. QED
  BY <1>2, <1>3

\* merge keeps one of the two writes, never an older one than self's.
LEMMA MergeRegFields ==
  ASSUME NEW r \in LwwRegType, NEW msg \in Message
  PROVE  /\ MergeReg(r, msg) \in LwwRegType
         /\ Held(MergeReg(r, msg)) \in {Held(r), Held(msg)}
         /\ Pending(MergeReg(r, msg)) = Nothing
         /\ MergeReg(r, msg).ts >= r.ts
<1> DEFINE base == [r EXCEPT !.delta_node = r.node_id, !.delta_value = None, !.delta_ts = 0]
           wins == Later(msg.ts, msg.node_id, r.ts, r.node_id)
<1>1. msg.node_id \in Node /\ msg.value \in Content /\ msg.ts \in Nat /\ r.ts \in Nat
  BY DEF Message, LwwRegType
<1>2. /\ base \in LwwRegType /\ Held(base) = Held(r)
      /\ Pending(base) = Nothing /\ base.ts = r.ts
  BY DEF LwwRegType, Content, Held, Pending, Nothing
<1>3. CASE wins
  <2>1. MergeReg(r, msg)
          = [base EXCEPT !.value = msg.value, !.ts = msg.ts, !.node_id = msg.node_id]
    BY <1>3 DEF MergeReg
  <2>2. msg.ts >= r.ts
    BY <1>1, <1>3 DEF Later
  <2> HIDE DEF base
  <2>3. QED
    BY <1>1, <1>2, <2>1, <2>2 DEF LwwRegType, Held, Pending, Nothing
<1>4. CASE ~wins
  <2>1. MergeReg(r, msg) = base
    BY <1>4 DEF MergeReg
  <2> HIDE DEF base
  <2>2. QED
    BY <1>1, <1>2, <2>1
<1>5. QED
  BY <1>3, <1>4

\* So does apply_delta, which leaves the pending delta alone.
LEMMA ApplyRegDeltaFields ==
  ASSUME NEW r \in LwwRegType, NEW msg \in Message
  PROVE  /\ ApplyRegDelta(r, msg) \in LwwRegType
         /\ Held(ApplyRegDelta(r, msg)) \in {Held(r), Held(msg)}
         /\ Pending(ApplyRegDelta(r, msg)) = Pending(r)
         /\ ApplyRegDelta(r, msg).ts >= r.ts
<1> DEFINE wins == Later(msg.ts, msg.node_id, r.ts, r.node_id)
<1>1. msg.node_id \in Node /\ msg.value \in Content /\ msg.ts \in Nat /\ r.ts \in Nat
  BY DEF Message, LwwRegType
<1>2. CASE wins
  <2>1. ApplyRegDelta(r, msg)
          = [r EXCEPT !.value = msg.value, !.ts = msg.ts, !.node_id = msg.node_id]
    BY <1>2 DEF ApplyRegDelta
  <2>2. msg.ts >= r.ts
    BY <1>1, <1>2 DEF Later
  <2>3. QED
    BY <1>1, <2>1, <2>2 DEF LwwRegType, Held, Pending
<1>3. CASE ~wins
  BY <1>1, <1>3 DEF ApplyRegDelta
<1>4. QED
  BY <1>2, <1>3

\* What a register sends is what it holds, or what is pending.
LEMMA SentFields ==
  ASSUME NEW r \in LwwRegType
  PROVE  /\ StateOf(r) \in Message /\ Held(StateOf(r)) = Held(r)
         /\ RegDeltaOf(r) \in Message /\ Held(RegDeltaOf(r)) = Pending(r)
         /\ ResetRegDelta(r) \in LwwRegType
         /\ Held(ResetRegDelta(r)) = Held(r) /\ Pending(ResetRegDelta(r)) = Nothing
         /\ ResetRegDelta(r).ts = r.ts
BY DEF StateOf, RegDeltaOf, ResetRegDelta, LwwRegType, Message, Content,
       Held, Pending, Nothing
-----------------------------------------------------------------------------
\* Every operation keeps the registers, the history and the channel well typed.
THEOREM TypeCorrect == Spec => []TypeOK
<1>1. Init => TypeOK
  BY NewRegFields DEF Init, TypeOK
<1>2. TypeOK /\ [Next]_vars => TypeOK'
  <2> SUFFICES ASSUME TypeOK, [Next]_vars PROVE TypeOK'
    OBVIOUS
  <2> USE DEF TypeOK
  <2>1. ASSUME NEW n \in Node, NEW v \in Value, NEW t \in 1..MaxTime, Write(n, v, t)
        PROVE  TypeOK'
    <3>1. t \in Nat
      BY SyncAssumption
    <3>2. SetReg(reg[n], v, t) \in LwwRegType
      BY <3>1, SetRegFields
    <3>3. QED
      BY <2>1, <3>1, <3>2 DEF Write
  <2>2. ASSUME NEW n \in Node, SendState(n) PROVE TypeOK'
    BY <2>2, SentFields DEF SendState
  <2>3. ASSUME NEW n \in Node, SendDelta(n) PROVE TypeOK'
    BY <2>3, SentFields DEF SendDelta
  <2>4. ASSUME NEW n \in Node, Restart(n) PROVE TypeOK'
    BY <2>4, NewRegFields DEF Restart
  <2>5. ASSUME NEW n \in Node, NEW msg \in channel, ReceiveState(n, msg)
        PROVE  TypeOK'
    BY <2>5, MergeRegFields DEF ReceiveState
  <2>6. ASSUME NEW n \in Node, NEW msg \in channel, ReceiveDelta(n, msg)
        PROVE  TypeOK'
    BY <2>6, ApplyRegDeltaFields DEF ReceiveDelta
  <2>7. CASE UNCHANGED vars
    BY <2>7 DEF vars
  <2>8. QED
    BY <2>1, <2>2, <2>3, <2>4, <2>5, <2>6, <2>7 DEF Next
<1>3. QED
  BY <1>1, <1>2, PTL DEF Spec
-----------------------------------------------------------------------------
\* Agreement is not inductive: it says nothing of where values come from.  It
\* follows from the history, in which distinct times tell all writes apart.
WritesTellApart ==
  /\ \A w \in written : w.ts > 0
  /\ DistinctTimes => \A w, x \in written : w.ts = x.ts => w.value = x.value

SafetyInv == CopiesAreWrites /\ WritesTellApart

\* The copies, in terms of the pairs the lemmas are about.
LEMMA CopiesAre ==
  Copies = {Held(reg[n]) : n \in Node} \cup {Pending(reg[n]) : n \in Node}
             \cup {Held(msg) : msg \in channel}
BY DEF Copies, Held, Pending

\* A step brings no copy into the world but one of time 0, an old copy or the write
\* it accepts.
LEMMA SafetyStep ==
  ASSUME TypeOK, SafetyInv, [Next]_vars PROVE SafetyInv'
<1> USE DEF TypeOK
<1>1. ASSUME written \subseteq written',
             \A n \in Node : /\ Held(reg'[n]) \in Copies \cup written' \cup Unwritten
                             /\ Pending(reg'[n]) \in Copies \cup written' \cup Unwritten,
             \A msg \in channel' : Held(msg) \in Copies
      PROVE  CopiesAreWrites'
  <2>1. Copies' \subseteq Copies \cup written' \cup Unwritten
    BY <1>1 DEF Copies, Held, Pending
  <2>2. QED
    BY <1>1, <2>1 DEF SafetyInv, CopiesAreWrites, Unwritten
<1>2. \A n \in Node : Held(reg[n]) \in Copies /\ Pending(reg[n]) \in Copies
  BY CopiesAre
<1>3. \A msg \in channel : Held(msg) \in Copies
  BY CopiesAre
<1>4. ASSUME UNCHANGED written PROVE WritesTellApart'
  BY <1>4 DEF SafetyInv, WritesTellApart
<1>5. ASSUME NEW n \in Node, NEW v \in Value, NEW t \in 1..MaxTime, Write(n, v, t)
      PROVE  SafetyInv'
  <2>1. t \in Nat /\ t > 0
    BY SyncAssumption
  <2>2. /\ \A o \in Node \ {n} : reg'[o] = reg[o]
        /\ reg'[n] = SetReg(reg[n], v, t)
        /\ channel' = channel
    BY <1>5 DEF Write
  <2>3. CASE Accepts(reg[n], t)
    <3>1. written' = written \cup {[value |-> v, ts |-> t]}
      BY <1>5, <2>3 DEF Write
    <3>2. Held(reg'[n]) \in written' /\ Pending(reg'[n]) \in written'
      BY <2>1, <2>2, <2>3, <3>1, SetRegFields
    <3>3. CopiesAreWrites'
      BY <1>1, <1>2, <1>3, <2>2, <3>1, <3>2
    <3>4. WritesTellApart'
      BY <1>5, <2>1, <3>1 DEF Write, SafetyInv, WritesTellApart
    <3>5. QED
      BY <3>3, <3>4 DEF SafetyInv
  <2>4. CASE ~Accepts(reg[n], t)
    <3>1. written' = written /\ reg'[n] = reg[n]
      BY <1>5, <2>1, <2>2, <2>4, SetRegFields DEF Write
    <3>2. CopiesAreWrites'
      BY <1>1, <1>2, <1>3, <2>2, <3>1
    <3>3. QED
      BY <1>4, <3>1, <3>2 DEF SafetyInv
  <2>5. QED
    BY <2>3, <2>4
<1>6. ASSUME NEW n \in Node, SendState(n) PROVE SafetyInv'
  <2>1. \A msg \in channel' : Held(msg) \in Copies
    BY <1>2, <1>3, <1>6, SentFields DEF SendState
  <2>2. QED
    BY <1>1, <1>2, <1>4, <1>6, <2>1 DEF SendState, SafetyInv
<1>7. ASSUME NEW n \in Node, SendDelta(n) PROVE SafetyInv'
  <2>1. \A msg \in channel' : Held(msg) \in Copies
    BY <1>2, <1>3, <1>7, SentFields DEF SendDelta
  <2>2. \A o \in Node : /\ Held(reg'[o]) = Held(reg[o])
                        /\ Pending(reg'[o]) \in {Pending(reg[o]), Nothing}
    BY <1>7, SentFields DEF SendDelta
  <2>3. QED
    BY <1>1, <1>2, <1>4, <1>7, <2>1, <2>2, NothingIsUnwritten DEF SendDelta, SafetyInv
<1>8. ASSUME NEW n \in Node, Restart(n) PROVE SafetyInv'
  <2>1. \A o \in Node : /\ Held(reg'[o]) = Held(reg[o]) \/ Held(reg'[o]) \in Unwritten
                        /\ Pending(reg'[o]) \in {Pending(reg[o]), Nothing}
    BY <1>8, NewRegFields DEF Restart
  <2>2. QED
    BY <1>1, <1>2, <1>3, <1>4, <1>8, <2>1, NothingIsUnwritten DEF Restart, SafetyInv
<1>9. ASSUME NEW n \in Node, NEW msg \in channel, ReceiveState(n, msg) \/ ReceiveDelta(n, msg)
      PROVE  SafetyInv'
  <2>1. \A o \in Node : /\ Held(reg'[o]) \in {Held(reg[o]), Held(msg)}
                        /\ Pending(reg'[o]) \in {Pending(reg[o]), Nothing}
    BY <1>9, MergeRegFields, ApplyRegDeltaFields DEF ReceiveState, ReceiveDelta
  <2>2. UNCHANGED <<written, channel>>
    BY <1>9 DEF ReceiveState, ReceiveDelta
  <2>3. QED
    BY <1>1, <1>2, <1>3, <1>4, <2>1, <2>2, NothingIsUnwritten DEF SafetyInv
<1>10. CASE UNCHANGED vars
  BY <1>1, <1>2, <1>3, <1>4, <1>10 DEF vars, SafetyInv
<1>11. QED
  BY <1>5, <1>6, <1>7, <1>8, <1>9, <1>10 DEF Next

\* Before the first step nothing is written.
LEMMA InitSafe == Init => SafetyInv
<1>1. ASSUME Init PROVE Copies \subseteq Unwritten
  <2>1. \A n \in Node : Held(reg[n]) \in Unwritten /\ Pending(reg[n]) = Nothing
    BY <1>1, NewRegFields DEF Init
  <2>2. channel = {}
    BY <1>1 DEF Init
  <2>3. QED
    BY <2>1, <2>2, CopiesAre, NothingIsUnwritten
<1>2. QED
  BY <1>1 DEF Init, SafetyInv, CopiesAreWrites, WritesTellApart, Unwritten

\* The strengthened invariant holds throughout.
LEMMA SafetyInvariant == Spec => []SafetyInv
<1>1. TypeOK /\ SafetyInv /\ [Next]_vars => SafetyInv'
  BY SafetyStep
<1>2. QED
  BY <1>1, InitSafe, TypeCorrect, PTL DEF Spec

\* Whatever is lost, repeated, reordered or forgotten, every copy is a write
\* that was made or of time 0, and with distinct times equal timestamps of writes
\* mean equal values.
THEOREM RegisterAgreement == Spec => []TimesGoWithValues
<1>1. SafetyInv => TimesGoWithValues
  <2> SUFFICES ASSUME SafetyInv, DistinctTimes,
                      NEW c \in Copies, NEW d \in Copies, c.ts = d.ts, c.ts > 0
               PROVE  c.value = d.value
    BY DEF SafetyInv, Agreement, TimesGoWithValues
  <2>1. c \in written /\ d \in written
    BY DEF SafetyInv, CopiesAreWrites
  <2>2. QED
    BY <2>1 DEF SafetyInv, WritesTellApart
<1>2. QED
  BY <1>1, SafetyInvariant, PTL
-----------------------------------------------------------------------------
\* What ValueMovesForward asks of a step that is no restart.
Forward(n) ==
  reg'[n].value = reg[n].value \/ reg'[n].ts > reg[n].ts \/ (reg'[n].ts = 0 /\ reg[n].ts = 0)

\* The restart counter never goes back.
LEMMA RestartsGrow == ASSUME TypeOK, [Next]_vars PROVE restarts' = restarts \/ restarts' > restarts
BY DEF Next, Write, SendState, SendDelta, Restart, ReceiveState, ReceiveDelta, vars, TypeOK

\* With distinct times a replica that shows a write changes its value only for a later
\* one: a stale or repeated message never brings an old value back.
THEOREM RegisterMovesForward == Spec => ValueMovesForward
<1>1. TypeOK /\ SafetyInv /\ Agreement /\ [Next]_vars => [StepForward]_vars
  <2> SUFFICES ASSUME TypeOK, SafetyInv, Agreement, [Next]_vars, DistinctTimes,
                      NEW n \in Node, restarts' = restarts
               PROVE  Forward(n)
    BY RestartsGrow DEF StepForward, Forward
  <2>1. reg[n] \in LwwRegType /\ reg[n].ts \in Nat
    BY DEF TypeOK, LwwRegType
  <2>2. ASSUME NEW o \in Node, NEW v \in Value, NEW t \in 1..MaxTime, Write(o, v, t)
        PROVE  Forward(n)
    <3>1. t \in Nat /\ t > 0
      BY SyncAssumption
    <3>2. CASE o = n /\ Accepts(reg[n], t)
      <4>1. reg'[n].ts = t /\ t >= reg[n].ts
        <5>1. reg'[n] = SetReg(reg[n], v, t)
          BY <2>2, <3>2 DEF Write, TypeOK
        <5>2. /\ Held(SetReg(reg[n], v, t)) = [value |-> v, ts |-> t]
              /\ t >= reg[n].ts
          BY <2>1, <3>1, <3>2, SetRegFields
        <5>3. QED
          BY <5>1, <5>2 DEF Held
      <4>2. Held(reg[n]) \in written \/ Held(reg[n]).ts = 0
        BY CopiesAre DEF SafetyInv, CopiesAreWrites
      <4>3. reg[n].ts # t
        BY <2>2, <3>1, <4>2 DEF Write, Held
      <4>4. QED
        BY <2>1, <3>1, <4>1, <4>3 DEF Forward
    <3>3. CASE ~(o = n /\ Accepts(reg[n], t))
      BY <2>2, <3>3 DEF Write, SetReg, TypeOK, Forward
    <3>4. QED
      BY <3>2, <3>3
  <2>3. ASSUME NEW o \in Node, SendState(o) \/ SendDelta(o)
        PROVE  Forward(n)
    BY <2>1, <2>3, SentFields DEF SendState, SendDelta, TypeOK, Held, Forward
  <2>4. ASSUME NEW o \in Node, NEW msg \in channel, ReceiveState(o, msg) \/ ReceiveDelta(o, msg)
        PROVE  Forward(n)
    <3>1. msg \in Message
      BY DEF TypeOK
    <3>2. reg'[n] \in {reg[n], MergeReg(reg[n], msg), ApplyRegDelta(reg[n], msg)}
      BY <2>4 DEF ReceiveState, ReceiveDelta, TypeOK
    <3>3. /\ Held(reg'[n]) \in {Held(reg[n]), Held(msg)}
          /\ reg'[n].ts >= reg[n].ts /\ reg'[n].ts \in Nat
      BY <2>1, <3>1, <3>2, MergeRegFields, ApplyRegDeltaFields DEF LwwRegType
    <3>4. Held(reg[n]) \in Copies /\ Held(msg) \in Copies
      BY CopiesAre
    <3>5. msg.ts = reg[n].ts /\ msg.ts > 0 => msg.value = reg[n].value
      BY <3>4 DEF Agreement, Held
    <3>6. QED
      BY <2>1, <3>3, <3>5 DEF Held, Forward
  <2>5. CASE UNCHANGED vars
    BY <2>5 DEF vars, Forward
  <2>6. ASSUME NEW o \in Node, Restart(o) PROVE FALSE
    BY <2>6 DEF Restart, TypeOK
  <2>7. QED
    BY <2>2, <2>3, <2>4, <2>5, <2>6 DEF Next
<1>2. QED
  BY <1>1, SafetyInvariant, TypeCorrect, RegisterAgreement, PTL
     DEF Spec, ValueMovesForward, TimesGoWithValues
=============================================================================
