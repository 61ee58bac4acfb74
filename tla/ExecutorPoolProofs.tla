------------------------- MODULE ExecutorPoolProofs -------------------------
(***************************************************************************)
(* ExecutorPool never overfills a slot, and no other lease takes the token  *)
(* of the owning one away, for every pool, set of runs and number of leases *)
(* and faults.                                                             *)
(*                                                                         *)
(* The capacity is inductive by itself once every step is known to thin a   *)
(* slot out or to add to it what was found to fit (TokensStep,              *)
(* RegistryStep).  That a revocation misses the live token needs Authority: *)
(* only finished runs are swept, only granted leases sweep, so what is      *)
(* older than them is not the newest, and a call that has found its lease   *)
(* lost stays right, because leases only grow and a finished run stays so.  *)
(***************************************************************************)
EXTENDS ExecutorPool, FiniteSetTheorems, TLAPS

\* The parts of a token.
LEMMA TokenParts ==
    ASSUME NEW t \in Token
    PROVE  t[1] \in Runs /\ t[2] \in 1..MaxLease /\ t[2] \in Nat
  BY BoundsAssumption DEF Token

\* There are finitely many tokens.
LEMMA FiniteTokens == IsFiniteSet(Token)
  <1>1. IsFiniteSet(1..MaxLease)
    BY BoundsAssumption, FS_Interval
  <1> QED BY <1>1, PoolAssumption, FS_Product DEF Token

\* A changed request is a request.
LEMMA DispatchUpdate ==
    ASSUME NEW d \in Dispatch
    PROVE  /\ \A pc \in DispatchPc : [d EXCEPT !.pc = pc] \in Dispatch
           /\ \A todo \in SUBSET Slots : [d EXCEPT !.todo = todo] \in Dispatch
           /\ \A pc \in DispatchPc, todo \in SUBSET Slots :
                [d EXCEPT !.pc = pc, !.todo = todo] \in Dispatch
           /\ \A todo \in SUBSET Slots, load \in [Slots -> Nat] :
                [d EXCEPT !.todo = todo, !.load = load] \in Dispatch
           /\ \A pc \in DispatchPc, slot \in Slots, load \in [Slots -> Nat] :
                [d EXCEPT !.pc = pc, !.slot = slot, !.load = load] \in Dispatch
  <1> DEFINE L == [Slots -> Nat]
  <1>1. Dispatch = [pc : DispatchPc, todo : SUBSET Slots, load : L,
                    slot : Slots \cup {None}]
    BY DEF Dispatch
  <1> HIDE DEF L
  <1>2. \A pc \in DispatchPc : [d EXCEPT !.pc = pc] \in Dispatch  BY <1>1
  <1>3. \A todo \in SUBSET Slots : [d EXCEPT !.todo = todo] \in Dispatch  BY <1>1
  <1>4. \A pc \in DispatchPc, todo \in SUBSET Slots :
          [d EXCEPT !.pc = pc, !.todo = todo] \in Dispatch
    BY <1>1
  <1>5. \A todo \in SUBSET Slots, load \in L :
          [d EXCEPT !.todo = todo, !.load = load] \in Dispatch
    BY <1>1
  <1>6. \A pc \in DispatchPc, slot \in Slots, load \in L :
          [d EXCEPT !.pc = pc, !.slot = slot, !.load = load] \in Dispatch
    BY <1>1
  <1> QED BY <1>2, <1>3, <1>4, <1>5, <1>6, Zenon DEF L

\* The actions of the row keep the types.
LEMMA TypeRun ==
    ASSUME TypeOK, RunNext PROVE TypeOK'
  <1> USE BoundsAssumption
  <1> PICK r \in Runs : Claim(r) \/ Release(r) \/ Cancel(r) \/ FailRun(r)
    BY DEF RunNext
  <1>1. CASE Claim(r)
    <2>1. lease[r] + 1 \in 1..MaxLease /\ <<r, lease[r] + 1>> \in Token
      BY <1>1 DEF Claim, TypeOK, Token
    <2>2. dispatch' \in [Token -> Dispatch]
      <3> DEFINE u == <<r, lease[r] + 1>>
      <3>1. u \in Token /\ dispatch' = [dispatch EXCEPT ![u].pc = "check"]
        BY <2>1, <1>1 DEF Claim
      <3>2. dispatch \in [Token -> Dispatch] /\ dispatch[u] \in Dispatch
        BY <3>1 DEF TypeOK
      <3> HIDE DEF u
      <3>3. [dispatch[u] EXCEPT !.pc = "check"] \in Dispatch
        BY <3>2, DispatchUpdate DEF DispatchPc
      <3> QED BY <3>1, <3>2, <3>3
    <2>3. lease' \in [Runs -> 0..MaxLease]
      BY <1>1, <2>1 DEF Claim, TypeOK
    <2> QED BY <1>1, <2>2, <2>3 DEF Claim, RowFrame, TypeOK
  <1>2. CASE Release(r)  BY <1>2 DEF Release, RowFrame, TypeOK
  <1>3. CASE Cancel(r)  BY <1>3 DEF Cancel, RowFrame, TypeOK
  <1>4. CASE FailRun(r)  BY <1>4 DEF FailRun, RowFrame, TypeOK
  <1> QED BY <1>1, <1>2, <1>3, <1>4

\* The ways in which a request of a lease moves on.
LEMMA TypeGoto ==
    ASSUME TypeOK, NEW t \in Token, NEW pc \in DispatchPc, NEW todo \in SUBSET Slots,
           Goto(t, pc) \/ GotoAll(t, pc, todo)
    PROVE  dispatch' \in [Token -> Dispatch]
  <1>1. dispatch \in [Token -> Dispatch] /\ dispatch[t] \in Dispatch
    BY DEF TypeOK
  <1>2. [dispatch[t] EXCEPT !.pc = pc] \in Dispatch
    BY <1>1, DispatchUpdate
  <1>3. [dispatch[t] EXCEPT !.pc = pc, !.todo = todo] \in Dispatch
    BY <1>1, DispatchUpdate
  <1> QED BY <1>1, <1>2, <1>3 DEF Goto, GotoAll

\* Registration keeps the types.
LEMMA TypeRegister ==
    ASSUME TypeOK, NEW t \in Token, Register(t)
    PROVE  /\ registry' \in [Slots -> [Runs -> 0..MaxLease]]
           /\ task' \in [Token -> {"none", "running", "cancelled", "over"}]
  <1> DEFINE s == dispatch[t].slot
  <1>1. registry' = [registry EXCEPT ![s][t[1]] = t[2]]
    BY DEF Register, Version
  <1>2. registry' \in [Slots -> [Runs -> 0..MaxLease]]
    <2>1. t[1] \in Runs /\ t[2] \in 0..MaxLease
      BY TokenParts, BoundsAssumption
    <2> HIDE DEF s
    <2> QED BY <1>1, <2>1 DEF TypeOK
  <1>3. task' \in [Token -> {"none", "running", "cancelled", "over"}]
    BY DEF Register, TypeOK
  <1> QED BY <1>2, <1>3

\* The steps of /dispatch keep the types.
LEMMA TypeDispatch ==
    ASSUME TypeOK, NEW t \in Token,
           DispatchStep(t) \/ StartThrows(t) \/ (\E s \in Slots : SweepFails(t, s))
    PROVE  TypeOK'
  <1> USE BoundsAssumption
  <1>0. dispatch \in [Token -> Dispatch] /\ dispatch[t] \in Dispatch
    BY DEF TypeOK
  <1>1. CASE CheckLease(t)
    <2>1. dispatch' \in [Token -> Dispatch]
      BY <1>1, TypeGoto DEF CheckLease, DispatchPc
    <2> QED BY <1>1, <2>1 DEF CheckLease, DispatchFrame, TypeOK
  <1>2. ASSUME NEW s \in Slots, SweepSuperseded(t, s) \/ SweepFails(t, s)
        PROVE  TypeOK'
    <2>1. dispatch' = [dispatch EXCEPT ![t].todo = @ \ {s}]
      BY <1>2 DEF SweepSuperseded, SweepFails
    <2>2. [dispatch[t] EXCEPT !.todo = @ \ {s}] \in Dispatch
      <3>1. dispatch[t].todo \ {s} \in SUBSET Slots
        BY <1>0 DEF Dispatch
      <3>2. [dispatch[t] EXCEPT !.todo = dispatch[t].todo \ {s}] \in Dispatch
        BY <1>0, <3>1, DispatchUpdate
      <3> QED BY <3>2
    <2>3. dispatch' \in [Token -> Dispatch]
      BY <1>0, <2>1, <2>2
    <2>4. tokens' \in [Slots -> SUBSET Token]
      BY <1>2 DEF SweepSuperseded, SweepFails, TypeOK
    <2>5. faults' \in 0..MaxFaults
      BY <1>2 DEF SweepSuperseded, SweepFails, Fault, TypeOK
    <2> QED BY <1>2, <2>3, <2>4, <2>5
        DEF SweepSuperseded, SweepFails, DispatchFrame, TypeOK
  <1>3. CASE RecheckLease(t)
    <2>1. dispatch' \in [Token -> Dispatch]
      BY <1>3, TypeGoto DEF RecheckLease, DispatchPc, Slots
    <2> QED BY <1>3, <2>1 DEF RecheckLease, DispatchFrame, TypeOK
  <1>4. ASSUME NEW s \in Slots, ReadLoad(t, s) PROVE TypeOK'
    <2>1. Live(s) \in SUBSET Token /\ IsFiniteSet(Live(s))
      <3>1. IsFiniteSet(Token)
        BY FiniteTokens
      <3>2. Live(s) \in SUBSET Token
        BY DEF Live, TypeOK
      <3> QED BY <3>1, <3>2, FS_Subset
    <2>2. Cardinality(Live(s)) \in Nat
      BY <2>1, FS_CardinalityType
    <2>3. tokens' \in [Slots -> SUBSET Token]
      BY <1>4, <2>1 DEF ReadLoad, TypeOK
    <2> DEFINE n == Cardinality(Live(s))
               l == [dispatch[t].load EXCEPT ![s] = n]
    <2>4. l \in [Slots -> Nat]
      <3>1. n \in Nat  BY <2>2
      <3> HIDE DEF n
      <3> QED BY <3>1 DEF TypeOK, Dispatch
    <2>5. dispatch' = [dispatch EXCEPT ![t] = [@ EXCEPT
                          !.todo = dispatch[t].todo \ {s}, !.load = l]]
      BY <1>4 DEF ReadLoad
    <2> HIDE DEF l
    <2>6. [dispatch[t] EXCEPT !.todo = dispatch[t].todo \ {s}, !.load = l] \in Dispatch
      <3>1. dispatch[t].todo \ {s} \in SUBSET Slots
        BY <1>0 DEF Dispatch
      <3> QED BY <1>0, <2>4, <3>1, DispatchUpdate
    <2>7. dispatch' \in [Token -> Dispatch]
      BY <1>0, <2>5, <2>6
    <2> QED BY <1>4, <2>3, <2>7 DEF ReadLoad, DispatchFrame, TypeOK
  <1>5. CASE SelectSlot(t)
    <2>1. dispatch' \in [Token -> Dispatch]
      <3>1. ASSUME NEW s \in Slots,
                   dispatch' = [dispatch EXCEPT ![t] = [@ EXCEPT !.pc = "reserve",
                                                 !.slot = s, !.load = NoLoad]]
            PROVE  dispatch' \in [Token -> Dispatch]
        <4>1. NoLoad \in [Slots -> Nat]
          BY DEF NoLoad
        <4>2. [dispatch[t] EXCEPT !.pc = "reserve", !.slot = s, !.load = NoLoad]
                \in Dispatch
          BY <1>0, <4>1, DispatchUpdate DEF DispatchPc
        <4> QED BY <1>0, <3>1, <4>2
      <3>2. Tier1 \subseteq Slots /\ Tier3 \subseteq Slots
        BY DEF Slots
      <3>3. CASE GotoAll(t, "tier3", Tier3) \/ Goto(t, "failed")
        BY <3>2, <3>3, TypeGoto DEF DispatchPc
      <3> QED BY <1>5, <3>1, <3>2, <3>3 DEF SelectSlot, LeastLoaded, Available
    <2> QED BY <1>5, <2>1 DEF SelectSlot, DispatchFrame, TypeOK
  <1>6. CASE Reserve(t)
    <2>1. dispatch' \in [Token -> Dispatch]
      BY <1>6, TypeGoto DEF Reserve, DispatchPc
    <2>2. tokens' \in [Slots -> SUBSET Token]
      BY <1>6 DEF Reserve, Live, TypeOK
    <2> QED BY <1>6, <2>1, <2>2 DEF Reserve, DispatchFrame, TypeOK
  <1>7. CASE StartContainer(t) \/ StartThrows(t)
    <2>1. dispatch' \in [Token -> Dispatch]
      BY <1>7, TypeGoto DEF StartContainer, StartThrows, DispatchPc
    <2>2. /\ registry' \in [Slots -> [Runs -> 0..MaxLease]]
          /\ task' \in [Token -> {"none", "running", "cancelled", "over"}]
      BY <1>7, TypeRegister DEF StartContainer, StartThrows, TypeOK
    <2>3. faults' \in 0..MaxFaults
      BY <1>7 DEF StartContainer, StartThrows, Fault, TypeOK
    <2> QED BY <1>7, <2>1, <2>2, <2>3
        DEF StartContainer, StartThrows, DispatchFrame, TypeOK
  <1>8. CASE ReturnReservation(t)
    <2>1. dispatch' \in [Token -> Dispatch]
      BY <1>8, TypeGoto DEF ReturnReservation, DispatchPc
    <2>2. tokens' \in [Slots -> SUBSET Token]
      BY <1>8 DEF ReturnReservation, TypeOK
    <2> QED BY <1>8, <2>1, <2>2 DEF ReturnReservation, DispatchFrame, TypeOK
  <1> QED BY <1>1, <1>2, <1>3, <1>4, <1>5, <1>6, <1>7, <1>8 DEF DispatchStep

\* The tasks and their calls keep the types.
LEMMA TypeTask ==
    ASSUME TypeOK, NEW t \in Token,
           TaskStep(t) \/ SendCall(t) \/ AnswerConflict(t) \/ RevokeFails(t)
    PROVE  TypeOK'
  <1> USE BoundsAssumption
  <1> DEFINE s == dispatch[t].slot
             Task == {"none", "running", "cancelled", "over"}
  <1>0. t[1] \in Runs
    BY TokenParts
  <1>a. ASSUME EndTask(t)
        PROVE  task' \in [Token -> Task] /\ registry' \in [Slots -> [Runs -> 0..MaxLease]]
    <2>1. registry' = registry \/ registry' = [registry EXCEPT ![s][t[1]] = 0]
      BY <1>a DEF EndTask
    <2>2. registry' \in [Slots -> [Runs -> 0..MaxLease]]
      <3>1. 0 \in 0..MaxLease
        OBVIOUS
      <3> HIDE DEF s
      <3>2. [registry EXCEPT ![s][t[1]] = 0] \in [Slots -> [Runs -> 0..MaxLease]]
        BY <1>0, <3>1 DEF TypeOK
      <3> QED BY <2>1, <3>2 DEF TypeOK
    <2> QED BY <1>a, <2>2 DEF EndTask, TypeOK
  <1>b. ASSUME Cancelled(t) PROVE task' \in [Token -> Task]
    BY <1>b DEF Cancelled, TypeOK
  <1>1. CASE StopTask(t)
    <2>1. task' \in [Token -> Task] /\ registry' \in [Slots -> [Runs -> 0..MaxLease]]
      BY <1>1, <1>a DEF StopTask
    <2> QED BY <1>1, <2>1 DEF StopTask, TaskFrame, TypeOK
  <1>2. CASE SendCall(t)
    BY <1>2 DEF SendCall, TaskFrame, TypeOK, Call
  <1>3. CASE Verify(t)
    <2>1. task' \in [Token -> Task]
      BY <1>3, <1>b DEF Verify, TypeOK
    <2>2. tokens' \in [Slots -> SUBSET Token]
      BY <1>3 DEF Verify, Live, TypeOK
    <2>3. call' \in [Token -> Call]
      <3>1. Verified[call[t]] \in Call
        BY <1>3 DEF Verify, Call, Verified
      <3>2. \E x \in Call : call' = [call EXCEPT ![t] = x]
        BY <1>3, <3>1 DEF Verify, Call
      <3> QED BY <3>2 DEF TypeOK
    <2> QED BY <1>3, <2>1, <2>2, <2>3 DEF Verify, TaskFrame, TypeOK
  <1>4. CASE HandleBeat(t)
    <2>1. task' \in [Token -> Task]
      BY <1>4, <1>b DEF HandleBeat, TypeOK
    <2> QED BY <1>4, <2>1 DEF HandleBeat, TaskFrame, TypeOK, Call
  <1>5. CASE Touch(t)
    <2>1. tokens' \in [Slots -> SUBSET Token]
      BY <1>5 DEF Touch, Live, TypeOK
    <2> QED BY <1>5, <2>1 DEF Touch, TaskFrame, TypeOK, Call
  <1>6. CASE HandleFinish(t)
    <2>1. task' \in [Token -> Task] /\ registry' \in [Slots -> [Runs -> 0..MaxLease]]
      BY <1>6, <1>a, <1>b DEF HandleFinish, TypeOK
    <2>2. sweep' \in [Runs -> SUBSET Slots]
      <3>1. sweep' = sweep \/ sweep' = [sweep EXCEPT ![t[1]] = Slots]
        BY <1>6 DEF HandleFinish
      <3> QED BY <3>1, SMTT(60) DEF TypeOK
    <2>3. status' \in [Runs -> {"queued", "running", "ended"}]
      <3>1. status' = status \/ status' = [status EXCEPT ![t[1]] = "ended"]
        BY <1>6 DEF HandleFinish
      <3> QED BY <3>1, SMTT(60) DEF TypeOK
    <2> QED BY <1>6, <2>1, <2>2, <2>3 DEF HandleFinish, TypeOK, Call
  <1>7. CASE RevokeLease(t)
    BY <1>7 DEF RevokeLease, TaskFrame, TypeOK, Call
  <1>8. CASE RevokeFails(t)
    BY <1>8 DEF RevokeFails, Fault, TaskFrame, TypeOK, Call
  <1>9. CASE HandleRpc(t)
    <2>1. task' \in [Token -> Task]
      BY <1>9, <1>b DEF HandleRpc, TypeOK
    <2> QED BY <1>9, <2>1 DEF HandleRpc, TaskFrame, TypeOK, Call
  <1>10. CASE AnswerConflict(t)
    <2>1. task' \in [Token -> Task]
      BY <1>10, <1>b DEF AnswerConflict
    <2>2. call' \in [Token -> Call]
      BY <1>10 DEF AnswerConflict, TypeOK, Call
    <2>3. faults' \in 0..MaxFaults
      BY <1>10 DEF AnswerConflict, Fault, TypeOK
    <2> QED BY <1>10, <2>1, <2>2, <2>3 DEF AnswerConflict, TaskFrame, TypeOK
  <1> QED BY <1>1, <1>2, <1>3, <1>4, <1>5, <1>6, <1>7, <1>8, <1>9, <1>10
      DEF TaskStep

\* Expiry and the slots' own steps keep the types.
LEMMA TypeSlot ==
    ASSUME TypeOK, SlotNext \/ \E t \in Token : Expire(t) \/ ExpireInUse(t)
    PROVE  TypeOK'
  <1> USE BoundsAssumption
  <1>1. ASSUME NEW t \in Token, Expire(t) \/ ExpireInUse(t) PROVE TypeOK'
    BY <1>1 DEF Expire, ExpireInUse, Fault, MaintenanceFrame, TypeOK
  <1>2. ASSUME NEW s \in Slots, NEW r \in Runs, SweepRun(r, s) \/ SweepRunFails(r, s)
        PROVE  TypeOK'
    <2>1. tokens' \in [Slots -> SUBSET Token] /\ sweep' \in [Runs -> SUBSET Slots]
      <3>1. sweep' = [sweep EXCEPT ![r] = @ \ {s}]
        BY <1>2 DEF SweepRun, SweepRunFails
      <3>2. sweep' \in [Runs -> SUBSET Slots]
        BY <3>1 DEF TypeOK
      <3>3. tokens' \in [Slots -> SUBSET Token]
        BY <1>2 DEF SweepRun, SweepRunFails, TypeOK
      <3> QED BY <3>2, <3>3
    <2>2. faults' \in 0..MaxFaults
      BY <1>2 DEF SweepRun, SweepRunFails, Fault, TypeOK
    <2> QED BY <1>2, <2>1, <2>2
        DEF SweepRun, SweepRunFails, MaintenanceFrame, TypeOK
  <1>3. ASSUME NEW s \in Slots, Warm(s) PROVE TypeOK'
    <2>1. tokens' \in [Slots -> SUBSET Token]
      BY <1>3 DEF Warm, Live, TypeOK
    <2> QED BY <1>3, <2>1 DEF Warm, MaintenanceFrame, TypeOK
  <1>4. ASSUME NEW s \in Slots, BeginShutdown(s) PROVE TypeOK'
    BY <1>4 DEF BeginShutdown, Fault, MaintenanceFrame, TypeOK
  <1>5. ASSUME NEW s \in Slots, StopContainer(s) PROVE TypeOK'
    <2>1. registry' \in [Slots -> [Runs -> 0..MaxLease]]
      <3>1. [r \in Runs |-> 0] \in [Runs -> 0..MaxLease]
        OBVIOUS
      <3> QED BY <1>5, <3>1 DEF StopContainer, TypeOK
    <2>2. task' \in [Token -> {"none", "running", "cancelled", "over"}]
      BY <1>5 DEF StopContainer, TypeOK
    <2>3. faults' \in 0..MaxFaults /\ draining' \in SUBSET Slots
      BY <1>5 DEF StopContainer, Fault, TypeOK
    <2> QED BY <1>5, <2>1, <2>2, <2>3 DEF StopContainer, MaintenanceFrame, TypeOK
  <1> QED BY <1>1, <1>2, <1>3, <1>4, <1>5 DEF SlotNext

\* The initial state has the types.
LEMMA TypeInit == Init => TypeOK
  <1> SUFFICES ASSUME Init PROVE TypeOK
    OBVIOUS
  <1>1. [pc |-> "none", todo |-> {}, load |-> NoLoad, slot |-> None] \in Dispatch
    <2>1. NoLoad \in [Slots -> Nat]
      BY DEF NoLoad
    <2> QED BY <2>1 DEF Dispatch, DispatchPc
  <1>2. dispatch \in [Token -> Dispatch]
    BY <1>1 DEF Init
  <1>3. /\ registry \in [Slots -> [Runs -> 0..MaxLease]]
        /\ lease \in [Runs -> 0..MaxLease]
        /\ faults \in 0..MaxFaults
    BY BoundsAssumption DEF Init
  <1>4. call \in [Token -> Call]
    BY DEF Init, Call
  <1> QED BY <1>2, <1>3, <1>4 DEF Init, TypeOK

\* One step keeps the types.
LEMMA TypeNext == TypeOK /\ [Next]_vars => TypeOK'
  <1> SUFFICES ASSUME TypeOK, [Next]_vars PROVE TypeOK'
    OBVIOUS
  <1>1. CASE RunNext  BY <1>1, TypeRun
  <1>2. CASE TokenNext  BY <1>2, TypeDispatch, TypeTask, TypeSlot DEF TokenNext
  <1>3. CASE SlotNext  BY <1>3, TypeSlot
  <1>4. CASE UNCHANGED vars  BY <1>4 DEF vars, TypeOK
  <1> QED BY <1>1, <1>2, <1>3, <1>4 DEF Next

\* Every variable of the pool keeps its type, for every pool, set of runs and
\* number of leases and faults.
THEOREM PoolTypeCorrect == Spec => []TypeOK
  BY TypeInit, TypeNext, PTL DEF Spec

\* What one step does to the tokens of a slot: it takes some away, or it finds
\* room among those that have not expired and adds one.
TokensOK(s) ==
    \/ tokens'[s] \subseteq tokens[s]
    \/ \E t \in Token : HasRoom(s) /\ tokens'[s] = Live(s) \cup {t}

LEMMA TokensStep ==
    ASSUME TypeOK, Next PROVE \A s \in Slots : TokensOK(s)
  <1>0. tokens \in [Slots -> SUBSET Token]
    BY DEF TypeOK
  <1>1. ASSUME UNCHANGED tokens PROVE \A s \in Slots : TokensOK(s)
    BY <1>1 DEF TokensOK
  <1>2. ASSUME NEW t \in Token, DispatchStep(t) \/ StartThrows(t)
        PROVE  \A s \in Slots : TokensOK(s)
    <2>1. CASE UNCHANGED tokens  BY <1>1, <2>1
    <2>2. ASSUME NEW s \in Slots, SweepSuperseded(t, s) \/ ReadLoad(t, s)
          PROVE  \A u \in Slots : TokensOK(u)
      <3>1. CASE SweepSuperseded(t, s)
        BY <1>0, <3>1 DEF SweepSuperseded, TokensOK
      <3>2. CASE ReadLoad(t, s)
        BY <1>0, <3>2 DEF ReadLoad, Live, TokensOK
      <3> QED BY <2>2, <3>1, <3>2
    <2>3. CASE Reserve(t)
      <3> DEFINE u == dispatch[t].slot
      <3>1. CASE tokens' = [tokens EXCEPT ![u] = Live(u)]
        <4> HIDE DEF u
        <4> QED BY <1>0, <3>1 DEF TokensOK, Live
      <3>2. CASE HasRoom(u) /\ tokens' = [tokens EXCEPT ![u] = Live(u) \cup {t}]
        <4> HIDE DEF u
        <4> QED BY <1>0, <3>2 DEF TokensOK
      <3> QED BY <2>3, <3>1, <3>2 DEF Reserve
    <2>4. CASE ReturnReservation(t)
      BY <1>0, <2>4 DEF ReturnReservation, TokensOK
    <2> QED BY <1>2, <2>1, <2>2, <2>3, <2>4
        DEF DispatchStep, CheckLease, RecheckLease, SelectSlot, StartContainer,
            StartThrows
  <1>3. ASSUME NEW t \in Token, TaskStep(t) PROVE \A s \in Slots : TokensOK(s)
    <2>1. CASE UNCHANGED tokens  BY <1>1, <2>1
    <2>2. CASE Verify(t)
      <3> DEFINE u == dispatch[t].slot
      <3>1. tokens' = [tokens EXCEPT ![u] = Live(u)]
        BY <2>2 DEF Verify
      <3> HIDE DEF u
      <3> QED BY <1>0, <3>1 DEF TokensOK, Live
    <2>3. CASE Touch(t)
      <3> DEFINE u == dispatch[t].slot
      <3>1. CASE t \in tokens[u] /\ tokens' = [tokens EXCEPT ![u] = Live(u) \cup {t}]
        <4> HIDE DEF u
        <4> QED BY <1>0, <3>1 DEF TokensOK, Live
      <3> QED BY <2>1, <2>3, <3>1 DEF Touch
    <2>4. CASE RevokeLease(t)  BY <2>4 DEF RevokeLease, TokensOK
    <2> QED BY <1>3, <2>1, <2>2, <2>3, <2>4
        DEF TaskStep, StopTask, HandleBeat, HandleRpc, HandleFinish
  <1>4. ASSUME NEW s \in Slots, NEW r \in Runs, SweepRun(r, s)
        PROVE  \A u \in Slots : TokensOK(u)
    BY <1>0, <1>4 DEF SweepRun, TokensOK
  <1>5. ASSUME NEW s \in Slots, Warm(s) PROVE \A u \in Slots : TokensOK(u)
    BY <1>0, <1>5 DEF Warm, Live, TokensOK
  <1>6. CASE RunNext
    BY <1>1, <1>6 DEF RunNext, Claim, Release, Cancel, FailRun, RowFrame
  <1>7. CASE TokenNext
    BY <1>1, <1>2, <1>3, <1>7
       DEF TokenNext, SweepFails, SendCall, AnswerConflict, RevokeFails, Expire,
           ExpireInUse
  <1>8. CASE SlotNext
    BY <1>1, <1>4, <1>5, <1>8
       DEF SlotNext, SweepRunFails, BeginShutdown, StopContainer
  <1> QED BY <1>6, <1>7, <1>8 DEF Next

\* What one step does to the registry of a slot: it clears entries, or it fills
\* one that was taken already or for which there was room.
RegistryOK(s) ==
    \/ ActiveRuns(s)' \subseteq ActiveRuns(s)
    \/ \E r \in Runs : /\ ActiveRuns(s)' = ActiveRuns(s) \cup {r}
                       /\ r \in ActiveRuns(s) \/ Cardinality(ActiveRuns(s)) < Capacity[s]

LEMMA RegistryStep ==
    ASSUME TypeOK, Next PROVE \A s \in Slots : RegistryOK(s)
  <1>0. registry \in [Slots -> [Runs -> 0..MaxLease]]
    BY DEF TypeOK
  <1>1. ASSUME UNCHANGED registry PROVE \A s \in Slots : RegistryOK(s)
    BY <1>1 DEF RegistryOK, ActiveRuns
  <1>2. ASSUME NEW t \in Token, Register(t), Admits(dispatch[t].slot, t[1])
        PROVE  \A s \in Slots : RegistryOK(s)
    <2> DEFINE u == dispatch[t].slot
    <2>1. registry' = [registry EXCEPT ![u][t[1]] = t[2]]
      BY <1>2 DEF Register, Version
    <2>2. t[1] \in Runs /\ t[2] \in 1..MaxLease
      BY TokenParts
    <2>3. t[1] \in ActiveRuns(u) \/ Cardinality(ActiveRuns(u)) < Capacity[u]
      BY <1>2, <2>2 DEF Admits, ActiveRuns
    <2> HIDE DEF u
    <2>4. ASSUME NEW s \in Slots PROVE RegistryOK(s)
      <3>1. CASE s # u  BY <1>0, <2>1, <3>1 DEF RegistryOK, ActiveRuns
      <3>2. CASE s = u
        <4>1. registry'[s] = [registry[s] EXCEPT ![t[1]] = t[2]]
          BY <1>0, <2>1, <3>2
        <4>2. ActiveRuns(s)' = ActiveRuns(s) \cup {t[1]}
          BY <1>0, <2>2, <4>1, BoundsAssumption DEF ActiveRuns
        <4> QED BY <2>2, <2>3, <3>2, <4>2 DEF RegistryOK
      <3> QED BY <3>1, <3>2
    <2> QED BY <2>4
  <1>3. ASSUME NEW t \in Token, EndTask(t) PROVE \A s \in Slots : RegistryOK(s)
    <2> DEFINE u == dispatch[t].slot
    <2>1. registry' = registry \/ registry' = [registry EXCEPT ![u][t[1]] = 0]
      BY <1>3 DEF EndTask
    <2>2. t[1] \in Runs
      BY TokenParts
    <2> HIDE DEF u
    <2>3. CASE registry' = [registry EXCEPT ![u][t[1]] = 0]
      BY <1>0, <2>2, <2>3 DEF RegistryOK, ActiveRuns
    <2> QED BY <1>1, <2>1, <2>3
  <1>4. ASSUME NEW s \in Slots, StopContainer(s) PROVE \A u \in Slots : RegistryOK(u)
    BY <1>0, <1>4 DEF StopContainer, RegistryOK, ActiveRuns
  <1>5. CASE RunNext
    BY <1>1, <1>5 DEF RunNext, Claim, Release, Cancel, FailRun, RowFrame
  <1>6. ASSUME NEW t \in Token, DispatchStep(t) \/ StartThrows(t)
        PROVE  \A s \in Slots : RegistryOK(s)
    BY <1>1, <1>2, <1>6
       DEF DispatchStep, CheckLease, SweepSuperseded, ReadLoad, RecheckLease,
           SelectSlot, Reserve, StartContainer, StartThrows, ReturnReservation
  <1>7. ASSUME NEW t \in Token, TaskStep(t) PROVE \A s \in Slots : RegistryOK(s)
    BY <1>1, <1>3, <1>7
       DEF TaskStep, StopTask, Verify, HandleBeat, Touch, HandleRpc, HandleFinish,
           RevokeLease
  <1>8. CASE TokenNext
    BY <1>1, <1>6, <1>7, <1>8
       DEF TokenNext, SweepFails, SendCall, AnswerConflict, RevokeFails, Expire,
           ExpireInUse
  <1>9. CASE SlotNext
    BY <1>1, <1>4, <1>9
       DEF SlotNext, SweepRun, SweepRunFails, Warm, BeginShutdown
  <1> QED BY <1>5, <1>8, <1>9 DEF Next

\* A set with room still fits when it has been thinned out or has got one more.
LEMMA Fits ==
    ASSUME NEW S, IsFiniteSet(S), NEW n \in Nat, Cardinality(S) <= n
    PROVE  /\ \A T : T \subseteq S => Cardinality(T) <= n
           /\ \A x : Cardinality(S) < n \/ x \in S => Cardinality(S \cup {x}) <= n
  <1>1. ASSUME NEW T, T \subseteq S PROVE Cardinality(T) <= n
    <2>1. IsFiniteSet(T) /\ Cardinality(T) <= Cardinality(S)
      BY <1>1, FS_Subset
    <2> QED BY <2>1, FS_CardinalityType
  <1>2. ASSUME NEW x, Cardinality(S) < n \/ x \in S
        PROVE  Cardinality(S \cup {x}) <= n
    <2>1. CASE x \in S
      <3>1. S \cup {x} = S  BY <2>1
      <3> QED BY <3>1
    <2>2. CASE x \notin S
      <3>1. Cardinality(S \cup {x}) = Cardinality(S) + 1
        BY <2>2, FS_AddElement
      <3> QED BY <1>2, <2>2, <3>1, FS_CardinalityType
    <2> QED BY <2>1, <2>2
  <1> QED BY <1>1, <1>2

\* One step keeps every slot within its capacity.
LEMMA CapacityNext ==
    ASSUME TypeOK, CapacityIsRespected, [Next]_vars PROVE CapacityIsRespected'
  <1>1. CASE UNCHANGED vars
    BY <1>1 DEF vars, CapacityIsRespected, ActiveRuns
  <1>2. CASE Next
    <2> SUFFICES ASSUME NEW s \in Slots
                 PROVE  /\ Cardinality(tokens'[s]) <= Capacity[s]
                        /\ Cardinality(ActiveRuns(s)') <= Capacity[s]
      BY DEF CapacityIsRespected
    <2>1. Capacity[s] \in Nat
      BY CapacityAssumption
    <2>2. IsFiniteSet(tokens[s]) /\ IsFiniteSet(Live(s)) /\ Live(s) \subseteq tokens[s]
      BY FiniteTokens, FS_Subset DEF TypeOK, Live
    <2>3. IsFiniteSet(ActiveRuns(s))
      BY PoolAssumption, FS_Subset DEF ActiveRuns
    <2>4. /\ Cardinality(tokens[s]) <= Capacity[s]
          /\ Cardinality(ActiveRuns(s)) <= Capacity[s]
      BY DEF CapacityIsRespected
    <2>5. Cardinality(tokens'[s]) <= Capacity[s]
      <3>1. CASE tokens'[s] \subseteq tokens[s]
        BY <2>1, <2>2, <2>4, <3>1, Fits
      <3>2. ASSUME NEW t \in Token, HasRoom(s), tokens'[s] = Live(s) \cup {t}
            PROVE  Cardinality(tokens'[s]) <= Capacity[s]
        <4>1. Cardinality(Live(s)) < Capacity[s] /\ Cardinality(Live(s)) <= Capacity[s]
          BY <2>1, <2>2, <3>2, FS_CardinalityType DEF HasRoom
        <4> QED BY <2>1, <2>2, <3>2, <4>1, Fits
      <3> QED BY <1>2, <3>1, <3>2, TokensStep DEF TokensOK
    <2>6. Cardinality(ActiveRuns(s)') <= Capacity[s]
      <3>1. CASE ActiveRuns(s)' \subseteq ActiveRuns(s)
        BY <2>1, <2>3, <2>4, <3>1, Fits
      <3>2. ASSUME NEW r \in Runs, ActiveRuns(s)' = ActiveRuns(s) \cup {r},
                   r \in ActiveRuns(s) \/ Cardinality(ActiveRuns(s)) < Capacity[s]
            PROVE  Cardinality(ActiveRuns(s)') <= Capacity[s]
        BY <2>1, <2>3, <2>4, <3>2, Fits
      <3> QED BY <1>2, <3>1, <3>2, RegistryStep DEF RegistryOK
    <2> QED BY <2>5, <2>6
  <1> QED BY <1>1, <1>2

\* Neither reservations nor registered runs ever exceed the capacity of a slot
\* (dispatchStart and try_register_run), however stale the loads read before.
THEOREM CapacityRespected == Spec => []CapacityIsRespected
  <1>1. Init => CapacityIsRespected
    <2> SUFFICES ASSUME Init, NEW s \in Slots
                 PROVE  /\ Cardinality(tokens[s]) <= Capacity[s]
                        /\ Cardinality(ActiveRuns(s)) <= Capacity[s]
      BY DEF CapacityIsRespected
    <2>1. tokens[s] = {} /\ ActiveRuns(s) = {}
      BY DEF Init, ActiveRuns
    <2>2. Capacity[s] \in Nat
      BY CapacityAssumption
    <2> QED BY <2>1, <2>2, FS_EmptySet
  <1>2. TypeOK /\ CapacityIsRespected /\ [Next]_vars => CapacityIsRespected'
    BY CapacityNext
  <1> QED BY <1>1, <1>2, PoolTypeCorrect, PTL DEF Spec

(***************************************************************************)
(* Who may take a token away.                                              *)
(***************************************************************************)

\* A run is swept when it is over; a request, task or call belongs to a lease
\* that was granted; a call that found its lease lost is right for good.
Granted(t) == t[2] <= lease[t[1]]

Authority ==
    /\ \A r \in Runs : sweep[r] # {} => status[r] = "ended"
    /\ \A t \in Token : dispatch[t].pc # "none" => Granted(t)
    /\ \A t \in Token : task[t] # "none" \/ call[t] # "none" => Granted(t)
    /\ \A t \in Token : call[t] = "lost" => ~HoldsLease(t)

\* The initial state.
LEMMA AuthorityInit == Init => Authority
  BY DEF Init, Authority

\* The actions of the row.
LEMMA AuthorityRun ==
    ASSUME TypeOK, Authority, RunNext PROVE Authority'
  <1> USE BoundsAssumption
  <1> PICK r \in Runs : Claim(r) \/ Release(r) \/ Cancel(r) \/ FailRun(r)
    BY DEF RunNext
  <1>0. \A t \in Token : t[1] \in Runs /\ t[2] \in Nat
    BY TokenParts
  <1>1. /\ status \in [Runs -> {"queued", "running", "ended"}]
        /\ lease \in [Runs -> 0..MaxLease]
        /\ dispatch \in [Token -> Dispatch]
        /\ sweep \in [Runs -> SUBSET Slots]
    BY DEF TypeOK
  <1>2. CASE Claim(r)
    <2> DEFINE u == <<r, lease[r] + 1>>
    <2>1. /\ status' = [status EXCEPT ![r] = "running"]
          /\ lease' = [lease EXCEPT ![r] = @ + 1]
          /\ status[r] = "queued"
          /\ UNCHANGED <<sweep, task, call>>
      BY <1>2 DEF Claim, RowFrame
    <2>2. \A t \in Token : Granted(t) => \/ Granted(t)' /\ ~HoldsLease(t)'
                                         \/ t[1] # r /\ Granted(t)'
      BY <1>0, <1>1, <2>1 DEF Granted, HoldsLease
    <2>3. \A t \in Token : t[1] # r => HoldsLease(t)' = HoldsLease(t)
      BY <1>0, <1>1, <2>1 DEF HoldsLease
    <2>4. \A t \in Token : dispatch'[t].pc # "none" => Granted(t)'
      <3> SUFFICES ASSUME NEW t \in Token, dispatch'[t].pc # "none" PROVE Granted(t)'
        OBVIOUS
      <3>1. CASE t = u
        BY <1>1, <2>1, <3>1 DEF Granted
      <3>2. CASE t # u
        <4>1. dispatch'[t] = dispatch[t]
          BY <1>1, <1>2, <3>2 DEF Claim
        <4> QED BY <2>2, <4>1 DEF Authority
      <3> QED BY <3>1, <3>2
    <2>5. \A q \in Runs : sweep'[q] # {} => status'[q] = "ended"
      BY <1>1, <2>1 DEF Authority
    <2> QED BY <2>1, <2>2, <2>3, <2>4, <2>5 DEF Authority
  <1>3. CASE Release(r) \/ Cancel(r) \/ FailRun(r)
    <2>1. /\ UNCHANGED <<lease, dispatch, task, call>>
          /\ \/ status' = [status EXCEPT ![r] = "queued"] /\ status[r] = "running"
             \/ status' = [status EXCEPT ![r] = "ended"]
      BY <1>3 DEF Release, Cancel, FailRun, RowFrame
    <2>2. \A t \in Token : Granted(t)' = Granted(t) /\ (HoldsLease(t)' => HoldsLease(t))
      BY <1>0, <1>1, <2>1 DEF Granted, HoldsLease
    <2>3. \A q \in Runs : sweep'[q] # {} => status'[q] = "ended"
      BY <1>1, <1>3 DEF Authority, Release, Cancel, FailRun
    <2> QED BY <2>1, <2>2, <2>3 DEF Authority
  <1> QED BY <1>2, <1>3

\* The steps of /dispatch.
LEMMA AuthorityDispatch ==
    ASSUME TypeOK, Authority, NEW t \in Token,
           DispatchStep(t) \/ StartThrows(t) \/ (\E s \in Slots : SweepFails(t, s))
    PROVE  Authority'
  <1>1. UNCHANGED <<status, lease, call, sweep>>
    BY DEF DispatchStep, StartThrows, SweepFails, CheckLease, SweepSuperseded,
           ReadLoad, RecheckLease, SelectSlot, Reserve, StartContainer,
           ReturnReservation, DispatchFrame
  <1>2. dispatch[t].pc # "none"
    BY DEF DispatchStep, StartThrows, SweepFails, CheckLease, SweepSuperseded,
           ReadLoad, RecheckLease, SelectSlot, Reserve, StartContainer,
           ReturnReservation
  <1>3. Granted(t)
    BY <1>2 DEF Authority
  <1>4. \A u \in Token : u # t => dispatch'[u] = dispatch[u]
    BY DEF TypeOK, DispatchStep, StartThrows, SweepFails, CheckLease,
           SweepSuperseded, ReadLoad, RecheckLease, SelectSlot, Reserve,
           StartContainer, ReturnReservation, Goto, GotoAll
  <1>5. \A u \in Token : task'[u] # "none" => u = t \/ task[u] # "none"
    <2>1. CASE Register(t)
      BY <2>1 DEF Register, TypeOK
    <2>2. CASE UNCHANGED task
      BY <2>2
    <2> QED BY <2>1, <2>2
        DEF DispatchStep, StartThrows, SweepFails, CheckLease, SweepSuperseded,
            ReadLoad, RecheckLease, SelectSlot, Reserve, StartContainer,
            ReturnReservation
  <1>6. \A u \in Token : Granted(u)' = Granted(u) /\ HoldsLease(u)' = HoldsLease(u)
    BY <1>1 DEF Granted, HoldsLease
  <1>7. \A u \in Token : dispatch'[u].pc # "none" => Granted(u)
    BY <1>3, <1>4 DEF Authority
  <1>8. \A u \in Token : task'[u] # "none" \/ call'[u] # "none" => Granted(u)
    BY <1>1, <1>3, <1>5 DEF Authority
  <1> QED BY <1>1, <1>6, <1>7, <1>8 DEF Authority

\* The tasks and their calls.
LEMMA AuthorityTask ==
    ASSUME TypeOK, Authority, NEW t \in Token,
           TaskStep(t) \/ SendCall(t) \/ AnswerConflict(t) \/ RevokeFails(t)
    PROVE  Authority'
  <1>0. t[1] \in Runs /\ status \in [Runs -> {"queued", "running", "ended"}]
        /\ sweep \in [Runs -> SUBSET Slots]
    BY TokenParts DEF TypeOK
  <1>1. UNCHANGED <<lease, dispatch>>
    BY DEF TaskStep, SendCall, AnswerConflict, RevokeFails, AnsweredLost, StopTask,
           Verify, HandleBeat, Touch, HandleRpc, HandleFinish, RevokeLease, TaskFrame
  <1>2. task[t] # "none" \/ call[t] # "none"
    BY DEF TaskStep, SendCall, AnswerConflict, RevokeFails, AnsweredLost, StopTask,
           Verify, HandleBeat, Touch, HandleRpc, HandleFinish, RevokeLease
  <1>3. Granted(t)
    BY <1>2 DEF Authority
  <1>4. \A u \in Token : u # t => task'[u] = task[u] /\ call'[u] = call[u]
    <2>1. task' = task \/ \E x : task' = [task EXCEPT ![t] = x]
      BY DEF TaskStep, SendCall, AnswerConflict, RevokeFails, AnsweredLost, StopTask,
             Verify, HandleBeat, Touch, HandleRpc, HandleFinish, RevokeLease, EndTask, Cancelled
    <2>2. call' = call \/ \E x : call' = [call EXCEPT ![t] = x]
      BY DEF TaskStep, SendCall, AnswerConflict, RevokeFails, AnsweredLost, StopTask,
             Verify, HandleBeat, Touch, HandleRpc, HandleFinish, RevokeLease
    <2> QED BY <2>1, <2>2 DEF TypeOK
  <1>5. \/ UNCHANGED <<status, sweep>>
        \/ /\ status' = [status EXCEPT ![t[1]] = "ended"]
           /\ sweep' = [sweep EXCEPT ![t[1]] = Slots]
    BY DEF TaskStep, SendCall, AnswerConflict, RevokeFails, AnsweredLost, StopTask,
           Verify, HandleBeat, Touch, HandleRpc, HandleFinish, RevokeLease, TaskFrame
  <1>6. \A u \in Token : Granted(u)' = Granted(u) /\ (HoldsLease(u)' => HoldsLease(u))
    BY <1>0, <1>1, <1>5, TokenParts DEF Granted, HoldsLease
  <1>7. call'[t] = "lost" => ~HoldsLease(t)
    BY DEF TypeOK, TaskStep, SendCall, AnswerConflict, RevokeFails, StopTask, Verify,
           HandleBeat, Touch, HandleRpc, HandleFinish, Verified, RevokeLease, Authority
  <1>8. \A r \in Runs : sweep'[r] # {} => status'[r] = "ended"
    BY <1>0, <1>5 DEF Authority
  <1>9. \A u \in Token : call'[u] = "lost" => ~HoldsLease(u)
    BY <1>4, <1>7 DEF Authority
  <1>10. \A u \in Token : task'[u] # "none" \/ call'[u] # "none" => Granted(u)
    BY <1>3, <1>4 DEF Authority
  <1> QED BY <1>1, <1>6, <1>8, <1>9, <1>10 DEF Authority

\* Expiry and the slots' own steps.
LEMMA AuthoritySlot ==
    ASSUME TypeOK, Authority,
           SlotNext \/ \E t \in Token : Expire(t) \/ ExpireInUse(t)
    PROVE  Authority'
  <1>1. UNCHANGED <<status, lease, dispatch, call>>
    BY DEF SlotNext, SweepRun, SweepRunFails, Warm, BeginShutdown, StopContainer,
           Expire, ExpireInUse, MaintenanceFrame
  <1>2. \A u \in Token : task'[u] # "none" => task[u] # "none"
    <2>1. CASE UNCHANGED task  BY <2>1
    <2>2. ASSUME NEW s \in Slots, StopContainer(s)
          PROVE  \A u \in Token : task'[u] # "none" => task[u] # "none"
      BY <2>2 DEF StopContainer
    <2> QED BY <2>1, <2>2
        DEF SlotNext, SweepRun, SweepRunFails, Warm, BeginShutdown, Expire, ExpireInUse
  <1>3. \A r \in Runs : sweep'[r] # {} => sweep[r] # {}
    <2>1. CASE UNCHANGED sweep  BY <2>1
    <2>2. ASSUME NEW s \in Slots, NEW q \in Runs, sweep' = [sweep EXCEPT ![q] = @ \ {s}]
          PROVE  \A r \in Runs : sweep'[r] # {} => sweep[r] # {}
      BY <2>2 DEF TypeOK
    <2> QED BY <2>1, <2>2
        DEF SlotNext, SweepRun, SweepRunFails, Warm, BeginShutdown, StopContainer,
            Expire, ExpireInUse
  <1>4. \A u \in Token : Granted(u)' = Granted(u) /\ HoldsLease(u)' = HoldsLease(u)
    BY <1>1 DEF Granted, HoldsLease
  <1> QED BY <1>1, <1>2, <1>3, <1>4 DEF Authority

\* One step.
LEMMA AuthorityNext == TypeOK /\ Authority /\ [Next]_vars => Authority'
  <1> SUFFICES ASSUME TypeOK, Authority, [Next]_vars PROVE Authority'
    OBVIOUS
  <1>1. CASE RunNext  BY <1>1, AuthorityRun
  <1>2. CASE TokenNext
    BY <1>2, AuthorityDispatch, AuthorityTask, AuthoritySlot DEF TokenNext
  <1>3. CASE SlotNext  BY <1>3, AuthoritySlot
  <1>4. CASE UNCHANGED vars
    BY <1>4 DEF vars, Authority, Granted, HoldsLease
  <1> QED BY <1>1, <1>2, <1>3, <1>4 DEF Next

\* What one step takes away from a slot.
KeepsLive ==
    \A s \in Slots : \A u \in tokens[s] :
        HoldsLease(u) /\ u \notin tokens'[s] =>
          u \in stale \/ dispatch[u].pc = "revoke" \/ call[u] = "conflict"

LEMMA LiveNext ==
    ASSUME TypeOK, Authority, [Next]_vars PROVE KeepsLive
  <1>0. tokens \in [Slots -> SUBSET Token]
    BY DEF TypeOK
  <1>1. ASSUME UNCHANGED tokens PROVE KeepsLive
    BY <1>1 DEF KeepsLive
  <1>2. ASSUME NEW v, tokens' = [tokens EXCEPT ![v] = Live(v)] PROVE KeepsLive
    BY <1>0, <1>2 DEF KeepsLive, Live
  <1>3. ASSUME NEW t \in Token, DispatchStep(t) \/ StartThrows(t) PROVE KeepsLive
    <2>1. CASE UNCHANGED tokens  BY <1>1, <2>1
    <2>2. ASSUME NEW s \in Slots, SweepSuperseded(t, s) PROVE KeepsLive
      <3>1. Granted(t)
        BY <2>2 DEF SweepSuperseded, Authority
      <3>2. \A u \in Token : IsSuperseded(u, t) => ~HoldsLease(u)
        BY <3>1, TokenParts DEF IsSuperseded, Granted, HoldsLease, TypeOK
      <3>3. tokens' = [tokens EXCEPT ![s] = {u \in @ : ~IsSuperseded(u, t)}]
        BY <2>2 DEF SweepSuperseded
      <3> QED BY <1>0, <3>2, <3>3 DEF KeepsLive
    <2>3. ASSUME NEW s \in Slots, ReadLoad(t, s) PROVE KeepsLive
      BY <1>2, <2>3 DEF ReadLoad
    <2>4. CASE Reserve(t)
      <3> DEFINE v == dispatch[t].slot
      <3>1. CASE tokens' = [tokens EXCEPT ![v] = Live(v)]
        BY <1>2, <3>1
      <3>2. CASE tokens' = [tokens EXCEPT ![v] = Live(v) \cup {t}]
        <4> HIDE DEF v
        <4> QED BY <1>0, <3>2 DEF KeepsLive, Live
      <3> QED BY <2>4, <3>1, <3>2 DEF Reserve
    <2>5. CASE ReturnReservation(t)
      BY <1>0, <2>5 DEF ReturnReservation, KeepsLive
    <2> QED BY <1>3, <2>1, <2>2, <2>3, <2>4, <2>5
        DEF DispatchStep, CheckLease, RecheckLease, SelectSlot, StartContainer,
            StartThrows
  <1>4. ASSUME NEW t \in Token, TaskStep(t) PROVE KeepsLive
    <2>1. CASE UNCHANGED tokens  BY <1>1, <2>1
    <2>2. CASE Verify(t)  BY <1>2, <2>2 DEF Verify
    <2>3. CASE Touch(t)
      <3> DEFINE v == dispatch[t].slot
      <3>1. CASE tokens' = [tokens EXCEPT ![v] = Live(v) \cup {t}]
        <4> HIDE DEF v
        <4> QED BY <1>0, <3>1 DEF KeepsLive, Live
      <3> QED BY <2>1, <2>3, <3>1 DEF Touch
    <2>4. CASE RevokeLease(t)
      <3>1. ~HoldsLease(t) \/ call[t] = "conflict"
        BY <2>4 DEF RevokeLease, AnsweredLost, Authority
      <3> QED BY <1>0, <2>4, <3>1 DEF RevokeLease, KeepsLive
    <2> QED BY <1>4, <2>1, <2>2, <2>3, <2>4
        DEF TaskStep, StopTask, HandleBeat, HandleRpc, HandleFinish
  <1>5. ASSUME NEW s \in Slots, NEW r \in Runs, SweepRun(r, s) PROVE KeepsLive
    <2>1. status[r] = "ended"
      BY <1>5 DEF SweepRun, Authority
    <2>2. tokens' = [tokens EXCEPT ![s] = {u \in @ : u[1] # r}]
      BY <1>5 DEF SweepRun
    <2> QED BY <1>0, <2>1, <2>2 DEF KeepsLive, HoldsLease
  <1>6. ASSUME NEW s \in Slots, Warm(s) PROVE KeepsLive
    BY <1>2, <1>6 DEF Warm
  <1>7. CASE RunNext
    BY <1>1, <1>7 DEF RunNext, Claim, Release, Cancel, FailRun, RowFrame
  <1>8. CASE TokenNext
    BY <1>1, <1>3, <1>4, <1>8
       DEF TokenNext, SweepFails, SendCall, AnswerConflict, RevokeFails, Expire,
           ExpireInUse
  <1>9. CASE SlotNext
    BY <1>1, <1>5, <1>6, <1>9
       DEF SlotNext, SweepRunFails, BeginShutdown, StopContainer
  <1>10. CASE UNCHANGED vars
    BY <1>1, <1>10 DEF vars
  <1> QED BY <1>7, <1>8, <1>9, <1>10 DEF Next

\* Nobody takes the token of the owning lease away: not the delayed sweep of an
\* older dispatch, nor the cleanup of a lost lease or of a finished run; only
\* its own start, its expiry and a "Lease lost" told to the owner itself do.
THEOREM LiveTokens == Spec => LiveTokenIsKept
  <1>1. TypeOK /\ Authority /\ [Next]_vars => [KeepsLive]_vars
    BY LiveNext
  <1>2. KeepsLive <=> (\A s \in Slots : \A t \in tokens[s] :
          HoldsLease(t) /\ t \notin tokens'[s] =>
            t \in stale \/ dispatch[t].pc = "revoke" \/ call[t] = "conflict")
    BY DEF KeepsLive
  <1> QED BY <1>1, <1>2, AuthorityInit, AuthorityNext, PoolTypeCorrect, PTL
      DEF Spec, LiveTokenIsKept
=============================================================================
