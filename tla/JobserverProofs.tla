--------------------------- MODULE JobserverProofs --------------------------
(***************************************************************************)
(* Theorems about Jobserver for every set of runs, launchers and tokens.   *)
(***************************************************************************)
EXTENDS Jobserver, FiniteSetTheorems, TLAPS

\* Every action of the client and of its environment, expanded in the step
\* proofs below.
LEMMA TypeInit == Init => TypeOK
  BY RunsAssumption, TokensAssumption DEF Init, TypeOK, PCs

LEMMA TypeStep == TypeOK /\ [Next]_vars => TypeOK'
  <1> SUFFICES ASSUME TypeOK, [Next]_vars PROVE TypeOK'
    OBVIOUS
  <1> USE DEF TypeOK, PCs, Goto
  <1>1. ASSUME NEW r \in Runs, Call(r) PROVE TypeOK'
    BY <1>1 DEF Call
  <1>2. ASSUME NEW r \in Runs, CheckEnded(r) PROVE TypeOK'
    BY <1>2 DEF CheckEnded
  <1>3. ASSUME NEW r \in Runs, TryImplicit(r) PROVE TypeOK'
    BY <1>3 DEF TryImplicit
  <1>4. ASSUME NEW r \in Runs, TryToken(r) PROVE TypeOK'
    BY <1>4 DEF TryToken
  <1>5. ASSUME NEW r \in Runs, SelectReady(r) \/ Recheck(r) PROVE TypeOK'
    BY <1>5 DEF SelectReady, Recheck
  <1>6. ASSUME NEW r \in Runs, DrainWakes(r) \/ WakeWaiters(r) PROVE TypeOK'
    BY <1>6 DEF DrainWakes, WakeWaiters
  <1>7. ASSUME NEW r \in Runs, FreeImplicit(r) PROVE TypeOK'
    BY <1>7 DEF FreeImplicit
  <1>8. ASSUME NEW r \in Runs, ReturnToken(r) PROVE TypeOK'
    BY <1>8 DEF ReturnToken
  <1>9. CASE SetClosed \/ CloseWakes \/ Kill
    BY <1>9 DEF SetClosed, CloseWakes, Kill
  <1>10. ASSUME NEW r \in Runs, Cancel(r) PROVE TypeOK'
    BY <1>10 DEF Cancel
  <1>11. ASSUME NEW t \in Tokens, OthersTake(t) \/ OthersReturn(t) PROVE TypeOK'
    BY <1>11 DEF OthersTake, OthersReturn
  <1>12. CASE UNCHANGED vars
    BY <1>12 DEF vars
  <1>13. QED
    BY <1>1, <1>2, <1>3, <1>4, <1>5, <1>6, <1>7, <1>8, <1>9, <1>10, <1>11, <1>12
    DEF Next, Step, Release, Environment

\* Type correctness: slot(), close() and the other clients keep every variable
\* in its range whatever the runs and tokens are.
THEOREM TypeCorrect == Spec => []TypeOK
  BY TypeInit, TypeStep, PTL DEF Spec

-----------------------------------------------------------------------------
(* The slots.  HoldsOneSlot and TokensConserved are inductive together: that *)
(* a token taken from the pipe is nobody's needs the second, that a run that *)
(* returns one holds it needs the first.                                     *)

LEMMA SlotInit == Init => SlotInv
  BY RunsAssumption, TokensAssumption
  DEF Init, SlotInv, HoldsOneSlot, TokensConserved

LEMMA SlotStep == TypeOK /\ SlotInv /\ [Next]_vars => SlotInv'
  <1> SUFFICES ASSUME TypeOK, SlotInv, [Next]_vars PROVE SlotInv'
    OBVIOUS
  <1> USE RunsAssumption, TokensAssumption
      DEF TypeOK, PCs, Goto, SlotInv, HoldsOneSlot, TokensConserved
  <1>1. ASSUME NEW r \in Runs, Call(r) PROVE SlotInv'
    BY <1>1 DEF Call
  <1>2. ASSUME NEW r \in Runs, CheckEnded(r) PROVE SlotInv'
    BY <1>2 DEF CheckEnded
  <1>3. ASSUME NEW r \in Runs, TryImplicit(r) PROVE SlotInv'
    BY <1>3 DEF TryImplicit
  <1>4. ASSUME NEW r \in Runs, TryToken(r) PROVE SlotInv'
    BY <1>4 DEF TryToken
  <1>5. ASSUME NEW r \in Runs, SelectReady(r) \/ Recheck(r) PROVE SlotInv'
    BY <1>5 DEF SelectReady, Recheck
  <1>6. ASSUME NEW r \in Runs, DrainWakes(r) \/ WakeWaiters(r) PROVE SlotInv'
    BY <1>6 DEF DrainWakes, WakeWaiters
  <1>7. ASSUME NEW r \in Runs, FreeImplicit(r) PROVE SlotInv'
    BY <1>7 DEF FreeImplicit
  <1>8. ASSUME NEW r \in Runs, ReturnToken(r) PROVE SlotInv'
    BY <1>8 DEF ReturnToken
  <1>9. CASE SetClosed \/ CloseWakes \/ Kill
    BY <1>9 DEF SetClosed, CloseWakes, Kill
  <1>10. ASSUME NEW r \in Runs, Cancel(r) PROVE SlotInv'
    BY <1>10 DEF Cancel
  <1>11. ASSUME NEW t \in Tokens, OthersTake(t) \/ OthersReturn(t) PROVE SlotInv'
    BY <1>11 DEF OthersTake, OthersReturn
  <1>12. CASE UNCHANGED vars
    BY <1>12 DEF vars
  <1>13. QED
    BY <1>1, <1>2, <1>3, <1>4, <1>5, <1>6, <1>7, <1>8, <1>9, <1>10, <1>11, <1>12
    DEF Next, Step, Release, Environment

LEMMA SlotInvariant == Spec => []SlotInv
  BY SlotInit, SlotStep, TypeCorrect, PTL DEF Spec

\* A run works exactly while it holds one slot, and a launcher never has the
\* implicit one.
THEOREM EveryRunHoldsOneSlot == Spec => []HoldsOneSlot
  <1>1. SlotInv => HoldsOneSlot
    BY DEF SlotInv
  <1>2. QED
    BY <1>1, SlotInvariant, PTL

\* No token is lost, duplicated or returned twice by the client.
THEOREM ConservationOfTokens == Spec => []TokensConserved
  <1>1. SlotInv => TokensConserved
    BY DEF SlotInv
  <1>2. QED
    BY <1>1, SlotInvariant, PTL

-----------------------------------------------------------------------------
(* The worker cap: the tokens held here and those out with other clients are *)
(* disjoint subsets of Tokens, and one run more can hold the implicit slot.  *)

LEMMA CapFollows ==
  ASSUME TypeOK, SlotInv
  PROVE  WorkerCap
  <1> DEFINE W == {r \in Runs : held[r] # NoToken}
             Free == Tokens \ others
             f == [r \in W |-> held[r]]
  <1>1. /\ IsFiniteSet(others) /\ Cardinality(others) \in Nat
        /\ IsFiniteSet(Free) /\ Cardinality(Free) = Cardinality(Tokens) - Cardinality(others)
        /\ Cardinality(Tokens) \in Nat
    <2>1. others \in SUBSET Tokens /\ Tokens \cap others = others
      BY DEF TypeOK
    <2>2. QED
      BY <2>1, FS_Subset, FS_Difference, FS_CardinalityType, TokensAssumption
  <1>2. f \in Injection(W, Free)
    <2>1. \A r \in W : held[r] \in Free
      BY DEF TypeOK, SlotInv, TokensConserved
    <2>2. \A r, q \in W : f[r] = f[q] => r = q
      BY DEF SlotInv, TokensConserved
    <2>3. QED
      BY <2>1, <2>2 DEF Injection, IsInjective
  <1>3. IsFiniteSet(W) /\ Cardinality(W) <= Cardinality(Free) /\ Cardinality(W) \in Nat
    <2> HIDE DEF W, Free, f
    <2>1. QED
      BY <1>1, <1>2, FS_Injection, FS_CardinalityType
  <1>4. Working \in SUBSET (W \union {implicit})
    BY DEF TypeOK, SlotInv, HoldsOneSlot, Working
  <1>5. /\ IsFiniteSet(W \union {implicit})
        /\ Cardinality(W \union {implicit}) <= Cardinality(W) + 1
        /\ Cardinality(W \union {implicit}) \in Nat
    <2> HIDE DEF W
    <2>1. /\ IsFiniteSet(W \union {implicit})
          /\ Cardinality(W \union {implicit}) =
               IF implicit \in W THEN Cardinality(W) ELSE Cardinality(W) + 1
      BY <1>3, FS_AddElement
    <2>2. QED
      BY <1>3, <2>1
  <1>6. Cardinality(Working) <= Cardinality(W) + 1 /\ Cardinality(Working) \in Nat
    <2> HIDE DEF W
    <2>1. IsFiniteSet(Working) /\ Cardinality(Working) <= Cardinality(W \union {implicit})
      BY <1>4, <1>5, FS_Subset
    <2>2. QED
      BY <1>3, <1>5, <2>1, FS_CardinalityType
  <1>7. QED
    <2> HIDE DEF W, Free
    <2>1. QED
      BY <1>1, <1>3, <1>6 DEF WorkerCap

\* For every finite number of tokens, the runs working in this process and the
\* tokens held elsewhere keep to the cap make was given.
THEOREM CapHolds == Spec => []WorkerCap
  <1>1. TypeOK /\ SlotInv => WorkerCap
    BY CapFollows
  <1>2. QED
    BY <1>1, TypeCorrect, SlotInvariant, PTL

-----------------------------------------------------------------------------
(* No missed wake.                                                          *)

LEMMA WakeStep == TypeOK /\ WakeInv /\ [Next]_vars => WakeInv'
  <1> SUFFICES ASSUME TypeOK, WakeInv, [Next]_vars PROVE WakeInv'
    OBVIOUS
  <1> USE RunsAssumption DEF TypeOK, PCs, Goto, WakeInv, WakeComing, Disturbed
  <1>1. ASSUME NEW r \in Runs, Call(r) PROVE WakeInv'
    BY <1>1 DEF Call
  <1>2. ASSUME NEW r \in Runs, CheckEnded(r) PROVE WakeInv'
    BY <1>2 DEF CheckEnded
  <1>3. ASSUME NEW r \in Runs, TryImplicit(r) PROVE WakeInv'
    BY <1>3 DEF TryImplicit
  <1>4. ASSUME NEW r \in Runs, TryToken(r) PROVE WakeInv'
    BY <1>4 DEF TryToken
  <1>5. ASSUME NEW r \in Runs, SelectReady(r) \/ Recheck(r) PROVE WakeInv'
    BY <1>5 DEF SelectReady, Recheck
  <1>6. ASSUME NEW r \in Runs, DrainWakes(r) \/ WakeWaiters(r) PROVE WakeInv'
    BY <1>6 DEF DrainWakes, WakeWaiters
  <1>7. ASSUME NEW r \in Runs, FreeImplicit(r) PROVE WakeInv'
    BY <1>7 DEF FreeImplicit
  <1>8. ASSUME NEW r \in Runs, ReturnToken(r) PROVE WakeInv'
    BY <1>8 DEF ReturnToken
  <1>9. CASE SetClosed \/ CloseWakes \/ Kill
    BY <1>9 DEF SetClosed, CloseWakes, Kill
  <1>10. ASSUME NEW r \in Runs, Cancel(r) PROVE WakeInv'
    BY <1>10 DEF Cancel
  <1>11. ASSUME NEW t \in Tokens, OthersTake(t) \/ OthersReturn(t)
         PROVE WakeInv'
    BY <1>11 DEF OthersTake, OthersReturn
  <1>12. CASE UNCHANGED vars
    BY <1>12 DEF vars
  <1>13. QED
    BY <1>1, <1>2, <1>3, <1>4, <1>5, <1>6, <1>7, <1>8, <1>9, <1>10, <1>11, <1>12
    DEF Next, Step, Release, Environment

\* Without launchers and cancellations a freed implicit slot is never left
\* unnoticed by sleeping runs, however their drains interleave.
THEOREM WakesAreNotMissed == Spec => []NoMissedWake
  <1>1. Init => WakeInv
    BY DEF Init, WakeInv
  <1>2. WakeInv => NoMissedWake
    BY DEF WakeInv, NoMissedWake, Asleep
  <1>3. QED
    BY <1>1, <1>2, WakeStep, TypeCorrect, PTL DEF Spec

-----------------------------------------------------------------------------
(* Jobserver implements SlotPool.                                            *)

LEMMA PoolInit == Init => Pool!Init
  <1> SUFFICES ASSUME Init PROVE Pool!Init
    OBVIOUS
  <1>1. SlotHolder \in [Slots -> {"others", "nobody"}]
    BY TokensAssumption DEF Init, SlotHolder, Slots, ImplicitSlot
  <1>2. RunPhase = [r \in Runs |-> "outside"]
    BY DEF Init, RunPhase
  <1>3. QED
    BY <1>1, <1>2 DEF Pool!Init

\* What SlotHolder says of each kind of slot; every slot is of one of them.
HolderFacts ==
  /\ Slots = {ImplicitSlot} \union pipe \union others
              \union {held[r] : r \in Runs}
  /\ SlotHolder = [s \in Slots |-> SlotHolder[s]]
  /\ SlotHolder[ImplicitSlot] = IF implicit = NoRun THEN "nobody"
                                ELSE IF alive THEN implicit ELSE "lost"
  /\ \A s \in pipe : SlotHolder[s] = "nobody"
  /\ \A s \in others : SlotHolder[s] = "others"
  /\ \A r \in Runs : held[r] # NoToken =>
       SlotHolder[held[r]] = IF alive THEN r ELSE "lost"

LEMMA HolderOf == TypeOK /\ SlotInv => HolderFacts
  <1> SUFFICES ASSUME TypeOK, SlotInv PROVE HolderFacts
    OBVIOUS
  <1>1. ASSUME NEW r \in Runs, held[r] # NoToken
        PROVE  (CHOOSE q \in Runs : held[q] = held[r]) = r
    BY <1>1 DEF SlotInv, TokensConserved
  <1>2. Slots = {ImplicitSlot} \union pipe \union others \union {held[r] : r \in Runs}
    BY DEF Slots, ImplicitSlot, TypeOK, SlotInv, TokensConserved
  <1>3. SlotHolder = [s \in Slots |-> SlotHolder[s]]
    BY DEF SlotHolder
  <1>4. QED
    BY <1>1, <1>2, <1>3, TokensAssumption
    DEF HolderFacts, SlotHolder, Slots, ImplicitSlot, TypeOK, SlotInv, TokensConserved

\* A step that leaves alive alone, and in which slot s neither enters nor leaves
\* the pipe, the other clients or a run's hands, leaves its holder alone.
LEMMA SameHolder ==
  ASSUME HolderFacts, HolderFacts', TypeOK, TypeOK', NEW s \in Slots,
         UNCHANGED alive,
         s \in pipe <=> s \in pipe', s \in others <=> s \in others',
         s = ImplicitSlot => implicit' = implicit,
         \A r \in Runs : held[r] = s => held'[r] = s
  PROVE  SlotHolder'[s] = SlotHolder[s]
  <1>1. CASE s = ImplicitSlot
    BY <1>1 DEF HolderFacts, ImplicitSlot
  <1>2. CASE s \in pipe \/ s \in others
    BY <1>2 DEF HolderFacts
  <1>3. ASSUME NEW r \in Runs, s = held[r], s # ImplicitSlot
        PROVE  SlotHolder'[s] = SlotHolder[s]
    BY <1>3 DEF HolderFacts, ImplicitSlot
  <1>4. QED
    BY <1>1, <1>2, <1>3 DEF HolderFacts

\* A step that changes the holder of slot s only.
LEMMA OneHolder ==
  ASSUME HolderFacts, HolderFacts', NEW s \in Slots, NEW h,
         SlotHolder'[s] = h,
         \A q \in Slots : q # s => SlotHolder'[q] = SlotHolder[q]
  PROVE  SlotHolder' = [SlotHolder EXCEPT ![s] = h]
  BY DEF HolderFacts, Slots, ImplicitSlot

LEMMA PoolStep ==
  TypeOK /\ SlotInv /\ HolderFacts /\ TypeOK' /\ SlotInv' /\ HolderFacts' /\ [Next]_vars
    => [Pool!Next]_(Pool!vars)
  <1> SUFFICES ASSUME TypeOK, SlotInv, HolderFacts, TypeOK', SlotInv', HolderFacts',
                      [Next]_vars
               PROVE  [Pool!Next]_(Pool!vars)
    OBVIOUS
  <1> DEFINE Goal == [Pool!Next]_(Pool!vars)
  <1>1. ASSUME UNCHANGED <<implicit, held, pipe, others, alive>>
        PROVE  UNCHANGED SlotHolder
    BY <1>1 DEF SlotHolder, Slots
  <1>2. ASSUME NEW r \in Runs, Call(r) \/ SelectReady(r) \/ Recheck(r) \/ DrainWakes(r)
                              \/ WakeWaiters(r)
        PROVE  Goal
    <2>1. UNCHANGED <<implicit, held, pipe, others, alive>>
      BY <1>2 DEF Call, SelectReady, Recheck, DrainWakes, WakeWaiters
    <2>2. UNCHANGED RunPhase
      BY <1>2 DEF Call, SelectReady, Recheck, DrainWakes, WakeWaiters, Goto, RunPhase,
                  TypeOK
    <2>3. QED
      BY <1>1, <2>1, <2>2 DEF Pool!vars
  <1>3. ASSUME NEW r \in Runs, CheckEnded(r) PROVE Goal
    <2>1. UNCHANGED SlotHolder
      BY <1>1, <1>3 DEF CheckEnded
    <2>2. CASE UNCHANGED RunPhase
      BY <2>1, <2>2 DEF Pool!vars
    <2>3. CASE pc' = [pc EXCEPT ![r] = "refused"]
      <3>1. RunPhase[r] = "outside" /\ RunPhase' = [RunPhase EXCEPT ![r] = "left"]
        BY <1>3, <2>3 DEF CheckEnded, Goto, RunPhase, TypeOK
      <3>2. QED
        BY <2>1, <3>1 DEF Pool!Refuse, Pool!Next
    <2>4. QED
      BY <1>3, <2>2, <2>3 DEF CheckEnded, Goto, RunPhase, TypeOK
  <1>4. ASSUME NEW r \in Runs, TryImplicit(r) PROVE Goal
    <2>1. CASE implicit = NoRun
      <3>1. RunPhase[r] = "outside" /\ RunPhase' = [RunPhase EXCEPT ![r] = "working"]
        BY <1>4, <2>1 DEF TryImplicit, Goto, RunPhase, TypeOK
      <3>2. SlotHolder[ImplicitSlot] = "nobody"
        BY <2>1 DEF HolderFacts
      <3>3. SlotHolder' = [SlotHolder EXCEPT ![ImplicitSlot] = r]
        <4>1. ImplicitSlot \in Slots /\ SlotHolder'[ImplicitSlot] = r
          BY <1>4, <2>1, RunsAssumption DEF TryImplicit, Goto, HolderFacts
        <4>2. ASSUME NEW q \in Slots, q # ImplicitSlot
              PROVE  SlotHolder'[q] = SlotHolder[q]
          BY <1>4, <4>2, SameHolder DEF TryImplicit
        <4>3. QED
          BY <4>1, <4>2, OneHolder
      <3>4. QED
        BY <3>1, <3>2, <3>3 DEF Pool!Admit, Pool!Next, Slots
    <2>2. CASE implicit # NoRun
      <3>1. UNCHANGED SlotHolder
        BY <1>1, <1>4, <2>2 DEF TryImplicit
      <3>2. UNCHANGED RunPhase
        BY <1>4, <2>2 DEF TryImplicit, Goto, RunPhase, TypeOK
      <3>3. QED
        BY <3>1, <3>2 DEF Pool!vars
    <2>3. QED
      BY <2>1, <2>2
  <1>5. ASSUME NEW r \in Runs, TryToken(r) PROVE Goal
    <2>1. CASE pipe = {}
      <3>1. UNCHANGED SlotHolder
        BY <1>1, <1>5, <2>1 DEF TryToken
      <3>2. UNCHANGED RunPhase
        BY <1>5, <2>1 DEF TryToken, Goto, RunPhase, TypeOK
      <3>3. QED
        BY <3>1, <3>2 DEF Pool!vars
    <2>2. ASSUME NEW t \in pipe, pipe' = pipe \ {t}, held' = [held EXCEPT ![r] = t],
                 Goto(r, "tryToken", "working"),
                 UNCHANGED <<implicit, others, alive>>
          PROVE  Goal
      <3>1. RunPhase[r] = "outside" /\ RunPhase' = [RunPhase EXCEPT ![r] = "working"]
        BY <2>2 DEF Goto, RunPhase, TypeOK
      <3>2. SlotHolder[t] = "nobody" /\ t \in Slots
        BY <2>2 DEF HolderFacts
      <3>3. SlotHolder' = [SlotHolder EXCEPT ![t] = r]
        <4>1. ASSUME NEW s \in Slots, s # t PROVE SlotHolder'[s] = SlotHolder[s]
          <5>1. held[r] = NoToken
            BY <2>2 DEF SlotInv, HoldsOneSlot, Goto
          <5>2. CASE s = ImplicitSlot
            BY <5>2, <2>2 DEF HolderFacts
          <5>3. CASE s # ImplicitSlot
            BY <5>1, <5>3, <4>1, <2>2, SameHolder DEF TypeOK, ImplicitSlot
          <5>4. QED
            BY <5>2, <5>3
        <4>2. SlotHolder'[t] = r
          BY <2>2, TokensAssumption DEF HolderFacts, TypeOK, Goto
        <4>3. QED
          BY <4>1, <4>2, <3>2, OneHolder
      <3>4. QED
        BY <3>1, <3>2, <3>3 DEF Pool!Admit, Pool!Next
    <2>3. QED
      BY <1>5, <2>1, <2>2 DEF TryToken
  <1>6. ASSUME NEW r \in Runs, FreeImplicit(r) PROVE Goal
    <2>1. RunPhase[r] = "working" /\ RunPhase' = [RunPhase EXCEPT ![r] = "left"]
      BY <1>6 DEF FreeImplicit, Goto, RunPhase, TypeOK
    <2>2. SlotHolder[ImplicitSlot] = r
      BY <1>6, RunsAssumption DEF FreeImplicit, Goto, HolderFacts
    <2>3. SlotHolder' = [SlotHolder EXCEPT ![ImplicitSlot] = "nobody"]
      <3>1. ImplicitSlot \in Slots /\ SlotHolder'[ImplicitSlot] = "nobody"
        BY <1>6 DEF FreeImplicit, HolderFacts
      <3>2. ASSUME NEW q \in Slots, q # ImplicitSlot
            PROVE  SlotHolder'[q] = SlotHolder[q]
        BY <1>6, <3>2, SameHolder DEF FreeImplicit
      <3>3. QED
        BY <3>1, <3>2, OneHolder
    <2>4. QED
      BY <2>1, <2>2, <2>3 DEF Pool!Leave, Pool!Next, Slots
  <1>7. ASSUME NEW r \in Runs, ReturnToken(r) PROVE Goal
    <2>1. RunPhase[r] = "working" /\ RunPhase' = [RunPhase EXCEPT ![r] = "left"]
      BY <1>7 DEF ReturnToken, Goto, RunPhase, TypeOK
    <2>2. SlotHolder[held[r]] = r /\ held[r] \in Slots
      BY <1>7 DEF ReturnToken, Goto, HolderFacts
    <2>3. SlotHolder' = [SlotHolder EXCEPT ![held[r]] = "nobody"]
      <3>1. ASSUME NEW s \in Slots, s # held[r] PROVE SlotHolder'[s] = SlotHolder[s]
        <4>1. CASE s = ImplicitSlot
          BY <4>1, <1>7 DEF ReturnToken, HolderFacts
        <4>2. CASE s # ImplicitSlot
          BY <4>2, <3>1, <1>7, SameHolder DEF ReturnToken, TypeOK, ImplicitSlot
        <4>3. QED
          BY <4>1, <4>2
      <3>2. SlotHolder'[held[r]] = "nobody"
        BY <1>7, TokensAssumption DEF ReturnToken, HolderFacts, TypeOK, Goto
      <3>3. QED
        BY <3>1, <3>2, <2>2, OneHolder
    <2>4. QED
      BY <2>1, <2>2, <2>3 DEF Pool!Leave, Pool!Next
  <1>8. CASE SetClosed \/ CloseWakes \/ (\E r \in Runs : Cancel(r)) \/ UNCHANGED vars
    <2>1. UNCHANGED <<pc, implicit, held, pipe, others, alive>>
      BY <1>8 DEF SetClosed, CloseWakes, Cancel, vars
    <2>2. QED
      BY <1>1, <2>1 DEF Pool!vars, RunPhase
  <1>9. ASSUME NEW t \in Tokens, OthersTake(t) PROVE Goal
    <2>1. SlotHolder[t] = "nobody" /\ t \in Slots
      BY <1>9 DEF OthersTake, HolderFacts
    <2>2. SlotHolder' = [SlotHolder EXCEPT ![t] = "others"]
      <3>1. ASSUME NEW q \in Slots, q # t PROVE SlotHolder'[q] = SlotHolder[q]
        BY <1>9, <3>1, SameHolder DEF OthersTake
      <3>2. SlotHolder'[t] = "others"
        BY <1>9 DEF OthersTake, HolderFacts
      <3>3. QED
        BY <2>1, <3>1, <3>2, OneHolder
    <2>3. UNCHANGED RunPhase
      BY <1>9 DEF OthersTake, RunPhase
    <2>4. QED
      BY <2>1, <2>2, <2>3 DEF Pool!OthersTake, Pool!Next
  <1>10. ASSUME NEW t \in Tokens, OthersReturn(t) PROVE Goal
    <2>1. SlotHolder[t] = "others" /\ t \in Slots
      BY <1>10 DEF OthersReturn, HolderFacts
    <2>2. SlotHolder' = [SlotHolder EXCEPT ![t] = "nobody"]
      <3>1. ASSUME NEW q \in Slots, q # t PROVE SlotHolder'[q] = SlotHolder[q]
        BY <1>10, <3>1, SameHolder DEF OthersReturn
      <3>2. SlotHolder'[t] = "nobody"
        BY <1>10 DEF OthersReturn, HolderFacts
      <3>3. QED
        BY <2>1, <3>1, <3>2, OneHolder
    <2>3. UNCHANGED RunPhase
      BY <1>10 DEF OthersReturn, RunPhase
    <2>4. QED
      BY <2>1, <2>2, <2>3 DEF Pool!OthersGive, Pool!Next
  <1>11. CASE Kill
    <2>1. RunPhase' = [r \in Runs |-> IF RunPhase[r] = "left" THEN "left" ELSE "killed"]
      BY <1>11 DEF Kill, RunPhase
    <2>2. SlotHolder' = [s \in Slots |-> IF SlotHolder[s] \in Runs THEN "lost"
                                         ELSE SlotHolder[s]]
      <3>1. ASSUME NEW s \in Slots
            PROVE  SlotHolder'[s] = IF SlotHolder[s] \in Runs THEN "lost"
                                    ELSE SlotHolder[s]
        <4> USE <1>11, RunsAssumption DEF Kill, HolderFacts, TypeOK
        <4>1. CASE s = ImplicitSlot
          BY <4>1
        <4>2. CASE s \in pipe \/ s \in others
          BY <4>2
        <4>3. ASSUME NEW r \in Runs, s = held[r], s # ImplicitSlot
              PROVE  SlotHolder'[s] = IF SlotHolder[s] \in Runs THEN "lost"
                                      ELSE SlotHolder[s]
          <5>1. held'[r] = held[r] /\ held[r] # NoToken
            BY <4>3 DEF ImplicitSlot
          <5>2. SlotHolder[s] = r
            BY <4>3, <5>1
          <5>3. SlotHolder'[s] = "lost"
            BY <4>3, <5>1
          <5>4. QED
            BY <5>2, <5>3
        <4>4. QED
          BY <3>1, <4>1, <4>2, <4>3
      <3>2. Slots' = Slots
        BY DEF Slots, ImplicitSlot
      <3>3. QED
        BY <3>1, <3>2 DEF HolderFacts
    <2>3. QED
      BY <2>1, <2>2 DEF Pool!Die, Pool!Next
  <1>12. QED
    BY <1>2, <1>3, <1>4, <1>5, <1>6, <1>7, <1>8, <1>9, <1>10, <1>11
    DEF Next, Step, Release, Environment

\* The client keeps SlotPool's promise: seen from outside, slots change hands
\* one at a time, each held by one party, whatever the waits in between do.
THEOREM ImplementsSlotPool == Spec => SlotPoolSpec
  <1>1. Init => Pool!Init
    BY PoolInit
  <1>2. QED
    BY <1>1, PoolStep, HolderOf, TypeCorrect, SlotInvariant, PTL
    DEF Spec, SlotPoolSpec, Pool!Spec

=============================================================================
