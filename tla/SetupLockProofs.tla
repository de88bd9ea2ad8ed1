-------------------------- MODULE SetupLockProofs ---------------------------
(***************************************************************************)
(* Theorems about SetupLock for every number of processes, threads and open *)
(* files, and every depth of nesting.                                      *)
(***************************************************************************)
EXTENDS SetupLock, TLAPS

LEMMA TypeInit == Init => TypeOK
  BY LockAssumption DEF Init, TypeOK, PCs

LEMMA TypeStep == TypeOK /\ [Next]_vars => TypeOK'
  <1> SUFFICES ASSUME TypeOK, [Next]_vars PROVE TypeOK'
    OBVIOUS
  <1> USE LockAssumption DEF TypeOK, PCs, Goto
  <1>1. ASSUME NEW p \in Procs, NEW t \in Threads, Enter(p, t) PROVE TypeOK'
    BY <1>1 DEF Enter
  <1>2. ASSUME NEW p \in Procs, NEW t \in Threads, EnterNested(p, t) PROVE TypeOK'
    BY <1>2 DEF EnterNested
  <1>3. ASSUME NEW p \in Procs, NEW t \in Threads, OpenFile(p, t) PROVE TypeOK'
    <2>1. ASSUME NEW f \in Files, Goto(p, t, "opening", "locking"),
                 open' = [open EXCEPT ![p] = @ \union {f}],
                 desc' = [desc EXCEPT ![p][t] = f]
          PROVE  TypeOK'
      BY <1>3, <2>1 DEF OpenFile
    <2>2. CASE Goto(p, t, "opening", "unlocking") /\ UNCHANGED <<open, desc>>
      BY <1>3, <2>2 DEF OpenFile
    <2> QED
      BY <1>3, <2>1, <2>2 DEF OpenFile
  <1>4. ASSUME NEW p \in Procs, NEW t \in Threads, Flock(p, t) PROVE TypeOK'
    <2>1. desc[p][t] \in Files \union {NoFile}
      OBVIOUS
    <2>2. flock' \in Files \union {NoFile}
      BY <1>4, <2>1 DEF Flock
    <2>3. setupFd' \in [Procs -> Files \union {NoFile}]
      BY <1>4 DEF Flock
    <2>4. pc' \in [Procs -> [Threads -> PCs]]
      <3>1. PICK to \in {"locked", "closing"} : pc' = [pc EXCEPT ![p][t] = to]
        BY <1>4 DEF Flock
      <3> QED
        BY <3>1
    <2> QED
      BY <1>4, <2>2, <2>3, <2>4 DEF Flock
  <1>5. ASSUME NEW p \in Procs, NEW t \in Threads, SetFd(p, t) PROVE TypeOK'
    BY <1>5 DEF SetFd
  <1>6. ASSUME NEW p \in Procs, NEW t \in Threads, LeaveNested(p, t) PROVE TypeOK'
    BY <1>6 DEF LeaveNested
  <1>7. ASSUME NEW p \in Procs, NEW t \in Threads, ClearFd(p, t) PROVE TypeOK'
    BY <1>7 DEF ClearFd
  <1>8. ASSUME NEW p \in Procs, NEW t \in Threads, CloseFile(p, t) PROVE TypeOK'
    BY <1>8 DEF CloseFile, FlockWith
  <1>9. ASSUME NEW p \in Procs, NEW t \in Threads, Unlock(p, t) PROVE TypeOK'
    BY <1>9 DEF Unlock
  <1>10. ASSUME NEW p \in Procs, NEW t \in Threads, LeaveInherited(p, t) PROVE TypeOK'
    BY <1>10 DEF LeaveInherited
  <1>11. ASSUME NEW p \in Procs, NEW t \in Threads, NEW q \in Procs, Fork(p, t, q)
         PROVE TypeOK'
    BY <1>11 DEF Fork
  <1>12. ASSUME NEW q \in Procs, ResetAfterFork(q) PROVE TypeOK'
    BY <1>12 DEF ResetAfterFork, FlockWith
  <1>13. ASSUME NEW p \in Procs, End(p) PROVE TypeOK'
    BY <1>13 DEF End, FlockWith
  <1>14. CASE UNCHANGED vars
    BY <1>14 DEF vars
  <1>15. QED
    BY <1>1, <1>2, <1>3, <1>4, <1>5, <1>6, <1>7, <1>8, <1>9, <1>10, <1>11,
       <1>12, <1>13, <1>14 DEF Next, ThreadStep

\* Type correctness: every variable keeps its range through calls, forks and
\* ends of processes, whatever the constants are.
THEOREM TypeCorrect == Spec => []TypeOK
  BY TypeInit, TypeStep, PTL DEF Spec

-----------------------------------------------------------------------------
(* The lock.                                                               *)

\* A description that another process has open keeps the lock, and so does one
\* that stays open in the process that closes something.
LEMMA FlockKept ==
  ASSUME TypeOK, NEW p \in Procs, NEW kept,
         \/ flock \in kept
         \/ \E q \in Procs : q # p /\ flock \in open[q]
  PROVE  FlockWith(p, kept) = flock
  BY DEF FlockWith

LEMMA LockInit == Init => LockInv
  BY LockAssumption DEF Init, LockInv, InsideHasMutex, FdMeansOwner, DescIsOpen,
     DescsDiffer, LockedHasFlock, BodySetFd, Owns, HasFile

LEMMA LockStep == TypeOK /\ LockInv /\ [Next]_vars => LockInv'
  <1> SUFFICES ASSUME TypeOK, LockInv, [Next]_vars PROVE LockInv'
    OBVIOUS
  <1> USE LockAssumption DEF TypeOK, PCs, Goto, LockInv, Owns, HasFile
  <1> USE DEF InsideHasMutex, FdMeansOwner, DescIsOpen, DescsDiffer,
              LockedHasFlock, BodySetFd
  <1>1. ASSUME NEW p \in Procs, NEW t \in Threads, Enter(p, t) PROVE LockInv'
    BY <1>1 DEF Enter
  <1>2. ASSUME NEW p \in Procs, NEW t \in Threads, EnterNested(p, t) PROVE LockInv'
    <2>1. PICK u \in Threads : pc[p][u] = "body"
      BY <1>2 DEF EnterNested
    <2>2. mutex[p] = u /\ u # NoThread
      BY <2>1
    <2>3. pc[p][t] = "body"
      BY <1>2, <2>1, <2>2 DEF EnterNested
    <2> QED
      BY <1>2, <2>3 DEF EnterNested
  <1>3. ASSUME NEW p \in Procs, NEW t \in Threads, OpenFile(p, t) PROVE LockInv'
    <2>1. CASE Goto(p, t, "opening", "unlocking")
      BY <1>3, <2>1 DEF OpenFile
    <2>2. ASSUME NEW f \in Files \ UNION {open[q] : q \in Procs},
                 Goto(p, t, "opening", "locking"),
                 open' = [open EXCEPT ![p] = @ \union {f}],
                 desc' = [desc EXCEPT ![p][t] = f]
          PROVE  LockInv'
      <3>1. UNCHANGED <<life, mutex, setupFd, flock>>
        BY <1>3 DEF OpenFile
      <3>2. \A q \in Procs : f \notin open[q]
        BY <2>2
      <3>3. \A q \in Procs : \A u \in Threads : desc[q][u] # f
        BY <3>2, <2>2
      <3>4. InsideHasMutex' /\ FdMeansOwner' /\ LockedHasFlock' /\ BodySetFd'
        BY <2>2, <3>1
      <3>5. DescIsOpen'
        BY <2>2, <3>1
      <3>6. DescsDiffer'
        BY <2>2, <3>1, <3>3
      <3> QED
        BY <3>4, <3>5, <3>6
    <2> QED
      BY <1>3, <2>1, <2>2 DEF OpenFile
  <1>4. ASSUME NEW p \in Procs, NEW t \in Threads, Flock(p, t) PROVE LockInv'
    <2>1. CASE flock \in {NoFile, desc[p][t]}
      <3>1. \A q \in Procs : \A u \in Threads :
              pc[q][u] \in {"locked", "body"} => q = p /\ u = t
        <4>1. mutex[p] = t /\ pc[p][t] = "locking" /\ desc[p][t] # NoFile
          BY <1>4 DEF Flock
        <4>2. ASSUME NEW q \in Procs, NEW u \in Threads, pc[q][u] \in {"locked", "body"}
              PROVE  FALSE
          <5>1. flock = desc[q][u] /\ desc[q][u] # NoFile
            BY <4>2
          <5>2. CASE q = p
            <6>1. mutex[q] = u
              BY <4>2
            <6>2. u = t
              BY <4>1, <5>2, <6>1
            <6> QED
              BY <4>1, <4>2, <5>2, <6>2
          <5>3. CASE q # p
            BY <2>1, <4>1, <5>1, <5>3
          <5> QED
            BY <5>2, <5>3
        <4> QED
          BY <4>2
      <3>2. /\ pc' = [pc EXCEPT ![p][t] = "locked"] /\ flock' = desc[p][t]
            /\ UNCHANGED <<life, mutex, setupFd, desc, open>>
            /\ life[p] = "live" /\ mutex[p] = t /\ pc[p][t] = "locking"
        BY <1>4, <2>1 DEF Flock
      <3>3. InsideHasMutex' /\ FdMeansOwner' /\ DescIsOpen' /\ DescsDiffer' /\ BodySetFd'
        BY <3>2
      <3>4. LockedHasFlock'
        BY <3>1, <3>2
      <3> QED
        BY <3>3, <3>4
    <2>2. CASE flock \notin {NoFile, desc[p][t]}
      <3>1. /\ pc' = [pc EXCEPT ![p][t] = "closing"]
            /\ setupFd' = [setupFd EXCEPT ![p] = NoFile]
            /\ UNCHANGED <<life, mutex, desc, open, flock>>
            /\ pc[p][t] = "locking"
        BY <1>4, <2>2 DEF Flock
      <3>2. \A u \in Threads : pc[p][u] # "body"
        <4>1. mutex[p] = t
          BY <3>1
        <4>2. ASSUME NEW u \in Threads, pc[p][u] = "body" PROVE FALSE
          <5>1. mutex[p] = u
            BY <4>2
          <5> QED
            BY <3>1, <4>1, <4>2, <5>1
        <4> QED
          BY <4>2
      <3> QED
        BY <3>1, <3>2
    <2> QED
      BY <1>4, <2>1, <2>2 DEF Flock
  <1>5. ASSUME NEW p \in Procs, NEW t \in Threads, SetFd(p, t) PROVE LockInv'
    BY <1>5 DEF SetFd
  <1>6. ASSUME NEW p \in Procs, NEW t \in Threads, LeaveNested(p, t) PROVE LockInv'
    BY <1>6 DEF LeaveNested
  <1>7. ASSUME NEW p \in Procs, NEW t \in Threads, ClearFd(p, t) PROVE LockInv'
    BY <1>7 DEF ClearFd
  <1>8. ASSUME NEW p \in Procs, NEW t \in Threads, CloseFile(p, t) PROVE LockInv'
    <2>1. \A q \in Procs : \A u \in Threads :
            pc'[q][u] \in {"locked", "body"} => flock' = flock
      <3> SUFFICES ASSUME NEW q \in Procs, NEW u \in Threads,
                          pc'[q][u] \in {"locked", "body"}
                   PROVE  flock' = flock
        OBVIOUS
      <3>1. q # p /\ pc[q][u] \in {"locked", "body"}
        <4>1. mutex[p] = t /\ pc[p][t] = "closing" /\ pc' = [pc EXCEPT ![p][t] = "unlocking"]
          BY <1>8 DEF CloseFile
        <4>2. pc[q][u] \in {"locked", "body"}
          BY <4>1
        <4>3. q = p => u = t
          BY <4>1, <4>2
        <4> QED
          BY <4>1, <4>2, <4>3
      <3>2. flock \in open[q]
        BY <3>1
      <3> QED
        BY <1>8, <3>1, <3>2, FlockKept DEF CloseFile
    <2>2. InsideHasMutex' /\ FdMeansOwner' /\ BodySetFd'
      BY <1>8 DEF CloseFile
    <2>3. DescIsOpen' /\ DescsDiffer'
      BY <1>8 DEF CloseFile
    <2>4. LockedHasFlock'
      <3> SUFFICES ASSUME NEW q \in Procs, NEW u \in Threads,
                          pc'[q][u] \in {"locked", "body"}
                   PROVE  flock' = desc'[q][u]
        OBVIOUS
      <3>1. pc[q][u] = pc'[q][u] /\ desc'[q][u] = desc[q][u]
        BY <1>8 DEF CloseFile
      <3> QED
        BY <2>1, <3>1
    <2> QED
      BY <2>2, <2>3, <2>4
  <1>9. ASSUME NEW p \in Procs, NEW t \in Threads, Unlock(p, t) PROVE LockInv'
    BY <1>9 DEF Unlock
  <1>10. ASSUME NEW p \in Procs, NEW t \in Threads, LeaveInherited(p, t) PROVE LockInv'
    BY <1>10 DEF LeaveInherited
  <1>11. ASSUME NEW p \in Procs, NEW t \in Threads, NEW q \in Procs, Fork(p, t, q)
         PROVE LockInv'
    BY <1>11 DEF Fork
  <1>12. ASSUME NEW q \in Procs, ResetAfterFork(q) PROVE LockInv'
    <2>1. \A p \in Procs : \A u \in Threads :
            pc'[p][u] \in {"locked", "body"} => flock' = flock
      BY <1>12, FlockKept DEF ResetAfterFork
    <2>2. InsideHasMutex' /\ FdMeansOwner' /\ BodySetFd'
      BY <1>12 DEF ResetAfterFork
    <2>3. DescIsOpen' /\ DescsDiffer'
      BY <1>12 DEF ResetAfterFork
    <2>4. LockedHasFlock'
      <3>1. UNCHANGED <<pc, desc>>
        BY <1>12 DEF ResetAfterFork
      <3> QED
        BY <2>1, <3>1
    <2> QED
      BY <2>2, <2>3, <2>4
  <1>13. ASSUME NEW p \in Procs, End(p) PROVE LockInv'
    <2>1. \A q \in Procs : \A u \in Threads :
            pc'[q][u] \in {"locked", "body"} => flock' = flock
      BY <1>13, FlockKept DEF End
    <2> QED
      BY <1>13, <2>1 DEF End
  <1>14. CASE UNCHANGED vars
    BY <1>14 DEF vars
  <1>15. QED
    BY <1>1, <1>2, <1>3, <1>4, <1>5, <1>6, <1>7, <1>8, <1>9, <1>10, <1>11,
       <1>12, <1>13, <1>14 DEF Next, ThreadStep

LEMMA LockInvariant == Spec => [](TypeOK /\ LockInv)
  BY TypeInit, TypeStep, LockInit, LockStep, PTL DEF Spec

\* setup_lock() serializes setup: at most one thread of all processes, forked
\* ones included, is inside.
THEOREM SetupIsExclusive == Spec => []MutualExclusion
  <1>1. ASSUME TypeOK, LockInv PROVE MutualExclusion
    <2> SUFFICES ASSUME NEW p \in Procs, NEW q \in Procs,
                        NEW t \in Threads, NEW u \in Threads, Owns(p, t), Owns(q, u)
                 PROVE  p = q /\ t = u
      BY DEF MutualExclusion
    <2>1. desc[p][t] = desc[q][u] /\ desc[p][t] \in Files
      BY <1>1 DEF LockInv, Owns, HasFile, DescIsOpen, LockedHasFlock
    <2>2. p = q
      BY <1>1, <2>1, LockAssumption DEF LockInv, DescsDiffer
    <2>3. mutex[p] = t /\ mutex[q] = u
      BY <1>1 DEF LockInv, Owns, InsideHasMutex
    <2> QED
      BY <2>2, <2>3
  <1>2. QED
    BY <1>1, LockInvariant, PTL

\* The owner's descriptor stays open, known as _setup_fd and granted, however
\* its children close what they inherited.
THEOREM LockStaysWithOwner == Spec => []OwnerKeepsLock
  <1>1. TypeOK /\ LockInv => OwnerKeepsLock
    BY DEF LockInv, OwnerKeepsLock, Owns, HasFile, DescIsOpen, LockedHasFlock, BodySetFd
  <1>2. QED
    BY <1>1, LockInvariant, PTL

-----------------------------------------------------------------------------
(* What stays open.                                                        *)

LEMMA OpenInit == Init => OpenInv
  BY DEF Init, OpenInv, OpenIsAccounted, FlockIsOpen, DeadIsClosed

\* Whatever closes, the lock that is left is open somewhere.
LEMMA FlockLeft ==
  ASSUME TypeOK, OpenInv, NEW p \in Procs, NEW kept \in SUBSET Files,
         open' = [open EXCEPT ![p] = kept], flock' = FlockWith(p, kept)
  PROVE  FlockIsOpen'
  BY DEF TypeOK, OpenInv, FlockIsOpen, FlockWith

LEMMA OpenStep == TypeOK /\ LockInv /\ OpenInv /\ [Next]_vars => OpenInv'
  <1> SUFFICES ASSUME TypeOK, LockInv, OpenInv, [Next]_vars PROVE OpenInv'
    OBVIOUS
  <1> USE LockAssumption DEF TypeOK, PCs, Goto, OpenInv
  <1> USE DEF OpenIsAccounted, FlockIsOpen, DeadIsClosed
  <1>1. ASSUME UNCHANGED <<life, setupFd, desc, open, flock, raced>> PROVE OpenInv'
    BY <1>1
  <1>2. ASSUME NEW p \in Procs, NEW t \in Threads,
               \/ Enter(p, t) \/ EnterNested(p, t) \/ LeaveNested(p, t)
               \/ Unlock(p, t) \/ LeaveInherited(p, t)
        PROVE  OpenInv'
    BY <1>1, <1>2 DEF Enter, EnterNested, LeaveNested, Unlock, LeaveInherited
  <1>3. ASSUME NEW p \in Procs, NEW t \in Threads, OpenFile(p, t) PROVE OpenInv'
    <2>1. CASE UNCHANGED <<open, desc>>
      BY <1>1, <1>3, <2>1 DEF OpenFile
    <2>2. ASSUME NEW f \in Files \ UNION {open[q] : q \in Procs},
                 open' = [open EXCEPT ![p] = @ \union {f}],
                 desc' = [desc EXCEPT ![p][t] = f]
          PROVE  OpenInv'
      <3>1. /\ UNCHANGED <<life, setupFd, flock, raced>> /\ life[p] = "live"
            /\ desc[p][t] = NoFile
        BY <1>3, <2>2 DEF OpenFile, LockInv, DescIsOpen, HasFile
      <3>2. FlockIsOpen' /\ DeadIsClosed'
        BY <2>2, <3>1
      <3>3. OpenIsAccounted'
        BY <2>2, <3>1
      <3> QED
        BY <3>2, <3>3
    <2> QED
      BY <1>3, <2>1, <2>2 DEF OpenFile
  <1>4. ASSUME NEW p \in Procs, NEW t \in Threads, Flock(p, t) PROVE OpenInv'
    <2>1. /\ life[p] = "live" /\ UNCHANGED <<life, desc, open, raced>>
          /\ desc[p][t] \in open[p]
      BY <1>4 DEF Flock, LockInv, DescIsOpen, HasFile
    <2>2. OpenIsAccounted'
      <3>1. \A q \in Procs : life[q] = "forked" => setupFd'[q] = setupFd[q]
        BY <1>4, <2>1 DEF Flock
      <3> QED
        BY <2>1, <3>1
    <2>3. FlockIsOpen' /\ DeadIsClosed'
      BY <1>4, <2>1 DEF Flock
    <2> QED
      BY <2>2, <2>3
  <1>5. ASSUME NEW p \in Procs, NEW t \in Threads, SetFd(p, t) \/ ClearFd(p, t)
        PROVE  OpenInv'
    <2>1. life[p] = "live" /\ UNCHANGED <<life, desc, open, flock, raced>>
      BY <1>5 DEF SetFd, ClearFd
    <2>2. \A q \in Procs : life[q] = "forked" => setupFd'[q] = setupFd[q]
      BY <1>5, <2>1 DEF SetFd, ClearFd
    <2> QED
      BY <2>1, <2>2
  <1>6. ASSUME NEW p \in Procs, NEW t \in Threads, CloseFile(p, t) PROVE OpenInv'
    <2>1. /\ life[p] = "live" /\ UNCHANGED <<life, setupFd, raced>>
          /\ open' = [open EXCEPT ![p] = open[p] \ {desc[p][t]}]
          /\ desc' = [desc EXCEPT ![p][t] = NoFile]
          /\ flock' = FlockWith(p, open[p] \ {desc[p][t]})
      BY <1>6 DEF CloseFile
    <2>2. FlockIsOpen'
      <3>1. open[p] \ {desc[p][t]} \in SUBSET Files
        OBVIOUS
      <3> HIDE DEF OpenIsAccounted, FlockIsOpen, DeadIsClosed, TypeOK, OpenInv
      <3> QED
        BY <2>1, <3>1, FlockLeft
    <2>3. DeadIsClosed'
      BY <2>1
    <2>4. OpenIsAccounted'
      BY <2>1
    <2> QED
      BY <2>2, <2>3, <2>4
  <1>7. ASSUME NEW p \in Procs, NEW t \in Threads, NEW q \in Procs, Fork(p, t, q)
        PROVE  OpenInv'
    <2>1. /\ life[p] = "live" /\ life[q] = "unborn" /\ UNCHANGED <<desc, flock>>
          /\ life' = [life EXCEPT ![q] = "forked"]
          /\ open' = [open EXCEPT ![q] = open[p]]
          /\ setupFd' = [setupFd EXCEPT ![q] = setupFd[p]]
          /\ raced \subseteq raced'
      BY <1>7 DEF Fork
    <2>2. FlockIsOpen' /\ DeadIsClosed'
      BY <2>1
    <2>3. q \notin raced' => \A f \in open[p] : f = setupFd[p]
      <3> SUFFICES ASSUME q \notin raced', NEW f \in open[p] PROVE f = setupFd[p]
        OBVIOUS
      <3>1. p \notin raced /\ \A u \in Threads : pc[p][u] \notin Unrecorded
        BY <1>7 DEF Fork
      <3>2. PICK u \in Threads : f = desc[p][u]
        BY <2>1, <3>1
      <3>3. pc[p][u] = "body"
        BY <3>1, <3>2 DEF LockInv, DescIsOpen, HasFile, Unrecorded
      <3> QED
        BY <3>2, <3>3 DEF LockInv, BodySetFd, Owns
    <2>4. OpenIsAccounted'
      BY <2>1, <2>3
    <2> QED
      BY <2>2, <2>4
  <1>8. ASSUME NEW q \in Procs, ResetAfterFork(q) PROVE OpenInv'
    <2>1. /\ life[q] = "forked" /\ UNCHANGED <<desc, raced>>
          /\ life' = [life EXCEPT ![q] = "live"]
          /\ open' = [open EXCEPT ![q] = open[q] \ {setupFd[q]}]
          /\ setupFd' = [setupFd EXCEPT ![q] = NoFile]
          /\ flock' = FlockWith(q, open[q] \ {setupFd[q]})
      BY <1>8 DEF ResetAfterFork
    <2>2. FlockIsOpen'
      <3>1. open[q] \ {setupFd[q]} \in SUBSET Files
        OBVIOUS
      <3> HIDE DEF OpenIsAccounted, FlockIsOpen, DeadIsClosed, TypeOK, OpenInv
      <3> QED
        BY <2>1, <3>1, FlockLeft
    <2>3. DeadIsClosed' /\ OpenIsAccounted'
      BY <2>1
    <2> QED
      BY <2>2, <2>3
  <1>9. ASSUME NEW p \in Procs, End(p) PROVE OpenInv'
    <2>1. /\ life' = [life EXCEPT ![p] = "dead"] /\ UNCHANGED raced
          /\ open' = [open EXCEPT ![p] = {}]
          /\ setupFd' = [setupFd EXCEPT ![p] = NoFile]
          /\ desc' = [desc EXCEPT ![p] = [t \in Threads |-> NoFile]]
          /\ flock' = FlockWith(p, {})
      BY <1>9 DEF End
    <2>2. FlockIsOpen'
      BY <2>1, FlockLeft
    <2>3. DeadIsClosed' /\ OpenIsAccounted'
      BY <2>1
    <2> QED
      BY <2>2, <2>3
  <1>10. CASE UNCHANGED vars
    BY <1>1, <1>10 DEF vars
  <1>11. QED
    BY <1>2, <1>3, <1>4, <1>5, <1>6, <1>7, <1>8, <1>9, <1>10 DEF Next, ThreadStep

LEMMA OpenInvariant == Spec => [](TypeOK /\ LockInv /\ OpenInv)
  BY TypeInit, TypeStep, LockInit, LockStep, OpenInit, OpenStep, PTL DEF Spec

\* A process that was not forked in the handler's blind window keeps the file
\* open only while a thread of its own is in setup_lock().
THEOREM NothingElseRetains == Spec => []OnlyRacesRetain
  <1>1. ASSUME TypeOK, LockInv, OpenInv PROVE OnlyRacesRetain
    <2> SUFFICES ASSUME NEW p \in Procs \ raced, Outside(p), NEW f \in open[p]
                 PROVE  FALSE
      BY DEF OnlyRacesRetain
    <2>1. PICK t \in Threads : f = desc[p][t]
      BY <1>1 DEF OpenInv, OpenIsAccounted, Outside
    <2>2. desc[p][t] = NoFile
      BY <1>1 DEF LockInv, DescIsOpen, HasFile, Outside
    <2>3. f \in Files
      BY <1>1 DEF TypeOK
    <2> QED
      BY <2>1, <2>2, <2>3, LockAssumption
  <1>2. QED
    BY <1>1, OpenInvariant, PTL

\* Once nobody is in setup_lock(), the lock is free.
THEOREM IdleLockIsFree == Spec => []IdleMeansFree
  <1>1. ASSUME TypeOK, OpenInv, OnlyRacesRetain PROVE IdleMeansFree
    <2> SUFFICES ASSUME \A p \in Procs : Outside(p) /\ (p \in raced => life[p] = "dead")
                 PROVE  flock = NoFile
      BY DEF IdleMeansFree
    <2>1. \A p \in Procs : open[p] = {}
      BY <1>1 DEF OpenInv, DeadIsClosed, OnlyRacesRetain
    <2> QED
      BY <1>1, <2>1 DEF OpenInv, FlockIsOpen
  <1>2. QED
    BY <1>1, OpenInvariant, NothingElseRetains, PTL

=============================================================================
