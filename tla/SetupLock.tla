----------------------------- MODULE SetupLock ------------------------------
(***************************************************************************)
(* setup.py, setup_lock() and its at-fork handler: a lock across packages,  *)
(* processes and threads, made of one reentrant mutex per process and one   *)
(* flock() on a file they all share.                                       *)
(*                                                                         *)
(* flock() belongs to the open file description, which fork() shares: the   *)
(* kernel gives it up when the last process that has the description open   *)
(* closes it, or ends.  A description is a member of Files here, and the    *)
(* descriptor a thread or _setup_fd keeps is named by its description.      *)
(***************************************************************************)
EXTENDS Integers

CONSTANTS
  Procs,      \* processes, each born at most once
  First,      \* those that run from the start; the others are forked
  Threads,    \* the threads of each process
  Files,      \* open file descriptions; as many as may be open at a time
  MaxNested,  \* bound on the nested calls of one thread
  NoThread,   \* the owner of a free mutex
  NoFile      \* no descriptor

ASSUME LockAssumption ==
  /\ First \subseteq Procs
  /\ NoThread \notin Threads
  /\ NoFile \notin Files
  /\ MaxNested \in Nat

VARIABLES
  life,       \* "unborn", "forked" (before its at-fork handler), "live", "dead"
  pc,         \* where thread t of process p is in its outermost setup_lock()
  nested,     \* the nested calls it is inside of
  inherited,  \* the threads that still have to leave a with-block of the parent
  mutex,      \* _setup_mutex: its owner, or NoThread
  setupFd,    \* _setup_fd
  desc,       \* the local "descriptor" of the outermost call
  open,       \* open[p]: the descriptions process p has open
  flock,      \* the description that holds the lock, or NoFile
  raced       \* history: the processes forked while a thread of the parent was
              \* between os.open() and _setup_fd, and all their descendants

vars == <<life, pc, nested, inherited, mutex, setupFd, desc, open, flock, raced>>

PCs == {"out", "opening", "locking", "locked", "body", "closing", "unlocking"}

TypeOK ==
  /\ life \in [Procs -> {"unborn", "forked", "live", "dead"}]
  /\ pc \in [Procs -> [Threads -> PCs]]
  /\ nested \in [Procs -> [Threads -> 0..MaxNested]]
  /\ inherited \in [Procs -> SUBSET Threads]
  /\ mutex \in [Procs -> Threads \union {NoThread}]
  /\ setupFd \in [Procs -> Files \union {NoFile}]
  /\ desc \in [Procs -> [Threads -> Files \union {NoFile}]]
  /\ open \in [Procs -> SUBSET Files]
  /\ flock \in Files \union {NoFile}
  /\ raced \subseteq Procs

Init ==
  /\ life = [p \in Procs |-> IF p \in First THEN "live" ELSE "unborn"]
  /\ pc = [p \in Procs |-> [t \in Threads |-> "out"]]
  /\ nested = [p \in Procs |-> [t \in Threads |-> 0]]
  /\ inherited = [p \in Procs |-> {}]
  /\ mutex = [p \in Procs |-> NoThread]
  /\ setupFd = [p \in Procs |-> NoFile]
  /\ desc = [p \in Procs |-> [t \in Threads |-> NoFile]]
  /\ open = [p \in Procs |-> {}]
  /\ flock = NoFile
  /\ raced = {}

\* Where a thread keeps an open descriptor that _setup_fd does not name.
Unrecorded == {"locking", "locked", "closing"}

Goto(p, t, from, to) ==
  /\ life[p] = "live"
  /\ pc[p][t] = from
  /\ pc' = [pc EXCEPT ![p][t] = to]

\* What is left of the lock when process p has only the descriptions "kept".
FlockWith(p, kept) ==
  IF flock \in kept \/ \E q \in Procs \ {p} : flock \in open[q] THEN flock ELSE NoFile

-----------------------------------------------------------------------------
(* setup_lock()                                                            *)

\* The mutex is taken without waiting; with no descriptor in this process the
\* thread goes on to open the lock file.  (A busy mutex raises, and nothing
\* changes.)
Enter(p, t) ==
  /\ mutex[p] = NoThread /\ setupFd[p] = NoFile
  /\ Goto(p, t, "out", "opening")
  /\ mutex' = [mutex EXCEPT ![p] = t]
  /\ UNCHANGED <<life, nested, inherited, setupFd, desc, open, flock, raced>>

\* _setup_fd is set: the caller is taken for the owner, and shares the lock.
EnterNested(p, t) ==
  /\ mutex[p] \in {t, NoThread} /\ setupFd[p] # NoFile
  /\ nested[p][t] < MaxNested
  /\ \E from \in {"out", "body"} : Goto(p, t, from, "body")
  /\ mutex' = [mutex EXCEPT ![p] = t]
  /\ nested' = [nested EXCEPT ![p][t] = @ + 1]
  /\ UNCHANGED <<life, inherited, setupFd, desc, open, flock, raced>>

\* The file is opened, which makes a new description; or ensure_dir() or
\* os.open() raises.
OpenFile(p, t) ==
  /\ \/ /\ Goto(p, t, "opening", "locking")
        /\ \E f \in Files \ UNION {open[q] : q \in Procs} :
             /\ open' = [open EXCEPT ![p] = @ \union {f}]
             /\ desc' = [desc EXCEPT ![p][t] = f]
     \/ /\ Goto(p, t, "opening", "unlocking")
        /\ UNCHANGED <<open, desc>>
  /\ UNCHANGED <<life, nested, inherited, mutex, setupFd, flock, raced>>

\* flock(LOCK_EX | LOCK_NB): a lock held elsewhere raises, through the finally.
Flock(p, t) ==
  /\ \/ /\ flock \in {NoFile, desc[p][t]}
        /\ flock' = desc[p][t]
        /\ Goto(p, t, "locking", "locked")
        /\ UNCHANGED setupFd
     \/ /\ flock \notin {NoFile, desc[p][t]}
        /\ Goto(p, t, "locking", "closing")
        /\ setupFd' = [setupFd EXCEPT ![p] = NoFile]
        /\ UNCHANGED flock
  /\ UNCHANGED <<life, nested, inherited, mutex, desc, open, raced>>

SetFd(p, t) ==
  /\ Goto(p, t, "locked", "body")
  /\ setupFd' = [setupFd EXCEPT ![p] = desc[p][t]]
  /\ UNCHANGED <<life, nested, inherited, mutex, desc, open, flock, raced>>

\* A nested with-block ends, or raises: one level of the mutex is released.
LeaveNested(p, t) ==
  /\ nested[p][t] > 0
  /\ Goto(p, t, "body", IF desc[p][t] # NoFile \/ nested[p][t] > 1 THEN "body" ELSE "out")
  /\ nested' = [nested EXCEPT ![p][t] = @ - 1]
  /\ mutex' = [mutex EXCEPT ![p] = IF pc'[p][t] = "body" THEN t ELSE NoThread]
  /\ UNCHANGED <<life, inherited, setupFd, desc, open, flock, raced>>

\* The outermost with-block ends, or raises, in the process that entered it.
ClearFd(p, t) ==
  /\ nested[p][t] = 0
  /\ Goto(p, t, "body", "closing")
  /\ setupFd' = [setupFd EXCEPT ![p] = NoFile]
  /\ UNCHANGED <<life, nested, inherited, mutex, desc, open, flock, raced>>

\* Mutant: _setup_fd is cleared and the descriptor stays open.
KeepOpen(p, t) ==
  /\ Goto(p, t, "closing", "unlocking")
  /\ desc' = [desc EXCEPT ![p][t] = NoFile]
  /\ UNCHANGED <<life, nested, inherited, mutex, setupFd, open, flock, raced>>

\* os.close(): in this process, whatever copies its children still have open.
CloseFile(p, t) ==
  /\ Goto(p, t, "closing", "unlocking")
  /\ open' = [open EXCEPT ![p] = @ \ {desc[p][t]}]
  /\ flock' = FlockWith(p, open'[p])
  /\ desc' = [desc EXCEPT ![p][t] = NoFile]
  /\ UNCHANGED <<life, nested, inherited, mutex, setupFd, raced>>

Unlock(p, t) ==
  /\ Goto(p, t, "unlocking", "out")
  /\ mutex' = [mutex EXCEPT ![p] = NoThread]
  /\ UNCHANGED <<life, nested, inherited, setupFd, desc, open, flock, raced>>

-----------------------------------------------------------------------------
(* Processes                                                               *)

\* Thread t of p, which is outside setup_lock() or in a with-block, forks.  The
\* child has that thread only, and a copy of the process's memory; its other
\* threads are started later.
Fork(p, t, q) ==
  /\ life[p] = "live" /\ life[q] = "unborn"
  /\ pc[p][t] \in {"out", "body"}
  /\ life' = [life EXCEPT ![q] = "forked"]
  /\ mutex' = [mutex EXCEPT ![q] = mutex[p]]
  /\ setupFd' = [setupFd EXCEPT ![q] = setupFd[p]]
  /\ open' = [open EXCEPT ![q] = open[p]]
  /\ inherited' = [inherited EXCEPT ![q] =
       IF pc[p][t] = "body" \/ t \in inherited[p] THEN {t} ELSE {}]
  /\ raced' = IF p \in raced \/ \E u \in Threads : pc[p][u] \in Unrecorded
               THEN raced \union {q} ELSE raced
  /\ UNCHANGED <<pc, nested, desc, flock>>

\* Mutant: the handler renews the mutex and keeps the parent's descriptor.
KeepOwnership(q) ==
  /\ life[q] = "forked"
  /\ life' = [life EXCEPT ![q] = "live"]
  /\ mutex' = [mutex EXCEPT ![q] = NoThread]
  /\ UNCHANGED <<pc, nested, inherited, desc, setupFd, open, flock, raced>>

\* Mutant: the handler forgets the descriptor without closing it.
ForgetFd(q) ==
  /\ life[q] = "forked"
  /\ life' = [life EXCEPT ![q] = "live"]
  /\ mutex' = [mutex EXCEPT ![q] = NoThread]
  /\ setupFd' = [setupFd EXCEPT ![q] = NoFile]
  /\ UNCHANGED <<pc, nested, inherited, desc, open, flock, raced>>

\* _reset_setup_lock_after_fork, before anything else runs in the child.
ResetAfterFork(q) ==
  /\ life[q] = "forked"
  /\ life' = [life EXCEPT ![q] = "live"]
  /\ open' = [open EXCEPT ![q] = @ \ {setupFd[q]}]
  /\ flock' = FlockWith(q, open'[q])
  /\ setupFd' = [setupFd EXCEPT ![q] = NoFile]
  /\ mutex' = [mutex EXCEPT ![q] = NoThread]
  /\ UNCHANGED <<pc, nested, inherited, desc, raced>>

\* Mutant: the finally clauses do not look at the pid.
LeaveUnchecked(q, t) ==
  /\ life[q] = "live" /\ t \in inherited[q] /\ pc[q][t] = "out"
  /\ inherited' = [inherited EXCEPT ![q] = @ \ {t}]
  /\ setupFd' = [setupFd EXCEPT ![q] = NoFile]
  /\ UNCHANGED <<life, pc, nested, desc, mutex, open, flock, raced>>

\* The with-block the thread was forked in ends in the child: the pid is not the
\* one that entered it, so neither finally clause does anything.
LeaveInherited(q, t) ==
  /\ life[q] = "live" /\ t \in inherited[q] /\ pc[q][t] = "out"
  /\ inherited' = [inherited EXCEPT ![q] = @ \ {t}]
  /\ UNCHANGED <<life, pc, nested, desc, mutex, setupFd, open, flock, raced>>

\* The process ends, is killed, or executes another program: the descriptors
\* close with it.
End(p) ==
  /\ life[p] \in {"forked", "live"}
  /\ life' = [life EXCEPT ![p] = "dead"]
  /\ open' = [open EXCEPT ![p] = {}]
  /\ flock' = FlockWith(p, {})
  /\ pc' = [pc EXCEPT ![p] = [t \in Threads |-> "out"]]
  /\ nested' = [nested EXCEPT ![p] = [t \in Threads |-> 0]]
  /\ desc' = [desc EXCEPT ![p] = [t \in Threads |-> NoFile]]
  /\ inherited' = [inherited EXCEPT ![p] = {}]
  /\ mutex' = [mutex EXCEPT ![p] = NoThread]
  /\ setupFd' = [setupFd EXCEPT ![p] = NoFile]
  /\ UNCHANGED raced

ThreadStep(p, t) ==
  \/ Enter(p, t) \/ EnterNested(p, t) \/ OpenFile(p, t) \/ Flock(p, t)
  \/ SetFd(p, t) \/ LeaveNested(p, t) \/ ClearFd(p, t) \/ CloseFile(p, t)
  \/ Unlock(p, t) \/ LeaveInherited(p, t)

Next ==
  \/ \E p \in Procs, t \in Threads :
       ThreadStep(p, t) \/ \E q \in Procs : Fork(p, t, q)
  \/ \E p \in Procs : ResetAfterFork(p) \/ End(p)

Spec == Init /\ [][Next]_vars

-----------------------------------------------------------------------------
(* Properties                                                              *)

Owns(p, t) == pc[p][t] = "body"

\* "Serialize setup mutations across packages, processes, and threads" (l.35):
\* no two threads, of one process or of two, forked or not, are inside at once.
MutualExclusion ==
  \A p, q \in Procs : \A t, u \in Threads :
    Owns(p, t) /\ Owns(q, u) => p = q /\ t = u

\* The owner keeps what nesting and the way out rest on: _setup_fd is its own
\* descriptor, still open in its process, and that description has the lock,
\* whatever its forked children close, enter or leave meanwhile.
OwnerKeepsLock ==
  \A p \in Procs : \A t \in Threads :
    Owns(p, t) => /\ setupFd[p] = desc[p][t]
                  /\ desc[p][t] \in open[p]
                  /\ flock = desc[p][t]

\* No thread of p is in a setup_lock() of its own, and the handler has run.
Outside(p) == life[p] # "forked" /\ \A t \in Threads : pc[p][t] = "out"

\* "A forked child must neither inherit ownership nor retain the parent's lock"
\* (l.70): a process holds the file open only while a thread of its own is in
\* setup_lock(), or before its at-fork handler has run; except for a fork in the
\* window the handler cannot see, whose child does retain it.
OnlyRacesRetain == \A p \in Procs \ raced : Outside(p) => open[p] = {}

\* With nobody in setup_lock() and no such child alive, a caller gets the lock,
\* whatever crashed, nested, failed or was forked before.
IdleMeansFree ==
  (\A p \in Procs : Outside(p) /\ (p \in raced => life[p] = "dead")) => flock = NoFile

\* The inductive strengthening of the first two.  A thread inside has the mutex
\* of a living process; a descriptor is kept exactly from open() to close(), and
\* is open in that process; what flock() was granted on is not closed by others,
\* for no two threads ever keep the same description, copies by fork() apart.
HasFile == {"locking", "locked", "body", "closing"}

InsideHasMutex ==
  \A p \in Procs : \A t \in Threads :
    pc[p][t] # "out" => life[p] = "live" /\ mutex[p] = t
FdMeansOwner ==
  \A p \in Procs :
    life[p] = "live" /\ setupFd[p] # NoFile => \E t \in Threads : Owns(p, t)
DescIsOpen ==
  \A p \in Procs : \A t \in Threads :
    IF pc[p][t] \in HasFile THEN desc[p][t] \in open[p] \intersect Files
    ELSE desc[p][t] = NoFile
DescsDiffer ==
  \A p, q \in Procs : \A t, u \in Threads :
    p # q /\ desc[p][t] # NoFile => desc[p][t] # desc[q][u]
LockedHasFlock ==
  \A p \in Procs : \A t \in Threads :
    pc[p][t] \in {"locked", "body"} => flock = desc[p][t]
BodySetFd ==
  \A p \in Procs : \A t \in Threads : Owns(p, t) => setupFd[p] = desc[p][t]

LockInv ==
  /\ InsideHasMutex /\ FdMeansOwner /\ DescIsOpen /\ DescsDiffer
  /\ LockedHasFlock /\ BodySetFd

\* For the other two: what a process has open, and who keeps the flock.
OpenIsAccounted ==
  \A p \in Procs \ raced : \A f \in open[p] :
    IF life[p] = "forked" THEN f = setupFd[p] ELSE \E t \in Threads : f = desc[p][t]
FlockIsOpen == flock # NoFile => \E p \in Procs : flock \in open[p]
DeadIsClosed == \A p \in Procs : life[p] \in {"dead", "unborn"} => open[p] = {}

OpenInv == OpenIsAccounted /\ FlockIsOpen /\ DeadIsClosed

=============================================================================
