----------------------------- MODULE Jobserver ------------------------------
(***************************************************************************)
(* matrix/jobserver.py: a GNU make job server client inside one process.   *)
(*                                                                         *)
(* Each run is one call of slot() on a thread of its own.  It holds the    *)
(* process's implicit slot or one token read from the server's pipe; with  *)
(* neither to be had it sleeps in select() on two descriptors, the pipe    *)
(* and a self-pipe that a freed implicit slot, or close(), writes to.      *)
(* Everything between two system calls or two lock operations is one step. *)
(***************************************************************************)
EXTENDS Integers, FiniteSets

CONSTANTS
  Runs,        \* the calls of slot() in this process, one thread each
  Launchers,   \* the calls made with implicit=False: they take tokens only
  Cancellable, \* the calls given a "cancelled" event that somebody may set
  Tokens,      \* the bytes make pre-loaded into the pipe
  CanBeKilled, \* TRUE: the process may be killed at any moment
  NoRun,       \* the owner of the free implicit lock
  NoToken      \* what a run holds when it holds no token

ASSUME RunsAssumption ==
  /\ NoRun \notin Runs
  /\ Launchers \subseteq Runs
  /\ Cancellable \subseteq Runs
  /\ CanBeKilled \in BOOLEAN
  /\ Runs \intersect {"nobody", "others", "lost"} = {}
ASSUME TokensAssumption == NoToken \notin Tokens /\ IsFiniteSet(Tokens)

VARIABLES
  pc,          \* where each run is in slot()
  implicit,    \* the holder of the implicit lock, or NoRun
  held,        \* held[r]: the token r holds, or NoToken
  pipe,        \* the tokens waiting in the server's pipe
  others,      \* the tokens make and its other clients hold
  wakePending, \* the self-pipe is not empty
  closed,      \* the closed event
  closer,      \* where the one caller of close() is
  cancelled,   \* the runs whose cancelled event is set
  alive        \* the process has not been killed

vars == <<pc, implicit, held, pipe, others, wakePending, closed, closer,
          cancelled, alive>>

PCs == {"idle", "check", "tryImplicit", "tryToken", "select", "drain",
        "working", "wake", "done", "refused"}

Working == {r \in Runs : pc[r] = "working"}
Asleep  == {r \in Runs : pc[r] = "select"}
Left(r) == pc[r] \in {"done", "refused"}

TypeOK ==
  /\ pc \in [Runs -> PCs]
  /\ implicit \in Runs \union {NoRun}
  /\ held \in [Runs -> Tokens \union {NoToken}]
  /\ pipe \in SUBSET Tokens
  /\ others \in SUBSET Tokens
  /\ wakePending \in BOOLEAN
  /\ closed \in BOOLEAN
  /\ closer \in {"away", "waking", "returned"}
  /\ cancelled \in SUBSET Runs
  /\ alive \in BOOLEAN

\* The other clients may already hold some of the tokens.
Init ==
  /\ pc = [r \in Runs |-> "idle"]
  /\ implicit = NoRun
  /\ held = [r \in Runs |-> NoToken]
  /\ others \in SUBSET Tokens
  /\ pipe = Tokens \ others
  /\ wakePending = FALSE
  /\ closed = FALSE
  /\ closer = "away"
  /\ cancelled = {}
  /\ alive = TRUE

Goto(r, from, to) ==
  /\ alive
  /\ pc[r] = from
  /\ pc' = [pc EXCEPT ![r] = to]

-----------------------------------------------------------------------------
(* slot()                                                                  *)

\* A thread calls slot().
Call(r) ==
  /\ Goto(r, "idle", "check")
  /\ UNCHANGED <<implicit, held, pipe, others, wakePending, closed, closer,
                 cancelled, alive>>

\* Mutant: the loop looks at the shared closed event only.
CheckClosedOnly(r) ==
  /\ Goto(r, "check", IF closed THEN "refused"
                      ELSE IF r \in Launchers THEN "tryToken" ELSE "tryImplicit")
  /\ UNCHANGED <<implicit, held, pipe, others, wakePending, closed, closer,
                 cancelled, alive>>

\* Mutant: every waiter comes back for a token, and none for the implicit slot.
CheckForToken(r) ==
  /\ Goto(r, "check", IF closed \/ r \in cancelled THEN "refused" ELSE "tryToken")
  /\ UNCHANGED <<implicit, held, pipe, others, wakePending, closed, closer,
                 cancelled, alive>>

\* The head of the loop: closed or cancelled ends the wait with InterruptedError.
CheckEnded(r) ==
  /\ \/ /\ closed \/ r \in cancelled
        /\ Goto(r, "check", "refused")
     \/ /\ ~closed /\ r \notin cancelled
        /\ Goto(r, "check", IF r \in Launchers THEN "tryToken" ELSE "tryImplicit")
  /\ UNCHANGED <<implicit, held, pipe, others, wakePending, closed, closer,
                 cancelled, alive>>

\* Mutant: a busy implicit lock is taken all the same.
SharedImplicit(r) ==
  /\ implicit' = r
  /\ Goto(r, "tryImplicit", "working")
  /\ UNCHANGED <<held, pipe, others, wakePending, closed, closer, cancelled,
                 alive>>

\* Lock.acquire(blocking=False) on the implicit slot.
TryImplicit(r) ==
  /\ \/ /\ implicit = NoRun
        /\ implicit' = r
        /\ Goto(r, "tryImplicit", "working")
     \/ /\ implicit # NoRun
        /\ Goto(r, "tryImplicit", "tryToken")
        /\ UNCHANGED implicit
  /\ UNCHANGED <<held, pipe, others, wakePending, closed, closer, cancelled,
                 alive>>

\* Mutant: the empty read of an empty pipe counts as a token.
AdmitOnEmptyRead(r) ==
  /\ \/ \E t \in pipe :
          /\ pipe' = pipe \ {t}
          /\ held' = [held EXCEPT ![r] = t]
     \/ /\ pipe = {}
        /\ UNCHANGED <<pipe, held>>
  /\ Goto(r, "tryToken", "working")
  /\ UNCHANGED <<implicit, others, wakePending, closed, closer, cancelled,
                 alive>>

\* _take_token: a non-blocking read of one byte.
TryToken(r) ==
  /\ \/ \E t \in pipe :
          /\ pipe' = pipe \ {t}
          /\ held' = [held EXCEPT ![r] = t]
          /\ Goto(r, "tryToken", "working")
     \/ /\ pipe = {}
        /\ Goto(r, "tryToken", "select")
        /\ UNCHANGED <<pipe, held>>
  /\ UNCHANGED <<implicit, others, wakePending, closed, closer, cancelled,
                 alive>>

\* select() returns because a descriptor is readable; a run that sees the
\* self-pipe readable empties it before it goes round the loop again.
SelectReady(r) ==
  /\ wakePending \/ pipe # {}
  /\ Goto(r, "select", IF wakePending THEN "drain" ELSE "check")
  /\ UNCHANGED <<implicit, held, pipe, others, wakePending, closed, closer,
                 cancelled, alive>>

\* select() returns empty-handed after _RECHECK_SECONDS.
Recheck(r) ==
  /\ ~wakePending /\ pipe = {}
  /\ Goto(r, "select", "check")
  /\ UNCHANGED <<implicit, held, pipe, others, wakePending, closed, closer,
                 cancelled, alive>>

\* _drain_wakes: whoever else sleeps in select() loses this wake.
DrainWakes(r) ==
  /\ Goto(r, "drain", "check")
  /\ wakePending' = FALSE
  /\ UNCHANGED <<implicit, held, pipe, others, closed, closer, cancelled, alive>>

\* The with-block ended, or raised: the implicit slot is freed first ...
FreeImplicit(r) ==
  /\ implicit = r
  /\ implicit' = NoRun
  /\ Goto(r, "working", "wake")
  /\ UNCHANGED <<held, pipe, others, wakePending, closed, closer, cancelled,
                 alive>>

\* Mutant: the implicit slot is freed and nobody is told.
NoWake(r) ==
  /\ Goto(r, "wake", "done")
  /\ UNCHANGED <<implicit, held, pipe, others, wakePending, closed, closer,
                 cancelled, alive>>

\* ... and the waiters are woken after it, in a step of its own.
WakeWaiters(r) ==
  /\ Goto(r, "wake", "done")
  /\ wakePending' = TRUE
  /\ UNCHANGED <<implicit, held, pipe, others, closed, closer, cancelled, alive>>

\* Mutant: the token variable is cleared before it is written back.
ReturnCleared(r) ==
  /\ held[r] # NoToken
  /\ held' = [held EXCEPT ![r] = NoToken]
  /\ pipe' = pipe \union {held'[r]}
  /\ Goto(r, "working", "done")
  /\ UNCHANGED <<implicit, others, wakePending, closed, closer, cancelled, alive>>

\* Mutant: a run that ends after close() keeps its token.
KeepAfterClose(r) ==
  /\ held[r] # NoToken
  /\ IF closed THEN UNCHANGED <<pipe, held>>
     ELSE /\ pipe' = pipe \union {held[r]}
          /\ held' = [held EXCEPT ![r] = NoToken]
  /\ Goto(r, "working", "done")
  /\ UNCHANGED <<implicit, others, wakePending, closed, closer, cancelled, alive>>

\* The with-block ended, or raised: the same byte goes back into the pipe.
ReturnToken(r) ==
  /\ held[r] # NoToken
  /\ pipe' = pipe \union {held[r]}
  /\ held' = [held EXCEPT ![r] = NoToken]
  /\ Goto(r, "working", "done")
  /\ UNCHANGED <<implicit, others, wakePending, closed, closer, cancelled, alive>>

Release(r) == FreeImplicit(r) \/ ReturnToken(r)

-----------------------------------------------------------------------------
(* close(), cancellation, and the world outside the process                *)

\* close() sets the event and then wakes the waiters.
SetClosed ==
  /\ alive /\ closer = "away"
  /\ closed' = TRUE
  /\ closer' = "waking"
  /\ UNCHANGED <<pc, implicit, held, pipe, others, wakePending, cancelled, alive>>

CloseWakes ==
  /\ alive /\ closer = "waking"
  /\ wakePending' = TRUE
  /\ closer' = "returned"
  /\ UNCHANGED <<pc, implicit, held, pipe, others, closed, cancelled, alive>>

\* The caller of slot() sets its cancelled event; nothing wakes the waiter.
Cancel(r) ==
  /\ alive /\ r \in Cancellable \ cancelled
  /\ cancelled' = cancelled \union {r}
  /\ UNCHANGED <<pc, implicit, held, pipe, others, wakePending, closed, closer,
                 alive>>

\* make, or another client in the same tree, takes a token or returns one.
OthersTake(t) ==
  /\ t \in pipe
  /\ pipe' = pipe \ {t}
  /\ others' = others \union {t}
  /\ UNCHANGED <<pc, implicit, held, wakePending, closed, closer, cancelled, alive>>

OthersReturn(t) ==
  /\ t \in others
  /\ others' = others \ {t}
  /\ pipe' = pipe \union {t}
  /\ UNCHANGED <<pc, implicit, held, wakePending, closed, closer, cancelled, alive>>

\* The process is killed: everything in it stops, and its tokens are never
\* written back.
Kill ==
  /\ CanBeKilled /\ alive
  /\ alive' = FALSE
  /\ UNCHANGED <<pc, implicit, held, pipe, others, wakePending, closed, closer,
                 cancelled>>

Step(r) ==
  \/ CheckEnded(r) \/ TryImplicit(r) \/ TryToken(r)
  \/ SelectReady(r) \/ DrainWakes(r)
  \/ Release(r) \/ WakeWaiters(r)

Environment ==
  \/ SetClosed \/ CloseWakes \/ Kill
  \/ \E r \in Runs : Cancel(r)
  \/ \E t \in Tokens : OthersTake(t) \/ OthersReturn(t)

Next ==
  \/ \E r \in Runs : Call(r) \/ Step(r) \/ Recheck(r)
  \/ Environment

Spec == Init /\ [][Next]_vars

\* What the wakes alone are no match for: a launcher that takes a wake and not the
\* implicit slot, an event that is set without a wake, and the one wake of close().
Disturbed ==
  \/ \E r \in Launchers : pc[r] # "idle"
  \/ cancelled # {}
  \/ closed

\* Every thread of the process keeps running, a job that was started ends, and
\* select() returns when a descriptor is readable; its timeout, which is fair too in
\* the code, is counted on in a disturbed process only.
FairSpec ==
  Spec /\ \A r \in Runs : WF_vars(Step(r) \/ (Disturbed /\ Recheck(r)))

-----------------------------------------------------------------------------
(* Properties                                                              *)

\* A run works exactly while it holds the implicit slot or one token, never
\* both, and a launcher never holds the implicit slot (slot(), l.118-130).
HoldsOneSlot ==
  \A r \in Runs :
    /\ pc[r] = "working" => ((implicit = r) <=> (held[r] = NoToken))
    /\ pc[r] # "working" => implicit # r /\ held[r] = NoToken
    /\ implicit = r => r \notin Launchers

\* Every token has exactly one place: the pipe, another client, or one run of
\* this process.  None is lost and none is written back twice.
TokensConserved ==
  /\ pipe \intersect others = {}
  /\ \A r \in Runs : held[r] \notin pipe \union others
  /\ \A r, q \in Runs : held[r] = held[q] /\ r # q => held[r] = NoToken
  /\ \A t \in Tokens \ (pipe \union others) : \E r \in Runs : held[r] = t

\* The inductive strengthening of the two: a launcher is never about to try
\* the implicit lock.
SlotInv ==
  /\ HoldsOneSlot
  /\ TokensConserved
  /\ \A r \in Runs : pc[r] = "tryImplicit" => r \notin Launchers

\* The whole make tree keeps to one worker cap: the runs working here and the
\* tokens out with other clients never exceed the tokens plus this process's
\* implicit slot.
WorkerCap ==
  Cardinality(Working) + Cardinality(others) <= Cardinality(Tokens) + 1

\* "A waiting slot wakes at once ... when this process frees its implicit slot"
\* (l.33): until a launcher has called, somebody has cancelled or closed, a free
\* implicit slot always has somebody awake on the way to it, or a wake pending,
\* even though one waiter's drain takes the wake from all the others.
WakeComing ==
  \/ wakePending
  \/ \E r \in Runs : pc[r] \in {"drain", "check", "tryImplicit", "wake"}

NoMissedWake ==
  implicit = NoRun /\ Asleep # {} /\ ~Disturbed => WakeComing

\* Its inductive strengthening: the same for a run that has found the implicit
\* lock busy and is still on its way to sleep.
WakeInv ==
  /\ implicit = NoRun /\ \E r \in Runs : pc[r] \in {"tryToken", "select"}
  /\ ~Disturbed
  => WakeComing

\* The implementation keeps SlotPool's promise: the implicit slot and the tokens
\* are its slots, and everything a run does before it works is waiting outside.
ImplicitSlot == NoToken
Slots == Tokens \union {ImplicitSlot}

SlotHolder ==
  [s \in Slots |->
     IF s \in pipe THEN "nobody"
     ELSE IF s \in others THEN "others"
     ELSE IF s = ImplicitSlot /\ implicit = NoRun THEN "nobody"
     ELSE IF ~alive THEN "lost"
     ELSE IF s = ImplicitSlot THEN implicit
     ELSE CHOOSE r \in Runs : held[r] = s]

RunPhase ==
  [r \in Runs |-> IF pc[r] \in {"wake", "done", "refused"} THEN "left"
                 ELSE IF ~alive THEN "killed"
                 ELSE IF pc[r] = "working" THEN "working"
                 ELSE "outside"]

Pool == INSTANCE SlotPool WITH
  Others <- "others", Nobody <- "nobody", Lost <- "lost",
  holder <- SlotHolder, phase <- RunPhase
SlotPoolSpec == Pool!Spec

\* "the implicit slot keeps every run able to finish" (l.17): a run that may
\* take it is admitted or refused even if no other client ever returns a token,
\* whoever steals its wakes; and in a process nobody disturbs the timeout of l.131
\* is only a safety net, the wakes alone admit every run.
EveryRunLeaves ==
  \A r \in Runs \ Launchers : pc[r] = "check" ~> Left(r)

\* close(): "waiting ones give up, held ones still give their tokens back".
AllBackAfterClose ==
  closed ~> \A r \in Runs : /\ pc[r] = "idle" \/ Left(r)
                            /\ held[r] = NoToken /\ implicit # r

\* A cancelled wait ends, although setting the event wakes nobody and the pipe
\* may stay empty for ever.
CancelledWaitEnds ==
  \A r \in Cancellable :
    r \in cancelled ~> (pc[r] = "idle" \/ Left(r))

=============================================================================
