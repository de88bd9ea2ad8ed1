---------------------------- MODULE SetupReceipt ----------------------------
(***************************************************************************)
(* setup.py, SetupReceipt: the receipts of several owners (packages), and   *)
(* the setup transactions of the programs that installed them, of several   *)
(* versions.  A transaction follows the class's docstring (l.105-109): under *)
(* setup_lock it preflights its whole dependency closure, and for each owner *)
(* clears the receipt, changes what is installed, verifies it and writes the *)
(* receipt.  The packages that do this are outside the repository; what is   *)
(* theirs is named external.  The lock is the one of module SetupLock: one   *)
(* holder, freed when its process ends.                                     *)
(***************************************************************************)
EXTENDS Integers

CONSTANTS
  Programs,       \* running packages, each with its closure of owners
  Owners,         \* the owners; every program depends on all of them
  Closure,        \* Closure[p][o]: the version and inputs program p has of owner o
  Receipts,       \* every [version, inputs] there is
  None,           \* no receipt, nothing installed, no holder of the lock
  Unreadable,     \* a file that is no receipt of its owner
  Partial         \* what is installed while it is being changed

ASSUME ReceiptAssumption ==
  /\ \A r \in Receipts : r.version \in Nat
  /\ Closure \in [Programs -> [Owners -> Receipts]]
  /\ None \notin Receipts \union Programs \union {Unreadable}
  /\ None \notin Owners
  /\ Unreadable \notin Receipts /\ Partial \notin Receipts \union {None}

VARIABLES
  receipt,        \* receipt[o]: what is in the owner's receipt file
  installed,      \* installed[o]: what has been set up, or Partial
  lock,           \* the holder of setup_lock
  stage,             \* where the transaction of each program is
  owner,          \* the owner it is at
  todo,           \* the owners it has still to set up
  temp,           \* temp[p]: what is in the temporary file of its write()
  unread          \* unread[p]: owners whose receipt none of its checks could read

receiptVars == <<receipt, installed, lock, stage, owner, todo, temp, unread>>

Stages == {"idle", "preflight", "next", "unlink", "change", "verify", "write",
        "create", "dump", "replace", "tidy", "failed"}
Writing == {"write", "create", "dump", "replace"}
Changing == {"change", "verify"} \union Writing

ReceiptTypeOK ==
  /\ receipt \in [Owners -> Receipts \union {None, Unreadable}]
  /\ installed \in [Owners -> Receipts \union {None, Partial}]
  /\ lock \in Programs \union {None}
  /\ stage \in [Programs -> Stages]
  /\ owner \in [Programs -> Owners \union {None}]
  /\ todo \in [Programs -> SUBSET Owners]
  /\ temp \in [Programs -> Receipts \union {None, Unreadable}]
  /\ unread \in [Programs -> SUBSET Owners]

\* Nothing is set up; an older release may have left a file of another format.
ReceiptInit ==
  /\ receipt \in [Owners -> {None, Unreadable}]
  /\ installed = [o \in Owners |-> None]
  /\ lock = None
  /\ stage = [p \in Programs |-> "idle"]
  /\ owner = [p \in Programs |-> None]
  /\ todo = [p \in Programs |-> {}]
  /\ temp = [p \in Programs |-> None]
  /\ unread = [p \in Programs |-> {}]

-----------------------------------------------------------------------------
(* check() and what is made of it                                          *)

\* check() of a receipt that can be read: is it newer than the running program?
\* A read that fails answers "invalid" whatever is there, which no caller refuses.
Newer(p, o) ==
  receipt[o] \in Receipts /\ receipt[o].version > Closure[p][o].version

-----------------------------------------------------------------------------
(* The transaction                                                         *)

Advance(p, from, to) ==
  /\ stage[p] = from
  /\ stage' = [stage EXCEPT ![p] = to]

\* A program's setup starts one; a busy lock raises instead.
Begin(p) ==
  /\ lock = None
  /\ Advance(p, "idle", "preflight")
  /\ lock' = p
  /\ UNCHANGED <<receipt, installed, owner, todo, temp, unread>>

\* Mutant: the preflight is content with one owner that is not newer.
PreflightSome(p) ==
  /\ \E blind \in SUBSET Owners :
       \/ /\ \E o \in Owners \ blind : ~Newer(p, o)
          /\ Advance(p, "preflight", "next")
          /\ todo' = [todo EXCEPT ![p] = Owners]
          /\ unread' = [unread EXCEPT ![p] = blind]
       \/ /\ \E o \in Owners \ blind : Newer(p, o)
          /\ Advance(p, "preflight", "failed")
          /\ UNCHANGED <<todo, unread>>
  /\ UNCHANGED <<receipt, installed, lock, owner, temp>>

\* require_no_downgrade() over the checks of the whole closure, those whose read
\* fails passing.
Preflight(p) ==
  /\ \E blind \in SUBSET Owners :
       \/ /\ \A o \in Owners \ blind : ~Newer(p, o)
          /\ Advance(p, "preflight", "next")
          /\ todo' = [todo EXCEPT ![p] = Owners]
          /\ unread' = [unread EXCEPT ![p] = blind]
       \/ /\ \E o \in Owners \ blind : Newer(p, o)
          /\ Advance(p, "preflight", "failed")
          /\ UNCHANGED <<todo, unread>>
  /\ UNCHANGED <<receipt, installed, lock, owner, temp>>

\* clear(): the check of the one receipt ...
ClearChecks(p) ==
  /\ \E o \in todo[p], read \in BOOLEAN :
       /\ Advance(p, "next", IF read /\ Newer(p, o) THEN "failed" ELSE "unlink")
       /\ owner' = [owner EXCEPT ![p] = o]
       /\ todo' = [todo EXCEPT ![p] = @ \ {o}]
       /\ unread' = [unread EXCEPT ![p] = IF read THEN @ \ {o} ELSE @]
  /\ UNCHANGED <<receipt, installed, lock, temp>>

\* Mutant: clear() checks and does not unlink.
KeepReceipt(p) ==
  /\ Advance(p, "unlink", "change")
  /\ UNCHANGED <<receipt, installed, lock, owner, todo, temp, unread>>

\* ... and its removal.
Unlink(p) ==
  /\ Advance(p, "unlink", "change")
  /\ receipt' = [receipt EXCEPT ![owner[p]] = None]
  /\ UNCHANGED <<installed, lock, owner, todo, temp, unread>>

\* The owner's own writes begin, and end with all of them done.
Change(p) ==
  /\ Advance(p, "change", "verify")
  /\ installed' = [installed EXCEPT ![owner[p]] = Partial]
  /\ UNCHANGED <<receipt, lock, owner, todo, temp, unread>>

Verified(p) ==
  /\ Advance(p, "verify", "write")
  /\ installed' = [installed EXCEPT ![owner[p]] = Closure[p][owner[p]]]
  /\ UNCHANGED <<receipt, lock, owner, todo, temp, unread>>

\* write(): the check of what is there ...
WriteChecks(p) ==
  /\ \E read \in BOOLEAN :
       Advance(p, "write", IF read /\ Newer(p, owner[p]) THEN "failed" ELSE "create")
  /\ UNCHANGED <<receipt, installed, lock, owner, todo, temp, unread>>

\* ... a temporary file beside it, empty and of a name of its own ...
CreateTemp(p) ==
  /\ Advance(p, "create", "dump")
  /\ temp' = [temp EXCEPT ![p] = Unreadable]
  /\ UNCHANGED <<receipt, installed, lock, owner, todo, unread>>

\* Mutant: what json.dump() wrote stays in the stream until the file is closed.
DumpUnflushed(p) ==
  /\ Advance(p, "dump", "replace")
  /\ UNCHANGED <<receipt, installed, lock, owner, todo, temp, unread>>

\* ... json.dump() and the flush that puts all of it into the file ...
DumpAndFlush(p) ==
  /\ Advance(p, "dump", "replace")
  /\ temp' = [temp EXCEPT ![p] = Closure[p][owner[p]]]
  /\ UNCHANGED <<receipt, installed, lock, owner, todo, unread>>

\* ... the rename of whatever is in the temporary file over the receipt ...
Replace(p) ==
  /\ Advance(p, "replace", "tidy")
  /\ receipt' = [receipt EXCEPT ![owner[p]] = temp[p]]
  /\ temp' = [temp EXCEPT ![p] = None]
  /\ UNCHANGED <<installed, lock, owner, todo, unread>>

\* ... and the finally: a temporary file that was not renamed is removed.
RemoveTemp(p) ==
  /\ Advance(p, "tidy", IF temp[p] = None THEN "next" ELSE "failed")
  /\ temp' = [temp EXCEPT ![p] = None]
  /\ UNCHANGED <<receipt, installed, lock, owner, todo, unread>>

\* A change, its verification or a call of write() fails: the exception leaves
\* everything as it is but for the finally, whose unlink may fail too.
Fail(p) ==
  /\ \/ \E from \in {"unlink", "change", "verify", "write", "create", "tidy"} :
          Advance(p, from, "failed")
     \/ \E from \in {"dump", "replace"} : Advance(p, from, "tidy")
  /\ UNCHANGED <<receipt, installed, lock, owner, todo, temp, unread>>

\* The with-block of setup_lock ends, or its process does, at any point; a
\* temporary file it had stays under a name no other write() takes.
Release(p) ==
  /\ lock = p
  /\ lock' = None
  /\ stage' = [stage EXCEPT ![p] = "idle"]
  /\ owner' = [owner EXCEPT ![p] = None]
  /\ todo' = [todo EXCEPT ![p] = {}]
  /\ unread' = [unread EXCEPT ![p] = {}]
  /\ UNCHANGED <<receipt, installed, temp>>

ReceiptNext == \E p \in Programs :
  \/ Begin(p) \/ Preflight(p) \/ ClearChecks(p) \/ Unlink(p) \/ Change(p)
  \/ Verified(p) \/ WriteChecks(p) \/ CreateTemp(p) \/ DumpAndFlush(p)
  \/ Replace(p) \/ RemoveTemp(p) \/ Fail(p) \/ Release(p)

ReceiptSpec == ReceiptInit /\ [][ReceiptNext]_receiptVars

-----------------------------------------------------------------------------
(* Properties                                                              *)

\* "write it only after verification succeeds" (l.107): a receipt that can be read
\* is never wrong about what is installed, wherever transactions failed or were
\* killed before.
ReceiptCertifies ==
  \A o \in Owners : receipt[o] \in Receipts => installed[o] = receipt[o]

\* "Newer installed setup cannot be replaced by an older package" (l.237), of the
\* receipts that are read: no owner's receipt is removed and no installation is
\* changed by a program whose checks have read a newer receipt anywhere in its
\* closure, whoever ran between its checks and its writes.
NewerIsKept ==
  \A p \in Programs : stage[p] \in Changing \union {"unlink"} =>
    \A o \in Owners \ unread[p] : ~Newer(p, o)

\* test_setup.py l.120-131 (a failing json.dump or os.replace): at every step of
\* write(), fail or die where it will, the receipt file holds what a reader can
\* read or what it could not read before.
NeverTorn ==
  [][\A o \in Owners : receipt'[o] = Unreadable => receipt[o] = Unreadable]_receiptVars

\* What it takes to get below an installed version: the lock serializes, and a
\* program past its preflight has read no newer receipt in its closure; the owner
\* it changes has no receipt, and what it is about to rename is whole.
PastPreflight == Stages \ {"idle", "preflight", "failed"}

SetupInv ==
  /\ \A p \in Programs : stage[p] # "idle" => lock = p
  /\ \A p \in Programs : stage[p] \in PastPreflight =>
       \A o \in Owners \ unread[p] : ~Newer(p, o)
  /\ \A p \in Programs : stage[p] \in Changing \union {"unlink", "tidy"} =>
       owner[p] \in Owners
  /\ \A p \in Programs : stage[p] \in Changing => receipt[owner[p]] = None
  /\ \A p \in Programs : stage[p] \in Writing =>
       installed[owner[p]] = Closure[p][owner[p]]
  /\ \A p \in Programs : stage[p] = "replace" => temp[p] = Closure[p][owner[p]]
  /\ ReceiptCertifies

=============================================================================
