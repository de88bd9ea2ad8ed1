---------------------------- MODULE FilePublish -----------------------------
(***************************************************************************)
(* How files are published: untrusted_fs.py, in a directory that a task     *)
(* renames and links about at the same time; matrix/_files.py, which reads  *)
(* such a directory; and fs.py, in directories of the operator's own.       *)
(*                                                                         *)
(* The untrusted path has two directories, each named in the one above it.  *)
(* A directory, once open, stays the one that was opened wherever its name  *)
(* leads later, and so does a file.  Each step is one system call, or       *)
(* several of one call's that nobody else's step can come between.          *)
(***************************************************************************)
EXTENDS Integers, FiniteSets

CONSTANTS
  Procs,       \* calls of the library, in one process or several
  MaxMoves,    \* bound: what the task does
  Nothing      \* no directory, no inode

Operations == {"write", "read", "collect", "remove", "lock", "sensitive", "config"}
Untrusted == {"write", "read", "collect", "remove", "lock"}
Creating == {"write", "lock"}

\* On either level: the task's own directory, one outside the tree that a link may
\* lead to, and the one that a call makes.
Dirs == Procs \union {"task", "outside"}
\* The inode a call creates is named by the call.
Inodes == Procs \union {"taskFile", "outsideFile", "link", "fifo"}

ASSUME ProcsAssumption ==
  /\ Procs \intersect {"task", "outside", "taskFile", "outsideFile", "link", "fifo"} = {}
  /\ Nothing \notin Dirs \union Inodes
ASSUME MovesAssumption == MaxMoves \in Nat

VARIABLES
  op,          \* which operation a call is
  pc,          \* its next step, or how it ended
  dir,         \* the directory descriptor it holds
  fd,          \* the inode it has open
  got,         \* what it read or returned
  first,       \* what the first directory's name leads to, or "link"
  second,      \* what the second one's leads to, in each first directory
  leaf,        \* the file's entry in each second directory
  temp,        \* what a call's temporary name leads to, in its directory
  content,     \* of each inode: "none", "half", "whole"
  own,         \* the inode of the sensitive file
  config,      \* content of the config file, rewritten in place
  shared,      \* calls that wrote it while another did: a history variable
  locked,      \* inode -> who has its flock
  moves

walkVars == <<first, second>>
fsVars == <<own, config, shared>>
vars == <<op, pc, dir, fd, got, walkVars, leaf, temp, content, fsVars, locked, moves>>

Init ==
  /\ op \in [Procs -> Operations]
  /\ pc = [p \in Procs |-> "begin"]
  /\ dir = [p \in Procs |-> Nothing] /\ fd = [p \in Procs |-> Nothing]
  /\ got = [p \in Procs |-> "nothing"]
  /\ first \in {"task", Nothing}
  /\ \E d \in {"task", Nothing} :
       second = [t \in Dirs |-> IF t = "outside" THEN t ELSE IF t = "task" THEN d ELSE Nothing]
  /\ leaf = [d \in Dirs |-> IF d = "outside" THEN "outsideFile" ELSE Nothing]
  /\ temp = [p \in Procs |-> Nothing]
  /\ content = [i \in Inodes |-> IF i \in Procs THEN "none" ELSE "whole"]
  /\ own = Nothing /\ config \in {"none", "whole"} /\ shared = {}
  /\ locked = [i \in Inodes |-> Nothing]
  /\ moves = 0

Goto(p, from, to) == pc[p] = from /\ pc' = [pc EXCEPT ![p] = to]
Ends(p, from, how) == Goto(p, from, how)
Over == {"done", "refused", "missing", "failed", "killed"}

Links(i) == Cardinality({d \in Dirs : leaf[d] = i}) + Cardinality({p \in Procs : temp[p] = i})
Regular(i) == i \notin {"link", "fifo"}

\* _require_regular; read_regular() in _files.py does not ask for a single link.
Plain(p, i) == Regular(i) /\ (op[p] = "collect" \/ Links(i) = 1)

-----------------------------------------------------------------------------
(* untrusted_fs.py                                                         *)

\* Mutant: the walk follows links.
EnterFollowing(p, from, to, d) ==
  \/ d = "link" /\ Goto(p, from, to) /\ dir' = [dir EXCEPT ![p] = "outside"]
  \/ d = Nothing /\ Ends(p, from, "missing") /\ UNCHANGED dir
  \/ d \in Dirs /\ Goto(p, from, to) /\ dir' = [dir EXCEPT ![p] = d]

\* A component is opened in the directory that is held, without following it.
Enter(p, from, to, d) ==
  \/ d = "link" /\ Ends(p, from, "refused") /\ UNCHANGED dir
  \/ d = Nothing /\ Ends(p, from, "missing") /\ UNCHANGED dir
  \/ d \in Dirs /\ Goto(p, from, to) /\ dir' = [dir EXCEPT ![p] = d]

\* open_untrusted_directory: with `create` each component is made, if nothing has
\* its name, before it is opened.
MakeFirst(p) ==
  /\ op[p] \in Creating /\ Goto(p, "begin", "made")
  /\ first' = IF first = Nothing THEN p ELSE first
  /\ UNCHANGED <<op, dir, fd, got, second, leaf, temp, content, fsVars, locked, moves>>

OpenFirst(p) ==
  /\ op[p] \in Untrusted
  /\ Enter(p, IF op[p] \in Creating THEN "made" ELSE "begin", "inside", first)
  /\ UNCHANGED <<op, fd, got, walkVars, leaf, temp, content, fsVars, locked, moves>>

MakeSecond(p) ==
  /\ op[p] \in Creating /\ Goto(p, "inside", "madeInside")
  /\ second' = [second EXCEPT ![dir[p]] = IF @ = Nothing THEN p ELSE @]
  /\ UNCHANGED <<op, dir, fd, got, first, leaf, temp, content, fsVars, locked, moves>>

OpenSecond(p) ==
  /\ pc[p] \in {"inside", "madeInside"}
  /\ Enter(p, IF op[p] \in Creating THEN "madeInside" ELSE "inside", "opened", second[dir[p]])
  /\ UNCHANGED <<op, fd, got, walkVars, leaf, temp, content, fsVars, locked, moves>>

\* _check_destination.
CheckDestination(p) ==
  /\ op[p] \in {"write", "remove"} /\ pc[p] = "opened"
  /\ LET i == leaf[dir[p]]
     IN \/ i = Nothing /\ op[p] = "remove" /\ Ends(p, "opened", "missing")
        \/ i = Nothing /\ op[p] = "write" /\ Goto(p, "opened", "checked")
        \/ i # Nothing /\ Plain(p, i) /\ Goto(p, "opened", "checked")
        \/ i # Nothing /\ ~Plain(p, i) /\ Ends(p, "opened", "refused")
  /\ UNCHANGED <<op, dir, fd, got, walkVars, leaf, temp, content, fsVars, locked, moves>>

\* os.unlink: whatever entry is there by now.
Unlink(p) ==
  /\ op[p] = "remove" /\ pc[p] = "checked"
  /\ Ends(p, "checked", IF leaf[dir[p]] = Nothing THEN "missing" ELSE "done")
  /\ leaf' = [leaf EXCEPT ![dir[p]] = Nothing]
  /\ UNCHANGED <<op, dir, fd, got, walkVars, temp, content, fsVars, locked, moves>>

\* A fresh private inode under a name nobody else has.
CreateTemp(p) ==
  /\ op[p] = "write" /\ Goto(p, "checked", "writing")
  /\ temp' = [temp EXCEPT ![p] = p]
  /\ content' = [content EXCEPT ![p] = "half"]
  /\ UNCHANGED <<op, dir, fd, got, walkVars, leaf, fsVars, locked, moves>>

\* write, flush, fchmod, fsync.
WriteTemp(p) ==
  /\ op[p] = "write" /\ Goto(p, "writing", "written")
  /\ content' = [content EXCEPT ![p] = "whole"]
  /\ UNCHANGED <<op, dir, fd, got, walkVars, leaf, temp, fsVars, locked, moves>>

\* Mutant: the name is replaced first, and the content follows.
ReplaceUnwritten(p) ==
  /\ op[p] = "write" /\ pc[p] \in {"writing", "written"}
  /\ temp[p] # Nothing
  /\ pc' = [pc EXCEPT ![p] = "done"]
  /\ leaf' = [leaf EXCEPT ![dir[p]] = temp[p]]
  /\ temp' = [temp EXCEPT ![p] = Nothing]
  /\ UNCHANGED <<op, dir, fd, got, walkVars, content, fsVars, locked, moves>>

\* os.replace between two names of the held directory moves what the temporary one
\* leads to by now.
Replace(p) ==
  /\ op[p] = "write" /\ temp[p] # Nothing /\ Ends(p, "written", "done")
  /\ leaf' = [leaf EXCEPT ![dir[p]] = temp[p]]
  /\ temp' = [temp EXCEPT ![p] = Nothing]
  /\ UNCHANGED <<op, dir, fd, got, walkVars, content, fsVars, locked, moves>>

\* Mutant: an exception leaves the temporary file.
WriteFailsDirty(p) ==
  /\ op[p] = "write" /\ pc[p] \in {"writing", "written"}
  /\ pc' = [pc EXCEPT ![p] = "failed"]
  /\ UNCHANGED <<op, dir, fd, got, walkVars, leaf, temp, content, fsVars, locked, moves>>

\* An exception on the way, a temporary name that is gone included; finally unlinks
\* the name.
WriteFails(p) ==
  /\ op[p] = "write" /\ pc[p] \in {"writing", "written"}
  /\ pc' = [pc EXCEPT ![p] = "failed"]
  /\ temp' = [temp EXCEPT ![p] = Nothing]
  /\ UNCHANGED <<op, dir, fd, got, walkVars, leaf, content, fsVars, locked, moves>>

\* _open_file, without following a link or waiting for a FIFO's writer.  The lock
\* creates a missing file.
OpenFile(p) ==
  /\ op[p] \in {"read", "collect", "lock"} /\ pc[p] = "opened"
  /\ LET i == leaf[dir[p]]
     IN \/ i = "link" /\ Ends(p, "opened", "refused") /\ UNCHANGED <<fd, leaf, content>>
        \/ i = Nothing /\ op[p] # "lock" /\ Ends(p, "opened", "missing")
           /\ UNCHANGED <<fd, leaf, content>>
        \/ i = Nothing /\ op[p] = "lock" /\ Goto(p, "opened", "reading")
           /\ fd' = [fd EXCEPT ![p] = p] /\ leaf' = [leaf EXCEPT ![dir[p]] = p]
           /\ content' = [content EXCEPT ![p] = "whole"]
        \/ i \notin {"link", Nothing} /\ Goto(p, "opened", "reading")
           /\ fd' = [fd EXCEPT ![p] = i] /\ UNCHANGED <<leaf, content>>
  /\ UNCHANGED <<op, dir, got, walkVars, temp, fsVars, locked, moves>>

\* fstat of what is open.
RequireRegular(p) ==
  /\ pc[p] = "reading"
  /\ \/ ~Plain(p, fd[p]) /\ Ends(p, "reading", "refused")
     \/ Plain(p, fd[p]) /\ op[p] = "lock" /\ Goto(p, "reading", "locking")
     \/ Plain(p, fd[p]) /\ op[p] # "lock" /\ Goto(p, "reading", "plain")
  /\ UNCHANGED <<op, dir, fd, got, walkVars, leaf, temp, content, fsVars, locked, moves>>

\* A file that is too long is refused, and one that does not decode.
Read(p) ==
  /\ \/ Ends(p, "plain", "refused") /\ UNCHANGED got
     \/ Ends(p, "plain", "done") /\ got' = [got EXCEPT ![p] = content[fd[p]]]
  /\ UNCHANGED <<op, dir, fd, walkVars, leaf, temp, content, fsVars, locked, moves>>

\* flock waits for whoever has the same inode locked.
Flock(p) ==
  /\ pc[p] = "locking" /\ locked[fd[p]] = Nothing /\ Goto(p, "locking", "holding")
  /\ locked' = [locked EXCEPT ![fd[p]] = p]
  /\ UNCHANGED <<op, dir, fd, got, walkVars, leaf, temp, content, fsVars, moves>>

Funlock(p) ==
  /\ Ends(p, "holding", "done")
  /\ locked' = [locked EXCEPT ![fd[p]] = Nothing]
  /\ UNCHANGED <<op, dir, fd, got, walkVars, leaf, temp, content, fsVars, moves>>

-----------------------------------------------------------------------------
(* fs.py                                                                   *)

\* A parent that is a link is refused.  O_EXCL: whoever finds the file is told that
\* it exists.
CreateSensitive(p) ==
  /\ op[p] = "sensitive"
  /\ \/ Ends(p, "begin", "refused") /\ UNCHANGED <<own, got, content>>
     \/ /\ own = Nothing /\ Goto(p, "begin", "secret")
        /\ own' = p /\ content' = [content EXCEPT ![p] = "half"] /\ UNCHANGED got
     \/ /\ own # Nothing /\ Ends(p, "begin", "done")
        /\ got' = [got EXCEPT ![p] = "existed"] /\ UNCHANGED <<own, content>>
  /\ UNCHANGED <<op, dir, fd, walkVars, leaf, temp, config, shared, locked, moves>>

WriteSensitive(p) ==
  /\ Ends(p, "secret", "done")
  /\ content' = [content EXCEPT ![p] = "whole"]
  /\ got' = [got EXCEPT ![p] = "created"]
  /\ UNCHANGED <<op, dir, fd, walkVars, leaf, temp, fsVars, locked, moves>>

\* Any exception unlinks the file.
SensitiveFails(p) ==
  /\ Ends(p, "secret", "failed")
  /\ own' = Nothing
  /\ UNCHANGED <<op, dir, fd, got, walkVars, leaf, temp, content, config, shared, locked, moves>>

Rewriting == {q \in Procs : pc[q] = "truncated"}

\* Mutant: what is there is written over.
OpenConfigUntruncated(p) ==
  /\ op[p] = "config" /\ Goto(p, "begin", "truncated")
  /\ config' = IF config = "none" THEN "empty" ELSE config
  /\ shared' = IF Rewriting = {} THEN shared ELSE shared \union Rewriting \union {p}
  /\ UNCHANGED <<op, dir, fd, got, walkVars, leaf, temp, content, own, locked, moves>>

\* O_CREAT and O_TRUNC, in place.
TruncateConfig(p) ==
  /\ op[p] = "config" /\ Goto(p, "begin", "truncated")
  /\ config' = "empty"
  /\ shared' = IF Rewriting = {} THEN shared ELSE shared \union Rewriting \union {p}
  /\ UNCHANGED <<op, dir, fd, got, walkVars, leaf, temp, content, own, locked, moves>>

\* The write succeeds or fails, from the start of the file and over whatever is
\* there by now.
WriteConfig(p) ==
  /\ \/ /\ Ends(p, "truncated", "done")
        /\ config' \in IF config = "empty" THEN {"whole"} ELSE {"whole", "mixed"}
     \/ /\ Ends(p, "truncated", "failed")
        /\ config' \in IF config = "empty" THEN {"empty", "part"} ELSE {config, "mixed"}
  /\ UNCHANGED <<op, dir, fd, got, walkVars, leaf, temp, content, own, shared, locked, moves>>

-----------------------------------------------------------------------------
(* The task, and the end of a process                                      *)

TaskFiles == {"taskFile", "outsideFile", "link", "fifo", Nothing}

\* The directories within the tree that have a name, or that a call holds.
Inside == {p \in Procs : pc[p] \in {"inside", "madeInside"}}
Firsts == ({"task", first} \union {dir[p] : p \in Inside}) \ {"outside", "link", Nothing}
Seconds == ({"task"} \union {second[t] : t \in Dirs} \union {dir[p] : p \in Procs \ Inside})
             \ {"outside", "link", Nothing}

\* A directory is moved aside, put back, or replaced by a link.
MoveDirectory ==
  /\ \E d \in {"task", "link", Nothing} :
       \/ first' = d /\ UNCHANGED second
       \/ UNCHANGED first /\ \E t \in Firsts : second' = [second EXCEPT ![t] = d]
  /\ UNCHANGED <<leaf, temp>>

\* The file, or what a call has under its temporary name, is removed, or replaced by
\* any kind of entry.
ReplaceLeaf ==
  /\ \E i \in TaskFiles :
       \/ \E d \in Seconds : leaf' = [leaf EXCEPT ![d] = i] /\ UNCHANGED temp
       \/ /\ \E p \in Procs : op[p] = "write" /\ pc[p] \in {"writing", "written"}
                               /\ temp' = [temp EXCEPT ![p] = i]
          /\ UNCHANGED leaf
  /\ UNCHANGED walkVars

Task ==
  /\ moves < MaxMoves /\ moves' = moves + 1
  /\ MoveDirectory \/ ReplaceLeaf
  /\ <<walkVars, leaf, temp>>' # <<walkVars, leaf, temp>>
  /\ UNCHANGED <<op, pc, dir, fd, got, content, fsVars, locked>>

\* A kill; the kernel drops the call's descriptors and locks.
Kill(p) ==
  /\ pc[p] \notin Over
  /\ pc' = [pc EXCEPT ![p] = "killed"]
  /\ locked' = [i \in Inodes |-> IF locked[i] = p THEN Nothing ELSE locked[i]]
  /\ UNCHANGED <<op, dir, fd, got, walkVars, leaf, temp, content, fsVars, moves>>

Step(p) ==
  \/ MakeFirst(p) \/ OpenFirst(p) \/ MakeSecond(p) \/ OpenSecond(p)
  \/ CheckDestination(p) \/ Unlink(p)
  \/ CreateTemp(p) \/ WriteTemp(p) \/ Replace(p) \/ WriteFails(p)
  \/ OpenFile(p) \/ RequireRegular(p) \/ Read(p) \/ Flock(p) \/ Funlock(p)
  \/ CreateSensitive(p) \/ WriteSensitive(p) \/ SensitiveFails(p)
  \/ TruncateConfig(p) \/ WriteConfig(p)

Next == Task \/ \E p \in Procs : Step(p) \/ Kill(p)

Spec == Init /\ [][Next]_vars

-----------------------------------------------------------------------------
(* Properties                                                              *)

\* write_untrusted_bytes(), untrusted_file_lock(), remove_untrusted_file():
\* whatever the task links or renames between two steps, no call changes a
\* directory outside the tree, nor an inode that it has not created itself.
OnlyOwnInodesChange ==
  [][/\ second'["outside"] = second["outside"] /\ leaf'["outside"] = leaf["outside"]
     /\ \A i \in Inodes : content'[i] # content[i] =>
          i \in Procs /\ pc'[i] # pc[i]]_vars

\* write_untrusted_bytes() and untrusted_file_lock() name what they create when it is
\* whole, and a read returns a whole file, with kills and failures at every step.
\* write_sensitive_file() names an empty file first: it is whole when True is
\* returned, and one that is not whole has its writer at work, or had it killed.
PublishedIsWhole ==
  /\ \A d \in Dirs : leaf[d] \in Procs => content[leaf[d]] = "whole"
  /\ \A p \in Procs : op[p] \in {"read", "collect"} => got[p] \in {"nothing", "whole"}
  /\ \A p \in Procs : got[p] = "created" => own = p /\ content[p] = "whole"
  /\ own \in Procs /\ content[own] # "whole" => pc[own] \in {"secret", "killed"}

\* A call that was not killed leaves nothing half done, however it ended: no
\* temporary name, and no half-written secret for the next call to find (fs.py
\* l.117: "so the next call sees a clean state rather than a half-baked secret").
NothingLeftBehind ==
  \A p \in Procs : pc[p] \in Over \ {"killed"} =>
    /\ temp[p] = Nothing
    /\ own = p => content[p] = "whole"
    /\ \A i \in Inodes : locked[i] # p

\* write_config_file() rewrites in place.  A config file with less than a text in it
\* has a writer that is at work, has failed or was killed; one that mixes two texts
\* had two writers at once.
ConfigHasItsWriters ==
  /\ config \in {"empty", "part"} =>
       \E p \in Procs : op[p] = "config" /\ pc[p] \in {"truncated", "failed", "killed"}
  /\ config = "mixed" => shared # {}

=============================================================================
