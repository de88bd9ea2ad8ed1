------------------------- MODULE FilePublishProofs --------------------------
(***************************************************************************)
(* Theorems about FilePublish for every set of calls, in every mix of        *)
(* operations, and for a task that moves as often as it likes.              *)
(***************************************************************************)
EXTENDS FilePublish, TLAPS

\* Where a call that publishes has nothing more to write, or never had.
Reading == {"reading", "plain", "locking", "holding"}
Past == Over \union Reading
Walking == {"begin", "made", "inside", "madeInside"}
PCs == Past \union Walking
         \union {"opened", "checked", "writing", "written", "secret", "truncated"}

Contents == {"none", "half", "whole"}

TypeInv ==
  /\ op \in [Procs -> Operations]
  /\ pc \in [Procs -> PCs]
  /\ dir \in [Procs -> Dirs \union {Nothing}]
  /\ fd \in [Procs -> Inodes \union {Nothing}]
  /\ got \in [Procs -> Contents \union {"nothing", "existed", "created"}]
  /\ first \in Dirs \union {"link", Nothing}
  /\ second \in [Dirs -> Dirs \union {"link", Nothing}]
  /\ leaf \in [Dirs -> Inodes \union {Nothing}]
  /\ temp \in [Procs -> Inodes \union {Nothing}]
  /\ content \in [Inodes -> Contents]
  /\ own \in Procs \union {Nothing}
  /\ config \in {"none", "empty", "part", "whole", "mixed"} /\ shared \subseteq Procs
  /\ locked \in [Inodes -> Procs \union {Nothing}]

\* An inode that can be reached by name or is open is whole, and nobody is still to
\* write it.
Settled(i) == content[i] = "whole" /\ (i \in Procs => pc[i] \in Past)

\* The walk never ends outside the tree.
DirInv ==
  /\ first # "outside"
  /\ \A d \in Dirs \ {"outside"} : second[d] # "outside"
  /\ \A p \in Procs : dir[p] # "outside"
  /\ \A p \in Procs :
       pc[p] \in {"inside", "madeInside", "opened", "checked", "writing", "written"} =>
         dir[p] # Nothing

WholeInv ==
  /\ \A i \in Inodes \ Procs : content[i] = "whole"
  /\ \A d \in Dirs : leaf[d] # Nothing => Settled(leaf[d])
  /\ \A p \in Procs : fd[p] # Nothing => Settled(fd[p])
  /\ \A p \in Procs : pc[p] \in Reading => fd[p] # Nothing
  /\ \A p \in Procs : pc[p] = "written" => content[p] = "whole"
  /\ \A p \in Procs : temp[p] \in {p} \union TaskFiles
  /\ \A p \in Procs : op[p] \in {"read", "collect"} => got[p] \in {"nothing", "whole"}

\* The secret's name is the call's that is writing it, until it is whole.
SecretInv ==
  /\ \A p \in Procs : pc[p] = "secret" => own = p /\ op[p] = "sensitive"
  /\ \A p \in Procs : got[p] = "created" => own = p /\ Settled(p)
  /\ own \in Procs => Settled(own) \/ pc[own] \in {"secret", "killed"}

TidyInv ==
  /\ \A p \in Procs : temp[p] # Nothing => pc[p] \in {"writing", "written", "killed"}
  /\ \A i \in Inodes : locked[i] # Nothing => pc[locked[i]] = "holding" /\ fd[locked[i]] = i

\* Whoever has truncated the config file still finds it empty, unless it was not
\* alone.
ConfigInv ==
  /\ ConfigHasItsWriters
  /\ \A p \in Procs : pc[p] = "truncated" => op[p] = "config"
  /\ \A p \in Procs : pc[p] = "truncated" => config = "empty" \/ shared # {}
  /\ \A p, q \in Procs :
       pc[p] = "truncated" /\ pc[q] = "truncated" /\ p # q => shared # {}

Inv == TypeInv /\ DirInv /\ WholeInv /\ SecretInv /\ TidyInv /\ ConfigInv

-----------------------------------------------------------------------------
(* Names                                                                   *)

\* The calls, the directories and the inodes are told apart.
LEMMA Names ==
  /\ \A p \in Procs : p \notin {"task", "outside", "taskFile", "outsideFile", "link", "fifo", Nothing}
  /\ Nothing \notin Dirs \union Inodes
  /\ Procs \subseteq Dirs /\ Procs \subseteq Inodes
  /\ {"task", "outside"} \subseteq Dirs
  /\ {"taskFile", "outsideFile", "link", "fifo"} \subseteq Inodes
  BY ProcsAssumption, SMT DEF Dirs, Inodes

LEMMA InvInit == Init => Inv
  <1> SUFFICES ASSUME Init PROVE Inv
    OBVIOUS
  <1> USE Names DEF Init
  <1>1. TypeInv
    BY DEF TypeInv, PCs, Walking, Past, Reading, Over, Contents, Dirs, Inodes
  <1>2. DirInv
    BY DEF DirInv
  <1>3. WholeInv
    BY DEF WholeInv, Settled, Reading, Inodes, TaskFiles
  <1>4. SecretInv
    BY DEF SecretInv
  <1>5. TidyInv
    BY DEF TidyInv
  <1>6. ConfigInv
    BY DEF ConfigInv, ConfigHasItsWriters
  <1>7. QED
    BY <1>1, <1>2, <1>3, <1>4, <1>5, <1>6 DEF Inv

-----------------------------------------------------------------------------
(* Steps: each action keeps each part of the invariant                     *)

LEMMA MakeFirstStep ==
  ASSUME Inv, NEW p \in Procs, MakeFirst(p)
  PROVE  Inv'
  <1> USE DEF Goto, Ends, walkVars, fsVars
  <1>1. TypeInv'
    BY Names DEF Inv, MakeFirst, TypeInv, PCs, Walking, Past, Over
  <1>2. DirInv'
    BY Names DEF Inv, MakeFirst, DirInv, TypeInv, Dirs
  <1>3. WholeInv'
    BY DEF Inv, MakeFirst, WholeInv, Settled, TypeInv, Past, Reading, Over
  <1>4. SecretInv'
    BY DEF Inv, MakeFirst, SecretInv, Settled, TypeInv, Past, Reading, Over
  <1>5. TidyInv'
    BY DEF Inv, MakeFirst, TidyInv, TypeInv
  <1>6. ConfigInv'
    BY DEF Inv, MakeFirst, ConfigInv, ConfigHasItsWriters, TypeInv
  <1>7. QED
    BY <1>1, <1>2, <1>3, <1>4, <1>5, <1>6 DEF Inv

LEMMA OpenFirstStep ==
  ASSUME Inv, NEW p \in Procs, OpenFirst(p)
  PROVE  Inv'
  <1> USE DEF Goto, Ends, walkVars, fsVars
  <1>1. TypeInv'
    BY Names DEF Inv, OpenFirst, Enter, TypeInv, PCs, Walking, Past, Over
  <1>2. DirInv'
    BY Names DEF Inv, OpenFirst, Enter, DirInv, TypeInv, Dirs
  <1>3. WholeInv'
    BY DEF Inv, OpenFirst, Enter, WholeInv, Settled, TypeInv, Past, Reading, Over
  <1>4. SecretInv'
    BY DEF Inv, OpenFirst, Enter, SecretInv, Settled, TypeInv, Past, Reading, Over
  <1>5. TidyInv'
    BY DEF Inv, OpenFirst, Enter, TidyInv, TypeInv
  <1>6. ConfigInv'
    BY DEF Inv, OpenFirst, Enter, ConfigInv, ConfigHasItsWriters, TypeInv
  <1>7. QED
    BY <1>1, <1>2, <1>3, <1>4, <1>5, <1>6 DEF Inv

LEMMA MakeSecondStep ==
  ASSUME Inv, NEW p \in Procs, MakeSecond(p)
  PROVE  Inv'
  <1> USE DEF Goto, Ends, walkVars, fsVars
  <1>1. TypeInv'
    BY Names DEF Inv, MakeSecond, TypeInv, PCs, Walking, Past, Over
  <1>2. DirInv'
    BY Names DEF Inv, MakeSecond, DirInv, TypeInv, Dirs
  <1>3. WholeInv'
    BY DEF Inv, MakeSecond, WholeInv, Settled, TypeInv, Past, Reading, Over
  <1>4. SecretInv'
    BY DEF Inv, MakeSecond, SecretInv, Settled, TypeInv, Past, Reading, Over
  <1>5. TidyInv'
    BY DEF Inv, MakeSecond, TidyInv, TypeInv
  <1>6. ConfigInv'
    BY DEF Inv, MakeSecond, ConfigInv, ConfigHasItsWriters, TypeInv
  <1>7. QED
    BY <1>1, <1>2, <1>3, <1>4, <1>5, <1>6 DEF Inv

LEMMA OpenSecondStep ==
  ASSUME Inv, NEW p \in Procs, OpenSecond(p)
  PROVE  Inv'
  <1> USE DEF Goto, Ends, walkVars, fsVars
  <1>1. TypeInv'
    BY Names DEF Inv, OpenSecond, Enter, TypeInv, PCs, Walking, Past, Over
  <1>2. DirInv'
    BY Names DEF Inv, OpenSecond, Enter, DirInv, TypeInv, Dirs
  <1>3. WholeInv'
    BY DEF Inv, OpenSecond, Enter, WholeInv, Settled, TypeInv, Past, Reading, Over
  <1>4. SecretInv'
    BY DEF Inv, OpenSecond, Enter, SecretInv, Settled, TypeInv, Past, Reading, Over
  <1>5. TidyInv'
    BY DEF Inv, OpenSecond, Enter, TidyInv, TypeInv
  <1>6. ConfigInv'
    BY DEF Inv, OpenSecond, Enter, ConfigInv, ConfigHasItsWriters, TypeInv
  <1>7. QED
    BY <1>1, <1>2, <1>3, <1>4, <1>5, <1>6 DEF Inv

LEMMA CheckDestinationStep ==
  ASSUME Inv, NEW p \in Procs, CheckDestination(p)
  PROVE  Inv'
  <1> USE DEF Goto, Ends, walkVars, fsVars
  <1>1. TypeInv'
    BY DEF Inv, CheckDestination, TypeInv, PCs, Past, Over
  <1>2. DirInv'
    BY DEF Inv, CheckDestination, DirInv, TypeInv
  <1>3. WholeInv'
    BY DEF Inv, CheckDestination, WholeInv, Settled, TypeInv,
           Past, Reading, Over
  <1>4. SecretInv'
    BY DEF Inv, CheckDestination, SecretInv, Settled, TypeInv, Past,
           Reading, Over
  <1>5. TidyInv'
    BY DEF Inv, CheckDestination, TidyInv, TypeInv
  <1>6. ConfigInv'
    BY DEF Inv, CheckDestination, ConfigInv, ConfigHasItsWriters, TypeInv
  <1>7. QED
    BY <1>1, <1>2, <1>3, <1>4, <1>5, <1>6 DEF Inv

LEMMA UnlinkStep ==
  ASSUME Inv, NEW p \in Procs, Unlink(p)
  PROVE  Inv'
  <1> USE DEF Goto, Ends, walkVars, fsVars
  <1>1. TypeInv'
    BY DEF Inv, Unlink, TypeInv, PCs, Past, Over
  <1>2. DirInv'
    BY DEF Inv, Unlink, DirInv
  <1>3. WholeInv'
    BY DEF Inv, Unlink, WholeInv, Settled, Past, Reading, Over
  <1>4. SecretInv'
    BY DEF Inv, Unlink, SecretInv, Settled, Past, Over
  <1>5. TidyInv'
    BY DEF Inv, Unlink, TidyInv
  <1>6. ConfigInv'
    BY DEF Inv, Unlink, ConfigInv, ConfigHasItsWriters, TypeInv
  <1>7. QED
    BY <1>1, <1>2, <1>3, <1>4, <1>5, <1>6 DEF Inv

LEMMA CreateTempStep ==
  ASSUME Inv, NEW p \in Procs, CreateTemp(p)
  PROVE  Inv'
  <1> USE DEF Goto, Ends, walkVars, fsVars
  <1>1. TypeInv'
    BY Names DEF Inv, CreateTemp, TypeInv, PCs, Contents
  <1>2. DirInv'
    BY DEF Inv, CreateTemp, DirInv
  <1>3. WholeInv'
    BY DEF Inv, CreateTemp, WholeInv, Settled, Past, Reading, Over
  <1>4. SecretInv'
    BY DEF Inv, CreateTemp, SecretInv, Settled, Past, Reading, Over
  <1>5. TidyInv'
    BY DEF Inv, CreateTemp, TidyInv, TypeInv
  <1>6. ConfigInv'
    BY DEF Inv, CreateTemp, ConfigInv, ConfigHasItsWriters, TypeInv
  <1>7. QED
    BY <1>1, <1>2, <1>3, <1>4, <1>5, <1>6 DEF Inv

LEMMA WriteTempStep ==
  ASSUME Inv, NEW p \in Procs, WriteTemp(p)
  PROVE  Inv'
  <1> USE DEF Goto, Ends, walkVars, fsVars
  <1>1. TypeInv'
    BY DEF Inv, WriteTemp, TypeInv, PCs, Contents
  <1>2. DirInv'
    BY DEF Inv, WriteTemp, DirInv
  <1>3. WholeInv'
    BY Names DEF Inv, WriteTemp, WholeInv, Settled, TypeInv, Past,
                 Reading, Over
  <1>4. SecretInv'
    BY DEF Inv, WriteTemp, SecretInv, Settled, Past, Reading, Over
  <1>5. TidyInv'
    BY DEF Inv, WriteTemp, TidyInv
  <1>6. ConfigInv'
    BY DEF Inv, WriteTemp, ConfigInv, ConfigHasItsWriters, TypeInv
  <1>7. QED
    BY <1>1, <1>2, <1>3, <1>4, <1>5, <1>6 DEF Inv

LEMMA ReplaceStep ==
  ASSUME Inv, NEW p \in Procs, Replace(p)
  PROVE  Inv'
  <1> USE DEF Goto, Ends, walkVars, fsVars
  <1>1. TypeInv'
    BY Names DEF Inv, Replace, TypeInv, PCs, Past, Over
  <1>2. DirInv'
    BY DEF Inv, Replace, DirInv
  <1>3. WholeInv'
    BY Names DEF Inv, Replace, WholeInv, Settled, TypeInv, Past, Reading, Over, TaskFiles
  <1>4. SecretInv'
    BY DEF Inv, Replace, SecretInv, Settled, Past, Over
  <1>5. TidyInv'
    BY DEF Inv, Replace, TidyInv, TypeInv
  <1>6. ConfigInv'
    BY DEF Inv, Replace, ConfigInv, ConfigHasItsWriters, TypeInv
  <1>7. QED
    BY <1>1, <1>2, <1>3, <1>4, <1>5, <1>6 DEF Inv

LEMMA WriteFailsStep ==
  ASSUME Inv, NEW p \in Procs, WriteFails(p)
  PROVE  Inv'
  <1> USE DEF Goto, Ends, walkVars, fsVars
  <1>1. TypeInv'
    BY DEF Inv, WriteFails, TypeInv, PCs, Past, Over
  <1>2. DirInv'
    BY DEF Inv, WriteFails, DirInv
  <1>3. WholeInv'
    BY DEF Inv, WriteFails, WholeInv, Settled, TypeInv, TaskFiles, Past, Reading, Over
  <1>4. SecretInv'
    BY DEF Inv, WriteFails, SecretInv, Settled, Past, Over
  <1>5. TidyInv'
    BY DEF Inv, WriteFails, TidyInv, TypeInv
  <1>6. ConfigInv'
    BY DEF Inv, WriteFails, ConfigInv, ConfigHasItsWriters, TypeInv
  <1>7. QED
    BY <1>1, <1>2, <1>3, <1>4, <1>5, <1>6 DEF Inv

LEMMA OpenFileStep ==
  ASSUME Inv, NEW p \in Procs, OpenFile(p)
  PROVE  Inv'
  <1> USE DEF Goto, Ends, walkVars, fsVars
  <1>1. TypeInv'
    BY Names DEF Inv, OpenFile, TypeInv, PCs, Past, Reading, Over, Contents,
                 DirInv
  <1>2. DirInv'
    BY DEF Inv, OpenFile, DirInv, TypeInv
  <1>3. WholeInv'
    BY Names DEF Inv, OpenFile, WholeInv, Settled, TypeInv, Past, Reading,
                 Over, DirInv
  <1>4. SecretInv'
    BY Names DEF Inv, OpenFile, SecretInv, Settled, TypeInv, Past, Reading,
                 Over
  <1>5. TidyInv'
    BY DEF Inv, OpenFile, TidyInv, TypeInv
  <1>6. ConfigInv'
    BY DEF Inv, OpenFile, ConfigInv, ConfigHasItsWriters, TypeInv
  <1>7. QED
    BY <1>1, <1>2, <1>3, <1>4, <1>5, <1>6 DEF Inv

LEMMA RequireRegularStep ==
  ASSUME Inv, NEW p \in Procs, RequireRegular(p)
  PROVE  Inv'
  <1> USE DEF Goto, Ends, walkVars, fsVars
  <1>1. TypeInv'
    BY DEF Inv, RequireRegular, TypeInv, PCs, Past, Reading, Over
  <1>2. DirInv'
    BY DEF Inv, RequireRegular, DirInv, TypeInv
  <1>3. WholeInv'
    BY DEF Inv, RequireRegular, WholeInv, Settled, TypeInv, Past,
           Reading, Over
  <1>4. SecretInv'
    BY DEF Inv, RequireRegular, SecretInv, Settled, TypeInv, Past, Reading,
           Over
  <1>5. TidyInv'
    BY DEF Inv, RequireRegular, TidyInv, TypeInv
  <1>6. ConfigInv'
    BY DEF Inv, RequireRegular, ConfigInv, ConfigHasItsWriters, TypeInv
  <1>7. QED
    BY <1>1, <1>2, <1>3, <1>4, <1>5, <1>6 DEF Inv

LEMMA ReadStep ==
  ASSUME Inv, NEW p \in Procs, Read(p)
  PROVE  Inv'
  <1> USE DEF Goto, Ends, walkVars, fsVars
  <1>1. TypeInv'
    <2>1. fd[p] # Nothing /\ content[fd[p]] \in Contents
      BY DEF Inv, Read, TypeInv, WholeInv, Reading
    <2>2. QED
      BY <2>1 DEF Inv, Read, TypeInv, PCs, Past, Over
  <1>2. DirInv'
    BY DEF Inv, Read, DirInv, TypeInv
  <1>3. WholeInv'
    BY DEF Inv, Read, WholeInv, Settled, TypeInv, Past, Reading, Over
  <1>4. SecretInv'
    BY DEF Inv, Read, SecretInv, Settled, TypeInv, Past, Reading, Over, WholeInv
  <1>5. TidyInv'
    BY DEF Inv, Read, TidyInv, TypeInv
  <1>6. ConfigInv'
    BY DEF Inv, Read, ConfigInv, ConfigHasItsWriters, TypeInv
  <1>7. QED
    BY <1>1, <1>2, <1>3, <1>4, <1>5, <1>6 DEF Inv

LEMMA FlockStep ==
  ASSUME Inv, NEW p \in Procs, Flock(p)
  PROVE  Inv'
  <1> USE DEF Goto, Ends, walkVars, fsVars
  <1>1. TypeInv'
    BY DEF Inv, Flock, TypeInv, PCs, Past, Reading
  <1>2. DirInv'
    BY DEF Inv, Flock, DirInv
  <1>3. WholeInv'
    BY DEF Inv, Flock, WholeInv, Settled, Past, Reading
  <1>4. SecretInv'
    BY DEF Inv, Flock, SecretInv, Settled, Past, Reading
  <1>5. TidyInv'
    BY DEF Inv, Flock, TidyInv, TypeInv
  <1>6. ConfigInv'
    BY DEF Inv, Flock, ConfigInv, ConfigHasItsWriters, TypeInv
  <1>7. QED
    BY <1>1, <1>2, <1>3, <1>4, <1>5, <1>6 DEF Inv

LEMMA FunlockStep ==
  ASSUME Inv, NEW p \in Procs, Funlock(p)
  PROVE  Inv'
  <1> USE DEF Goto, Ends, walkVars, fsVars
  <1>1. TypeInv'
    BY DEF Inv, Funlock, TypeInv, PCs, Past, Over
  <1>2. DirInv'
    BY DEF Inv, Funlock, DirInv
  <1>3. WholeInv'
    BY DEF Inv, Funlock, WholeInv, Settled, Past, Reading, Over
  <1>4. SecretInv'
    BY DEF Inv, Funlock, SecretInv, Settled, Past, Over
  <1>5. TidyInv'
    BY DEF Inv, Funlock, TidyInv, TypeInv
  <1>6. ConfigInv'
    BY DEF Inv, Funlock, ConfigInv, ConfigHasItsWriters, TypeInv
  <1>7. QED
    BY <1>1, <1>2, <1>3, <1>4, <1>5, <1>6 DEF Inv

LEMMA CreateSensitiveStep ==
  ASSUME Inv, NEW p \in Procs, CreateSensitive(p)
  PROVE  Inv'
  <1> USE DEF Goto, Ends, walkVars, fsVars
  <1>1. TypeInv'
    BY DEF Inv, CreateSensitive, TypeInv, PCs, Past, Over, Contents
  <1>2. DirInv'
    BY DEF Inv, CreateSensitive, DirInv, TypeInv
  <1>3. WholeInv'
    BY Names DEF Inv, CreateSensitive, WholeInv, Settled, TypeInv,
                 Past, Reading, Over
  <1>4. SecretInv'
    <2>1. CASE Ends(p, "begin", "refused") /\ UNCHANGED <<own, got, content>>
      BY <2>1 DEF Inv, CreateSensitive, SecretInv, Settled, TypeInv, Past, Over
    <2>2. CASE own = Nothing /\ Goto(p, "begin", "secret") /\ own' = p /\ UNCHANGED got
      <3>1. own' = p /\ pc' = [pc EXCEPT ![p] = "secret"] /\ op[p] = "sensitive" /\ got' = got
        BY <2>2 DEF CreateSensitive
      <3>2. \A q \in Procs : got[q] # "created"
        BY <2>2, Names DEF Inv, SecretInv
      <3>3. \A q \in Procs : pc[q] # "secret"
        BY <2>2, Names DEF Inv, SecretInv
      <3>4. pc \in [Procs -> PCs] /\ op' = op
        BY DEF Inv, TypeInv, CreateSensitive
      <3>5. \A q \in Procs : pc'[q] = "secret" => own' = q /\ op'[q] = "sensitive"
        BY <3>1, <3>3, <3>4
      <3>6. \A q \in Procs : got'[q] # "created"
        BY <3>1, <3>2
      <3>7. pc'[own'] = "secret"
        BY <3>1, <3>4
      <3>8. QED
        BY <3>5, <3>6, <3>7 DEF SecretInv, Settled
    <2>3. CASE own # Nothing /\ Ends(p, "begin", "done")
               /\ got' = [got EXCEPT ![p] = "existed"] /\ UNCHANGED <<own, content>>
      BY <2>3, Names DEF Inv, CreateSensitive, SecretInv, Settled, TypeInv, Past, Reading, Over
    <2>4. QED
      BY <2>1, <2>2, <2>3 DEF CreateSensitive
  <1>5. TidyInv'
    BY DEF Inv, CreateSensitive, TidyInv, TypeInv
  <1>6. ConfigInv'
    BY DEF Inv, CreateSensitive, ConfigInv, ConfigHasItsWriters, TypeInv
  <1>7. QED
    BY <1>1, <1>2, <1>3, <1>4, <1>5, <1>6 DEF Inv

LEMMA WriteSensitiveStep ==
  ASSUME Inv, NEW p \in Procs, WriteSensitive(p)
  PROVE  Inv'
  <1> USE DEF Goto, Ends, walkVars, fsVars
  <1>1. TypeInv'
    BY DEF Inv, WriteSensitive, TypeInv, PCs, Past, Over, Contents
  <1>2. DirInv'
    BY DEF Inv, WriteSensitive, DirInv
  <1>3. WholeInv'
    BY DEF Inv, WriteSensitive, WholeInv, Settled, Past, Reading,
           Over, SecretInv
  <1>4. SecretInv'
    BY Names DEF Inv, WriteSensitive, SecretInv, Settled, TypeInv, Past, Over
  <1>5. TidyInv'
    BY DEF Inv, WriteSensitive, TidyInv
  <1>6. ConfigInv'
    BY DEF Inv, WriteSensitive, ConfigInv, ConfigHasItsWriters, TypeInv
  <1>7. QED
    BY <1>1, <1>2, <1>3, <1>4, <1>5, <1>6 DEF Inv

LEMMA SensitiveFailsStep ==
  ASSUME Inv, NEW p \in Procs, SensitiveFails(p)
  PROVE  Inv'
  <1> USE DEF Goto, Ends, walkVars, fsVars
  <1>1. TypeInv'
    BY DEF Inv, SensitiveFails, TypeInv, PCs, Past, Over
  <1>2. DirInv'
    BY DEF Inv, SensitiveFails, DirInv
  <1>3. WholeInv'
    BY DEF Inv, SensitiveFails, WholeInv, Settled, Past, Reading,
           Over
  <1>4. SecretInv'
    BY Names DEF Inv, SensitiveFails, SecretInv, Settled, TypeInv, Past,
                 Reading, Over
  <1>5. TidyInv'
    BY DEF Inv, SensitiveFails, TidyInv
  <1>6. ConfigInv'
    BY DEF Inv, SensitiveFails, ConfigInv, ConfigHasItsWriters, TypeInv
  <1>7. QED
    BY <1>1, <1>2, <1>3, <1>4, <1>5, <1>6 DEF Inv

LEMMA TruncateConfigStep ==
  ASSUME Inv, NEW p \in Procs, TruncateConfig(p)
  PROVE  Inv'
  <1> USE DEF Goto, Ends, walkVars, fsVars
  <1>1. TypeInv'
    BY DEF Inv, TruncateConfig, TypeInv, PCs, Rewriting
  <1>2. DirInv'
    BY DEF Inv, TruncateConfig, DirInv
  <1>3. WholeInv'
    BY DEF Inv, TruncateConfig, WholeInv, Settled, Past, Reading, Over
  <1>4. SecretInv'
    BY DEF Inv, TruncateConfig, SecretInv, Settled, Past, Reading, Over
  <1>5. TidyInv'
    BY DEF Inv, TruncateConfig, TidyInv
  <1>6. ConfigInv'
    BY DEF Inv, TruncateConfig, ConfigInv, ConfigHasItsWriters, Rewriting, TypeInv
  <1>7. QED
    BY <1>1, <1>2, <1>3, <1>4, <1>5, <1>6 DEF Inv

LEMMA WriteConfigStep ==
  ASSUME Inv, NEW p \in Procs, WriteConfig(p)
  PROVE  Inv'
  <1> USE DEF Goto, Ends, walkVars, fsVars
  <1>1. TypeInv'
    BY DEF Inv, WriteConfig, TypeInv, PCs, Past, Over
  <1>2. DirInv'
    BY DEF Inv, WriteConfig, DirInv, TypeInv
  <1>3. WholeInv'
    BY DEF Inv, WriteConfig, WholeInv, Settled, TypeInv, Past,
           Reading, Over
  <1>4. SecretInv'
    BY DEF Inv, WriteConfig, SecretInv, Settled, TypeInv, Past, Over
  <1>5. TidyInv'
    BY DEF Inv, WriteConfig, TidyInv, TypeInv
  <1>6. ConfigInv'
    BY DEF Inv, WriteConfig, ConfigInv, ConfigHasItsWriters, TypeInv
  <1>7. QED
    BY <1>1, <1>2, <1>3, <1>4, <1>5, <1>6 DEF Inv

LEMMA KillStep ==
  ASSUME Inv, NEW p \in Procs, Kill(p)
  PROVE  Inv'
  <1> USE DEF Goto, Ends, walkVars, fsVars
  <1>1. TypeInv'
    BY DEF Inv, Kill, TypeInv, PCs, Past, Over
  <1>2. DirInv'
    BY DEF Inv, Kill, DirInv
  <1>3. WholeInv'
    BY DEF Inv, Kill, WholeInv, Settled, Past, Reading, Over
  <1>4. SecretInv'
    BY DEF Inv, Kill, SecretInv, Settled, Past, Over
  <1>5. TidyInv'
    BY DEF Inv, Kill, TidyInv
  <1>6. ConfigInv'
    BY DEF Inv, Kill, ConfigInv, ConfigHasItsWriters, Over, TypeInv
  <1>7. QED
    BY <1>1, <1>2, <1>3, <1>4, <1>5, <1>6 DEF Inv

LEMMA TaskStep ==
  ASSUME Inv, Task
  PROVE  Inv'
  <1> USE DEF walkVars, fsVars
  <1>1. TypeInv'
    BY Names DEF Inv, Task, MoveDirectory, ReplaceLeaf, TypeInv, TaskFiles, Firsts, Seconds
  <1>2. DirInv'
    BY Names DEF Inv, Task, MoveDirectory, ReplaceLeaf, DirInv, TypeInv, Firsts, Seconds
  <1>3. WholeInv'
    BY Names DEF Inv, Task, MoveDirectory, ReplaceLeaf, WholeInv, Settled, TypeInv, TaskFiles
  <1>4. SecretInv'
    BY DEF Inv, Task, MoveDirectory, ReplaceLeaf, SecretInv, Settled
  <1>5. TidyInv'
    BY DEF Inv, Task, MoveDirectory, ReplaceLeaf, TidyInv, TypeInv
  <1>6. ConfigInv'
    BY DEF Inv, Task, MoveDirectory, ReplaceLeaf, ConfigInv, ConfigHasItsWriters, TypeInv
  <1>7. QED
    BY <1>1, <1>2, <1>3, <1>4, <1>5, <1>6 DEF Inv

LEMMA InvStep == Inv /\ [Next]_vars => Inv'
  <1> SUFFICES ASSUME Inv, [Next]_vars PROVE Inv'
    OBVIOUS
  <1>1. CASE UNCHANGED vars
    BY <1>1 DEF vars, walkVars, fsVars, Inv, TypeInv, DirInv, WholeInv, SecretInv, TidyInv,
                Settled, ConfigInv, ConfigHasItsWriters
  <1>2. CASE Task
    BY <1>2, TaskStep
  <1>3. ASSUME NEW p \in Procs, Kill(p) PROVE Inv'
    BY <1>3, KillStep
  <1>4. ASSUME NEW p \in Procs, Step(p) PROVE Inv'
    <2>1. CASE MakeFirst(p) \/ OpenFirst(p) \/ MakeSecond(p) \/ OpenSecond(p)
      BY <2>1, MakeFirstStep, OpenFirstStep, MakeSecondStep, OpenSecondStep
    <2>2. CASE CreateTemp(p) \/ WriteTemp(p) \/ Replace(p) \/ WriteFails(p)
      BY <2>2, CreateTempStep, WriteTempStep, ReplaceStep, WriteFailsStep
    <2>3. CASE OpenFile(p) \/ RequireRegular(p) \/ Read(p)
      BY <2>3, OpenFileStep, RequireRegularStep, ReadStep
    <2>4. CASE Flock(p) \/ Funlock(p) \/ CheckDestination(p) \/ Unlink(p)
      BY <2>4, FlockStep, FunlockStep, CheckDestinationStep, UnlinkStep
    <2>5. CASE CreateSensitive(p) \/ WriteSensitive(p) \/ SensitiveFails(p)
      BY <2>5, CreateSensitiveStep, WriteSensitiveStep, SensitiveFailsStep
    <2>6. CASE TruncateConfig(p) \/ WriteConfig(p)
      BY <2>6, TruncateConfigStep, WriteConfigStep
    <2>7. QED
      BY <1>4, <2>1, <2>2, <2>3, <2>4, <2>5, <2>6 DEF Step
  <1>5. QED
    BY <1>1, <1>2, <1>3, <1>4 DEF Next

LEMMA Invariance == Spec => []Inv
  BY InvInit, InvStep, PTL DEF Spec

-----------------------------------------------------------------------------
(* Theorems                                                                *)

\* PublishedIsWhole: what write_untrusted_bytes() and untrusted_file_lock() name is
\* whole, a read returns a whole file, and a secret that is not whole has its writer at
\* work or had it killed, whatever any number of calls and the task do between two
\* steps.
THEOREM PublishedAreWhole == Spec => []PublishedIsWhole
  <1>1. Inv => PublishedIsWhole
    <2> SUFFICES ASSUME Inv PROVE PublishedIsWhole
      OBVIOUS
    <2>1. \A d \in Dirs : leaf[d] \in Procs => content[leaf[d]] = "whole"
      BY Names DEF Inv, WholeInv, Settled
    <2>2. \A p \in Procs : op[p] \in {"read", "collect"} => got[p] \in {"nothing", "whole"}
      BY DEF Inv, WholeInv
    <2>3. \A p \in Procs : got[p] = "created" => own = p /\ content[p] = "whole"
      BY DEF Inv, SecretInv, Settled
    <2>4. own \in Procs /\ content[own] # "whole" => pc[own] \in {"secret", "killed"}
      BY DEF Inv, SecretInv, Settled
    <2>5. QED
      BY <2>1, <2>2, <2>3, <2>4 DEF PublishedIsWhole
  <1>2. QED
    BY Invariance, <1>1, PTL

\* NothingLeftBehind: a call that was not killed leaves no temporary name, no
\* half-written secret and no lock, however it ended (the finally and except clauses of untrusted_fs.py and fs.py).
THEOREM NothingStays == Spec => []NothingLeftBehind
  <1>1. Inv => NothingLeftBehind
    <2> SUFFICES ASSUME Inv, NEW p \in Procs, pc[p] \in Over \ {"killed"}
                 PROVE  /\ temp[p] = Nothing
                        /\ own = p => content[p] = "whole"
                        /\ \A i \in Inodes : locked[i] # p
      BY DEF NothingLeftBehind
    <2>1. temp[p] = Nothing
      BY DEF Inv, TidyInv, Over
    <2>2. own = p => content[p] = "whole"
      BY DEF Inv, SecretInv, Settled, Over
    <2>3. \A i \in Inodes : locked[i] # p
      BY Names DEF Inv, TidyInv, Over
    <2>4. QED
      BY <2>1, <2>2, <2>3
  <1>2. QED
    BY Invariance, <1>1, PTL

\* ConfigHasItsWriters: a config file with less than a text in it has a writer that is at
\* work, has failed or was killed, and one that mixes two texts had two writers at once
\* (write_config_file()), for every number of them.
THEOREM ConfigsHaveTheirWriters == Spec => []ConfigHasItsWriters
  <1>1. Inv => ConfigHasItsWriters
    BY DEF Inv, ConfigInv
  <1>2. QED
    BY Invariance, <1>1, PTL

\* OnlyOwnInodesChange: no step changes a directory outside the tree, nor an inode
\* that the call which takes it has not created, however the task links and renames (the walk of
\* open_untrusted_directory() and the held descriptors of untrusted_fs.py).
THEOREM OthersAreUntouched == Spec => OnlyOwnInodesChange
  <1> DEFINE Careful ==
        /\ second'["outside"] = second["outside"] /\ leaf'["outside"] = leaf["outside"]
        /\ \A i \in Inodes : content'[i] # content[i] => i \in Procs /\ pc'[i] # pc[i]
  <1>1. Inv /\ [Next]_vars => [Careful]_vars
    <2> SUFFICES ASSUME Inv, Next PROVE Careful
      BY DEF vars
    <2>1. CASE Task
      BY <2>1, Names DEF Inv, TypeInv, Task, MoveDirectory, ReplaceLeaf, walkVars, Firsts, Seconds
    <2>2. ASSUME NEW p \in Procs, Kill(p) PROVE Careful
      BY <2>2 DEF Kill, walkVars
    <2>3. ASSUME NEW p \in Procs, Step(p) PROVE Careful
      <3> USE DEF Goto, Ends, walkVars
      <3>1. pc \in [Procs -> PCs] /\ content \in [Inodes -> Contents]
            /\ leaf \in [Dirs -> Inodes \union {Nothing}] /\ dir[p] # "outside"
            /\ second \in [Dirs -> Dirs \union {"link", Nothing}]
        BY DEF Inv, TypeInv, DirInv
      <3>2. CASE OpenFirst(p) \/ OpenSecond(p) \/ CheckDestination(p) \/ RequireRegular(p) \/ Read(p)
                 \/ Flock(p) \/ Funlock(p) \/ WriteFails(p)
        BY <3>2 DEF OpenFirst, OpenSecond, CheckDestination, RequireRegular, Read, Flock,
                    Funlock, WriteFails
      <3>3. CASE Unlink(p) \/ Replace(p)
        BY <3>1, <3>3, Names DEF Unlink, Replace
      <3>4. CASE CreateTemp(p) \/ WriteTemp(p)
        BY <3>1, <3>4 DEF CreateTemp, WriteTemp
      <3>5. CASE OpenFile(p)
        BY <3>1, <3>5, Names DEF OpenFile
      <3>6. CASE CreateSensitive(p) \/ WriteSensitive(p) \/ SensitiveFails(p)
        BY <3>1, <3>6 DEF CreateSensitive, WriteSensitive, SensitiveFails
      <3>7. CASE TruncateConfig(p) \/ WriteConfig(p)
        BY <3>7 DEF TruncateConfig, WriteConfig
      <3>8. CASE MakeFirst(p) \/ MakeSecond(p)
        BY <3>1, <3>8, Names DEF MakeFirst, MakeSecond
      <3>9. QED
        BY <2>3, <3>2, <3>3, <3>4, <3>5, <3>6, <3>7, <3>8 DEF Step
    <2>4. QED
      BY <2>1, <2>2, <2>3 DEF Next
  <1>2. QED
    BY Invariance, <1>1, PTL DEF Spec, OnlyOwnInodesChange

=============================================================================
