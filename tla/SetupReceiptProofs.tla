------------------------- MODULE SetupReceiptProofs -------------------------
(***************************************************************************)
(* Theorems about SetupReceipt for every set of programs, owners and         *)
(* receipts.                                                               *)
(***************************************************************************)
EXTENDS SetupReceipt, TLAPS

LEMMA TypeInit == ReceiptInit => ReceiptTypeOK
  BY ReceiptAssumption DEF ReceiptInit, ReceiptTypeOK, Stages

LEMMA TypeStep == ReceiptTypeOK /\ SetupInv /\ [ReceiptNext]_receiptVars => ReceiptTypeOK'
  <1> SUFFICES ASSUME ReceiptTypeOK, SetupInv, [ReceiptNext]_receiptVars PROVE ReceiptTypeOK'
    OBVIOUS
  <1> USE ReceiptAssumption DEF ReceiptTypeOK, Stages, Advance
  <1>0. \A p \in Programs : stage[p] \in Changing => owner[p] \in Owners
    BY DEF SetupInv
  <1>1. ASSUME NEW p \in Programs, Begin(p) PROVE ReceiptTypeOK'
    BY <1>1 DEF Begin
  <1>2. ASSUME NEW p \in Programs, Preflight(p) PROVE ReceiptTypeOK'
    <2>1. PICK blind \in SUBSET Owners :
            /\ stage' = [stage EXCEPT ![p] = "next"] \/ stage' = [stage EXCEPT ![p] = "failed"]
            /\ \/ /\ todo' = [todo EXCEPT ![p] = Owners]
                  /\ unread' = [unread EXCEPT ![p] = blind]
               \/ UNCHANGED <<todo, unread>>
      BY <1>2 DEF Preflight
    <2>2. todo' \in [Programs -> SUBSET Owners] /\ unread' \in [Programs -> SUBSET Owners]
      <3>1. CASE /\ todo' = [todo EXCEPT ![p] = Owners]
                 /\ unread' = [unread EXCEPT ![p] = blind]
        BY <3>1
      <3>2. CASE UNCHANGED <<todo, unread>>
        BY <3>2
      <3>3. QED
        BY <2>1, <3>1, <3>2
    <2>3. stage' \in [Programs -> Stages]
      BY <2>1
    <2>4. QED
      BY <1>2, <2>2, <2>3 DEF Preflight
  <1>3. ASSUME NEW p \in Programs, ClearChecks(p) PROVE ReceiptTypeOK'
    BY <1>3 DEF ClearChecks
  <1>4. ASSUME NEW p \in Programs, Unlink(p) PROVE ReceiptTypeOK'
    BY <1>4 DEF Unlink
  <1>5. ASSUME NEW p \in Programs, Change(p) \/ WriteChecks(p) PROVE ReceiptTypeOK'
    BY <1>5 DEF Change, WriteChecks
  <1>6. ASSUME NEW p \in Programs, Verified(p) PROVE ReceiptTypeOK'
    BY <1>0, <1>6 DEF Verified, Changing
  <1>7. ASSUME NEW p \in Programs, CreateTemp(p) \/ RemoveTemp(p) PROVE ReceiptTypeOK'
    BY <1>7 DEF CreateTemp, RemoveTemp
  <1>8. ASSUME NEW p \in Programs, DumpAndFlush(p) PROVE ReceiptTypeOK'
    BY <1>0, <1>8 DEF DumpAndFlush, Changing, Writing
  <1>9. ASSUME NEW p \in Programs, Replace(p) PROVE ReceiptTypeOK'
    BY <1>9 DEF Replace
  <1>10. ASSUME NEW p \in Programs, Fail(p) PROVE ReceiptTypeOK'
    BY <1>10 DEF Fail
  <1>11. ASSUME NEW p \in Programs, Release(p) PROVE ReceiptTypeOK'
    BY <1>11 DEF Release
  <1>12. CASE UNCHANGED receiptVars
    BY <1>12 DEF receiptVars
  <1>13. QED
    BY <1>1, <1>2, <1>3, <1>4, <1>5, <1>6, <1>7, <1>8, <1>9, <1>10, <1>11, <1>12 DEF ReceiptNext

LEMMA SetupInit == ReceiptInit => SetupInv
  BY ReceiptAssumption DEF ReceiptInit, SetupInv, ReceiptCertifies, PastPreflight, Changing,
       Writing

\* A program that is not idle is the only one: the lock serializes.
LEMMA Alone ==
  ASSUME SetupInv, NEW p \in Programs, stage[p] # "idle", NEW q \in Programs, q # p
  PROVE  stage[q] = "idle"
  BY DEF SetupInv

\* Each step of a transaction keeps SetupInv: it disturbs the facts about its own
\* program only, the others being idle.
LEMMA SetupStep == ReceiptTypeOK /\ SetupInv /\ [ReceiptNext]_receiptVars => SetupInv'
  <1> SUFFICES ASSUME ReceiptTypeOK, SetupInv, [ReceiptNext]_receiptVars PROVE SetupInv'
    OBVIOUS
  <1> USE ReceiptAssumption DEF ReceiptTypeOK, Stages, Advance, SetupInv, ReceiptCertifies,
        PastPreflight, Changing, Writing, Newer
  <1>1. ASSUME NEW p \in Programs, Begin(p) PROVE SetupInv'
    BY <1>1 DEF Begin
  <1>2. ASSUME NEW p \in Programs, Preflight(p) PROVE SetupInv'
    <2>1. PICK blind \in SUBSET Owners :
            \/ /\ \A o \in Owners \ blind : ~Newer(p, o)
               /\ Advance(p, "preflight", "next")
               /\ todo' = [todo EXCEPT ![p] = Owners]
               /\ unread' = [unread EXCEPT ![p] = blind]
            \/ /\ \E o \in Owners \ blind : Newer(p, o)
               /\ Advance(p, "preflight", "failed")
               /\ UNCHANGED <<todo, unread>>
      BY <1>2 DEF Preflight
    <2>2. UNCHANGED <<receipt, installed, lock, owner, temp>>
      BY <1>2 DEF Preflight
    <2>3. CASE Advance(p, "preflight", "next")
      <3>1. /\ \A o \in Owners \ blind : ~Newer(p, o)
            /\ unread' = [unread EXCEPT ![p] = blind]
        BY <2>1, <2>3
      <3>2. QED
        BY <2>2, <2>3, <3>1, Alone
    <2>4. CASE Advance(p, "preflight", "failed")
      BY <2>1, <2>2, <2>4
    <2>5. QED
      BY <2>1, <2>3, <2>4
  <1>3. ASSUME NEW p \in Programs, ClearChecks(p) PROVE SetupInv'
    <2>1. PICK o \in todo[p], read \in BOOLEAN :
            /\ Advance(p, "next", IF read /\ Newer(p, o) THEN "failed" ELSE "unlink")
            /\ owner' = [owner EXCEPT ![p] = o]
            /\ unread' = [unread EXCEPT ![p] = IF read THEN @ \ {o} ELSE @]
      BY <1>3 DEF ClearChecks
    <2>2. UNCHANGED <<receipt, installed, lock, temp>> /\ o \in Owners
      BY <1>3 DEF ClearChecks
    <2>3. ASSUME stage'[p] = "unlink", NEW u \in Owners \ unread'[p]
          PROVE  ~Newer(p, u)
      <3>1. CASE read /\ u = o
        BY <2>1, <2>3, <3>1
      <3>2. CASE ~(read /\ u = o)
        BY <2>1, <2>3, <3>2
      <3>3. QED
        BY <3>1, <3>2
    <2>4. \A q \in Programs : q # p => stage'[q] = "idle"
      BY <2>1, Alone
    <2>5. stage'[p] \in {"unlink", "failed"} /\ owner'[p] \in Owners /\ lock = p
      BY <2>1, <2>2
    <2>6. QED
      BY <2>2, <2>3, <2>4, <2>5
  <1>4. ASSUME NEW p \in Programs, Unlink(p) PROVE SetupInv'
    BY <1>4, Alone DEF Unlink
  <1>5. ASSUME NEW p \in Programs, Change(p) PROVE SetupInv'
    <2>1. /\ stage[p] = "change" /\ stage' = [stage EXCEPT ![p] = "verify"]
          /\ installed' = [installed EXCEPT ![owner[p]] = Partial]
          /\ UNCHANGED <<receipt, lock, owner, todo, temp, unread>>
      BY <1>5 DEF Change
    <2>2. owner[p] \in Owners /\ receipt[owner[p]] = None
      BY <2>1
    <2>3. \A q \in Programs : q # p => stage'[q] = "idle"
      BY <2>1, Alone
    <2>4. ReceiptCertifies'
      BY <2>1, <2>2
    <2>5. stage'[p] = "verify" /\ lock = p
      BY <2>1
    <2>6. \A o \in Owners \ unread[p] : ~Newer(p, o)
      BY <2>1
    <2>7. QED
      BY <2>1, <2>2, <2>3, <2>4, <2>5, <2>6
  <1>6. ASSUME NEW p \in Programs, Verified(p) PROVE SetupInv'
    <2> DEFINE o == owner[p]
    <2>1. /\ stage[p] = "verify" /\ stage' = [stage EXCEPT ![p] = "write"]
          /\ installed' = [installed EXCEPT ![o] = Closure[p][o]]
          /\ UNCHANGED <<receipt, lock, owner, todo, temp, unread>>
      BY <1>6 DEF Verified
    <2>2. o \in Owners /\ Closure[p][o] \in Receipts /\ receipt[o] = None
      BY <2>1
    <2>3. \A q \in Programs : q # p => stage'[q] = "idle"
      BY <2>1, Alone
    <2>4. ReceiptCertifies'
      BY <2>1, <2>2
    <2>5. stage'[p] = "write" /\ installed'[o] = Closure[p][o]
      BY <2>1, <2>2
    <2>6. QED
      BY <2>1, <2>2, <2>3, <2>4, <2>5
  <1>7. ASSUME NEW p \in Programs, WriteChecks(p) PROVE SetupInv'
    BY <1>7 DEF WriteChecks
  <1>8. ASSUME NEW p \in Programs, CreateTemp(p) \/ DumpAndFlush(p) PROVE SetupInv'
    <2>1. /\ stage[p] \in {"create", "dump"}
          /\ \/ stage' = [stage EXCEPT ![p] = "dump"]
             \/ /\ stage' = [stage EXCEPT ![p] = "replace"]
                /\ temp' = [temp EXCEPT ![p] = Closure[p][owner[p]]]
          /\ UNCHANGED <<receipt, installed, lock, owner, todo, unread>>
      BY <1>8 DEF CreateTemp, DumpAndFlush
    <2>2. /\ owner[p] \in Owners /\ receipt[owner[p]] = None
          /\ installed[owner[p]] = Closure[p][owner[p]] /\ lock = p
          /\ \A o \in Owners \ unread[p] : ~Newer(p, o)
      BY <2>1
    <2>3. \A q \in Programs : q # p => stage'[q] = "idle"
      BY <2>1, Alone
    <2>4. /\ stage'[p] \in {"dump", "replace"}
          /\ stage'[p] = "replace" => temp'[p] = Closure[p][owner[p]]
      BY <2>1
    <2>5. QED
      BY <2>1, <2>2, <2>3, <2>4
  <1>9. ASSUME NEW p \in Programs, Replace(p) PROVE SetupInv'
    <2> DEFINE o == owner[p]
    <2>1. /\ stage[p] = "replace" /\ stage' = [stage EXCEPT ![p] = "tidy"]
          /\ receipt' = [receipt EXCEPT ![o] = temp[p]]
          /\ UNCHANGED <<installed, lock, owner, todo, unread>>
      BY <1>9 DEF Replace
    <2>2. /\ o \in Owners /\ Closure[p][o] \in Receipts
          /\ temp[p] = Closure[p][o] /\ installed[o] = Closure[p][o]
      BY <2>1
    <2>3. \A q \in Programs : q # p => stage'[q] = "idle"
      BY <2>1, Alone
    <2>4. stage'[p] = "tidy" /\ lock = p
      BY <2>1
    <2>5. ReceiptCertifies'
      BY <2>1, <2>2
    <2>6. ASSUME NEW u \in Owners \ unread[p] PROVE ~Newer(p, u)'
      <3>1. CASE u = o
        BY <3>1, <2>1, <2>2
      <3>2. CASE u # o
        BY <3>2, <2>1
      <3>3. QED
        BY <3>1, <3>2
    <2>7. QED
      BY <2>1, <2>2, <2>3, <2>4, <2>5, <2>6
  <1>10. ASSUME NEW p \in Programs, RemoveTemp(p) PROVE SetupInv'
    BY <1>10, Alone DEF RemoveTemp
  <1>11. ASSUME NEW p \in Programs, Fail(p) PROVE SetupInv'
    <2>1. /\ stage' = [stage EXCEPT ![p] = "failed"] \/ stage' = [stage EXCEPT ![p] = "tidy"]
          /\ stage[p] \in Changing \union {"unlink", "tidy"}
          /\ UNCHANGED <<receipt, installed, lock, owner, todo, temp, unread>>
      BY <1>11 DEF Fail
    <2>2. /\ owner[p] \in Owners /\ lock = p
          /\ \A o \in Owners \ unread[p] : ~Newer(p, o)
      BY <2>1
    <2>3. \A q \in Programs : q # p => stage'[q] = "idle"
      BY <2>1, Alone
    <2>4. stage'[p] \in {"failed", "tidy"}
      BY <2>1
    <2>5. QED
      BY <2>1, <2>2, <2>3, <2>4
  <1>12. ASSUME NEW p \in Programs, Release(p) PROVE SetupInv'
    BY <1>12 DEF Release
  <1>13. CASE UNCHANGED receiptVars
    BY <1>13 DEF receiptVars
  <1>14. QED
    BY <1>1, <1>2, <1>3, <1>4, <1>5, <1>6, <1>7, <1>8, <1>9, <1>10, <1>11, <1>12, <1>13
    DEF ReceiptNext

LEMMA Inductive == ReceiptSpec => [](ReceiptTypeOK /\ SetupInv)
  BY TypeInit, SetupInit, TypeStep, SetupStep, PTL DEF ReceiptSpec

\* Type correctness: every variable keeps its range through transactions that
\* end, fail or are killed.
THEOREM TypeCorrect == ReceiptSpec => []ReceiptTypeOK
  BY Inductive, PTL

\* "write it only after verification succeeds" (setup.py l.107): with any number of
\* packages and owners, a readable receipt is never wrong about what is installed.
THEOREM ReceiptsAreTrue == ReceiptSpec => []ReceiptCertifies
  <1>1. SetupInv => ReceiptCertifies
    BY DEF SetupInv
  <1>2. QED
    BY Inductive, <1>1, PTL

\* "Newer installed setup cannot be replaced by an older package" (l.237), of the
\* receipts its checks could read: it holds of the whole closure, whoever sets up
\* between a program's preflight and its writes.
THEOREM NoDowngrade == ReceiptSpec => []NewerIsKept
  <1>1. SetupInv => NewerIsKept
    BY DEF SetupInv, NewerIsKept, PastPreflight, Changing, Writing, Stages
  <1>2. QED
    BY Inductive, <1>1, PTL

\* SetupReceipt.write() renames a file that holds all of the receipt: no failure and
\* no death at any of its steps leaves a receipt that cannot be read.
THEOREM ReceiptsAreWhole == ReceiptSpec => NeverTorn
  <1>1. ReceiptTypeOK /\ SetupInv /\ [ReceiptNext]_receiptVars
          => [\A o \in Owners : receipt'[o] = Unreadable => receipt[o] = Unreadable]_receiptVars
    <2> SUFFICES ASSUME ReceiptTypeOK, SetupInv, ReceiptNext, NEW o \in Owners, receipt'[o] = Unreadable
                 PROVE  receipt[o] = Unreadable
      OBVIOUS
    <2> USE ReceiptAssumption DEF ReceiptTypeOK, Advance
    <2>1. PICK p \in Programs :
            \/ Begin(p) \/ Preflight(p) \/ ClearChecks(p) \/ Unlink(p) \/ Change(p)
            \/ Verified(p) \/ WriteChecks(p) \/ CreateTemp(p) \/ DumpAndFlush(p)
            \/ Replace(p) \/ RemoveTemp(p) \/ Fail(p) \/ Release(p)
      BY DEF ReceiptNext
    <2>2. CASE Unlink(p)
      BY <2>2 DEF Unlink
    <2>3. CASE Replace(p)
      <3>1. temp[p] = Closure[p][owner[p]] /\ owner[p] \in Owners
        BY <2>3 DEF Replace, SetupInv, Changing, Writing
      <3>2. Closure[p][owner[p]] # Unreadable
        BY <3>1
      <3>3. QED
        BY <2>3, <3>1, <3>2 DEF Replace
    <2>4. CASE UNCHANGED receipt
      BY <2>4
    <2>5. QED
      BY <2>1, <2>2, <2>3, <2>4 DEF Begin, Preflight, ClearChecks, Change, Verified,
        WriteChecks, CreateTemp, DumpAndFlush, RemoveTemp, Fail, Release
  <1>2. QED
    BY Inductive, <1>1, PTL DEF ReceiptSpec, NeverTorn

=============================================================================
