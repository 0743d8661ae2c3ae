------------------------- MODULE DocumentStorageProofs -------------------------
(***************************************************************************)
(* The safety of uploads, promotions, lifecycle rules and retention runs,  *)
(* proved for every number of documents and every choice of limits and     *)
(* days.                                                                   *)
(***************************************************************************)
EXTENDS DocumentStorage, TLAPS

------------------------------------------------------------------------------
(* The two bounds the model takes with Min and Max *)

\* The smaller of two naturals.
LEMMA MinOfTwo ==
  ASSUME NEW a \in Nat, NEW b \in Nat
  PROVE  Min({a, b}) = IF a <= b THEN a ELSE b
BY DEF Min

\* The larger of two naturals.
LEMMA MaxOfTwo ==
  ASSUME NEW a \in Nat, NEW b \in Nat
  PROVE  Max({a, b}) = IF a >= b THEN a ELSE b
BY DEF Max

\* The oldest age that is told apart reaches to both rules.
LEMMA OldestReachesRules ==
  /\ BackstopDays \in Nat /\ OldestObject \in Nat
  /\ BackstopDays >= RetentionDays
  /\ OldestObject >= QuarantineDays /\ OldestObject >= BackstopDays
BY StorageAssumption, MaxOfTwo DEF BackstopDays, OldestObject

\* A file the validator lets through was read to its end.
LEMMA AdmittedIsWhole ==
  ASSUME NEW b \in Admitted
  PROVE  /\ b \in [sent : 0..(MaxBytes + 2), read : 0..(MaxBytes + 1)]
         /\ b.read = b.sent /\ b.read <= MaxBytes
<1>1. PICK f \in File : Accepted(f) /\ b = [sent |-> f.length, read |-> Body(f)]
  BY DEF Admitted
<1>2. f.length \in 0..(MaxBytes + 2)
  BY DEF File
<1>3. Body(f) = IF f.length <= MaxBytes + 1 THEN f.length ELSE MaxBytes + 1
  BY <1>2, MinOfTwo, LimitsAssumption DEF Body
<1>4. Body(f) <= MaxBytes
  BY <1>1 DEF Accepted, LengthAccepted
<1>5. QED
  BY <1>1, <1>2, <1>3, <1>4, LimitsAssumption

------------------------------------------------------------------------------
(* The invariant *)

\* Before the commit there is no row, before the store no object; a call that
\* was accepted has left its row.
CallInv ==
    \A d \in Documents :
        /\ call[d] \in {"posting", "storing", "saving"} => row[d] = "absent"
        /\ call[d] = "accepted" => row[d] # "absent"

\* Only a document with a row is promoted, or a candidate of a retention run.
PromotedInv ==
    \A d \in Documents : object[d] = "validated" \/ d \in batch => row[d] # "absent"

\* A call that is about to save, or has, has stored its object, which is gone
\* by a deletion or has reached the age of a lifecycle rule.
Expired(d) == age[d] >= QuarantineDays \/ age[d] >= BackstopDays
StoredInv ==
    \A d \in Documents : call[d] \in {"saving", "accepted"} =>
        object[d] # "none" \/ d \in erased \/ Expired(d)

\* An object at the validated key is not older than its row, while the row's
\* retention runs.
AgeInv ==
    \A d \in Documents :
        object[d] = "validated" /\ rowAge[d] < RetentionDays => age[d] <= rowAge[d]

\* What was read of every file is all of it.
BodyInv ==
    \A d \in Documents : body[d].read = body[d].sent /\ body[d].read <= MaxBytes

Inv ==
    /\ TypeOK
    /\ CallInv /\ PromotedInv /\ StoredInv /\ AgeInv /\ BodyInv
    /\ CompletedContentIsKept

\* The steps of one document.
CallStep(d) == Post(d) \/ Store(d) \/ Save(d) \/ Undo(d) \/ Die(d)
ObjectStep(d) ==
    \/ Lifecycle(d) \/ VersionExpires(d)
    \/ Dispatch(d) \/ Settle(d) \/ UserDeletes(d) \/ DeleteNext(d)

\* Next, by what moves.
LEMMA NextByPart ==
  [Next]_vars =>
      \/ Day
      \/ List \/ Stop
      \/ \E d \in Documents : CallStep(d)
      \/ \E d \in Documents : ObjectStep(d)
      \/ UNCHANGED vars
BY DEF Next, CallStep, ObjectStep

------------------------------------------------------------------------------
(* Types *)

\* The initial states are typed.
LEMMA TypeInit == Init => TypeOK
<1>1. 1 \in 0..(MaxBytes + 2) /\ 1 \in 0..(MaxBytes + 1)
  BY LimitsAssumption
<1>2. RetentionDays \in 0..OldestObject /\ 0 \in 0..OldestObject
  BY OldestReachesRules, StorageAssumption
<1>3. 0 \in 0..RetentionDays /\ RetentionDays \in 0..RetentionDays
  BY StorageAssumption
<1>4. QED
  BY <1>1, <1>2, <1>3 DEF Init, TypeOK, CallState, RowStatus

\* What is removed becomes a version of the key it had.
LEMMA RemovedTyped ==
  ASSUME TypeOK, NEW d \in Documents, Removed(d)
  PROVE  /\ object' \in [Documents -> {"none", "quarantine", "validated"}]
         /\ noncurrent' \in [Documents -> SUBSET {"quarantine", "validated"}]
BY DEF Removed, TypeOK

\* Every step keeps the types.
LEMMA TypeStep == TypeOK /\ [Next]_vars => TypeOK'
<1> SUFFICES ASSUME TypeOK, [Next]_vars PROVE TypeOK'
  OBVIOUS
<1> USE DEF upload, rows, bucket, retention
<1>1. CASE Day
  <2>1. ASSUME NEW d \in Documents
        PROVE  /\ Min({rowAge[d] + 1, RetentionDays}) \in 0..RetentionDays
               /\ Min({age[d] + 1, OldestObject}) \in 0..OldestObject
    <3>1. rowAge[d] \in Nat /\ age[d] \in Nat
      BY DEF TypeOK
    <3>2. QED
      BY <3>1, MinOfTwo, OldestReachesRules, StorageAssumption
  <2>2. rowAge' \in [Documents -> 0..RetentionDays]
    <3>1. \A d \in Documents :
              (IF d \in Saved THEN Min({rowAge[d] + 1, RetentionDays}) ELSE 0)
                  \in 0..RetentionDays
      <4>1. 0 \in 0..RetentionDays
        BY StorageAssumption
      <4>2. QED
        BY <2>1, <4>1
    <3>2. QED
      BY <1>1, <3>1 DEF Day
  <2>3. age' \in [Documents -> 0..OldestObject]
    BY <1>1, <2>1 DEF Day, TypeOK
  <2>4. QED
    BY <1>1, <2>2, <2>3 DEF Day, TypeOK
<1>2. CASE List \/ Stop
  BY <1>2 DEF List, Stop, Candidates, TypeOK
<1>3. ASSUME NEW d \in Documents, CallStep(d) PROVE TypeOK'
  <2>1. CASE Post(d)
    <3>1. body' \in [Documents -> [sent : 0..(MaxBytes + 2), read : 0..(MaxBytes + 1)]]
      BY <2>1, AdmittedIsWhole DEF Post, TypeOK
    <3>2. call' \in [Documents -> CallState]
      BY <2>1 DEF Post, TypeOK, CallState
    <3>3. QED
      BY <2>1, <3>1, <3>2 DEF Post, TypeOK
  <2>2. CASE Store(d)
    BY <2>2 DEF Store, Stored, TypeOK, CallState
  <2>3. CASE Save(d)
    BY <2>3 DEF Save, TypeOK, CallState, RowStatus
  <2>4. CASE Undo(d) \/ Die(d)
    <3>1. /\ object' \in [Documents -> {"none", "quarantine", "validated"}]
          /\ noncurrent' \in [Documents -> SUBSET {"quarantine", "validated"}]
      BY <2>4, RemovedTyped DEF Undo, Die, TypeOK
    <3>2. call' \in [Documents -> CallState]
      BY <2>4 DEF Undo, Die, TypeOK, CallState
    <3>3. QED
      BY <2>4, <3>1, <3>2 DEF Undo, Die, TypeOK
  <2>5. QED
    BY <1>3, <2>1, <2>2, <2>3, <2>4 DEF CallStep
<1>4. ASSUME NEW d \in Documents, ObjectStep(d) PROVE TypeOK'
  <2>1. CASE Lifecycle(d) \/ VersionExpires(d) \/ Dispatch(d)
    <3>1. CASE Lifecycle(d)
      BY <3>1, RemovedTyped DEF Lifecycle, TypeOK
    <3>2. CASE VersionExpires(d)
      <4>1. noncurrent' \in [Documents -> SUBSET {"quarantine", "validated"}]
        BY <3>2 DEF VersionExpires, TypeOK
      <4>2. QED
        BY <3>2, <4>1 DEF VersionExpires, TypeOK
    <3>3. CASE Dispatch(d)
      BY <3>3 DEF Dispatch, TypeOK, RowStatus
    <3>4. QED
      BY <2>1, <3>1, <3>2, <3>3
  <2>2. CASE Settle(d)
    <3>1. Promoted(d) => /\ object' \in [Documents -> {"none", "quarantine", "validated"}]
                         /\ age' \in [Documents -> 0..OldestObject]
                         /\ noncurrent' \in [Documents -> SUBSET {"quarantine", "validated"}]
      BY OldestReachesRules DEF Promoted, TypeOK
    <3>2. row' \in [Documents -> RowStatus]
      BY <2>2 DEF Settle, TypeOK, RowStatus
    <3>3. QED
      BY <2>2, <3>1, <3>2 DEF Settle, TypeOK
  <2>3. CASE UserDeletes(d) \/ DeleteNext(d)
    <3>1. \/ Deleted(d) \/ DeletionFails(d)
          \/ UNCHANGED <<row, object, noncurrent, erased>>
      BY <2>3 DEF UserDeletes, DeleteNext
    <3>2. /\ row' \in [Documents -> RowStatus]
          /\ object' \in [Documents -> {"none", "quarantine", "validated"}]
          /\ noncurrent' \in [Documents -> SUBSET {"quarantine", "validated"}]
          /\ erased' \subseteq Documents
      <4>1. CASE Deleted(d)
        BY <4>1, RemovedTyped DEF Deleted, TypeOK, RowStatus
      <4>2. CASE DeletionFails(d)
        BY <4>2, RemovedTyped DEF DeletionFails, TypeOK
      <4>3. QED
        BY <3>1, <4>1, <4>2 DEF TypeOK
    <3>3. QED
      BY <2>3, <3>2 DEF UserDeletes, DeleteNext, TypeOK
  <2>4. QED
    BY <1>4, <2>1, <2>2, <2>3 DEF ObjectStep
<1>5. CASE UNCHANGED vars
  BY <1>5 DEF vars, TypeOK
<1>6. QED
  BY <1>1, <1>2, <1>3, <1>4, <1>5, NextByPart

------------------------------------------------------------------------------
(* The steps keep the invariant *)

\* What is said of a day: rows and objects stay, and both ages grow by one as
\* far as they are counted.
LEMMA InvDay == Inv /\ Day => Inv'
<1> SUFFICES ASSUME Inv, Day PROVE Inv'
  OBVIOUS
<1> USE DEF upload, rows, bucket, retention
<1>0. TypeOK /\ TypeOK'
  BY TypeStep DEF Inv, Next
<1>1. UNCHANGED <<call, body, row, object, erased, batch>>
  BY DEF Day
<1>2. ASSUME NEW d \in Documents
      PROVE  /\ object[d] = "none" => age'[d] = age[d]
             /\ age'[d] <= age[d] + 1
             /\ Expired(d) => Expired(d)'
             /\ row[d] # "absent" /\ rowAge'[d] < RetentionDays =>
                    rowAge'[d] = rowAge[d] + 1
  <2>1. /\ rowAge[d] \in Nat /\ age[d] \in 0..OldestObject
        /\ OldestObject \in Nat /\ RetentionDays \in Nat
    BY <1>0, OldestReachesRules, StorageAssumption DEF TypeOK
  <2>2. age'[d] = IF object[d] = "none" THEN age[d]
                  ELSE IF age[d] + 1 <= OldestObject THEN age[d] + 1 ELSE OldestObject
    <3>1. age'[d] = IF object[d] = "none" THEN age[d]
                    ELSE Min({age[d] + 1, OldestObject})
      BY DEF Day
    <3>2. age[d] + 1 \in Nat
      BY <2>1
    <3>3. Min({age[d] + 1, OldestObject})
              = IF age[d] + 1 <= OldestObject THEN age[d] + 1 ELSE OldestObject
      BY <2>1, <3>2, MinOfTwo
    <3>4. QED
      BY <3>1, <3>3
  <2>3. row[d] # "absent" =>
            rowAge'[d] = IF rowAge[d] + 1 <= RetentionDays THEN rowAge[d] + 1
                         ELSE RetentionDays
    BY <2>1, MinOfTwo DEF Day, Saved
  <2>4. /\ age'[d] <= age[d] + 1 /\ age'[d] >= age[d]
        /\ object[d] = "none" => age'[d] = age[d]
    BY <2>1, <2>2
  <2>5. Expired(d) => Expired(d)'
    BY <2>1, <2>2, <2>4, OldestReachesRules, StorageAssumption
       DEF Expired, BackstopDays
  <2>6. QED
    BY <2>1, <2>3, <2>4, <2>5, StorageAssumption
<1>3. CallInv' /\ PromotedInv' /\ BodyInv'
  BY <1>1 DEF Inv, CallInv, PromotedInv, BodyInv
<1>4. StoredInv'
  BY <1>1, <1>2 DEF Inv, StoredInv
<1>5. ASSUME NEW d \in Documents, rowAge'[d] < RetentionDays, row[d] # "absent"
      PROVE  rowAge[d] < RetentionDays
  BY <1>0, <1>2, <1>5, StorageAssumption DEF TypeOK
<1>6. AgeInv'
  <2>1. ASSUME NEW d \in Documents, object[d] = "validated", rowAge'[d] < RetentionDays
        PROVE  age'[d] <= rowAge'[d]
    <3>1. row[d] # "absent"
      BY <2>1 DEF Inv, PromotedInv
    <3>2. age[d] <= rowAge[d]
      BY <1>5, <2>1, <3>1 DEF Inv, AgeInv
    <3>3. age[d] \in Nat /\ rowAge[d] \in Nat /\ age'[d] \in Nat
      BY <1>0, OldestReachesRules, StorageAssumption DEF TypeOK
    <3>4. QED
      BY <1>2, <2>1, <3>1, <3>2, <3>3
  <2>2. QED
    BY <1>1, <2>1 DEF AgeInv
<1>7. CompletedContentIsKept'
  BY <1>1, <1>5 DEF Inv, CompletedContentIsKept
<1>8. QED
  BY <1>0, <1>3, <1>4, <1>6, <1>7 DEF Inv

\* What a step of one document leaves of the others.
OthersKept(d) ==
    \A c \in Documents \ {d} :
        /\ call'[c] = call[c] /\ body'[c] = body[c] /\ row'[c] = row[c]
        /\ rowAge'[c] = rowAge[c] /\ object'[c] = object[c] /\ age'[c] = age[c]
        /\ c \in erased' <=> c \in erased
        /\ c \in batch' => c \in batch

\* The invariant of one document.
InvOf(d) ==
    /\ call[d] \in {"posting", "storing", "saving"} => row[d] = "absent"
    /\ call[d] = "accepted" => row[d] # "absent"
    /\ object[d] = "validated" \/ d \in batch => row[d] # "absent"
    /\ call[d] \in {"saving", "accepted"} =>
           object[d] # "none" \/ d \in erased \/ Expired(d)
    /\ object[d] = "validated" /\ rowAge[d] < RetentionDays => age[d] <= rowAge[d]
    /\ body[d].read = body[d].sent /\ body[d].read <= MaxBytes
    /\ row[d] = "completed" /\ d \notin erased /\ rowAge[d] < RetentionDays
           => object[d] = "validated"

\* The invariant is what is said of each document.
LEMMA InvIsLocal == Inv <=> TypeOK /\ \A d \in Documents : InvOf(d)
BY DEF Inv, InvOf, CallInv, PromotedInv, StoredInv, AgeInv, BodyInv, CompletedContentIsKept

\* A step that keeps the others and the invariant of its document keeps it all.
LEMMA OneDocument ==
  ASSUME NEW d \in Documents, Inv, TypeOK', OthersKept(d), InvOf(d)'
  PROVE  Inv'
<1>1. ASSUME NEW c \in Documents PROVE InvOf(c)'
  <2>1. CASE c = d
    BY <2>1
  <2>2. CASE c # d
    BY <2>2, InvIsLocal DEF OthersKept, InvOf, Expired
  <2>3. QED
    BY <2>1, <2>2
<1>2. Inv' <=> TypeOK' /\ \A c \in Documents : InvOf(c)'
  BY DEF Inv, InvOf, CallInv, PromotedInv, StoredInv, AgeInv, BodyInv,
     CompletedContentIsKept
<1>3. QED
  BY <1>1, <1>2

\* Every step of an upload call keeps the invariant.
LEMMA InvCall ==
  ASSUME NEW d \in Documents, Inv, TypeOK', CallStep(d)
  PROVE  Inv'
<1> USE DEF upload, rows, bucket, retention
<1>1. TypeOK /\ InvOf(d)
  BY InvIsLocal
<1>2. OthersKept(d)
  BY <1>1 DEF CallStep, Post, Store, Stored, Save, Undo, Removed, Die, OthersKept, TypeOK
<1>3. InvOf(d)'
  <2>1. CASE Post(d)
    <3>1. /\ UNCHANGED <<row, rowAge, object, age, erased, batch>>
          /\ call'[d] \in {"storing", "refused"}
          /\ body'[d].read = body'[d].sent /\ body'[d].read <= MaxBytes
      BY <1>1, <2>1, AdmittedIsWhole DEF Post, TypeOK, InvOf
    <3>2. row[d] = "absent"
      BY <1>1, <2>1 DEF Post, InvOf
    <3>3. QED
      BY <1>1, <3>1, <3>2 DEF InvOf
  <2>2. CASE Store(d)
    <3>1. /\ UNCHANGED <<body, row, rowAge, age, erased, batch>>
          /\ \/ object'[d] = "quarantine" /\ call'[d] = "saving"
             \/ object'[d] \in {object[d], "quarantine"} /\ call'[d] = "undoing"
      BY <1>1, <2>2 DEF Store, Stored, TypeOK
    <3>2. row[d] = "absent"
      BY <1>1, <2>2 DEF Store, InvOf
    <3>3. QED
      BY <1>1, <3>1, <3>2 DEF InvOf
  <2>3. CASE Save(d)
    <3>1. /\ UNCHANGED <<body, rowAge, object, age, erased, batch>>
          /\ \/ row'[d] = "quarantined" /\ call'[d] = "accepted"
             \/ row'[d] \in {row[d], "quarantined"} /\ call'[d] = "undoing"
      BY <1>1, <2>3 DEF Save, TypeOK
    <3>2. call[d] = "saving" /\ row[d] = "absent"
      BY <1>1, <2>3 DEF Save, InvOf
    <3>3. QED
      BY <1>1, <3>1, <3>2 DEF InvOf, Expired
  <2>4. CASE Undo(d) \/ Die(d)
    <3>1. /\ UNCHANGED <<body, row, rowAge, age, erased, batch>>
          /\ call'[d] \in {"refused", "dead"}
          /\ object'[d] = object[d] \/ (object[d] = "quarantine" /\ object'[d] = "none")
      BY <1>1, <2>4 DEF Undo, Removed, Die, TypeOK
    <3>2. QED
      BY <1>1, <3>1 DEF InvOf
  <2>5. QED
    BY <2>1, <2>2, <2>3, <2>4 DEF CallStep
<1>4. QED
  BY <1>2, <1>3, OneDocument

\* Every step of a rule, the pipeline or a deletion keeps the invariant.
LEMMA InvObject ==
  ASSUME NEW d \in Documents, Inv, TypeOK', ObjectStep(d)
  PROVE  Inv'
<1> USE DEF upload, rows, bucket, retention
<1>1. TypeOK /\ InvOf(d)
  BY InvIsLocal
<1>2. OthersKept(d)
  BY <1>1 DEF ObjectStep, Lifecycle, VersionExpires, Removed, Dispatch, Settle,
     Promoted, UserDeletes, DeleteNext, Deleted, DeletionFails, OthersKept, TypeOK
<1>3. InvOf(d)'
  <2>1. CASE Lifecycle(d)
    <3>1. /\ UNCHANGED <<call, body, row, rowAge, age, erased, batch>>
          /\ object'[d] = "none" /\ Outlived(d)
      BY <1>1, <2>1 DEF Lifecycle, Removed, TypeOK
    <3>2. ~(object[d] = "validated" /\ rowAge[d] < RetentionDays)
      <4>1. /\ age[d] \in Nat /\ rowAge[d] \in Nat
            /\ RetentionDays \in Nat /\ BackstopDays \in Nat
            /\ BackstopDays >= RetentionDays
        BY <1>1, OldestReachesRules, StorageAssumption DEF TypeOK
      <4>2. object[d] = "validated" => age[d] >= BackstopDays
        BY <3>1 DEF Outlived
      <4>3. QED
        BY <1>1, <4>1, <4>2 DEF InvOf
    <3>3. QED
      BY <1>1, <3>1, <3>2 DEF InvOf, Outlived, Expired
  <2>2. CASE Dispatch(d)
    <3>1. /\ UNCHANGED <<call, body, rowAge, object, age, erased, batch>>
          /\ row[d] = "quarantined" /\ row'[d] = "active"
      BY <1>1, <2>2 DEF Dispatch, TypeOK
    <3>2. QED
      BY <1>1, <3>1 DEF InvOf, Expired
  <2>3. CASE Settle(d)
    <3>1. /\ UNCHANGED <<call, body, rowAge, erased, batch>>
          /\ row[d] = "active"
          /\ \/ row'[d] = "completed" /\ Promoted(d)
             \/ row'[d] = "failed" /\ (Promoted(d) \/ UNCHANGED <<object, age>>)
      BY <1>1, <2>3 DEF Settle, TypeOK
    <3>2. Promoted(d) =>
              /\ object'[d] = "validated"
              /\ age'[d] = IF object[d] = "validated" THEN age[d] ELSE 0
      BY <1>1 DEF Promoted, TypeOK
    <3>3. rowAge[d] >= 0
      BY <1>1, StorageAssumption DEF TypeOK
    <3>4. QED
      BY <1>1, <3>1, <3>2, <3>3 DEF InvOf, Expired
  <2>4. CASE UserDeletes(d) \/ DeleteNext(d)
    <3>1. UNCHANGED <<call, body, rowAge, age>> /\ batch' \subseteq batch
      BY <2>4 DEF UserDeletes, DeleteNext
    <3>2. Deleted(d) \/ DeletionFails(d) \/ UNCHANGED <<row, object, erased>>
      BY <2>4 DEF UserDeletes, DeleteNext
    <3>3. UNCHANGED <<row, object, erased>> => InvOf(d)'
      BY <1>1, <3>1 DEF InvOf, Expired
    <3>4. Deleted(d) => InvOf(d)'
      <4>1. Deleted(d) => /\ object'[d] = "none" /\ d \in erased' /\ row'[d] = "deleted"
        BY <1>1 DEF Deleted, Removed, TypeOK
      <4>2. row[d] # "absent"
        BY <1>1, <2>4 DEF UserDeletes, DeleteNext, InvOf
      <4>3. QED
        BY <1>1, <3>1, <3>3, <4>1, <4>2 DEF InvOf
    <3>5. DeletionFails(d) => InvOf(d)'
      <4>1. DeletionFails(d) =>
                /\ row'[d] = row[d]
                /\ \/ object'[d] = "none" /\ d \in erased'
                   \/ UNCHANGED <<object, erased>>
        BY <1>1 DEF DeletionFails, Removed, TypeOK
      <4>2. QED
        BY <1>1, <3>1, <4>1 DEF InvOf, Expired
    <3>6. QED
      BY <3>2, <3>3, <3>4, <3>5
  <2>5. CASE VersionExpires(d)
    <3>1. UNCHANGED <<call, body, row, rowAge, object, age, erased, batch>>
      BY <2>5 DEF VersionExpires
    <3>2. QED
      BY <1>1, <3>1 DEF InvOf, Expired
  <2>6. QED
    BY <2>1, <2>2, <2>3, <2>4, <2>5 DEF ObjectStep
<1>4. QED
  BY <1>2, <1>3, OneDocument

------------------------------------------------------------------------------
(* The theorems *)

\* The invariant holds in every reachable state.
THEOREM InvHolds == Spec => []Inv
<1>1. Init => Inv
  <2> SUFFICES ASSUME Init PROVE Inv
    OBVIOUS
  <2>1. \A d \in Documents : InvOf(d)
    BY LimitsAssumption, StorageAssumption DEF Init, InvOf
  <2>2. QED
    BY <2>1, TypeInit, InvIsLocal
<1>2. Inv /\ [Next]_vars => Inv'
  <2> SUFFICES ASSUME Inv, [Next]_vars PROVE Inv'
    OBVIOUS
  <2>1. TypeOK'
    BY TypeStep DEF Inv
  <2>2. CASE List \/ Stop \/ UNCHANGED vars
    <3>1. /\ UNCHANGED <<call, body, row, rowAge, object, age, erased>>
          /\ \A d \in batch' : d \in batch \/ row[d] # "absent"
      BY <2>2 DEF List, Stop, Candidates, Due, vars, upload, rows, bucket, retention
    <3>2. QED
      BY <2>1, <3>1 DEF Inv, CallInv, PromotedInv, StoredInv, Expired, AgeInv,
         BodyInv, CompletedContentIsKept
  <2>3. QED
    BY <2>1, <2>2, InvDay, InvCall, InvObject, NextByPart
<1>3. QED
  BY <1>1, <1>2, PTL DEF Spec

\* All variables keep their types.
THEOREM TypeCorrect == Spec => []TypeOK
<1>1. Inv => TypeOK
  BY DEF Inv
<1>2. QED
  BY <1>1, InvHolds, PTL

\* An upload that was answered with success has its row, and its object until
\* a deletion or a lifecycle rule that was due took it.
THEOREM UploadsAreStored == Spec => []AcceptedUploadIsStored
<1>1. Inv => AcceptedUploadIsStored
  BY DEF Inv, CallInv, StoredInv, Expired, AcceptedUploadIsStored, Saved
<1>2. QED
  BY <1>1, InvHolds, PTL

\* No stored object is the beginning of a longer file.
THEOREM FilesAreWhole == Spec => []StoredFileIsWhole
<1>1. Inv => StoredFileIsWhole
  BY DEF Inv, BodyInv, StoredFileIsWhole
<1>2. QED
  BY <1>1, InvHolds, PTL

\* Whatever the days of retention, quarantine and grace, no lifecycle rule
\* takes the content of a completed document in its retention.
THEOREM ContentIsKept == Spec => []CompletedContentIsKept
<1>1. Inv => CompletedContentIsKept
  BY DEF Inv
<1>2. QED
  BY <1>1, InvHolds, PTL

==============================================================================
