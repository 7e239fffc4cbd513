--------------------------- MODULE AccountsProofs ---------------------------
(***************************************************************************)
(* Theorems about Accounts, for any number of sign-ups, readers and        *)
(* writers and every choice of failures.                                   *)
(***************************************************************************)
EXTENDS Accounts, TLAPS

\* A cleanup job is added by a sign-up on its last step.
CleanupAfterGuard ==
  \A a \in Attempt :
    cleanup[a] # "none" => signUp[a] \in {"guarded", "failed", "done"}

\* A cleanup that was not early is about to delete only what a failed sign-up left.
DeletesOrphans ==
  \A a \in Attempt :
    cleanup[a] = "deleting" => signUp[a] = "failed" \/ a \in overtaken

KeptInv == TypeOK /\ CleanupAfterGuard /\ DeletesOrphans /\ SignedUpIsKept

\* A reader that is about to cache a row from before an edit: the edit's own DEL is
\* still to come, or has found it on its way.
LoadedStaleIsNoted ==
  \A r \in Reader :
    reader[r].pc = "loaded" =>
      \/ reader[r].row.edits = row[reader[r].of].edits
      \/ Editing(reader[r].of)
      \/ reader[r].of \in lateFill

StaleInv == TypeOK /\ LoadedStaleIsNoted /\ StaleOnlyAfterLateFill

Readers == [pc : {"idle"}] \cup [pc : {"missed"}, of : Attempt]
             \cup [pc : {"loaded"}, of : Attempt, row : Rows]

-----------------------------------------------------------------------------
(* Types.                                                                   *)

LEMMA TypeInit == Init => TypeOK
BY DEF Init, TypeOK, NoUser, Rows, Writers, SignUpRunning

LEMMA SignUpType ==
  ASSUME TypeOK, NEW a \in Attempt,
         SignUpInsert(a) \/ SignUpGoesOn(a) \/ SignUpFails(a)
  PROVE  TypeOK'
<1> USE DEF SignUpStep, cacheVars, writerVars
<1>1. /\ signUp' \in [Attempt -> SignUpRunning \cup
                        {"idle", "refused", "unguarded", "failed", "done"}]
      /\ user' \in [Attempt -> {"absent", "present", "deleted"}]
      /\ linked' \subseteq Attempt
      /\ cleanup' \in [Attempt -> {"none", "delayed", "deleting", "over", "failed"}]
  <2>1. CASE SignUpInsert(a)
    BY <2>1 DEF SignUpInsert, TypeOK, SignUpRunning
  <2>2. CASE SignUpAnnounce(a)
    BY <2>2 DEF SignUpAnnounce, TypeOK, SignUpRunning
  <2>3. CASE SignUpGuard(a)
    BY <2>3 DEF SignUpGuard, TypeOK, SignUpRunning
  <2>4. CASE SignUpLink(a)
    BY <2>4 DEF SignUpLink, TypeOK, SignUpRunning
  <2>5. CASE SignUpFails(a)
    BY <2>5 DEF SignUpFails, TypeOK, SignUpRunning
  <2> QED
    BY <2>1, <2>2, <2>3, <2>4, <2>5 DEF SignUpGoesOn
<1>2. UNCHANGED <<overtaken, cacheVars, writerVars>>
  BY DEF SignUpInsert, SignUpGoesOn, SignUpAnnounce, SignUpGuard, SignUpLink, SignUpFails
<1> QED
  BY <1>1, <1>2 DEF TypeOK

LEMMA CleanupType ==
  ASSUME TypeOK, NEW a \in Attempt, CleanupNext(a) \/ CleanupThrows(a)
  PROVE  TypeOK'
<1>1. /\ user' \in [Attempt -> {"absent", "present", "deleted"}]
      /\ linked' \subseteq Attempt /\ overtaken' \subseteq Attempt
      /\ cleanup' \in [Attempt -> {"none", "delayed", "deleting", "over", "failed"}]
  BY DEF CleanupNext, CleanupRead, CleanupDelete, CleanupThrows, CleanupStep, TypeOK
<1>2. UNCHANGED <<signUp, cacheVars, writerVars>>
  BY DEF CleanupNext, CleanupRead, CleanupDelete, CleanupThrows, CleanupStep
<1> QED
  BY <1>1, <1>2 DEF TypeOK, cacheVars, writerVars

\* What a reader's step means for a reader.
LEMMA ReaderShape ==
  ASSUME TypeOK, NEW r \in Reader
  PROVE  /\ reader[r].pc = "missed" => reader[r].of \in Attempt
         /\ reader[r].pc = "loaded" => reader[r].of \in Attempt /\ reader[r].row \in Rows
BY DEF TypeOK

LEMMA ReaderType ==
  ASSUME TypeOK, NEW r \in Reader, ReaderGet(r) \/ ReaderGoesOn(r)
  PROVE  TypeOK'
<1>1. CASE ReaderGet(r)
  <2>1. PICK a \in SignedUp : reader' = [reader EXCEPT ![r] = [pc |-> "missed", of |-> a]]
    BY <1>1 DEF ReaderGet
  <2>2. [pc |-> "missed", of |-> a] \in Readers
    BY DEF Readers, SignedUp
  <2>3. reader' \in [Reader -> Readers]
    BY <2>1, <2>2 DEF TypeOK, Readers
  <2> QED
    BY <1>1, <2>3 DEF ReaderGet, TypeOK, Readers, signUpVars, writerVars
<1>2. CASE ReaderLoad(r)
  <2>1. reader[r].of \in Attempt /\ row[reader[r].of] \in Rows
    BY <1>2, ReaderShape DEF ReaderLoad, TypeOK
  <2>2. /\ [pc |-> "loaded", of |-> reader[r].of, row |-> row[reader[r].of]] \in Readers
        /\ [pc |-> "idle"] \in Readers
    BY <2>1 DEF Readers
  <2>3. reader' \in [Reader -> Readers]
    BY <1>2, <2>2 DEF ReaderLoad, TypeOK, Readers
  <2> QED
    BY <1>2, <2>3 DEF ReaderLoad, TypeOK, Readers, signUpVars, writerVars
<1>3. CASE ReaderSet(r)
  <2>1. reader[r].of \in Attempt /\ reader[r].row \in Rows
    BY <1>3, ReaderShape DEF ReaderSet
  <2>2. [pc |-> "idle"] \in Readers
    BY DEF Readers
  <2>3. reader' \in [Reader -> Readers]
    BY <1>3, <2>2 DEF ReaderSet, TypeOK, Readers
  <2>4. /\ cache' \in [Attempt -> SUBSET Rows]
        /\ \A a \in Attempt : \A c, d \in cache'[a] : c = d
    BY <1>3, <2>1 DEF ReaderSet, TypeOK
  <2> QED
    BY <1>3, <2>3, <2>4 DEF ReaderSet, TypeOK, Readers, signUpVars, writerVars
<1> QED
  BY <1>1, <1>2, <1>3 DEF ReaderGoesOn

LEMMA ExpiryType ==
  ASSUME TypeOK, NEW a \in Attempt, CacheExpires(a)
  PROVE  TypeOK'
<1>1. /\ cache' \in [Attempt -> SUBSET Rows]
      /\ \A b \in Attempt : \A c, d \in cache'[b] : c = d
  BY DEF CacheExpires, TypeOK
<1> QED
  BY <1>1 DEF CacheExpires, TypeOK, signUpVars, writerVars

LEMMA WriterShape ==
  ASSUME NEW w \in Writers
  PROVE  /\ w.pc # "idle" => w.of \in Attempt
         /\ w.pc # "idle" => \A p \in {"updated", "refused", "done", "died"} :
                                [w EXCEPT !.pc = p] \in Writers
BY DEF Writers

LEMMA VerifiedRow ==
  ASSUME NEW old \in Rows
  PROVE  /\ [old EXCEPT !.verified = TRUE] \in Rows
         /\ [old EXCEPT !.verified = TRUE].edits = old.edits
BY Zenon DEF Rows

LEMMA EditorType ==
  ASSUME TypeOK, NEW e \in Editor,
         EditorUpdate(e) \/ EditorInvalidate(e) \/ EditorFails(e)
  PROVE  TypeOK'
<1>0. editor[e] \in Writers
  BY DEF TypeOK
<1>1. CASE EditorUpdate(e)
  <2>1. PICK a \in SignedUp :
          \/ /\ row' = [row EXCEPT ![a].edits = @ + 1]
             /\ editor' = [editor EXCEPT ![e] = [pc |-> "updated", of |-> a]]
          \/ /\ UNCHANGED row
             /\ editor' = [editor EXCEPT ![e] = [pc |-> "refused", of |-> a]]
    BY <1>1 DEF EditorUpdate
  <2>2. a \in Attempt /\ [row[a] EXCEPT !.edits = @ + 1] \in Rows
    BY DEF SignedUp, TypeOK, Rows
  <2>3. row' \in [Attempt -> Rows]
    BY <2>1, <2>2 DEF TypeOK
  <2>4. [pc |-> "updated", of |-> a] \in Writers /\ [pc |-> "refused", of |-> a] \in Writers
    BY <2>2 DEF Writers
  <2>5. editor' \in [Editor -> Writers]
    BY <2>1, <2>4 DEF TypeOK
  <2> QED
    BY <1>1, <2>3, <2>5 DEF EditorUpdate, TypeOK, signUpVars, cacheVars
<1>2. CASE EditorInvalidate(e)
  <2>1. editor[e].of \in Attempt /\ [editor[e] EXCEPT !.pc = "done"] \in Writers
    BY <1>0, <1>2, WriterShape DEF EditorInvalidate
  <2>2. editor' \in [Editor -> Writers]
    BY <1>2, <2>1 DEF EditorInvalidate, TypeOK
  <2>3. /\ cache' \in [Attempt -> SUBSET Rows]
        /\ \A a \in Attempt : \A c, d \in cache'[a] : c = d
        /\ lateFill' \subseteq Attempt
    BY <1>2, <2>1 DEF EditorInvalidate, TypeOK
  <2> QED
    BY <1>2, <2>2, <2>3 DEF EditorInvalidate, TypeOK, signUpVars
<1>3. CASE EditorFails(e)
  <2>1. [editor[e] EXCEPT !.pc = "died"] \in Writers
    BY <1>0, <1>3, WriterShape DEF EditorFails
  <2>2. editor' \in [Editor -> Writers]
    BY <1>3, <2>1 DEF EditorFails, TypeOK
  <2> QED
    BY <1>3, <2>2 DEF EditorFails, TypeOK, signUpVars, cacheVars
<1> QED
  BY <1>1, <1>2, <1>3

LEMMA VerifierType ==
  ASSUME TypeOK, NEW v \in Verifier, VerifierUpdate(v) \/ VerifierAnnounce(v)
  PROVE  TypeOK'
<1>0. verifier[v] \in Writers
  BY DEF TypeOK
<1>1. CASE VerifierUpdate(v)
  <2>1. PICK a \in SignedUp :
          /\ row' = [row EXCEPT ![a].verified = TRUE]
          /\ verifier' = [verifier EXCEPT ![v] = [pc |-> "updated", of |-> a]]
    BY <1>1 DEF VerifierUpdate
  <2>2. a \in Attempt /\ [row[a] EXCEPT !.verified = TRUE] \in Rows
    <3>1. a \in Attempt /\ row[a] \in Rows
      BY DEF SignedUp, TypeOK
    <3> QED
      BY <3>1, VerifiedRow
  <2>3. row' \in [Attempt -> Rows]
    BY <2>1, <2>2 DEF TypeOK
  <2>4. [pc |-> "updated", of |-> a] \in Writers
    BY <2>2 DEF Writers
  <2>5. verifier' \in [Verifier -> Writers]
    BY <2>1, <2>4 DEF TypeOK
  <2> QED
    BY <1>1, <2>3, <2>5 DEF VerifierUpdate, TypeOK, signUpVars, cacheVars
<1>2. CASE VerifierAnnounce(v)
  <2>1. [verifier[v] EXCEPT !.pc = "done"] \in Writers
    BY <1>0, <1>2, WriterShape DEF VerifierAnnounce
  <2>2. verifier' \in [Verifier -> Writers]
    BY <1>2, <2>1 DEF VerifierAnnounce, TypeOK
  <2> QED
    BY <1>2, <2>2 DEF VerifierAnnounce, TypeOK, signUpVars, cacheVars
<1> QED
  BY <1>1, <1>2

LEMMA TypeNext ==
  ASSUME TypeOK, [Next]_vars
  PROVE  TypeOK'
<1>1. CASE UNCHANGED vars
  BY <1>1 DEF vars, signUpVars, cacheVars, writerVars, TypeOK
<1>2. CASE \E a \in Attempt : \/ SignUpInsert(a) \/ SignUpGoesOn(a) \/ SignUpFails(a)
                              \/ CleanupNext(a) \/ CleanupThrows(a) \/ CacheExpires(a)
  BY <1>2, SignUpType, CleanupType, ExpiryType
<1>3. CASE \E r \in Reader : ReaderGet(r) \/ ReaderGoesOn(r)
  BY <1>3, ReaderType
<1>4. CASE \E e \in Editor : EditorUpdate(e) \/ EditorInvalidate(e) \/ EditorFails(e)
  BY <1>4, EditorType
<1>5. CASE \E v \in Verifier : VerifierUpdate(v) \/ VerifierAnnounce(v)
  BY <1>5, VerifierType
<1> QED
  BY <1>1, <1>2, <1>3, <1>4, <1>5 DEF Next

\* Every variable keeps to its values, and only rows are cached.
THEOREM TypeCorrect == Spec => []TypeOK
BY TypeInit, TypeNext, PTL DEF Spec
-----------------------------------------------------------------------------
(* Sign-up.                                                                 *)

LEMMA KeptInit == Init => KeptInv
BY TypeInit DEF Init, KeptInv, TypeOK, CleanupAfterGuard, DeletesOrphans,
                SignedUpIsKept, SignedUp

LEMMA SignUpKeeps ==
  ASSUME KeptInv, NEW a \in Attempt,
         SignUpInsert(a) \/ SignUpGoesOn(a) \/ SignUpFails(a)
  PROVE  CleanupAfterGuard' /\ DeletesOrphans' /\ SignedUpIsKept'
<1> USE DEF KeptInv, TypeOK, CleanupAfterGuard, DeletesOrphans, SignedUpIsKept, SignedUp,
            SignUpStep
<1>1. CASE SignUpInsert(a)
  BY <1>1 DEF SignUpInsert
<1>2. CASE SignUpAnnounce(a)
  BY <1>2 DEF SignUpAnnounce
<1>3. CASE SignUpGuard(a)
  BY <1>3 DEF SignUpGuard
<1>4. CASE SignUpLink(a)
  BY <1>4 DEF SignUpLink
<1>5. CASE SignUpFails(a)
  BY <1>5 DEF SignUpFails
<1> QED
  BY <1>1, <1>2, <1>3, <1>4, <1>5 DEF SignUpGoesOn

LEMMA CleanupKeeps ==
  ASSUME KeptInv, NEW a \in Attempt, CleanupNext(a) \/ CleanupThrows(a)
  PROVE  CleanupAfterGuard' /\ DeletesOrphans' /\ SignedUpIsKept'
<1> USE DEF KeptInv, TypeOK, CleanupAfterGuard, DeletesOrphans, SignedUpIsKept, SignedUp,
            CleanupStep
<1>1. CASE CleanupRead(a)
  <2>1. CASE Orphaned(a)
    <3>1. signUp[a] \in {"guarded", "failed", "done"}
      BY <1>1 DEF CleanupRead
    <3>2. signUp[a] = "failed" \/ a \in overtaken'
      BY <1>1, <2>1, <3>1 DEF CleanupRead, Orphaned, SignUpRunning
    <3> QED
      BY <1>1, <3>2 DEF CleanupRead
  <2>2. CASE ~Orphaned(a)
    BY <1>1, <2>2 DEF CleanupRead
  <2> QED
    BY <2>1, <2>2
<1>2. CASE CleanupDelete(a)
  <2>1. signUp[a] = "failed" \/ a \in overtaken
    BY <1>2 DEF CleanupDelete
  <2>2. UNCHANGED <<signUp, overtaken>>
    BY <1>2 DEF CleanupDelete
  <2>3. \A b \in Attempt \ {a} : user'[b] = user[b] /\ (b \in linked' <=> b \in linked)
    BY <1>2 DEF CleanupDelete
  <2>4. SignedUpIsKept'
    BY <2>1, <2>2, <2>3
  <2>5. CleanupAfterGuard' /\ DeletesOrphans'
    BY <1>2 DEF CleanupDelete
  <2> QED
    BY <2>4, <2>5
<1>3. CASE CleanupThrows(a)
  BY <1>3 DEF CleanupThrows
<1> QED
  BY <1>1, <1>2, <1>3 DEF CleanupNext

LEMMA KeptNext ==
  ASSUME KeptInv, [Next]_vars
  PROVE  KeptInv'
<1>1. TypeOK'
  BY TypeNext DEF KeptInv
<1>2. CASE UNCHANGED signUpVars
  BY <1>1, <1>2 DEF KeptInv, signUpVars, CleanupAfterGuard, DeletesOrphans,
     SignedUpIsKept, SignedUp
<1>3. ASSUME NEW a \in Attempt, SignUpInsert(a) \/ SignUpGoesOn(a) \/ SignUpFails(a)
      PROVE  KeptInv'
  BY <1>1, <1>3, SignUpKeeps DEF KeptInv
<1>4. ASSUME NEW a \in Attempt, CleanupNext(a) \/ CleanupThrows(a)
      PROVE  KeptInv'
  BY <1>1, <1>4, CleanupKeeps DEF KeptInv
<1>5. ASSUME NEW a \in Attempt, CacheExpires(a)
      PROVE  UNCHANGED signUpVars
  BY <1>5 DEF CacheExpires
<1>6. ASSUME NEW r \in Reader, ReaderGet(r) \/ ReaderGoesOn(r)
      PROVE  UNCHANGED signUpVars
  BY <1>6 DEF ReaderGet, ReaderGoesOn, ReaderLoad, ReaderSet
<1>7. ASSUME NEW e \in Editor, EditorUpdate(e) \/ EditorInvalidate(e) \/ EditorFails(e)
      PROVE  UNCHANGED signUpVars
  BY <1>7 DEF EditorUpdate, EditorInvalidate, EditorFails
<1>8. ASSUME NEW v \in Verifier, VerifierUpdate(v) \/ VerifierAnnounce(v)
      PROVE  UNCHANGED signUpVars
  BY <1>8 DEF VerifierUpdate, VerifierAnnounce
<1>9. UNCHANGED vars => UNCHANGED signUpVars
  BY DEF vars
<1> QED
  BY <1>2, <1>3, <1>4, <1>5, <1>6, <1>7, <1>8, <1>9 DEF Next

\* Whatever fails beside it, a sign-up that was answered keeps its user and its
\* account, if its cleanup did not overtake it.
THEOREM SignUpsAreKept == Spec => []SignedUpIsKept
<1>1. KeptInv => SignedUpIsKept
  BY DEF KeptInv
<1> QED
  BY <1>1, KeptInit, KeptNext, PTL DEF Spec

-----------------------------------------------------------------------------
(* The cached row.                                                          *)

LEMMA StaleInit == Init => StaleInv
BY TypeInit DEF Init, StaleInv, TypeOK, LoadedStaleIsNoted, StaleOnlyAfterLateFill

\* What neither writes a row nor answers an edit, and caches nothing.
LEMMA StaleKept ==
  ASSUME StaleInv, TypeOK', UNCHANGED <<editor, lateFill>>,
         \A a \in Attempt : row'[a].edits = row[a].edits,
         \A a \in Attempt : cache'[a] \subseteq cache[a],
         \A r \in Reader : reader'[r].pc = "loaded" =>
           reader'[r] = reader[r] \/ reader'[r].row.edits = row[reader'[r].of].edits
  PROVE  StaleInv'
<1>1. \A a \in Attempt : Editing(a)' <=> Editing(a)
  BY DEF Editing
<1>2. \A r \in Reader : reader'[r].pc = "loaded" => reader'[r].of \in Attempt
  BY DEF TypeOK
<1>3. LoadedStaleIsNoted'
  BY <1>1, <1>2 DEF StaleInv, LoadedStaleIsNoted
<1>4. StaleOnlyAfterLateFill'
  BY <1>1 DEF StaleInv, StaleOnlyAfterLateFill
<1> QED
  BY <1>3, <1>4 DEF StaleInv

LEMMA ReaderStale ==
  ASSUME StaleInv, TypeOK', NEW r \in Reader, ReaderGet(r) \/ ReaderGoesOn(r)
  PROVE  StaleInv'
<1> USE DEF writerVars
<1>1. CASE ReaderGet(r)
  <2>1. \A q \in Reader : reader'[q].pc = "loaded" => reader'[q] = reader[q]
    BY <1>1 DEF ReaderGet, StaleInv, TypeOK
  <2> QED
    BY <1>1, <2>1, StaleKept DEF ReaderGet
<1>2. CASE ReaderLoad(r)
  <2>1. \A q \in Reader : reader'[q].pc = "loaded" =>
          reader'[q] = reader[q] \/ reader'[q].row.edits = row[reader'[q].of].edits
    BY <1>2 DEF ReaderLoad, StaleInv, TypeOK
  <2> QED
    BY <1>2, <2>1, StaleKept DEF ReaderLoad
<1>3. CASE ReaderSet(r)
  <2>1. /\ reader[r].pc = "loaded"
        /\ reader[r].of \in Attempt
        /\ cache' = [cache EXCEPT ![reader[r].of] = {reader[r].row}]
        /\ reader' = [reader EXCEPT ![r] = [pc |-> "idle"]]
        /\ UNCHANGED <<row, editor, lateFill>>
    BY <1>3, ReaderShape DEF ReaderSet, StaleInv
  <2>2. \A q \in Reader : reader'[q].pc = "loaded" => reader'[q] = reader[q]
    BY <2>1 DEF StaleInv, TypeOK
  <2>3. \A a \in Attempt : Editing(a)' <=> Editing(a)
    BY <2>1 DEF Editing
  <2>4. LoadedStaleIsNoted'
    BY <2>1, <2>2, <2>3 DEF StaleInv, LoadedStaleIsNoted, TypeOK
  <2>5. StaleOnlyAfterLateFill'
    BY <2>1, <2>3 DEF StaleInv, LoadedStaleIsNoted, StaleOnlyAfterLateFill, TypeOK
  <2> QED
    BY <2>4, <2>5 DEF StaleInv
<1> QED
  BY <1>1, <1>2, <1>3 DEF ReaderGoesOn

\* An edit makes stale what was read before it, and is not answered yet.
LEMMA UpdateStale ==
  ASSUME StaleInv, TypeOK', NEW e \in Editor, EditorUpdate(e)
  PROVE  StaleInv'
<1>1. PICK a \in SignedUp :
        /\ \/ /\ row' = [row EXCEPT ![a].edits = @ + 1]
              /\ editor' = [editor EXCEPT ![e] = [pc |-> "updated", of |-> a]]
           \/ /\ UNCHANGED row
              /\ editor' = [editor EXCEPT ![e] = [pc |-> "refused", of |-> a]]
        /\ editor[e].pc = "idle"
        /\ UNCHANGED <<cache, reader, lateFill>>
  BY DEF EditorUpdate, cacheVars
<1>2. a \in Attempt
  BY DEF SignedUp
<1>3. \A b \in Attempt : Editing(b) => Editing(b)'
  BY <1>1 DEF Editing, StaleInv, TypeOK
<1>4. row' # row => Editing(a)'
  BY <1>1 DEF Editing, StaleInv, TypeOK
<1>5. \A b \in Attempt : row'[b].edits = row[b].edits \/ Editing(b)'
  BY <1>1, <1>2, <1>4 DEF StaleInv, TypeOK
<1>6. LoadedStaleIsNoted'
  <2>1. \A r \in Reader : reader[r].pc = "loaded" => reader[r].of \in Attempt
    BY ReaderShape DEF StaleInv
  <2> QED
    BY <1>1, <1>3, <1>5, <2>1 DEF StaleInv, LoadedStaleIsNoted
<1>7. StaleOnlyAfterLateFill'
  BY <1>1, <1>3, <1>5 DEF StaleInv, StaleOnlyAfterLateFill
<1> QED
  BY <1>6, <1>7 DEF StaleInv

\* The DEL that answers an edit notes what it has overtaken.
LEMMA InvalidateStale ==
  ASSUME StaleInv, TypeOK', NEW e \in Editor, EditorInvalidate(e)
  PROVE  StaleInv'
<1> DEFINE a == editor[e].of
<1>1. a \in Attempt
  <2>1. editor[e] \in Writers /\ editor[e].pc = "updated"
    BY DEF EditorInvalidate, StaleInv, TypeOK
  <2> QED
    BY <2>1, WriterShape
<1>2. /\ editor' = [editor EXCEPT ![e].pc = "done"]
      /\ cache' = [cache EXCEPT ![a] = {}]
      /\ lateFill' = IF Overtaken(a) THEN lateFill \cup {a} ELSE lateFill \ {a}
      /\ UNCHANGED <<reader, row>>
  BY DEF EditorInvalidate
<1>3. \A b \in Attempt \ {a} : Editing(b) => Editing(b)'
  BY <1>2 DEF Editing, StaleInv, TypeOK
<1>4. LoadedStaleIsNoted'
  <2>1. SUFFICES ASSUME NEW r \in Reader, reader[r].pc = "loaded",
                        reader[r].row.edits # row[reader[r].of].edits
                 PROVE  Editing(reader[r].of)' \/ reader[r].of \in lateFill'
    BY <1>2 DEF LoadedStaleIsNoted
  <2>2. reader[r].of \in Attempt
    BY <2>1, ReaderShape DEF StaleInv
  <2>3. CASE reader[r].of = a
    BY <1>2, <2>1, <2>3 DEF Overtaken
  <2>4. CASE reader[r].of # a
    BY <1>2, <1>3, <2>1, <2>2, <2>4 DEF StaleInv, LoadedStaleIsNoted
  <2> QED
    BY <2>3, <2>4
<1>5. StaleOnlyAfterLateFill'
  BY <1>1, <1>2, <1>3 DEF StaleInv, StaleOnlyAfterLateFill, TypeOK
<1> QED
  BY <1>4, <1>5 DEF StaleInv

LEMMA FailureStale ==
  ASSUME StaleInv, TypeOK', NEW e \in Editor, EditorFails(e)
  PROVE  StaleInv'
<1>1. /\ editor' = [editor EXCEPT ![e].pc = "died"]
      /\ UNCHANGED <<cache, reader, lateFill, row>>
  BY DEF EditorFails, cacheVars
<1>2. \A b \in Attempt : Editing(b) => Editing(b)'
  BY <1>1 DEF Editing, StaleInv, TypeOK
<1>3. \A r \in Reader : reader[r].pc = "loaded" => reader[r].of \in Attempt
  BY ReaderShape DEF StaleInv
<1>4. LoadedStaleIsNoted'
  BY <1>1, <1>2, <1>3 DEF StaleInv, LoadedStaleIsNoted
<1>5. StaleOnlyAfterLateFill'
  BY <1>1, <1>2 DEF StaleInv, StaleOnlyAfterLateFill
<1> QED
  BY <1>4, <1>5 DEF StaleInv

\* Better Auth changes what the row says of the email, not the profile.
LEMMA VerifierStale ==
  ASSUME StaleInv, TypeOK', NEW v \in Verifier, VerifierUpdate(v) \/ VerifierAnnounce(v)
  PROVE  StaleInv'
<1>1. UNCHANGED <<editor, cache, reader, lateFill>>
  BY DEF VerifierUpdate, VerifierAnnounce, cacheVars
<1>2. \A a \in Attempt : row'[a].edits = row[a].edits
  <2>1. CASE VerifierUpdate(v)
    <3>1. PICK a \in Attempt : row' = [row EXCEPT ![a].verified = TRUE]
      BY <2>1 DEF VerifierUpdate, SignedUp
    <3>2. row \in [Attempt -> Rows] /\ row[a] \in Rows
      BY DEF StaleInv, TypeOK
    <3>3. [row[a] EXCEPT !.verified = TRUE].edits = row[a].edits
      BY <3>2, VerifiedRow
    <3> QED
      BY <3>1, <3>2, <3>3
  <2>2. CASE VerifierAnnounce(v)
    BY <2>2 DEF VerifierAnnounce
  <2> QED
    BY <2>1, <2>2
<1> QED
  BY <1>1, <1>2, StaleKept

LEMMA StaleNext ==
  ASSUME StaleInv, [Next]_vars
  PROVE  StaleInv'
<1>1. TypeOK'
  BY TypeNext DEF StaleInv
<1>2. CASE UNCHANGED <<cacheVars, writerVars>>
  BY <1>1, <1>2, StaleKept DEF cacheVars, writerVars
<1>3. ASSUME NEW a \in Attempt,
             \/ SignUpInsert(a) \/ SignUpGoesOn(a) \/ SignUpFails(a)
             \/ CleanupNext(a) \/ CleanupThrows(a)
      PROVE  UNCHANGED <<cacheVars, writerVars>>
  BY <1>3 DEF SignUpInsert, SignUpGoesOn, SignUpAnnounce, SignUpGuard, SignUpLink,
     SignUpFails, CleanupNext, CleanupRead, CleanupDelete, CleanupThrows, CleanupStep
<1>4. ASSUME NEW a \in Attempt, CacheExpires(a)
      PROVE  StaleInv'
  <2>1. /\ UNCHANGED <<editor, lateFill, row, reader>>
        /\ \A b \in Attempt : cache'[b] \subseteq cache[b]
    BY <1>4 DEF CacheExpires, writerVars, StaleInv, TypeOK
  <2> QED
    BY <1>1, <2>1, StaleKept
<1>5. CASE \E r \in Reader : ReaderGet(r) \/ ReaderGoesOn(r)
  BY <1>1, <1>5, ReaderStale
<1>6. CASE \E e \in Editor : EditorUpdate(e) \/ EditorInvalidate(e) \/ EditorFails(e)
  BY <1>1, <1>6, UpdateStale, InvalidateStale, FailureStale
<1>7. CASE \E v \in Verifier : VerifierUpdate(v) \/ VerifierAnnounce(v)
  BY <1>1, <1>7, VerifierStale
<1>8. UNCHANGED vars => UNCHANGED <<cacheVars, writerVars>>
  BY DEF vars
<1> QED
  BY <1>2, <1>3, <1>4, <1>5, <1>6, <1>7, <1>8 DEF Next

\* A profile from before an edit is served only while the edit is not answered,
\* or after a fill that its DEL overtook.
THEOREM ServedStaleIsLate == Spec => []StaleOnlyAfterLateFill
<1>1. StaleInv => StaleOnlyAfterLateFill
  BY DEF StaleInv
<1> QED
  BY <1>1, StaleInit, StaleNext, PTL DEF Spec
-----------------------------------------------------------------------------
(* Orphans.                                                                 *)

\* What a failed sign-up left behind has a job that will remove it, or that threw.
OrphanArranged ==
  \A a \in Attempt :
    signUp[a] = "failed" /\ user[a] = "present" =>
      cleanup[a] \in {"delayed", "deleting", "failed"}

\* The guard, the account and the job's verdict, however early the job woke up.
GuardLeavesJob ==
  \A a \in Attempt :
    /\ signUp[a] \in {"guarded", "failed", "done"} <=> cleanup[a] # "none"
    /\ a \in linked => signUp[a] = "done"
    /\ cleanup[a] = "over" => user[a] # "present" \/ a \in linked

OrphanInv == TypeOK /\ GuardLeavesJob

LEMMA OrphanInit == Init => OrphanInv
BY TypeInit DEF Init, OrphanInv, GuardLeavesJob

LEMMA OrphanNext ==
  ASSUME OrphanInv, [Next]_vars
  PROVE  OrphanInv'
<1> USE DEF OrphanInv, GuardLeavesJob
<1>1. TypeOK'
  BY TypeNext
<1>2. CASE UNCHANGED signUpVars
  BY <1>1, <1>2 DEF signUpVars
<1>3. ASSUME NEW a \in Attempt, SignUpInsert(a) \/ SignUpGoesOn(a) \/ SignUpFails(a)
      PROVE  GuardLeavesJob'
  <2> USE DEF SignUpStep, TypeOK
  <2>1. CASE SignUpInsert(a)
    BY <2>1 DEF SignUpInsert
  <2>2. CASE SignUpAnnounce(a)
    BY <2>2 DEF SignUpAnnounce
  <2>3. CASE SignUpGuard(a)
    BY <2>3 DEF SignUpGuard
  <2>4. CASE SignUpLink(a)
    BY <2>4 DEF SignUpLink
  <2>5. CASE SignUpFails(a)
    BY <2>5 DEF SignUpFails
  <2> QED
    BY <1>3, <2>1, <2>2, <2>3, <2>4, <2>5 DEF SignUpGoesOn
<1>4. ASSUME NEW a \in Attempt, CleanupNext(a) \/ CleanupThrows(a)
      PROVE  GuardLeavesJob'
  <2> USE DEF CleanupStep, TypeOK
  <2>1. CASE CleanupRead(a)
    BY <2>1 DEF CleanupRead, Orphaned
  <2>2. CASE CleanupDelete(a)
    BY <2>2 DEF CleanupDelete
  <2>3. CASE CleanupThrows(a)
    BY <2>3 DEF CleanupThrows
  <2> QED
    BY <1>4, <2>1, <2>2, <2>3 DEF CleanupNext
<1>5. ASSUME NEW a \in Attempt, CacheExpires(a)
      PROVE  UNCHANGED signUpVars
  BY <1>5 DEF CacheExpires
<1>6. ASSUME NEW r \in Reader, ReaderGet(r) \/ ReaderGoesOn(r)
      PROVE  UNCHANGED signUpVars
  BY <1>6 DEF ReaderGet, ReaderGoesOn, ReaderLoad, ReaderSet
<1>7. ASSUME NEW e \in Editor, EditorUpdate(e) \/ EditorInvalidate(e) \/ EditorFails(e)
      PROVE  UNCHANGED signUpVars
  BY <1>7 DEF EditorUpdate, EditorInvalidate, EditorFails
<1>8. ASSUME NEW v \in Verifier, VerifierUpdate(v) \/ VerifierAnnounce(v)
      PROVE  UNCHANGED signUpVars
  BY <1>8 DEF VerifierUpdate, VerifierAnnounce
<1>9. UNCHANGED vars => UNCHANGED signUpVars
  BY DEF vars
<1> QED
  BY <1>1, <1>2, <1>3, <1>4, <1>5, <1>6, <1>7, <1>8, <1>9 DEF Next

\* A job that wakes up before, between or after the steps of its sign-up never lets
\* the row of a failed one go: the email is free, or the job is still to run, or it
\* threw.
THEOREM OrphanIsArranged == Spec => []OrphanArranged
<1>1. OrphanInv => OrphanArranged
  BY DEF OrphanInv, GuardLeavesJob, OrphanArranged, TypeOK
<1> QED
  BY <1>1, OrphanInit, OrphanNext, PTL DEF Spec
=============================================================================
