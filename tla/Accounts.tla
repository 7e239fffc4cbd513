------------------------------ MODULE Accounts ------------------------------
(***************************************************************************)
(* Sign-up, the job that removes a user whom a failed sign-up left behind, *)
(* the cached user row every authenticated request is served from, and the *)
(* two writers of that row: profile updates and Better Auth.               *)
(*                                                                         *)
(* All sign-up attempts use one email.  Better Auth inserts the user, runs *)
(* the create hook, then inserts the account; a session needs both.        *)
(***************************************************************************)
EXTENDS Naturals

CONSTANTS
  Attempt,  \* sign-up attempts, and the ids of the users they insert
  Reader,   \* clients that send authenticated requests, one at a time
  Editor,   \* profile updates
  Verifier, \* Better Auth updates that verify the email
  Faults    \* which failures happen

FaultKinds ==
  {"crash",    \* a request dies, or a call of it fails, between two steps
   "job",      \* a cleanup run throws: no job is retried
   "slow"}     \* a cleanup job wakes up while its sign-up still runs

ASSUME AccountsAssumption == Faults \subseteq FaultKinds

NoUser == [edits |-> 0, verified |-> FALSE]

SignUpRunning == {"inserted", "announced", "guarded"}

VARIABLES
  user,       \* the users rows: absent, present or deleted
  linked,     \* users that have an account
  row,        \* the profile edits and the verification a row holds
  signUp,     \* each sign-up
  cleanup,    \* the cleanup job of each user
  overtaken,  \* sign-ups that were still running when their cleanup read
  cache,      \* crove:user:<id>: the row it was filled with, if any
  reader,     \* each reader: its step, its user and the row it loaded
  editor,     \* each profile update: its step and its user
  verifier,   \* each verification: its step and its user
  lateFill    \* users whose last invalidation overtook a fill

signUpVars == <<user, linked, signUp, cleanup, overtaken>>
cacheVars == <<cache, reader, lateFill>>
writerVars == <<row, editor, verifier>>
vars == <<signUpVars, cacheVars, writerVars>>

Init ==
  /\ user = [a \in Attempt |-> "absent"]
  /\ linked = {}
  /\ row = [a \in Attempt |-> NoUser]
  /\ signUp = [a \in Attempt |-> "idle"]
  /\ cleanup = [a \in Attempt |-> "none"]
  /\ overtaken = {}
  /\ cache = [a \in Attempt |-> {}]
  /\ reader = [r \in Reader |-> [pc |-> "idle"]]
  /\ editor = [e \in Editor |-> [pc |-> "idle"]]
  /\ verifier = [v \in Verifier |-> [pc |-> "idle"]]
  /\ lateFill = {}

-----------------------------------------------------------------------------
(* Sign-up.                                                                 *)

SignUpStep(a, from, to) ==
  /\ signUp[a] = from
  /\ signUp' = [signUp EXCEPT ![a] = to]

\* The email is unique among the users.
SignUpInsert(a) ==
  /\ IF \E b \in Attempt : user[b] = "present"
     THEN SignUpStep(a, "idle", "refused") /\ UNCHANGED user
     ELSE SignUpStep(a, "idle", "inserted") /\ user' = [user EXCEPT ![a] = "present"]
  /\ UNCHANGED <<linked, cleanup, overtaken, cacheVars, writerVars>>

\* The create hook: user.registered is dispatched, then the guard is set.
SignUpAnnounce(a) ==
  /\ SignUpStep(a, "inserted", "announced")
  /\ UNCHANGED <<user, linked, cleanup, overtaken, cacheVars, writerVars>>

\* Mutant: the cleanup jobs share one job id.
SignUpGuardOnce(a) ==
  /\ SignUpStep(a, "announced", "guarded")
  /\ cleanup' = IF \E b \in Attempt : cleanup[b] # "none"
                THEN cleanup ELSE [cleanup EXCEPT ![a] = "delayed"]
  /\ UNCHANGED <<user, linked, overtaken, cacheVars, writerVars>>

SignUpGuard(a) ==
  /\ SignUpStep(a, "announced", "guarded")
  /\ cleanup' = [cleanup EXCEPT ![a] = "delayed"]
  /\ UNCHANGED <<user, linked, overtaken, cacheVars, writerVars>>

\* The account refers to its user, who may be gone.
SignUpLink(a) ==
  /\ IF user[a] = "present"
     THEN SignUpStep(a, "guarded", "done") /\ linked' = linked \cup {a}
     ELSE SignUpStep(a, "guarded", "failed") /\ UNCHANGED linked
  /\ UNCHANGED <<user, cleanup, overtaken, cacheVars, writerVars>>

SignUpFails(a) ==
  /\ "crash" \in Faults
  /\ \/ signUp[a] \in {"inserted", "announced"} /\ SignUpStep(a, signUp[a], "unguarded")
     \/ SignUpStep(a, "guarded", "failed")
  /\ UNCHANGED <<user, linked, cleanup, overtaken, cacheVars, writerVars>>

CleanupStep(a, from, to) ==
  /\ cleanup[a] = from
  /\ cleanup' = [cleanup EXCEPT ![a] = to]
  /\ UNCHANGED <<signUp, cacheVars, writerVars>>

\* Mutant: whoever is still there is deleted.
OrphanedUnchecked(a) == user[a] = "present"

Orphaned(a) == user[a] = "present" /\ a \notin linked

CleanupRead(a) ==
  /\ signUp[a] \in SignUpRunning => "slow" \in Faults
  /\ CleanupStep(a, "delayed", IF Orphaned(a) THEN "deleting" ELSE "over")
  /\ overtaken' = IF signUp[a] \in SignUpRunning THEN overtaken \cup {a} ELSE overtaken
  /\ UNCHANGED <<user, linked>>

\* The accounts of the user go with it.
CleanupDelete(a) ==
  /\ CleanupStep(a, "deleting", "over")
  /\ user' = [user EXCEPT ![a] = "deleted"]
  /\ linked' = linked \ {a}
  /\ UNCHANGED overtaken

CleanupThrows(a) ==
  /\ "job" \in Faults
  /\ cleanup[a] = "deleting"
  /\ CleanupStep(a, "deleting", "failed")
  /\ UNCHANGED <<user, linked, overtaken>>

-----------------------------------------------------------------------------
(* authenticate.  A session outlives its user for as long as its cookie is  *)
(* cached, so whoever has signed up may ask.                                *)

SignedUp == {a \in Attempt : signUp[a] = "done"}

ReaderGet(r) ==
  /\ reader[r].pc = "idle"
  /\ \E a \in SignedUp :
       /\ cache[a] = {}   \* a hit is served as it is
       /\ reader' = [reader EXCEPT ![r] = [pc |-> "missed", of |-> a]]
  /\ UNCHANGED <<signUpVars, cache, lateFill, writerVars>>

\* Mutant: whatever the lookup returns is cached.
ReaderLoadUnchecked(r) ==
  /\ reader[r].pc = "missed"
  /\ LET a == reader[r].of IN
     reader' = [reader EXCEPT ![r] =
                  [pc |-> "loaded", of |-> a,
                   row |-> IF user[a] = "present" THEN row[a] ELSE [edits |-> 0]]]
  /\ UNCHANGED <<signUpVars, cache, lateFill, writerVars>>

\* No user, no request.
ReaderLoad(r) ==
  /\ reader[r].pc = "missed"
  /\ LET a == reader[r].of IN
     reader' = [reader EXCEPT ![r] =
                  IF user[a] = "present"
                  THEN [pc |-> "loaded", of |-> a, row |-> row[a]]
                  ELSE [pc |-> "idle"]]
  /\ UNCHANGED <<signUpVars, cache, lateFill, writerVars>>

ReaderSet(r) ==
  /\ reader[r].pc = "loaded"
  /\ cache' = [cache EXCEPT ![reader[r].of] = {reader[r].row}]
  /\ reader' = [reader EXCEPT ![r] = [pc |-> "idle"]]
  /\ UNCHANGED <<signUpVars, lateFill, writerVars>>

\* Mutant: an entry is set without a TTL.
CacheExpiresNever(a) == FALSE /\ UNCHANGED vars

CacheExpires(a) ==
  /\ cache[a] # {}
  /\ cache' = [cache EXCEPT ![a] = {}]
  /\ UNCHANGED <<signUpVars, reader, lateFill, writerVars>>

-----------------------------------------------------------------------------
(* updateProfile: the row, then the event (which no queue takes), then DEL. *)

\* An editor has been authenticated; its user may be gone since, and the phone
\* number may be taken.
EditorUpdate(e) ==
  /\ editor[e].pc = "idle"
  /\ \E a \in SignedUp :
       \/ /\ user[a] = "present"
          /\ row' = [row EXCEPT ![a].edits = @ + 1]
          /\ editor' = [editor EXCEPT ![e] = [pc |-> "updated", of |-> a]]
       \/ /\ UNCHANGED row
          /\ editor' = [editor EXCEPT ![e] = [pc |-> "refused", of |-> a]]
  /\ UNCHANGED <<signUpVars, cacheVars, verifier>>

Overtaken(a) ==
  \E r \in Reader : reader[r].pc = "loaded" /\ reader[r].of = a
                      /\ reader[r].row.edits # row[a].edits

\* Mutant: the entry is left to its TTL.
EditorInvalidateSkipped(e) ==
  /\ editor[e].pc = "updated"
  /\ editor' = [editor EXCEPT ![e].pc = "done"]
  /\ UNCHANGED <<signUpVars, cacheVars, row, verifier>>

EditorInvalidate(e) ==
  /\ editor[e].pc = "updated"
  /\ editor' = [editor EXCEPT ![e].pc = "done"]
  /\ cache' = [cache EXCEPT ![editor[e].of] = {}]
  /\ lateFill' = IF Overtaken(editor[e].of)
                 THEN lateFill \cup {editor[e].of} ELSE lateFill \ {editor[e].of}
  /\ UNCHANGED <<signUpVars, reader, row, verifier>>

EditorFails(e) ==
  /\ "crash" \in Faults
  /\ editor[e].pc = "updated"
  /\ editor' = [editor EXCEPT ![e].pc = "died"]
  /\ UNCHANGED <<signUpVars, cacheVars, row, verifier>>

\* A Better Auth update: the update hook announces user.email_verified for every
\* update of a verified user, and leaves the cache alone.
VerifierUpdate(v) ==
  /\ verifier[v].pc = "idle"
  /\ \E a \in SignedUp :
       /\ user[a] = "present"
       /\ row' = [row EXCEPT ![a].verified = TRUE]
       /\ verifier' = [verifier EXCEPT ![v] = [pc |-> "updated", of |-> a]]
  /\ UNCHANGED <<signUpVars, cacheVars, editor>>

VerifierAnnounce(v) ==
  /\ verifier[v].pc = "updated"
  /\ verifier' = [verifier EXCEPT ![v].pc = "done"]
  /\ UNCHANGED <<signUpVars, cacheVars, row, editor>>

-----------------------------------------------------------------------------

SignUpGoesOn(a) == SignUpAnnounce(a) \/ SignUpGuard(a) \/ SignUpLink(a)
CleanupNext(a) == CleanupRead(a) \/ CleanupDelete(a)
ReaderGoesOn(r) == ReaderLoad(r) \/ ReaderSet(r)

Next ==
  \/ \E a \in Attempt : \/ SignUpInsert(a) \/ SignUpGoesOn(a) \/ SignUpFails(a)
                        \/ CleanupNext(a) \/ CleanupThrows(a) \/ CacheExpires(a)
  \/ \E r \in Reader : ReaderGet(r) \/ ReaderGoesOn(r)
  \/ \E e \in Editor : EditorUpdate(e) \/ EditorInvalidate(e) \/ EditorFails(e)
  \/ \E v \in Verifier : VerifierUpdate(v) \/ VerifierAnnounce(v)

Spec == Init /\ [][Next]_vars

\* What has begun goes on, delayed jobs wake up and keys expire.
Fairness ==
  /\ \A a \in Attempt : /\ WF_vars(SignUpGoesOn(a))
                        /\ WF_vars(CleanupNext(a))
                        /\ WF_vars(CacheExpires(a))
  /\ \A r \in Reader : WF_vars(ReaderGoesOn(r))
  /\ \A e \in Editor : WF_vars(EditorInvalidate(e))
  /\ \A v \in Verifier : WF_vars(VerifierAnnounce(v))

FairSpec == Spec /\ Fairness
-----------------------------------------------------------------------------
(* Properties.                                                              *)

Rows == [edits : Nat, verified : BOOLEAN]

Writers == [pc : {"idle"}] \cup [pc : {"updated", "refused", "done", "died"}, of : Attempt]

\* Every variable keeps to its values, and only what is a row is ever cached.
TypeOK ==
  /\ user \in [Attempt -> {"absent", "present", "deleted"}]
  /\ linked \subseteq Attempt
  /\ row \in [Attempt -> Rows]
  /\ signUp \in [Attempt -> SignUpRunning \cup
                   {"idle", "refused", "unguarded", "failed", "done"}]
  /\ cleanup \in [Attempt -> {"none", "delayed", "deleting", "over", "failed"}]
  /\ overtaken \subseteq Attempt
  /\ cache \in [Attempt -> SUBSET Rows]
  /\ \A a \in Attempt : \A c, d \in cache[a] : c = d
  /\ reader \in [Reader -> [pc : {"idle"}] \cup [pc : {"missed"}, of : Attempt]
                           \cup [pc : {"loaded"}, of : Attempt, row : Rows]]
  /\ editor \in [Editor -> Writers]
  /\ verifier \in [Verifier -> Writers]
  /\ lateFill \subseteq Attempt

\* Whatever other attempts, failures and cleanups do, a user who has signed up
\* keeps the row and the account, unless the cleanup woke up while the sign-up
\* was still running.
SignedUpIsKept ==
  \A a \in SignedUp : (user[a] = "present" /\ a \in linked) \/ a \in overtaken

\* A sign-up that failed after its guard was set leaves the email free in the end.
OrphanIsRemoved ==
  \A a \in Attempt :
    signUp[a] = "failed" ~> user[a] # "present" \/ cleanup[a] = "failed"

Editing(a) == \E e \in Editor : editor[e].pc \in {"updated", "died"} /\ editor[e].of = a

\* Requests are not served a profile from before an edit that has been answered,
\* unless a fill that had read the row before the edit was overtaken by its DEL.
StaleOnlyAfterLateFill ==
  \A a \in Attempt : \A c \in cache[a] :
    c.edits # row[a].edits => Editing(a) \/ a \in lateFill

\* Once the writers are done, what a request is served is the row, whatever was
\* cached and however late: a verified user is not refused for ever.
CacheConverges ==
  <>[](\A a \in Attempt : user[a] = "present" => cache[a] \subseteq {row[a]})
=============================================================================
