------------------------- MODULE ProfileCapturesProofs -------------------------
(* The profiles that pods write and other pods read.  Go: a merge uses         *)
(* profiles of its own attempt's traffic, for any number of attempts,          *)
(* iterations and faults.  Julia: a stored trace is complete up to its push    *)
(* and what a pod replayed it does not compile again, for any pods, workloads, *)
(* pushes and faults.  The RESP clients that carry them: a command returns the *)
(* reply to it or fails, and a reader's SET takes effect in its own database   *)
(* or nowhere, for values of any length, every setup and every way to cut the  *)
(* stream.                                                                     *)
EXTENDS JuliaArtifacts, GoProfileCapture, RespClient, SequenceTheorems, WellFoundedInduction, TLAPS

-----------------------------------------------------------------------------
(* The captures of the Go server.                                              *)

\* A capture has no status before its handler returns and samples only while
\* it holds the lock.
Handlers ==
  \A c \in Captures :
    /\ request[c] \in {"idle", "sent"} => status[c] = "none" /\ sampled[c] = 0
    /\ request[c] \in {"sampling", "setting"} <=> holder = c
    /\ holder = c => status[c] = "none" /\ sampled[c] # 0
    /\ request[c] = "late" => status[c] = "502"
    /\ status[c] = "200" => sampled[c] # 0

\* A capture is asked for when its attempt and iteration come, and samples the
\* traffic of that attempt or of a later one.
Asked ==
  \A c \in Captures :
    /\ c[1] > attempt => request[c] = "idle"
    /\ c[1] = attempt /\ c[2] > iter => request[c] = "idle"
    /\ c = Own /\ controller = "capture" => request[c] = "idle"
    /\ c[1] = attempt => sampled[c] \in {0, attempt}

\* Once a capture of this attempt had the lock, whoever holds it now samples the
\* traffic of this attempt.
LockIsOurs ==
  \A c, d \in Captures :
    c[1] = attempt /\ sampled[c] # 0 /\ holder = d => sampled[d] = attempt

\* The profiles the attempt may merge.
Usable == {c \in Captures : sampled[c] = attempt \/ status[c] = "502"}

\* After a capture of this attempt was acknowledged, its key has a usable profile.
KeyIsOurs ==
  \A c \in Captures :
    c[1] = attempt /\ status[c] = "200" /\ stored[c[2]] # NoCapture
      => stored[c[2]] \in Usable

FilesAreOurs ==
  /\ controller = "fetch" => status[Own] = "200"
  /\ \A i \in 1..Iterations : i < iter \/ controller = "merged" => file[i] \in Usable

IInv ==
  /\ CaptureTypeOK /\ Handlers /\ Asked /\ LockIsOurs /\ KeyIsOurs /\ FilesAreOurs

-----------------------------------------------------------------------------
LEMMA TryLockStep == ASSUME IInv, NEW c \in Captures, TryLock(c) PROVE IInv'
<1> USE CaptureAssumption DEF IInv, Captures, serverVars, controllerVars
<1> Own \in Captures /\ Own[1] = attempt /\ Own[2] = iter
  BY DEF CaptureTypeOK, Own
<1>u. attempt' = attempt /\ Usable \subseteq Usable'
  BY DEF CaptureTypeOK, Handlers, Asked, Usable, TryLock
<1>1. CaptureTypeOK'
  BY SMTT(30) DEF CaptureTypeOK, TryLock, Own
<1>2. Handlers'
  BY DEF CaptureTypeOK, Handlers, Asked, TryLock, Own
<1>3. Asked'
  BY DEF CaptureTypeOK, Handlers, Asked, TryLock, Own
<1>4. LockIsOurs'
  BY DEF CaptureTypeOK, Handlers, Asked, LockIsOurs, TryLock, Own
<1>5. KeyIsOurs'
  BY DEF CaptureTypeOK, Handlers, Asked, LockIsOurs, KeyIsOurs, Usable,
       TryLock, Own
<1>f1. controller = "fetch" => status'[Own] = "200"
  BY DEF CaptureTypeOK, Handlers, FilesAreOurs, TryLock
<1>f2. UNCHANGED controllerVars /\ Own' = Own
  BY DEF Own, TryLock
<1>6. FilesAreOurs'
  BY <1>u, <1>f1, <1>f2 DEF FilesAreOurs
<1> QED BY <1>1, <1>2, <1>3, <1>4, <1>5, <1>6

LEMMA ConflictStep == ASSUME IInv, NEW c \in Captures, Conflict(c) PROVE IInv'
<1> USE CaptureAssumption DEF IInv, Captures, serverVars, controllerVars
<1> Own \in Captures /\ Own[1] = attempt /\ Own[2] = iter
  BY DEF CaptureTypeOK, Own
<1>u. attempt' = attempt /\ Usable \subseteq Usable'
  BY DEF CaptureTypeOK, Handlers, Asked, Usable, Conflict
<1>1. CaptureTypeOK'
  BY DEF CaptureTypeOK, Conflict, Own
<1>2. Handlers'
  BY DEF CaptureTypeOK, Handlers, Asked, Conflict, Own
<1>3. Asked'
  BY DEF CaptureTypeOK, Handlers, Asked, Conflict, Own
<1>4. LockIsOurs'
  BY DEF CaptureTypeOK, Handlers, Asked, LockIsOurs, Conflict, Own
<1>5. KeyIsOurs'
  BY DEF CaptureTypeOK, Handlers, Asked, LockIsOurs, KeyIsOurs, Usable,
       Conflict, Own
<1>f1. controller = "fetch" => status'[Own] = "200"
  BY DEF CaptureTypeOK, Handlers, FilesAreOurs, Conflict
<1>f2. UNCHANGED controllerVars /\ Own' = Own
  BY DEF Own, Conflict
<1>6. FilesAreOurs'
  BY <1>u, <1>f1, <1>f2 DEF FilesAreOurs
<1> QED BY <1>1, <1>2, <1>3, <1>4, <1>5, <1>6

LEMMA SampledStep == ASSUME IInv, NEW c \in Captures, Sampled(c) PROVE IInv'
<1> USE CaptureAssumption DEF IInv, Captures, serverVars, controllerVars
<1> Own \in Captures /\ Own[1] = attempt /\ Own[2] = iter
  BY DEF CaptureTypeOK, Own
<1>1. CaptureTypeOK'
  BY DEF CaptureTypeOK, Sampled, Own
<1>2. Handlers'
  BY DEF CaptureTypeOK, Handlers, Asked, Sampled, Own
<1>3. Asked'
  BY DEF CaptureTypeOK, Handlers, Asked, Sampled, Own
<1>4. LockIsOurs'
  BY DEF CaptureTypeOK, Handlers, Asked, LockIsOurs, Sampled, Own
<1>5. KeyIsOurs'
  BY DEF CaptureTypeOK, Handlers, Asked, LockIsOurs, KeyIsOurs, Usable,
       Sampled, Own
<1>6. FilesAreOurs'
  BY DEF CaptureTypeOK, Handlers, Asked, KeyIsOurs, FilesAreOurs, Usable,
       Sampled, Own
<1> QED BY <1>1, <1>2, <1>3, <1>4, <1>5, <1>6

\* A handler that returns, whether its SET was answered or not.
LEMMA ReturnStep ==
  ASSUME IInv, NEW c \in Captures, holder = c,
         NEW next \in {"over", "late"}, NEW code \in {"200", "502"}, Return(c, next, code),
         next = "late" => code = "502",
         StoreProfile(c) \/ (code = "502" /\ UNCHANGED stored),
         UNCHANGED controllerVars, disturbed' \in 0..CaptureFaults
  PROVE  IInv'
<1> USE CaptureAssumption DEF IInv, Captures, controllerVars
<1> DEFINE answer == [status EXCEPT ![c] = code]
<1>a. /\ request' = [request EXCEPT ![c] = next] /\ status' = answer /\ holder' = NoCapture
      /\ UNCHANGED <<gone, sampled, controller, attempt, iter, file>>
  BY DEF Return
<1>b. status[c] = "none" /\ sampled[c] # 0 /\ request[c] \in {"sampling", "setting"}
  BY DEF Handlers
<1>u. Usable \subseteq Usable'
  BY <1>a, <1>b DEF CaptureTypeOK, Usable
<1>1. CaptureTypeOK'
  <2>1. stored' \in [1..Iterations -> Captures \union {NoCapture}]
    BY DEF CaptureTypeOK, StoreProfile
  <2> QED BY <1>a, <2>1 DEF CaptureTypeOK
<1>2. Handlers'
  <2> SUFFICES ASSUME NEW d \in Captures
               PROVE  /\ request'[d] \in {"idle", "sent"} => status'[d] = "none" /\ sampled[d] = 0
                      /\ request'[d] \notin {"sampling", "setting"} /\ d # NoCapture
                      /\ request'[d] = "late" => status'[d] = "502"
                      /\ status'[d] = "200" => sampled[d] # 0
    BY <1>a, Zenon DEF Handlers
  <2>1. CASE d = c
    <3>1. request'[c] = next /\ status'[c] = code
      BY <1>a DEF CaptureTypeOK
    <3> QED BY <3>1, <2>1, <1>b
  <2>2. CASE d # c
    <3>1. request'[d] = request[d] /\ status'[d] = status[d]
      BY <2>2, <1>a DEF CaptureTypeOK
    <3> QED BY <3>1, <2>2 DEF Handlers
  <2> QED BY <2>1, <2>2
<1>3. Asked'
  BY <1>a, <1>b DEF CaptureTypeOK, Asked, Own
<1>4. LockIsOurs'
  BY <1>a DEF LockIsOurs
<1>5. KeyIsOurs'
  <2> SUFFICES ASSUME NEW d \in Captures, d[1] = attempt, status'[d] = "200",
                      stored'[d[2]] # NoCapture
               PROVE  stored'[d[2]] \in Usable'
    BY <1>a DEF KeyIsOurs
  <2>1. CASE stored'[d[2]] = c
    <3>1. CASE code = "502"
      BY <2>1, <3>1, <1>a DEF CaptureTypeOK, Usable
    <3>2. CASE d = c
      <4>1. sampled[c] = attempt
        BY <3>2, <1>b DEF Handlers, Asked
      <4> QED BY <4>1, <2>1, <1>a DEF Usable
    <3>3. CASE d # c
      <4>1. status[d] = "200" /\ sampled[d] # 0
        BY <3>3, <1>a DEF CaptureTypeOK, Handlers
      <4> QED BY <4>1, <2>1, <1>a DEF CaptureTypeOK, Usable, LockIsOurs
    <3> QED BY <3>2, <3>3
  <2>2. CASE stored'[d[2]] # c
    <3>1. stored'[d[2]] = stored[d[2]]
      BY <2>2 DEF CaptureTypeOK, StoreProfile
    <3>2. d # c
      BY <2>2, <1>a DEF CaptureTypeOK, StoreProfile
    <3>3. status[d] = "200"
      BY <3>2, <1>a DEF CaptureTypeOK
    <3> QED BY <3>1, <3>3, <1>u DEF KeyIsOurs
  <2> QED BY <2>1, <2>2
<1>6. FilesAreOurs'
  <2>1. controller = "fetch" => status'[Own] = "200"
    BY <1>a, <1>b DEF CaptureTypeOK, FilesAreOurs, Own
  <2> QED BY <2>1, <1>a, <1>u DEF FilesAreOurs, Own
<1> QED BY <1>1, <1>2, <1>3, <1>4, <1>5, <1>6

LEMMA SetProfileStep ==
  ASSUME IInv, NEW c \in Captures, SetProfile(c)
  PROVE  IInv'
<1>1. holder = c /\ UNCHANGED controllerVars /\ disturbed' \in 0..CaptureFaults
  BY CaptureAssumption DEF IInv, CaptureTypeOK, Handlers, SetProfile, Disturb
<1>2. CASE Return(c, "over", "200") /\ StoreProfile(c)
  BY <1>1, <1>2, ReturnStep
<1>3. CASE Return(c, "over", "502") /\ (StoreProfile(c) \/ UNCHANGED stored)
  BY <1>1, <1>3, ReturnStep
<1>4. CASE Return(c, "late", "502") /\ UNCHANGED stored
  BY <1>1, <1>4, ReturnStep
<1> QED BY <1>2, <1>3, <1>4 DEF SetProfile

LEMMA SetLateStep == ASSUME IInv, NEW c \in Captures, SetLate(c) PROVE IInv'
<1> USE CaptureAssumption DEF IInv, Captures, serverVars, controllerVars
<1> Own \in Captures /\ Own[1] = attempt /\ Own[2] = iter
  BY DEF CaptureTypeOK, Own
<1>1. CaptureTypeOK'
  BY DEF CaptureTypeOK, SetLate, StoreProfile, Own
<1>2. Handlers'
  BY DEF CaptureTypeOK, Handlers, Asked, SetLate, StoreProfile, Own
<1>3. Asked'
  BY DEF CaptureTypeOK, Handlers, Asked, SetLate, StoreProfile, Own
<1>4. LockIsOurs'
  BY DEF CaptureTypeOK, Handlers, Asked, LockIsOurs, SetLate, StoreProfile, Own
<1>5. KeyIsOurs'
  BY DEF CaptureTypeOK, Handlers, Asked, LockIsOurs, KeyIsOurs, Usable,
       SetLate, StoreProfile, Own
<1>6. FilesAreOurs'
  BY DEF CaptureTypeOK, Handlers, Asked, KeyIsOurs, FilesAreOurs, Usable,
       SetLate, StoreProfile, Own
<1> QED BY <1>1, <1>2, <1>3, <1>4, <1>5, <1>6

LEMMA StartStep == ASSUME IInv, StartCapture PROVE IInv'
<1> USE CaptureAssumption DEF IInv, Captures, serverVars, controllerVars
<1> Own \in Captures /\ Own[1] = attempt /\ Own[2] = iter
  BY DEF CaptureTypeOK, Own
<1>1. CaptureTypeOK'
  BY DEF CaptureTypeOK, StartCapture, Own
<1>2. Handlers'
  BY DEF CaptureTypeOK, Handlers, Asked, StartCapture, Own
<1>3. Asked'
  BY DEF CaptureTypeOK, Handlers, Asked, StartCapture, Own
<1>4. LockIsOurs'
  BY DEF CaptureTypeOK, Handlers, Asked, LockIsOurs, StartCapture, Own
<1>5. KeyIsOurs'
  BY DEF CaptureTypeOK, Handlers, Asked, LockIsOurs, KeyIsOurs, Usable,
       StartCapture, Own
<1>6. FilesAreOurs'
  BY DEF CaptureTypeOK, Handlers, Asked, KeyIsOurs, FilesAreOurs, Usable,
       StartCapture, Own
<1> QED BY <1>1, <1>2, <1>3, <1>4, <1>5, <1>6

LEMMA WaitStep == ASSUME IInv, WaitCapture PROVE IInv'
<1> USE CaptureAssumption DEF IInv, Captures, serverVars, controllerVars
<1> Own \in Captures /\ Own[1] = attempt /\ Own[2] = iter
  BY DEF CaptureTypeOK, Own
<1>1. CaptureTypeOK'
  BY DEF CaptureTypeOK, WaitCapture, Own
<1>2. Handlers'
  BY DEF CaptureTypeOK, Handlers, Asked, WaitCapture, Own
<1>3. Asked'
  BY DEF CaptureTypeOK, Handlers, Asked, WaitCapture, Own
<1>4. LockIsOurs'
  BY DEF CaptureTypeOK, Handlers, Asked, LockIsOurs, WaitCapture, Own
<1>5. KeyIsOurs'
  BY DEF CaptureTypeOK, Handlers, Asked, LockIsOurs, KeyIsOurs, Usable,
       WaitCapture, Own
<1>6. FilesAreOurs'
  BY DEF CaptureTypeOK, Handlers, Asked, KeyIsOurs, FilesAreOurs, Usable,
       WaitCapture, Own
<1> QED BY <1>1, <1>2, <1>3, <1>4, <1>5, <1>6

LEMMA FetchFileStep == ASSUME IInv, FetchFile PROVE IInv'
<1> USE CaptureAssumption DEF IInv, Captures, serverVars, controllerVars
<1> Own \in Captures /\ Own[1] = attempt /\ Own[2] = iter
  BY DEF CaptureTypeOK, Own
<1>1. CaptureTypeOK'
  BY DEF CaptureTypeOK, FetchFile, Own
<1>2. Handlers'
  BY DEF CaptureTypeOK, Handlers, Asked, FetchFile, Own
<1>3. Asked'
  BY DEF CaptureTypeOK, Handlers, Asked, FetchFile, Own
<1>4. LockIsOurs'
  BY DEF CaptureTypeOK, Handlers, Asked, LockIsOurs, FetchFile, Own
<1>5. KeyIsOurs'
  BY DEF CaptureTypeOK, Handlers, Asked, LockIsOurs, KeyIsOurs, Usable,
       FetchFile, Own
<1>6. FilesAreOurs'
  BY DEF CaptureTypeOK, Handlers, Asked, KeyIsOurs, FilesAreOurs, Usable,
       FetchFile, Own
<1> QED BY <1>1, <1>2, <1>3, <1>4, <1>5, <1>6

LEMMA FetchNothingStep == ASSUME IInv, FetchNothing PROVE IInv'
<1> USE CaptureAssumption DEF IInv, Captures, serverVars, controllerVars
<1> Own \in Captures /\ Own[1] = attempt /\ Own[2] = iter
  BY DEF CaptureTypeOK, Own
<1>1. CaptureTypeOK'
  BY DEF CaptureTypeOK, FetchNothing, Disturb, Own
<1>2. Handlers'
  BY DEF CaptureTypeOK, Handlers, Asked, FetchNothing, Disturb, Own
<1>3. Asked'
  BY DEF CaptureTypeOK, Handlers, Asked, FetchNothing, Disturb, Own
<1>4. LockIsOurs'
  BY DEF CaptureTypeOK, Handlers, Asked, LockIsOurs, FetchNothing, Disturb, Own
<1>5. KeyIsOurs'
  BY DEF CaptureTypeOK, Handlers, Asked, LockIsOurs, KeyIsOurs, Usable,
       FetchNothing, Disturb, Own
<1>6. FilesAreOurs'
  BY DEF CaptureTypeOK, Handlers, Asked, KeyIsOurs, FilesAreOurs, Usable,
       FetchNothing, Disturb, Own
<1> QED BY <1>1, <1>2, <1>3, <1>4, <1>5, <1>6

LEMMA KillStep == ASSUME IInv, Kill PROVE IInv'
<1> USE CaptureAssumption DEF IInv, Captures, serverVars, controllerVars
<1> Own \in Captures /\ Own[1] = attempt /\ Own[2] = iter
  BY DEF CaptureTypeOK, Own
<1> gone' \in [Captures -> BOOLEAN]
  <2>1. CASE gone' = gone
    BY <2>1 DEF CaptureTypeOK
  <2>2. CASE gone' = [gone EXCEPT ![Own] = TRUE]
    BY <2>2 DEF CaptureTypeOK
  <2> QED BY <2>1, <2>2 DEF Kill
<1>1. CaptureTypeOK'
  BY DEF CaptureTypeOK, Kill, Disturb, Own
<1>2. Handlers'
  BY DEF CaptureTypeOK, Handlers, Asked, Kill, Disturb, Own
<1>3. Asked'
  BY DEF CaptureTypeOK, Handlers, Asked, Kill, Disturb, Own
<1>4. LockIsOurs'
  BY DEF CaptureTypeOK, Handlers, Asked, LockIsOurs, Kill, Disturb, Own
<1>5. KeyIsOurs'
  BY DEF CaptureTypeOK, Handlers, Asked, LockIsOurs, KeyIsOurs, Usable, Kill,
       Disturb, Own
<1>6. FilesAreOurs'
  BY DEF CaptureTypeOK, Handlers, Asked, KeyIsOurs, FilesAreOurs, Usable,
       Kill, Disturb, Own
<1> QED BY <1>1, <1>2, <1>3, <1>4, <1>5, <1>6

LEMMA RerunStep == ASSUME IInv, Rerun PROVE IInv'
<1> USE CaptureAssumption DEF IInv, Captures, serverVars, controllerVars
<1> Own \in Captures /\ Own[1] = attempt /\ Own[2] = iter
  BY DEF CaptureTypeOK, Own
<1>1. CaptureTypeOK'
  BY DEF CaptureTypeOK, Rerun, Own
<1>2. Handlers'
  BY DEF CaptureTypeOK, Handlers, Asked, Rerun, Own
<1>3. Asked'
  BY DEF CaptureTypeOK, Handlers, Asked, Rerun, Own
<1>4. LockIsOurs'
  BY DEF CaptureTypeOK, Handlers, Asked, LockIsOurs, Rerun, Own
<1>5. KeyIsOurs'
  BY DEF CaptureTypeOK, Handlers, Asked, LockIsOurs, KeyIsOurs, Usable, Rerun,
       Own
<1>6. FilesAreOurs'
  BY DEF CaptureTypeOK, Handlers, Asked, KeyIsOurs, FilesAreOurs, Usable,
       Rerun, Own
<1> QED BY <1>1, <1>2, <1>3, <1>4, <1>5, <1>6

LEMMA CrashStep == ASSUME IInv, ServerCrash PROVE IInv'
<1>1. UNCHANGED <<stored, controllerVars>> /\ disturbed' \in 0..CaptureFaults
  BY CaptureAssumption DEF IInv, CaptureTypeOK, ServerCrash, Disturb
<1>2. CASE UNCHANGED <<request, status, gone, sampled, holder>>
  BY <1>1, <1>2 DEF IInv, CaptureTypeOK, Handlers, Asked, LockIsOurs, KeyIsOurs,
       FilesAreOurs,
                    Usable, Own, controllerVars
<1>3. CASE holder # NoCapture /\ \E next \in {"over", "late"} : Return(holder, next, "502")
  <2>1. holder \in Captures
    BY <1>3 DEF IInv, CaptureTypeOK
  <2> QED BY <1>1, <1>3, <2>1, ReturnStep
<1> QED BY <1>2, <1>3 DEF ServerCrash

LEMMA StoreRestartStep == ASSUME IInv, StoreRestart PROVE IInv'
<1> USE CaptureAssumption DEF IInv, Captures, serverVars, controllerVars
<1> Own \in Captures /\ Own[1] = attempt /\ Own[2] = iter
  BY DEF CaptureTypeOK, Own
<1>1. CaptureTypeOK'
  BY DEF CaptureTypeOK, StoreRestart, Disturb, Own
<1>2. Handlers'
  BY DEF CaptureTypeOK, Handlers, Asked, StoreRestart, Disturb, Own
<1>3. Asked'
  BY DEF CaptureTypeOK, Handlers, Asked, StoreRestart, Disturb, Own
<1>4. LockIsOurs'
  BY DEF CaptureTypeOK, Handlers, Asked, LockIsOurs, StoreRestart, Disturb, Own
<1>5. KeyIsOurs'
  BY DEF CaptureTypeOK, Handlers, Asked, LockIsOurs, KeyIsOurs, Usable,
       StoreRestart, Disturb, Own
<1>6. FilesAreOurs'
  BY DEF CaptureTypeOK, Handlers, Asked, KeyIsOurs, FilesAreOurs, Usable,
       StoreRestart, Disturb, Own
<1> QED BY <1>1, <1>2, <1>3, <1>4, <1>5, <1>6

-----------------------------------------------------------------------------
LEMMA IInvInit == ASSUME CaptureInit PROVE IInv
<1> USE CaptureAssumption DEF CaptureInit, Captures
<1>1. CaptureTypeOK
  BY DEF CaptureTypeOK
<1>2. Handlers /\ LockIsOurs /\ KeyIsOurs
  BY DEF Handlers, LockIsOurs, KeyIsOurs
<1>3. Asked /\ FilesAreOurs
  BY DEF Asked, FilesAreOurs, Own
<1> QED BY <1>1, <1>2, <1>3 DEF IInv

LEMMA IInvStep == ASSUME IInv, [CaptureNext]_captureVars PROVE IInv'
<1>1. CASE CaptureNext
  BY <1>1, TryLockStep, ConflictStep, SampledStep, SetProfileStep, SetLateStep, StartStep,
     WaitStep, FetchFileStep, FetchNothingStep, KillStep, RerunStep, CrashStep,
     StoreRestartStep DEF CaptureNext
<1>2. CASE UNCHANGED captureVars
  BY <1>2 DEF captureVars, serverVars, controllerVars, IInv, CaptureTypeOK, Handlers,
       Asked,
              LockIsOurs, KeyIsOurs, FilesAreOurs, Usable, Own
<1> QED BY <1>1, <1>2

\* The captures keep their types (CaptureTypeOK).
THEOREM CaptureTypeCorrect == CaptureSpec => []CaptureTypeOK
<1>1. IInv => CaptureTypeOK
  BY DEF IInv
<1> QED BY <1>1, IInvInit, IInvStep, PTL DEF CaptureSpec

\* Whoever interrupts the controller, the server or Redis, and however often, a
\* merge uses no profile of an earlier attempt's traffic whose SET was answered
\* in time (handleProfileCapture, capture_profile).
THEOREM OwnTrafficMerged == CaptureSpec => []MergesOwnTraffic
<1>1. IInv => MergesOwnTraffic
  BY DEF IInv, FilesAreOurs, Usable, MergesOwnTraffic
<1> QED BY <1>1, IInvInit, IInvStep, PTL DEF CaptureSpec

-----------------------------------------------------------------------------
(* The traces of the Julia pods.                                               *)

\* What an artifact holds: every portable method its pod had compiled when the
\* push was asked for, no other kind of method, and none twice.
Complete(artifact) ==
  /\ artifact.covers \ Unportable \subseteq ToSet(artifact.lines)
  /\ ToSet(artifact.lines) \intersect Unportable = {}
  /\ IsInjective(artifact.lines)

PodRecords ==
  [phase : Phases, compiled : SUBSET Methods, lines : Seq(Methods),
   writing : Methods \union {NoMethod}, file : Artifacts \union {Missing}, todo : Lists]

PushRecords == [phase : PushPhases, pod : Pods, artifact : Artifacts \union {Missing}]

\* The trace of a pod that populates names each method the pod has compiled
\* once, but for the one in writing.
Traced(q) ==
  /\ q.file = Missing
  /\ q.compiled = ToSet(q.lines) \union ({q.writing} \ {NoMethod})
  /\ q.writing \notin ToSet(q.lines) /\ IsInjective(q.lines)

\* A pod compiles nothing before it serves, and no request has a method left
\* that is compiled.  What a pod pulled is complete, and compiled once it serves.
PodFits(mode, q) ==
  /\ q.phase # "serving" =>
       q.compiled = {} /\ q.lines = <<>> /\ q.writing = NoMethod /\ q.todo = <<>>
  /\ mode = "populate" => Traced(q)
  /\ mode = "redis" => q.writing = NoMethod
  /\ ToSet(q.todo) \intersect q.compiled = {}
  /\ q.file # Missing =>
       Complete(q.file) /\ (q.phase = "serving" => Replayed(q.file) \subseteq q.compiled)

\* Until its process reads the trace, the pod of a push serves and the trace
\* names all the push has to cover; what was read is complete.
PushFits(r) ==
  /\ r.phase = "spawned" =>
       /\ Mode[r.pod] = "populate" /\ pod[r.pod].phase = "serving"
       /\ r.artifact \in Artifacts /\ r.artifact.covers \subseteq ToSet(pod[r.pod].lines)
  /\ r.phase \in {"read", "late"} => r.artifact \in Artifacts /\ Complete(r.artifact)

PodsFit == \A p \in Pods : PodFits(Mode[p], pod[p])
PushesFit == \A k \in Pushes : PushFits(push[k])
TraceFits == trace # Missing => Complete(trace)

TraceInv == TraceTypeOK /\ PodsFit /\ PushesFit /\ TraceFits

-----------------------------------------------------------------------------
LEMMA SequencesAreLists == Seq(Methods) \subseteq Lists
<1> SUFFICES ASSUME NEW s \in Seq(Methods) PROVE s \in Lists
  OBVIOUS
<1>1. s \in [1..Len(s) -> Methods] /\ 1..Len(s) \subseteq Nat
  OBVIOUS
<1> QED BY <1>1 DEF Lists

LEMMA ListRange ==
  ASSUME NEW list \in Lists
  PROVE  ToSet(list) \subseteq Methods /\ \A i \in DOMAIN list : list[i] \in ToSet(list)
<1>1. PICK kept \in SUBSET Nat : list \in [kept -> Methods]
  BY DEF Lists
<1> QED BY <1>1 DEF ToSet

\* What is left of a list without some methods.
LEMMA WithoutFacts ==
  ASSUME NEW list \in Lists, NEW methods
  PROVE  /\ Without(list, methods) \in Lists
         /\ ToSet(Without(list, methods)) = ToSet(list) \ methods
         /\ IsInjective(list) => IsInjective(Without(list, methods))
<1>1. PICK kept \in SUBSET Nat : list \in [kept -> Methods]
  BY DEF Lists
<1> DEFINE left == {i \in kept : list[i] \notin methods}
<1>2. Without(list, methods) = [i \in left |-> list[i]]
  BY <1>1 DEF Without, Restrict
<1>3. left \in SUBSET Nat /\ [i \in left |-> list[i]] \in [left -> Methods]
  BY <1>1
<1>4. Without(list, methods) \in Lists
  BY <1>2, <1>3 DEF Lists
<1>5. ToSet(Without(list, methods)) = ToSet(list) \ methods
  BY <1>1, <1>2 DEF ToSet
<1>6. ASSUME IsInjective(list) PROVE IsInjective(Without(list, methods))
  BY <1>1, <1>2, <1>6 DEF IsInjective
<1> QED BY <1>4, <1>5, <1>6

LEMMA EmptyList ==
  /\ <<>> \in Seq(Methods) /\ <<>> \in Lists /\ ToSet(<<>>) = {} /\ IsInjective(<<>>)
<1>1. <<>> \in Seq(Methods) /\ ToSet(<<>>) = {} /\ IsInjective(<<>>)
  BY DEF ToSet, IsInjective
<1> QED BY <1>1, SequencesAreLists

\* A trace with one more statement.
LEMMA AppendFacts ==
  ASSUME NEW lines \in Seq(Methods), NEW m \in Methods
  PROVE  /\ Append(lines, m) \in Seq(Methods)
         /\ ToSet(Append(lines, m)) = ToSet(lines) \union {m}
         /\ m \notin ToSet(lines) /\ IsInjective(lines) => IsInjective(Append(lines, m))
<1>1. /\ Append(lines, m) \in Seq(Methods) /\ Len(Append(lines, m)) = Len(lines) + 1
      /\ \A i \in 1..Len(lines) : Append(lines, m)[i] = lines[i]
      /\ Append(lines, m)[Len(lines) + 1] = m
  OBVIOUS
<1>2. /\ DOMAIN Append(lines, m) = 1..(Len(lines) + 1) /\ DOMAIN lines = 1..Len(lines)
      /\ Len(lines) \in Nat
  BY <1>1
<1>3. ToSet(Append(lines, m)) = ToSet(lines) \union {m}
  <2>1. \A x \in ToSet(Append(lines, m)) : x \in ToSet(lines) \union {m}
    BY <1>1, <1>2 DEF ToSet
  <2>2. \A x \in ToSet(lines) : x \in ToSet(Append(lines, m))
    BY <1>1, <1>2 DEF ToSet
  <2>3. m \in ToSet(Append(lines, m))
    BY <1>1, <1>2 DEF ToSet
  <2> QED BY <2>1, <2>2, <2>3
<1>4. ASSUME m \notin ToSet(lines), IsInjective(lines)
      PROVE  IsInjective(Append(lines, m))
  BY <1>1, <1>2, <1>4 DEF ToSet, IsInjective
<1> QED BY <1>1, <1>3, <1>4

\* What a replay compiles is named in the artifact, and is all of it when no
\* statement fails.
LEMMA ReplayedFacts ==
  ASSUME NEW artifact
  PROVE  /\ artifact = Missing => Replayed(artifact) = {}
         /\ artifact # Missing => Replayed(artifact) \subseteq ToSet(artifact.lines)
         /\ artifact # Missing /\ ToSet(artifact.lines) \intersect Unreplayable = {}
              => Replayed(artifact) = ToSet(artifact.lines)
BY DEF Replayed, ToSet

\* What the filter makes of a trace that has what a push covers is complete.
LEMMA FilteredIsComplete ==
  ASSUME NEW lines \in Seq(Methods), IsInjective(lines),
         NEW covers \in SUBSET Methods, covers \subseteq ToSet(lines), NEW torn \in BOOLEAN,
         NEW artifact, artifact = [lines |-> Portable(lines), torn |-> torn, covers |-> covers]
  PROVE  artifact \in Artifacts /\ Complete(artifact)
<1>1. lines \in Lists
  BY SequencesAreLists
<1>2. /\ Portable(lines) \in Lists /\ ToSet(Portable(lines)) = ToSet(lines) \ Unportable
      /\ IsInjective(Portable(lines))
  BY <1>1, WithoutFacts DEF Portable
<1>3. artifact \in Artifacts
  BY <1>2 DEF Artifacts
<1>4. Complete(artifact)
  BY <1>2 DEF Complete
<1> QED BY <1>3, <1>4

LEMMA NewPodFits ==
  ASSUME NEW phase \in {"new", "gone"}, NEW p \in Pods
  PROVE  NewPod(phase) \in PodRecords /\ PodFits(Mode[p], NewPod(phase))
<1>1. NewPod(phase) \in PodRecords
  BY EmptyList DEF NewPod, PodRecords, Phases
<1>2. PodFits(Mode[p], NewPod(phase))
  BY EmptyList DEF NewPod, PodFits, Traced
<1> QED BY <1>1, <1>2

-----------------------------------------------------------------------------
\* A step that changes one pod, and takes nothing from what a push waits for.
LEMMA OnePod ==
  ASSUME TraceInv, NEW p \in Pods, NEW q \in PodRecords, PodFits(Mode[p], q),
         pod' = [pod EXCEPT ![p] = q], UNCHANGED <<push, trace>>,
         failures' \in 0..TraceFaults,
         pod[p].phase = "serving" =>
           q.phase = "serving" /\ ToSet(pod[p].lines) \subseteq ToSet(q.lines)
  PROVE  TraceInv'
<1> USE DEF TraceInv
<1>1. pod \in [Pods -> PodRecords] /\ push \in [Pushes -> PushRecords]
  BY DEF TraceTypeOK, PodRecords, PushRecords
<1>2. pod'[p] = q /\ \A x \in Pods : x # p => pod'[x] = pod[x]
  BY <1>1
<1>3. TraceTypeOK'
  <2>1. pod' \in [Pods -> PodRecords]
    BY <1>1
  <2> QED BY <2>1, Zenon DEF TraceTypeOK, PodRecords
<1>4. PodsFit'
  <2> SUFFICES ASSUME NEW x \in Pods PROVE PodFits(Mode[x], pod'[x])
    BY DEF PodsFit
  <2> QED BY <1>2 DEF PodsFit
<1>5. PushesFit'
  <2> SUFFICES ASSUME NEW k \in Pushes PROVE PushFits(push[k])'
    BY DEF PushesFit
  <2>1. PushFits(push[k]) /\ push'[k] = push[k] /\ push[k].pod \in Pods
    BY <1>1 DEF PushesFit, PushRecords
  <2>2. CASE push[k].pod = p
    BY <2>1, <2>2, <1>2 DEF PushFits
  <2>3. CASE push[k].pod # p
    BY <2>1, <2>3, <1>2 DEF PushFits
  <2> QED BY <2>2, <2>3
<1>6. TraceFits'
  BY DEF TraceFits
<1> QED BY <1>3, <1>4, <1>5, <1>6

\* A step that changes pushes and the stored trace.
LEMMA OnlyPushes ==
  ASSUME TraceInv, UNCHANGED pod, push' \in [Pushes -> PushRecords],
         \A k \in Pushes : PushFits(push'[k]),
         trace' = Missing \/ (trace' \in Artifacts /\ Complete(trace')) \/ trace' = trace,
         failures' \in 0..TraceFaults
  PROVE  TraceInv'
<1> USE DEF TraceInv
<1>1. TraceTypeOK'
  BY Zenon DEF TraceTypeOK, PushRecords
<1>2. PodsFit'
  BY DEF PodsFit
<1>3. PushesFit'
  BY DEF PushesFit, PushFits
<1>4. TraceFits'
  BY DEF TraceFits
<1> QED BY <1>1, <1>2, <1>3, <1>4

LEMMA FailsCounts == ASSUME TraceTypeOK, Fails PROVE failures' \in 0..TraceFaults
BY TraceAssumption DEF TraceTypeOK, Fails

-----------------------------------------------------------------------------
LEMMA PullStep == ASSUME TraceInv, NEW p \in Pods, Pull(p) PROVE TraceInv'
<1>1. pod \in [Pods -> PodRecords] /\ pod[p] \in PodRecords /\ PodFits(Mode[p], pod[p])
  BY DEF TraceInv, TraceTypeOK, PodRecords, PodsFit
<1>2. Mode[p] = "redis" /\ pod[p].phase = "new" /\ UNCHANGED <<push, trace>>
  BY DEF Pull
<1>3. CASE pod' = [pod EXCEPT ![p].phase = "loading", ![p].file = trace] /\ UNCHANGED failures
  <2> DEFINE q == [pod[p] EXCEPT !.phase = "loading", !.file = trace]
  <2>1. pod' = [pod EXCEPT ![p] = q]
    BY <1>1, <1>3
  <2>2. q \in PodRecords /\ failures' \in 0..TraceFaults
    BY <1>1, <1>3 DEF TraceInv, TraceTypeOK, PodRecords, Phases
  <2>3. PodFits(Mode[p], q)
    BY <1>1, <1>2 DEF TraceInv, TraceFits, PodFits, PodRecords
  <2> HIDE DEF q
  <2> QED BY <1>2, <2>1, <2>2, <2>3, OnePod
<1>4. CASE pod' = [pod EXCEPT ![p].phase = "loading"] /\ Fails
  <2> DEFINE q == [pod[p] EXCEPT !.phase = "loading"]
  <2>1. pod' = [pod EXCEPT ![p] = q]
    BY <1>1, <1>4
  <2>2. q \in PodRecords /\ failures' \in 0..TraceFaults
    BY <1>1, <1>4, FailsCounts DEF TraceInv, PodRecords, Phases
  <2>3. PodFits(Mode[p], q)
    BY <1>1, <1>2 DEF PodFits, PodRecords
  <2> HIDE DEF q
  <2> QED BY <1>2, <2>1, <2>2, <2>3, OnePod
<1> QED BY <1>3, <1>4 DEF Pull

LEMMA SkipPullStep == ASSUME TraceInv, NEW p \in Pods, SkipPull(p) PROVE TraceInv'
<1> DEFINE q == [pod[p] EXCEPT !.phase = "loading"]
<1>1. pod \in [Pods -> PodRecords] /\ pod[p] \in PodRecords /\ PodFits(Mode[p], pod[p])
  BY DEF TraceInv, TraceTypeOK, PodRecords, PodsFit
<1>2. /\ Mode[p] = "populate" /\ pod[p].phase = "new"
      /\ pod' = [pod EXCEPT ![p] = q] /\ UNCHANGED <<push, trace, failures>>
  BY <1>1 DEF SkipPull
<1>3. q \in PodRecords /\ failures' \in 0..TraceFaults
  BY <1>1, <1>2 DEF TraceInv, TraceTypeOK, PodRecords, Phases
<1>4. PodFits(Mode[p], q)
  BY <1>1, <1>2 DEF PodFits, PodRecords, Traced
<1> HIDE DEF q
<1> QED BY <1>2, <1>3, <1>4, OnePod

LEMMA LoadStep == ASSUME TraceInv, NEW p \in Pods, Load(p) PROVE TraceInv'
<1> DEFINE q == [pod[p] EXCEPT !.phase = "serving", !.compiled = Replayed(pod[p].file)]
<1>1. pod \in [Pods -> PodRecords] /\ pod[p] \in PodRecords /\ PodFits(Mode[p], pod[p])
  BY DEF TraceInv, TraceTypeOK, PodRecords, PodsFit
<1>2. /\ pod[p].phase = "loading"
      /\ pod' = [pod EXCEPT ![p] = q] /\ UNCHANGED <<push, trace, failures>>
  BY <1>1 DEF Load
<1>3. Replayed(pod[p].file) \subseteq Methods
  <2>1. CASE pod[p].file = Missing
    BY <2>1, ReplayedFacts
  <2>2. CASE pod[p].file # Missing
    <3>1. pod[p].file \in Artifacts
      BY <1>1, <2>2 DEF PodRecords
    <3>2. ToSet(pod[p].file.lines) \subseteq Methods
      BY <3>1, ListRange DEF Artifacts
    <3>3. Replayed(pod[p].file) \subseteq ToSet(pod[p].file.lines)
      BY <2>2, ReplayedFacts
    <3> QED BY <3>2, <3>3
  <2> QED BY <2>1, <2>2
<1>4. q \in PodRecords /\ failures' \in 0..TraceFaults
  BY <1>1, <1>2, <1>3 DEF TraceInv, TraceTypeOK, PodRecords, Phases
<1>5. PodFits(Mode[p], q)
  <2>1. /\ pod[p].lines = <<>> /\ pod[p].writing = NoMethod /\ pod[p].todo = <<>>
        /\ pod[p].file # Missing => Complete(pod[p].file)
        /\ Mode[p] = "populate" => pod[p].file = Missing
    BY <1>1, <1>2 DEF PodFits, Traced
  <2>2. /\ q.phase = "serving" /\ q.lines = <<>> /\ q.writing = NoMethod /\ q.todo = <<>>
        /\ q.file = pod[p].file /\ q.compiled = Replayed(q.file)
    BY <1>1, <2>1 DEF PodRecords
  <2>3. NoMethod \notin ToSet(<<>>) /\ ToSet(<<>>) = {} /\ IsInjective(<<>>)
    BY EmptyList
  <2> HIDE DEF q
  <2>4. Mode[p] = "populate" => Traced(q)
    BY <2>1, <2>2, <2>3, ReplayedFacts DEF Traced
  <2> QED BY <2>1, <2>2, <2>3, <2>4 DEF PodFits
<1> HIDE DEF q
<1> QED BY <1>2, <1>4, <1>5, OnePod

LEMMA RunStep == ASSUME TraceInv, NEW p \in Pods, NEW w \in Workloads, Run(p, w) PROVE TraceInv'
<1> DEFINE left == Without(Needs[w], pod[p].compiled)
           q == [pod[p] EXCEPT !.todo = left]
<1>1. pod \in [Pods -> PodRecords] /\ pod[p] \in PodRecords /\ PodFits(Mode[p], pod[p])
  BY DEF TraceInv, TraceTypeOK, PodRecords, PodsFit
<1>2. /\ pod[p].phase = "serving"
      /\ pod' = [pod EXCEPT ![p] = q] /\ UNCHANGED <<push, trace, failures>>
  BY <1>1 DEF Run, Free
<1>3. left \in Lists /\ ToSet(left) = ToSet(Needs[w]) \ pod[p].compiled
  <2>1. Needs[w] \in Lists
    BY TraceAssumption, SequencesAreLists
  <2> QED BY <2>1, WithoutFacts
<1> HIDE DEF left
<1>4. q \in PodRecords /\ failures' \in 0..TraceFaults
  BY <1>1, <1>2, <1>3 DEF TraceInv, TraceTypeOK, PodRecords, Phases
<1>5. PodFits(Mode[p], q) /\ q.lines = pod[p].lines /\ q.phase = "serving"
  BY <1>1, <1>2, <1>3 DEF PodFits, PodRecords, Traced
<1> HIDE DEF q
<1> QED BY <1>2, <1>4, <1>5, OnePod

LEMMA CompileStep == ASSUME TraceInv, NEW p \in Pods, Compile(p) PROVE TraceInv'
<1>1. pod \in [Pods -> PodRecords] /\ pod[p] \in PodRecords /\ PodFits(Mode[p], pod[p])
  BY DEF TraceInv, TraceTypeOK, PodRecords, PodsFit
<1>2. PICK i \in DOMAIN pod[p].todo :
        pod' = [pod EXCEPT ![p].compiled = @ \union {pod[p].todo[i]},
                           ![p].todo = Without(@, {pod[p].todo[i]}),
                           ![p].writing = IF Mode[p] = "populate" THEN pod[p].todo[i]
                                          ELSE NoMethod]
  BY DEF Compile
<1> DEFINE m == pod[p].todo[i]
           left == Without(pod[p].todo, {m})
           writing == IF Mode[p] = "populate" THEN m ELSE NoMethod
           q == [pod[p] EXCEPT !.compiled = @ \union {m}, !.todo = left, !.writing = writing]
<1>3. /\ pod[p].phase = "serving" /\ pod[p].writing = NoMethod
      /\ pod' = [pod EXCEPT ![p] = q] /\ UNCHANGED <<push, trace, failures>>
  BY <1>1, <1>2 DEF Compile
<1>4. m \in Methods /\ m \in ToSet(pod[p].todo) /\ m # NoMethod
  <2>1. pod[p].todo \in Lists
    BY <1>1 DEF PodRecords
  <2> QED BY <2>1, ListRange, TraceAssumption
<1>5. left \in Lists /\ ToSet(left) = ToSet(pod[p].todo) \ {m}
  <2>1. pod[p].todo \in Lists
    BY <1>1 DEF PodRecords
  <2> QED BY <2>1, WithoutFacts
<1>6. m \notin pod[p].compiled
  BY <1>1, <1>4 DEF PodFits
<1> HIDE DEF m, left
<1>7. q \in PodRecords /\ failures' \in 0..TraceFaults
  BY <1>1, <1>3, <1>4, <1>5 DEF TraceInv, TraceTypeOK, PodRecords, Phases
<1>8. /\ q.phase = "serving" /\ q.compiled = pod[p].compiled \union {m} /\ q.todo = left
      /\ q.lines = pod[p].lines /\ q.file = pod[p].file /\ q.writing = writing
  BY <1>1, <1>3 DEF PodRecords
<1> HIDE DEF q
<1>9. PodFits(Mode[p], q)
  <2>1. Mode[p] = "populate" => Traced(q)
    BY <1>1, <1>3, <1>4, <1>6, <1>8 DEF PodFits, Traced
  <2>2. Mode[p] = "redis" => q.writing = NoMethod
    BY <1>8
  <2>3. ToSet(q.todo) \intersect q.compiled = {}
    BY <1>1, <1>5, <1>8 DEF PodFits
  <2>4. q.file # Missing => Complete(q.file) /\ Replayed(q.file) \subseteq q.compiled
    BY <1>1, <1>3, <1>8 DEF PodFits
  <2> QED BY <1>8, <2>1, <2>2, <2>3, <2>4 DEF PodFits
<1> QED BY <1>3, <1>7, <1>8, <1>9, OnePod

LEMMA FlushStep == ASSUME TraceInv, NEW p \in Pods, Flush(p) PROVE TraceInv'
<1> DEFINE m == pod[p].writing
           q == [pod[p] EXCEPT !.lines = Append(@, m), !.writing = NoMethod]
<1>1. pod \in [Pods -> PodRecords] /\ pod[p] \in PodRecords /\ PodFits(Mode[p], pod[p])
  BY DEF TraceInv, TraceTypeOK, PodRecords, PodsFit
<1>2. /\ pod[p].phase = "serving" /\ m # NoMethod /\ m \in Methods
      /\ pod' = [pod EXCEPT ![p] = q] /\ UNCHANGED <<push, trace, failures>>
  BY <1>1 DEF Flush, PodRecords
<1>3. Mode[p] = "populate" /\ Traced(pod[p]) /\ NoMethod \notin Methods
  BY <1>1, <1>2, TraceAssumption DEF PodFits
<1>4. /\ Append(pod[p].lines, m) \in Seq(Methods)
      /\ ToSet(Append(pod[p].lines, m)) = ToSet(pod[p].lines) \union {m}
      /\ IsInjective(Append(pod[p].lines, m))
  BY <1>1, <1>2, <1>3, AppendFacts DEF Traced, PodRecords
<1>5. q \in PodRecords /\ failures' \in 0..TraceFaults
  BY <1>1, <1>2, <1>4 DEF TraceInv, TraceTypeOK, PodRecords, Phases
<1>6. /\ q.phase = "serving" /\ q.compiled = pod[p].compiled /\ q.todo = pod[p].todo
      /\ q.lines = Append(pod[p].lines, m) /\ q.file = pod[p].file /\ q.writing = NoMethod
  BY <1>1, <1>2 DEF PodRecords
<1>7. NoMethod \notin ToSet(pod[p].lines)
  BY <1>1, <1>3 DEF PodRecords, ToSet
<1> HIDE DEF q
<1>8. PodFits(Mode[p], q)
  <2>1. Traced(q)
    BY <1>2, <1>3, <1>4, <1>6, <1>7 DEF Traced
  <2> QED BY <1>1, <1>3, <1>6, <2>1 DEF PodFits, Traced
<1> QED BY <1>2, <1>4, <1>5, <1>6, <1>8, OnePod

-----------------------------------------------------------------------------
LEMMA PushRequestStep ==
  ASSUME TraceInv, NEW k \in Pushes, NEW p \in Pods, PushRequest(k, p) PROVE TraceInv'
<1> DEFINE asked == [lines |-> <<>>, torn |-> FALSE, covers |-> pod[p].compiled]
           r == [push[k] EXCEPT !.pod = p, !.phase = "spawned", !.artifact = asked]
<1>1. /\ pod \in [Pods -> PodRecords] /\ pod[p] \in PodRecords /\ PodFits(Mode[p], pod[p])
      /\ push \in [Pushes -> PushRecords] /\ push[k] \in PushRecords
  BY DEF TraceInv, TraceTypeOK, PodRecords, PodsFit, PushRecords
<1>2. /\ pod[p].phase = "serving" /\ Mode[p] = "populate" /\ pod[p].writing = NoMethod
      /\ push' = [push EXCEPT ![k] = r] /\ UNCHANGED <<pod, trace, failures>>
  BY <1>1 DEF PushRequest, Free
<1>3. asked \in Artifacts
  BY <1>1, EmptyList DEF Artifacts, PodRecords
<1>4. pod[p].compiled \subseteq ToSet(pod[p].lines)
  BY <1>1, <1>2 DEF PodFits, Traced
<1>5. r \in PushRecords /\ r.phase = "spawned" /\ r.pod = p /\ r.artifact.covers = pod[p].compiled
      /\ r.artifact \in Artifacts
  BY <1>1, <1>3 DEF PushRecords, PushPhases
<1> HIDE DEF r, asked
<1>6. PushFits(r)
  BY <1>2, <1>4, <1>5 DEF PushFits
<1>7. push' \in [Pushes -> PushRecords] /\ \A j \in Pushes : PushFits(push'[j])
  BY <1>1, <1>2, <1>5, <1>6 DEF TraceInv, PushesFit
<1> QED BY <1>2, <1>7, OnlyPushes DEF TraceInv, TraceTypeOK

\* A push that is over, whatever becomes of the key.
LEMMA OverStep ==
  ASSUME TraceInv, NEW k \in Pushes, Over(k, "done"), UNCHANGED pod,
         trace' = Missing \/ (trace' \in Artifacts /\ Complete(trace')) \/ trace' = trace,
         failures' \in 0..TraceFaults
  PROVE  TraceInv'
<1>1. push \in [Pushes -> PushRecords] /\ push[k] \in PushRecords
  BY DEF TraceInv, TraceTypeOK, PushRecords
<1>2. /\ push' \in [Pushes -> PushRecords] /\ push'[k].phase = "done"
      /\ \A j \in Pushes : j # k => push'[j] = push[j]
  BY <1>1 DEF Over, PushRecords, PushPhases
<1>3. \A j \in Pushes : PushFits(push'[j])
  <2> SUFFICES ASSUME NEW j \in Pushes PROVE PushFits(push'[j])
    OBVIOUS
  <2>1. CASE j = k
    BY <2>1, <1>2 DEF PushFits
  <2>2. CASE j # k
    BY <2>2, <1>2 DEF TraceInv, PushesFit
  <2> QED BY <2>1, <2>2
<1> QED BY <1>2, <1>3, OnlyPushes

\* A process that reads the trace of its pod, with the statement in writing or
\* without it.
LEMMA ReadStep ==
  ASSUME TraceInv, NEW k \in Pushes, push[k].phase = "spawned",
         NEW lines \in Seq(Methods), IsInjective(lines),
         ToSet(pod[push[k].pod].lines) \subseteq ToSet(lines), NEW torn \in BOOLEAN,
         push' = [push EXCEPT ![k].phase = "read",
                              ![k].artifact =
                                [lines |-> Portable(lines), torn |-> torn, covers |-> @.covers]],
         UNCHANGED <<pod, trace, failures>>
  PROVE  TraceInv'
<1>1. /\ push \in [Pushes -> PushRecords] /\ push[k] \in PushRecords /\ PushFits(push[k])
      /\ failures \in 0..TraceFaults
  BY DEF TraceInv, TraceTypeOK, PushRecords, PushesFit
<1> DEFINE covers == push[k].artifact.covers
           artifact == [lines |-> Portable(lines), torn |-> torn, covers |-> covers]
           r == [push[k] EXCEPT !.phase = "read", !.artifact = artifact]
<1>2. push[k].artifact \in Artifacts /\ covers \subseteq ToSet(lines) /\ covers \in SUBSET Methods
  BY <1>1 DEF PushFits, Artifacts
<1>3. artifact \in Artifacts /\ Complete(artifact)
  BY <1>2, FilteredIsComplete
<1>4. push' = [push EXCEPT ![k] = r]
  BY <1>1
<1> HIDE DEF artifact, covers
<1>5. r \in PushRecords /\ r.phase = "read" /\ r.artifact = artifact
  BY <1>1, <1>3 DEF PushRecords, PushPhases
<1> HIDE DEF r
<1>6. PushFits(r)
  BY <1>3, <1>5 DEF PushFits
<1>7. push' \in [Pushes -> PushRecords] /\ \A j \in Pushes : PushFits(push'[j])
  BY <1>1, <1>4, <1>5, <1>6 DEF TraceInv, PushesFit
<1> QED BY <1>1, <1>7, OnlyPushes

LEMMA PushReadStep == ASSUME TraceInv, NEW k \in Pushes, PushRead(k) PROVE TraceInv'
<1> DEFINE q == pod[push[k].pod]
<1>1. /\ push[k].phase = "spawned" /\ q \in PodRecords /\ Traced(q)
      /\ failures \in 0..TraceFaults /\ UNCHANGED <<pod, trace, failures>>
  BY DEF PushRead, TraceInv, TraceTypeOK, PodRecords, PodsFit, PodFits, PushesFit, PushFits
<1>2. ASSUME NEW lines \in {q.lines, Append(q.lines, q.writing)}, NEW torn \in BOOLEAN,
             lines = q.lines \/ q.writing # NoMethod,
             push' = [push EXCEPT ![k].phase = "read",
                                  ![k].artifact =
                                    [lines |-> Portable(lines), torn |-> torn, covers |-> @.covers]]
      PROVE  TraceInv'
  <2>1. lines \in Seq(Methods) /\ IsInjective(lines) /\ ToSet(q.lines) \subseteq ToSet(lines)
    <3>1. CASE lines = q.lines
      BY <3>1, <1>1 DEF Traced, PodRecords
    <3>2. CASE lines # q.lines
      <4>1. /\ lines = Append(q.lines, q.writing) /\ q.lines \in Seq(Methods)
            /\ q.writing \in Methods /\ q.writing \notin ToSet(q.lines) /\ IsInjective(q.lines)
        BY <3>2, <1>1, <1>2 DEF Traced, PodRecords
      <4> QED BY <4>1, AppendFacts
    <3> QED BY <3>1, <3>2
  <2> QED BY <1>1, <1>2, <2>1, ReadStep
<1>3. CASE Over(k, "done")
  BY <1>1, <1>3, OverStep
<1> QED BY <1>2, <1>3 DEF PushRead

LEMMA PushSetStep == ASSUME TraceInv, NEW k \in Pushes, PushSet(k) PROVE TraceInv'
<1>1. /\ push \in [Pushes -> PushRecords] /\ push[k] \in PushRecords
      /\ push[k].phase = "read" /\ UNCHANGED pod /\ failures \in 0..TraceFaults
      /\ push[k].artifact \in Artifacts /\ Complete(push[k].artifact)
  BY DEF PushSet, TraceInv, TraceTypeOK, PushRecords, PushesFit, PushFits
<1>2. CASE trace' = push[k].artifact /\ Over(k, "done") /\ UNCHANGED failures
  BY <1>1, <1>2, OverStep
<1>3. CASE UNCHANGED trace /\ Over(k, "done") /\ Fails
  BY <1>1, <1>3, OverStep, FailsCounts DEF TraceInv
<1>4. CASE UNCHANGED trace /\ push' = [push EXCEPT ![k].phase = "late"] /\ Fails
  <2> DEFINE r == [push[k] EXCEPT !.phase = "late"]
  <2>1. push' = [push EXCEPT ![k] = r]
    BY <1>1, <1>4
  <2>2. r \in PushRecords /\ r.phase = "late" /\ r.artifact = push[k].artifact
    BY <1>1 DEF PushRecords, PushPhases
  <2> HIDE DEF r
  <2>3. PushFits(r)
    BY <1>1, <2>2 DEF PushFits
  <2>4. push' \in [Pushes -> PushRecords] /\ \A j \in Pushes : PushFits(push'[j])
    BY <1>1, <2>1, <2>2, <2>3 DEF TraceInv, PushesFit
  <2>5. failures' \in 0..TraceFaults
    BY <1>4, FailsCounts DEF TraceInv
  <2> QED BY <1>1, <1>4, <2>4, <2>5, OnlyPushes
<1> QED BY <1>2, <1>3, <1>4 DEF PushSet

LEMMA LateSetStep == ASSUME TraceInv, NEW k \in Pushes, LateSet(k) PROVE TraceInv'
<1>1. /\ push[k].artifact \in Artifacts /\ Complete(push[k].artifact)
      /\ failures' \in 0..TraceFaults
  BY DEF LateSet, TraceInv, TraceTypeOK, PushesFit, PushFits
<1> QED BY <1>1, OverStep DEF LateSet

-----------------------------------------------------------------------------
\* Pushes of which some end and the others stay as they are.
LEMMA SomeOver ==
  ASSUME TraceInv, NEW ends \in SUBSET Pushes,
         push' = [k \in Pushes |-> IF k \in ends
                                   THEN [push[k] EXCEPT !.phase = "done", !.artifact = Missing]
                                   ELSE push[k]]
  PROVE  /\ push' \in [Pushes -> PushRecords]
         /\ \A k \in Pushes : IF k \in ends THEN push'[k].phase = "done" ELSE push'[k] = push[k]
<1>1. push \in [Pushes -> PushRecords]
  BY DEF TraceInv, TraceTypeOK, PushRecords
<1> QED BY <1>1 DEF PushRecords, PushPhases

LEMMA PodCrashStep == ASSUME TraceInv, NEW p \in Pods, Crash(p) PROVE TraceInv'
<1> DEFINE ends == {k \in Pushes : push[k].pod = p /\ push[k].phase \in {"spawned", "read"}}
<1>1. /\ pod \in [Pods -> PodRecords] /\ push \in [Pushes -> PushRecords]
      /\ pod' = [pod EXCEPT ![p] = NewPod("gone")] /\ UNCHANGED trace
      /\ failures' \in 0..TraceFaults
  BY FailsCounts DEF TraceInv, TraceTypeOK, PodRecords, PushRecords, Crash
<1>2. push' = [k \in Pushes |-> IF k \in ends
                                THEN [push[k] EXCEPT !.phase = "done", !.artifact = Missing]
                                ELSE push[k]]
  BY DEF Crash
<1>3. /\ push' \in [Pushes -> PushRecords]
      /\ \A k \in Pushes : IF k \in ends THEN push'[k].phase = "done" ELSE push'[k] = push[k]
  BY <1>2, SomeOver
<1>4. NewPod("gone") \in PodRecords /\ PodFits(Mode[p], NewPod("gone"))
  BY NewPodFits
<1>5. TraceTypeOK'
  <2>1. pod' \in [Pods -> PodRecords]
    BY <1>1, <1>4
  <2> QED BY <2>1, <1>1, <1>3, Zenon DEF TraceInv, TraceTypeOK, PodRecords, PushRecords
<1>6. PodsFit'
  BY <1>1, <1>4 DEF TraceInv, PodsFit
<1>7. PushesFit'
  <2> SUFFICES ASSUME NEW k \in Pushes PROVE PushFits(push[k])'
    BY DEF PushesFit
  <2>1. CASE k \in ends
    BY <2>1, <1>3 DEF PushFits
  <2>2. CASE k \notin ends
    <3>1. push'[k] = push[k] /\ PushFits(push[k]) /\ push[k].pod \in Pods
      BY <2>2, <1>1, <1>3 DEF TraceInv, PushesFit, PushRecords
    <3>2. push[k].phase = "spawned" => pod'[push[k].pod] = pod[push[k].pod]
      BY <2>2, <3>1, <1>1
    <3> QED BY <3>1, <3>2 DEF PushFits
  <2> QED BY <2>1, <2>2
<1>8. TraceFits'
  BY <1>1 DEF TraceInv, TraceFits
<1> QED BY <1>5, <1>6, <1>7, <1>8 DEF TraceInv

LEMMA RedisRestartStep == ASSUME TraceInv, RedisRestart PROVE TraceInv'
<1> DEFINE ends == {k \in Pushes : push[k].phase = "late"}
<1>1. push' = [k \in Pushes |-> IF k \in ends
                                THEN [push[k] EXCEPT !.phase = "done", !.artifact = Missing]
                                ELSE push[k]]
  BY DEF RedisRestart
<1>2. /\ push' \in [Pushes -> PushRecords]
      /\ \A k \in Pushes : IF k \in ends THEN push'[k].phase = "done" ELSE push'[k] = push[k]
  BY <1>1, SomeOver
<1>3. \A k \in Pushes : PushFits(push'[k])
  <2> SUFFICES ASSUME NEW k \in Pushes PROVE PushFits(push'[k])
    OBVIOUS
  <2>1. CASE k \in ends
    BY <2>1, <1>2 DEF PushFits
  <2>2. CASE k \notin ends
    BY <2>2, <1>2 DEF TraceInv, PushesFit
  <2> QED BY <2>1, <2>2
<1>4. UNCHANGED pod /\ trace' = Missing /\ failures' \in 0..TraceFaults
  BY FailsCounts DEF RedisRestart, TraceInv
<1> QED BY <1>2, <1>3, <1>4, OnlyPushes

LEMMA TraceInvInit == ASSUME TraceInit PROVE TraceInv
<1>1. /\ pod = [p \in Pods |-> NewPod("new")] /\ trace = Missing /\ failures = 0
      /\ push = [k \in Pushes |-> [phase |-> "idle", pod |-> CHOOSE p \in Pods : TRUE,
                                   artifact |-> Missing]]
  BY DEF TraceInit
<1>2. \A p \in Pods : NewPod("new") \in PodRecords /\ PodFits(Mode[p], NewPod("new"))
  BY NewPodFits
<1>3. pod \in [Pods -> PodRecords] /\ PodsFit
  BY <1>1, <1>2 DEF PodsFit
<1>4. (CHOOSE p \in Pods : TRUE) \in Pods
  BY TraceAssumption
<1>5. push \in [Pushes -> PushRecords] /\ PushesFit
  BY <1>1, <1>4 DEF PushRecords, PushPhases, PushesFit, PushFits
<1>6. TraceTypeOK /\ TraceFits
  BY <1>1, <1>3, <1>5, TraceAssumption DEF TraceTypeOK, PodRecords, PushRecords, TraceFits
<1> QED BY <1>3, <1>5, <1>6 DEF TraceInv

LEMMA TraceInvStep == ASSUME TraceInv, [TraceNext]_traceVars PROVE TraceInv'
<1>1. CASE TraceNext
  BY <1>1, PullStep, SkipPullStep, LoadStep, RunStep, CompileStep, FlushStep, PushRequestStep,
     PushReadStep, PushSetStep, LateSetStep, PodCrashStep, RedisRestartStep DEF TraceNext
<1>2. CASE UNCHANGED traceVars
  BY <1>2 DEF traceVars, TraceInv, TraceTypeOK, PodsFit, PushesFit, PushFits, TraceFits
<1> QED BY <1>1, <1>2

\* The pods, the pushes and the artifact keep their types (TraceTypeOK).
THEOREM TraceTypeCorrect == TraceSpec => []TraceTypeOK
<1>1. TraceInv => TraceTypeOK
  BY DEF TraceInv
<1> QED BY <1>1, TraceInvInit, TraceInvStep, PTL DEF TraceSpec

\* However many pods push while their compilers write, and whichever push comes
\* last, the artifact under the key is complete up to its own push
\* (push_trace, _push_trace_to_redis).
THEOREM StoredTraceComplete == TraceSpec => []StoredTraceIsComplete
<1>1. TraceInv => StoredTraceIsComplete
  BY DEF TraceInv, TraceFits, Complete, StoredTraceIsComplete
<1> QED BY <1>1, TraceInvInit, TraceInvStep, PTL DEF TraceSpec

\* What a pod replayed before it served, no request of it compiles
\* (_load_precompile_cache).
THEOREM ReplayIsNotRepeated == TraceSpec => []ReplayedNeverCompiles
<1>1. ASSUME TraceInv PROVE ReplayedNeverCompiles
  <2> SUFFICES ASSUME NEW p \in Pods, pod[p].phase = "serving", pod[p].file # Missing
               PROVE  /\ ToSet(pod[p].todo) \intersect Replayed(pod[p].file) = {}
                      /\ ToSet(pod[p].file.lines) \intersect Unreplayable = {}
                           => ToSet(pod[p].todo) \intersect pod[p].file.covers \subseteq Unportable
    BY DEF ReplayedNeverCompiles
  <2>1. /\ ToSet(pod[p].todo) \intersect pod[p].compiled = {}
        /\ Complete(pod[p].file) /\ Replayed(pod[p].file) \subseteq pod[p].compiled
    BY <1>1 DEF TraceInv, PodsFit, PodFits
  <2> QED BY <2>1, ReplayedFacts DEF Complete
<1> QED BY <1>1, TraceInvInit, TraceInvStep, PTL DEF TraceSpec

-----------------------------------------------------------------------------
(* The Julia pods against the abstract cache.                                  *)

\* A trace that is stored, or that a pod has pulled, was published.
PublishedInv ==
  /\ published \subseteq Artifacts
  /\ trace # Missing => trace \in published
  /\ \A p \in Pods : pod[p].file # Missing => pod[p].file \in published

ArtifactInv == TraceInv /\ PublishedInv

\* Of a pod: it keeps what it has pulled, or pulls what is stored, or goes.
LEMMA PodStep ==
  ASSUME TraceInv, NEW p \in Pods,
         \/ Pull(p) \/ SkipPull(p) \/ Load(p) \/ Compile(p) \/ Flush(p) \/ Crash(p)
         \/ \E w \in Workloads : Run(p, w)
  PROVE  /\ trace' = trace /\ \A o \in Pods \ {p} : pod'[o] = pod[o]
         /\ \/ pod'[p].file = pod[p].file /\ pod'[p].phase = pod[p].phase
            \/ /\ pod[p].phase \in {"new", "loading"}
               /\ pod'[p].file \in {pod[p].file, trace}
            \/ pod'[p] = NewPod("gone")
<1>1. pod \in [Pods -> PodRecords] /\ pod[p] \in PodRecords
  BY DEF TraceInv, TraceTypeOK, PodRecords
<1>2. CASE Pull(p)
  BY <1>1, <1>2 DEF Pull, PodRecords
<1>3. CASE SkipPull(p) \/ Load(p)
  BY <1>1, <1>3 DEF SkipPull, Load, PodRecords
<1>4. CASE Compile(p) \/ Flush(p)
  <2>1. CASE Compile(p)
    <3>1. PICK i \in DOMAIN pod[p].todo :
            pod' = [pod EXCEPT ![p].compiled = @ \union {pod[p].todo[i]},
                               ![p].todo = Without(@, {pod[p].todo[i]}),
                               ![p].writing = IF Mode[p] = "populate" THEN pod[p].todo[i]
                                              ELSE NoMethod]
      BY <2>1 DEF Compile
    <3>2. trace' = trace
      BY <2>1 DEF Compile
    <3> QED BY <1>1, <3>1, <3>2 DEF PodRecords
  <2>2. CASE Flush(p)
    BY <1>1, <2>2 DEF Flush, PodRecords
  <2> QED BY <1>4, <2>1, <2>2
<1>5. CASE Crash(p)
  BY <1>1, <1>5 DEF Crash
<1>6. CASE \E w \in Workloads : Run(p, w)
  BY <1>1, <1>6 DEF Run, PodRecords
<1> QED BY <1>2, <1>3, <1>4, <1>5, <1>6

\* Of a push, and of Redis: no pod notices it.
LEMMA StoreStep ==
  ASSUME TraceInv,
         \/ \E k \in Pushes, p \in Pods : PushRequest(k, p)
         \/ \E k \in Pushes : PushRead(k) \/ PushSet(k) \/ LateSet(k)
         \/ RedisRestart
  PROVE  UNCHANGED pod /\ (trace' = trace \/ trace' \in Artifacts \union {Missing})
<1>1. ASSUME NEW k \in Pushes, NEW p \in Pods, PushRequest(k, p)
      PROVE  UNCHANGED <<pod, trace>>
  BY <1>1 DEF PushRequest
<1>2. ASSUME NEW k \in Pushes, PushRead(k) PROVE UNCHANGED <<pod, trace>>
  BY <1>2 DEF PushRead
<1>3. ASSUME NEW k \in Pushes, PushSet(k) \/ LateSet(k)
      PROVE  UNCHANGED pod /\ (trace' = trace \/ trace' \in Artifacts)
  <2>1. push[k].phase \in {"read", "late"}
    BY <1>3 DEF PushSet, LateSet
  <2>2. push[k].artifact \in Artifacts
    BY <2>1 DEF TraceInv, PushesFit, PushFits
  <2> QED BY <1>3, <2>2 DEF PushSet, LateSet
<1>4. RedisRestart => UNCHANGED pod /\ trace' = Missing
  BY DEF RedisRestart
<1> QED BY <1>1, <1>2, <1>3, <1>4

\* One step of the pods and of Redis is a step of the abstract cache.
LEMMA ArtifactStep ==
  ASSUME ArtifactInv, [PublishedNext]_<<traceVars, published>>
  PROVE  PublishedInv' /\ [Cache!Next]_(Cache!cacheVars)
<1>0. TraceInv /\ PublishedInv
  BY DEF ArtifactInv
<1>1. CASE UNCHANGED <<pod, trace, published>>
  BY <1>0, <1>1 DEF PublishedInv, Imported, Cache!cacheVars
<1>2. CASE UNCHANGED <<traceVars, published>>
  BY <1>1, <1>2 DEF traceVars
<1>3. ASSUME published' = published \union ({trace'} \ {Missing}), UNCHANGED pod,
             trace' = trace \/ trace' \in Artifacts \union {Missing}
      PROVE  PublishedInv' /\ [Cache!Next]_(Cache!cacheVars)
  <2>1. CASE trace' = trace \/ trace' = Missing
    <3>1. published' = published
      BY <1>0, <1>3, <2>1 DEF PublishedInv
    <3>2. \A p \in Pods : Imported(p)' = Imported(p)
      BY <1>3 DEF Imported
    <3> QED BY <1>0, <1>3, <2>1, <3>1, <3>2 DEF PublishedInv, Cache!cacheVars
  <2>2. CASE trace' # trace /\ trace' # Missing
    <3>1. trace' \in Artifacts /\ published' = published \union {trace'}
      BY <1>3, <2>2
    <3>2. \A p \in Pods : Imported(p)' = Imported(p)
      BY <1>3 DEF Imported
    <3>3. Cache!Publish(trace')
      BY <3>1, <3>2 DEF Cache!Publish
    <3>4. PublishedInv'
      BY <1>0, <1>3, <3>1 DEF PublishedInv
    <3> QED BY <3>1, <3>3, <3>4 DEF Cache!Next
  <2> QED BY <2>1, <2>2
<1>4. ASSUME published' = published \union ({trace'} \ {Missing}), NEW p \in Pods,
             \/ Pull(p) \/ SkipPull(p) \/ Load(p) \/ Compile(p) \/ Flush(p) \/ Crash(p)
             \/ \E w \in Workloads : Run(p, w)
      PROVE  PublishedInv' /\ [Cache!Next]_(Cache!cacheVars)
  <2>1. /\ trace' = trace /\ \A o \in Pods \ {p} : pod'[o] = pod[o]
        /\ \/ pod'[p].file = pod[p].file /\ pod'[p].phase = pod[p].phase
           \/ /\ pod[p].phase \in {"new", "loading"}
              /\ pod'[p].file \in {pod[p].file, trace}
           \/ pod'[p] = NewPod("gone")
    BY <1>0, <1>4, PodStep
  <2>2. NewPod("gone").file = Missing /\ NewPod("gone").phase = "gone"
    BY DEF NewPod
  <2>3. published' = published
    BY <1>0, <1>4, <2>1 DEF PublishedInv
  <2>4. PublishedInv'
    <3>1. pod'[p].file # Missing => pod'[p].file \in published
      BY <1>0, <2>1, <2>2 DEF PublishedInv
    <3>2. \A o \in Pods : pod'[o].file # Missing => pod'[o].file \in published
      BY <1>0, <2>1, <3>1 DEF PublishedInv
    <3> QED BY <1>0, <2>1, <2>3, <3>2 DEF PublishedInv
  <2>5. \A o \in Pods \ {p} : Imported(o)' = Imported(o)
    BY <2>1 DEF Imported
  <2>6. \/ Imported(p)' = Imported(p) \/ Imported(p)' = Missing
        \/ Imported(p) = Missing /\ Imported(p)' \in published
    BY <2>1, <2>2, <2>3, <2>4 DEF Imported, PublishedInv
  <2>7. CASE Imported(p)' = Imported(p)
    BY <2>3, <2>4, <2>5, <2>7 DEF Cache!cacheVars
  <2>8. CASE Imported(p)' = Missing
    <3>1. Cache!Unload(p)
      BY <2>3, <2>5, <2>8 DEF Cache!Unload
    <3> QED BY <2>4, <3>1 DEF Cache!Next
  <2>9. CASE Imported(p) = Missing /\ Imported(p)' \in published
    <3>1. Cache!Load(p, Imported(p)')
      BY <2>3, <2>5, <2>9 DEF Cache!Load
    <3>2. Imported(p)' \in Artifacts
      BY <1>0, <2>9 DEF PublishedInv
    <3> QED BY <2>4, <3>1, <3>2 DEF Cache!Next
  <2> QED BY <2>6, <2>7, <2>8, <2>9
<1>5. CASE PublishedNext
  <2>1. TraceNext /\ published' = published \union ({trace'} \ {Missing})
    BY <1>5 DEF PublishedNext
  <2>2. ASSUME \/ \E k \in Pushes, p \in Pods : PushRequest(k, p)
               \/ \E k \in Pushes : PushRead(k) \/ PushSet(k) \/ LateSet(k)
               \/ RedisRestart
        PROVE  PublishedInv' /\ [Cache!Next]_(Cache!cacheVars)
    BY <1>0, <1>3, <2>1, <2>2, StoreStep
  <2> QED BY <1>4, <2>1, <2>2 DEF TraceNext
<1> QED BY <1>2, <1>5

LEMMA ArtifactInvariance ==
  /\ PublishedSpec => Cache!Init
  /\ PublishedSpec => []ArtifactInv
  /\ PublishedSpec => [][Cache!Next]_(Cache!cacheVars)
<1>1. PublishedInit => ArtifactInv /\ Cache!Init
  <2> SUFFICES ASSUME PublishedInit PROVE ArtifactInv /\ Cache!Init
    OBVIOUS
  <2>1. TraceInv /\ published = {} /\ trace = Missing /\ pod = [p \in Pods |-> NewPod("new")]
    BY TraceInvInit DEF PublishedInit, TraceInit
  <2> QED BY <2>1 DEF ArtifactInv, PublishedInv, Imported, NewPod, Cache!Init
<1>2. ArtifactInv /\ [PublishedNext]_<<traceVars, published>>
        => ArtifactInv' /\ [Cache!Next]_(Cache!cacheVars)
  <2> SUFFICES ASSUME ArtifactInv, [PublishedNext]_<<traceVars, published>>
               PROVE  ArtifactInv' /\ [Cache!Next]_(Cache!cacheVars)
    OBVIOUS
  <2>1. [TraceNext]_traceVars
    BY DEF PublishedNext
  <2>2. TraceInv'
    BY <2>1, TraceInvStep DEF ArtifactInv
  <2> QED BY <2>2, ArtifactStep DEF ArtifactInv
<1> QED BY <1>1, <1>2, PTL DEF PublishedSpec

\* The pods implement the cache: a pod replays one trace that a SET has stored,
\* before it serves, and works from it until it goes, however many pushes
\* overlap, come late or are lost (pull_trace, _load_precompile_cache).
THEOREM TracesImplementCache == PublishedSpec => ImplementsArtifactCache
BY ArtifactInvariance, PTL DEF ImplementsArtifactCache, Cache!Spec

\* So no pod replays what was never stored, although it may be a torn trace.
THEOREM ReplayedWasPublished == PublishedSpec => []WorksFromPublished
<1>1. ArtifactInv => WorksFromPublished
  BY DEF ArtifactInv, PublishedInv, Imported, WorksFromPublished, Cache!WorksFromPublished
<1> QED BY <1>1, ArtifactInvariance, PTL

-----------------------------------------------------------------------------
(* The RESP clients.                                                           *)

Buffers == Seq(Bytes)

Replies == {Status, Refusal, Missed} \union {Bulk(payload) : payload \in Payloads}

\* The buffer has a reply's bytes at a place, or ends within them.
Whole(buffer, at, bytes) ==
  /\ at + Len(bytes) <= Len(buffer) + 1
  /\ \A i \in at..(at + Len(bytes) - 1) : buffer[i] = bytes[i - at + 1]

Cut(buffer, at, bytes) ==
  /\ Len(buffer) + 1 < at + Len(bytes)
  /\ \A i \in at..Len(buffer) : buffer[i] = bytes[i - at + 1]

-----------------------------------------------------------------------------
(* The decoder.                                                                *)

\* Strings of one and of two bytes.
LEMMA ShortEqual ==
  ASSUME NEW s \in Buffers, NEW t \in Buffers, Len(s) = Len(t), Len(s) \in 1..2,
         s[1] = t[1], Len(s) = 2 => s[2] = t[2]
  PROVE  s = t
<1>1. \A i \in 1..Len(s) : s[i] = t[i]
  OBVIOUS
<1> QED BY <1>1, SeqEqual DEF Buffers

\* A pair of bytes is the end of a line.
LEMMA EndOfLine ==
  ASSUME NEW buffer \in Buffers, NEW i \in 1..(Len(buffer) - 1)
  PROVE  SubSeq(buffer, i, i + 1) = CRLF <=> buffer[i] = "\r" /\ buffer[i + 1] = "\n"
<1> DEFINE pair == SubSeq(buffer, i, i + 1)
<1>1. \A j \in i..(i + 1) : buffer[j] \in Bytes
  BY DEF Buffers
<1>2. pair \in Buffers /\ Len(pair) = 2 /\ pair[1] = buffer[i] /\ pair[2] = buffer[i + 1]
  BY <1>1, SubSeqProperties DEF Buffers
<1>3. CRLF \in Buffers /\ Len(CRLF) = 2 /\ CRLF[1] = "\r" /\ CRLF[2] = "\n"
  <2>1. "\r" \in Bytes /\ "\n" \in Bytes
    BY RespAssumption
  <2> QED BY <2>1 DEF CRLF, Buffers
<1> HIDE DEF pair
<1>4. ASSUME buffer[i] = "\r", buffer[i + 1] = "\n" PROVE pair = CRLF
  BY <1>2, <1>3, <1>4, ShortEqual
<1>5. pair = CRLF <=> buffer[i] = "\r" /\ buffer[i + 1] = "\n"
  BY <1>2, <1>3, <1>4
<1> QED BY <1>5 DEF pair

LEMMA LineEndsFacts ==
  ASSUME NEW buffer \in Buffers, NEW at \in Nat \ {0}
  PROVE  \A i : i \in LineEnds(buffer, at) <=>
           /\ i \in at..(Len(buffer) - 1) /\ buffer[i] = "\r" /\ buffer[i + 1] = "\n"
<1>1. Len(buffer) \in Nat
  BY DEF Buffers
<1>2. ASSUME NEW i \in at..(Len(buffer) - 1)
      PROVE  SubSeq(buffer, i, i + 1) = CRLF <=> buffer[i] = "\r" /\ buffer[i + 1] = "\n"
  <2>1. i \in 1..(Len(buffer) - 1)
    BY <1>1
  <2> QED BY <2>1, EndOfLine
<1> QED BY <1>2 DEF LineEnds

\* The least of a set that has one.
LEMMA MinFacts ==
  ASSUME NEW S \in SUBSET Nat, NEW m \in S, \A x \in S : m <= x
  PROVE  Min(S) = m
<1>1. \A x \in S, y \in S : x <= y /\ y <= x => x = y
  OBVIOUS
<1> QED BY <1>1 DEF Min

-----------------------------------------------------------------------------
(* Recursion on the natural numbers.                                           *)

\* A set of naturals that is not empty has a least element.
LEMMA Minimum ==
    ASSUME NEW T, T \subseteq Nat, T # {}
    PROVE  \E n \in T : \A m \in T : n <= m
<1> DEFINE R == {pair \in Nat \X Nat : pair[1] < pair[2]}
<1>1. IsWellFoundedOn(R, Nat)
  BY NatLessThanWellFounded, Zenon DEF OpToRel
<1> HIDE DEF R
<1>2. PICK n \in T : \A m \in T : <<m, n>> \notin R
  BY <1>1, WFMin, Zenon
<1>3. ASSUME NEW m \in T PROVE n <= m
  <2>1. <<m, n>> \notin R
    BY <1>2, Zenon
  <2>2. m < n => <<m, n>> \in R
    BY DEF R
  <2> QED BY <2>1, <2>2
<1> QED BY <1>3

\* Induction over a set of naturals.
LEMMA Induction ==
    ASSUME NEW S, 0 \in S, \A n \in Nat : n \in S => n + 1 \in S
    PROVE  Nat \subseteq S
<1> DEFINE T == Nat \ S
<1> SUFFICES ASSUME T # {} PROVE FALSE
  OBVIOUS
<1>1. PICK n \in T : \A m \in T : n <= m
  BY Minimum
<1>2. n # 0 /\ n - 1 \in Nat /\ n - 1 \notin T
  BY <1>1
<1> QED BY <1>1, <1>2

\* A function that repeats a step.
Repeated(f, base, step) == f[0] = base /\ \A k \in Nat : f[k + 1] = step[f[k]]

\* There is one on the natural numbers, whatever the step.
LEMMA Recursion ==
    ASSUME NEW V, NEW base \in V, NEW step \in [V -> V]
    PROVE  \E f \in [Nat -> V] : Repeated(f, base, step)
<1> DEFINE
      Repeats(f, n) == /\ f \in [0..n -> V] /\ f[0] = base
                       /\ \A k \in 0..n : k # n => f[k + 1] = step[f[k]]
      S == {n \in Nat : \E f : Repeats(f, n)}
      Solution(n) == CHOOSE f : Repeats(f, n)
      F == [n \in Nat |-> Solution(n)[n]]
<1>1. 0 \in S
  <2>1. Repeats([k \in 0..0 |-> base], 0)
    OBVIOUS
  <2> QED BY <2>1
<1>2. ASSUME NEW n \in Nat, n \in S PROVE n + 1 \in S
  <2>1. PICK f : Repeats(f, n)
    BY <1>2
  <2> DEFINE g == [k \in 0..(n + 1) |-> IF k = n + 1 THEN step[f[n]] ELSE f[k]]
  <2>2. g \in [0..(n + 1) -> V] /\ g[0] = base
    <3>1. f[n] \in V /\ step[f[n]] \in V
      BY <2>1
    <3>2. \A k \in 0..(n + 1) : k # n + 1 => k \in 0..n
      OBVIOUS
    <3> QED BY <2>1, <3>1, <3>2
  <2>3. ASSUME NEW k \in 0..(n + 1), k # n + 1 PROVE g[k + 1] = step[g[k]]
    <3>1. CASE k = n
      BY <3>1
    <3>2. CASE k # n
      <4>1. k \in 0..n /\ k + 1 \in 0..(n + 1) /\ k + 1 # n + 1
        BY <2>3, <3>2
      <4>2. g[k + 1] = f[k + 1] /\ g[k] = f[k]
        BY <2>3, <4>1
      <4> QED BY <2>1, <3>2, <4>1, <4>2
    <3> QED BY <3>1, <3>2
  <2>4. Repeats(g, n + 1)
    BY <2>2, <2>3
  <2> HIDE DEF g
  <2> QED BY <2>4
<1>3. ASSUME NEW n \in Nat PROVE Repeats(Solution(n), n)
  <2>1. n \in S
    <3> HIDE DEF S
    <3> QED BY <1>1, <1>2, Induction
  <2> QED BY <2>1
<1> HIDE DEF S, Solution
<1>4. ASSUME NEW n \in Nat, NEW f, NEW g, Repeats(f, n), Repeats(g, n + 1)
      PROVE  f[n] = g[n]
  <2> DEFINE A == {k \in Nat : k <= n => f[k] = g[k]}
  <2>1. 0 \in A
    BY <1>4
  <2>2. ASSUME NEW k \in Nat, k \in A PROVE k + 1 \in A
    <3> SUFFICES ASSUME k + 1 <= n PROVE f[k + 1] = g[k + 1]
      OBVIOUS
    <3>1. k \in 0..n /\ k # n /\ k \in 0..(n + 1) /\ k # n + 1 /\ f[k] = g[k]
      BY <2>2
    <3> QED BY <1>4, <3>1
  <2>3. n \in A
    <3> HIDE DEF A
    <3> QED BY <2>1, <2>2, Induction
  <2> QED BY <2>3
<1>5. F \in [Nat -> V] /\ F[0] = base
  <2>1. \A n \in Nat : Solution(n)[n] \in V
    BY <1>3
  <2>2. Solution(0)[0] = base
    BY <1>3
  <2> QED BY <2>1, <2>2
<1>6. ASSUME NEW k \in Nat PROVE F[k + 1] = step[F[k]]
  <2>1. Solution(k)[k] = Solution(k + 1)[k]
    <3>1. Repeats(Solution(k), k) /\ Repeats(Solution(k + 1), k + 1)
      BY <1>3
    <3> HIDE DEF Repeats
    <3> QED BY <1>4, <3>1
  <2>2. Solution(k + 1)[k + 1] = step[Solution(k + 1)[k]]
    BY <1>3
  <2> QED BY <2>1, <2>2
<1> QED BY <1>5, <1>6 DEF Repeated

-----------------------------------------------------------------------------
(* Decimal notation.                                                           *)

LEMMA DigitOf ==
  ASSUME NEW d \in 0..9
  PROVE  /\ Digits[d + 1] \in Bytes /\ Digits[d + 1] \notin {"-", "\r"}
         /\ Digit(Digits[d + 1]) = d
<1>1. \A c \in 0..9 : c \in {0, 1, 2, 3, 4, 5, 6, 7, 8, 9}
  OBVIOUS
<1>2. Digits[d + 1] \in {"0", "1", "2", "3", "4", "5", "6", "7", "8", "9"}
  BY DEF Digits
<1>3. Digits[d + 1] \in Bytes /\ Digits[d + 1] \notin {"-", "\r"}
  BY <1>2, RespAssumption
<1>4. ASSUME NEW c \in 0..9, Digits[c + 1] = Digits[d + 1] PROVE c = d
  BY <1>1, <1>4 DEF Digits
<1> QED BY <1>3, <1>4 DEF Digit

\* Each digit that is dropped divides by ten.
LEMMA LeadingFacts ==
  ASSUME NEW number \in Nat
  PROVE  /\ Leading(number, 0) = number
         /\ \A k \in Nat : /\ Leading(number, k) \in Nat
                          /\ Leading(number, k + 1) = Leading(number, k) \div 10
<1> DEFINE Tenth == [v \in Nat |-> v \div 10]
           L(f) == [k \in Nat |-> IF k = 0 THEN number ELSE f[k - 1] \div 10]
           leading == CHOOSE f : f = L(f)
<1>1. Tenth \in [Nat -> Nat]
  OBVIOUS
<1> HIDE DEF Tenth
<1>2. PICK f \in [Nat -> Nat] : Repeated(f, number, Tenth)
  BY <1>1, Recursion
<1>3. \A k \in Nat : k # 0 => f[k] = f[k - 1] \div 10
  <2> TAKE k \in Nat
  <2> HAVE k # 0
  <2>1. k - 1 \in Nat /\ (k - 1) + 1 = k
    OBVIOUS
  <2>2. f[(k - 1) + 1] = Tenth[f[k - 1]]
    BY <1>2, <2>1, Zenon DEF Repeated
  <2> QED BY <2>1, <2>2 DEF Tenth
<1>4. f = L(f)
  <2>1. \A k \in Nat : f[k] = L(f)[k]
    BY <1>2, <1>3 DEF Repeated
  <2> QED BY <2>1
<1>5. leading = L(leading)
  <2> HIDE DEF L
  <2> QED BY <1>4
<1>6. \A k : Leading(number, k) = leading[k]
  BY DEF Leading
<1> HIDE DEF leading
<1>7. \A k \in Nat : leading[k] = IF k = 0 THEN number ELSE leading[k - 1] \div 10
  BY <1>5
<1> DEFINE S == {k \in Nat : leading[k] \in Nat}
<1>8. 0 \in S
  BY <1>7
<1>9. ASSUME NEW k \in Nat, k \in S PROVE k + 1 \in S
  <2>1. leading[k + 1] = leading[k] \div 10
    BY <1>7
  <2> QED BY <1>9, <2>1
<1>10. Nat \subseteq S
  <2> HIDE DEF S
  <2> QED BY <1>8, <1>9, Induction
<1>11. \A k \in Nat : leading[k] \in Nat /\ leading[k + 1] = leading[k] \div 10
  BY <1>7, <1>10
<1>12. leading[0] = number
  BY <1>7
<1> QED BY <1>6, <1>11, <1>12

\* A number has a digit at least, and no more than there are numbers up to it.
LEMMA LeadingEnds ==
  ASSUME NEW number \in Nat
  PROVE  \E k \in 1..(number + 1) : Leading(number, k) = 0
<1> DEFINE S == {k \in Nat : Leading(number, k) + k <= number \/ Leading(number, k) = 0}
<1>1. 0 \in S
  BY LeadingFacts
<1>2. ASSUME NEW k \in Nat, k \in S PROVE k + 1 \in S
  <2> DEFINE v == Leading(number, k)
  <2>1. v \in Nat /\ Leading(number, k + 1) = v \div 10 /\ (v + k <= number \/ v = 0)
    BY <1>2, LeadingFacts
  <2> HIDE DEF v
  <2>2. v \div 10 = 0 \/ v \div 10 + 1 <= v
    BY <2>1
  <2>3. v \div 10 \in Nat /\ (v = 0 => v \div 10 = 0)
    BY <2>1
  <2> QED BY <2>1, <2>2, <2>3
<1>3. number + 1 \in S
  <2> HIDE DEF S
  <2> QED BY <1>1, <1>2, Induction
<1>4. Leading(number, number + 1) \in Nat
  BY LeadingFacts
<1> QED BY <1>3, <1>4

\* The digits of a number are bytes, neither a sign nor the end of a line.
Numeral(number, header, w) ==
  /\ w \in Nat \ {0} /\ header \in Buffers /\ Len(header) = w /\ Leading(number, w) = 0
  /\ \A i \in 1..w : /\ header[i] \notin {"-", "\r"}
                     /\ Digit(header[i]) = Leading(number, w - i) % 10

LEMMA DecimalFacts ==
  ASSUME NEW number \in Nat, NEW header, header = Decimal(number)
  PROVE  \E w : Numeral(number, header, w)
<1> DEFINE Ends == {k \in 1..(number + 1) : Leading(number, k) = 0}
           width == Min(Ends)
<1>1. width \in 1..(number + 1) /\ Leading(number, width) = 0
  <2>1. Ends \subseteq Nat /\ Ends # {}
    BY LeadingEnds
  <2>2. PICK m \in Ends : \A k \in Ends : m <= k
    <3> HIDE DEF Ends
    <3> QED BY <2>1, Minimum
  <2>3. width = m
    <3> HIDE DEF Ends
    <3> QED BY <2>1, <2>2, MinFacts
  <2> QED BY <2>2, <2>3
<1>2. header = [i \in 1..width |-> Digits[(Leading(number, width - i) % 10) + 1]]
  BY DEF Decimal
<1> HIDE DEF width, Ends
<1>3. width \in Nat \ {0}
  BY <1>1
<1>4. ASSUME NEW i \in 1..width
      PROVE  /\ header[i] \in Bytes /\ header[i] \notin {"-", "\r"}
             /\ Digit(header[i]) = Leading(number, width - i) % 10
  <2> DEFINE v == Leading(number, width - i)
             d == v % 10
  <2>0. width - i \in Nat
    BY <1>3
  <2>1. v \in Nat
    BY <2>0, LeadingFacts
  <2>2. header[i] = Digits[d + 1]
    BY <1>2
  <2> HIDE DEF v
  <2>3. d \in 0..9
    BY <2>1
  <2> HIDE DEF d
  <2>4. /\ header[i] \in Bytes /\ header[i] \notin {"-", "\r"} /\ Digit(header[i]) = d
    BY <2>2, <2>3, DigitOf
  <2> QED BY <2>4 DEF d, v
<1>5. header \in Buffers /\ Len(header) = width
  <2>1. header \in [1..width -> Bytes]
    BY <1>2, <1>4
  <2> QED BY <1>3, <2>1 DEF Buffers
<1>6. Numeral(number, header, width)
  BY <1>1, <1>3, <1>4, <1>5 DEF Numeral
<1> QED BY <1>6

\* A header's value is the number whose digits it has.
LEMMA Announced ==
  ASSUME NEW number \in Nat, NEW header, NEW w, Numeral(number, header, w)
  PROVE  Size(header) = number /\ header # <<"-", "1">>
<1> DEFINE V(f) == [k \in 0..Len(header) |->
                      IF k = 0 THEN 0 ELSE 10 * f[k - 1] + Digit(header[k])]
           value == CHOOSE f : f = V(f)
           dropped == [k \in 0..w |-> Leading(number, w - k)]
<1>1. /\ w \in Nat \ {0} /\ Len(header) = w /\ Leading(number, w) = 0
      /\ \A i \in 1..w : /\ header[i] \notin {"-", "\r"}
                         /\ Digit(header[i]) = Leading(number, w - i) % 10
  BY DEF Numeral
<1>2. ASSUME NEW k \in 1..w
      PROVE  Leading(number, w - k) = 10 * Leading(number, w - (k - 1)) + Digit(header[k])
  <2> DEFINE v == Leading(number, w - k)
  <2>1. w - k \in Nat /\ (w - k) + 1 = w - (k - 1)
    BY <1>1
  <2>2. v \in Nat /\ Leading(number, w - (k - 1)) = v \div 10
    BY <2>1, LeadingFacts
  <2>3. Digit(header[k]) = v % 10
    BY <1>1
  <2> HIDE DEF v
  <2>4. v = 10 * (v \div 10) + (v % 10)
    BY <2>2
  <2> QED BY <2>2, <2>3, <2>4 DEF v
<1>3. dropped = V(dropped)
  <2>1. ASSUME NEW k \in 0..w PROVE dropped[k] = V(dropped)[k]
    <3>1. CASE k = 0
      <4>1. w - 0 = w
        BY <1>1
      <4> QED BY <1>1, <3>1, <4>1
    <3>2. CASE k # 0
      <4>1. k \in 1..w /\ k - 1 \in 0..w
        BY <1>1, <3>2
      <4>2. dropped[k] = Leading(number, w - k) /\ dropped[k - 1] = Leading(number, w - (k - 1))
        BY <4>1
      <4>3. V(dropped)[k] = 10 * dropped[k - 1] + Digit(header[k])
        BY <1>1, <3>2
      <4> HIDE DEF dropped, V
      <4> QED BY <1>2, <4>1, <4>2, <4>3
    <3> QED BY <3>1, <3>2
  <2>2. DOMAIN V(dropped) = 0..w
    BY <1>1
  <2> QED BY <1>1, <2>1
<1>4. value = V(value)
  <2> HIDE DEF V
  <2> QED BY <1>3
<1>5. Size(header) = value[Len(header)]
  BY DEF Size
<1> HIDE DEF value
<1>6. /\ value[0] = 0
      /\ \A k \in 1..w : value[k] = 10 * value[k - 1] + Digit(header[k])
  BY <1>1, <1>4
<1> DEFINE S == {k \in Nat : k <= w => value[k] = Leading(number, w - k)}
<1>7. 0 \in S
  <2>1. w - 0 = w
    BY <1>1
  <2> QED BY <1>1, <1>6, <2>1
<1>8. ASSUME NEW k \in Nat, k \in S PROVE k + 1 \in S
  <2> SUFFICES ASSUME k + 1 <= w PROVE value[k + 1] = Leading(number, w - (k + 1))
    OBVIOUS
  <2>1. k + 1 \in 1..w /\ (k + 1) - 1 = k /\ k <= w
    BY <1>1
  <2>2. value[k] = Leading(number, w - k)
    BY <1>8, <2>1
  <2>3. value[k + 1] = 10 * value[k] + Digit(header[k + 1])
    BY <1>6, <2>1
  <2>4. Leading(number, w - (k + 1)) = 10 * Leading(number, w - k) + Digit(header[k + 1])
    BY <1>2, <2>1
  <2> QED BY <2>2, <2>3, <2>4
<1>9. w \in S
  <2> HIDE DEF S
  <2> QED BY <1>1, <1>7, <1>8, Induction
<1>10. Size(header) = number
  <2>1. w - w = 0 /\ w <= w /\ Len(header) = w
    BY <1>1
  <2>2. value[w] = Leading(number, w - w)
    BY <1>9, <2>1
  <2>3. Leading(number, 0) = number
    BY LeadingFacts
  <2> HIDE DEF S
  <2> QED BY <1>5, <2>1, <2>2, <2>3
<1>11. header # <<"-", "1">>
  <2>1. header[1] # "-"
    BY <1>1
  <2> QED BY <2>1
<1> QED BY <1>10, <1>11

\* A part of a buffer, by its bytes.
LEMMA SubSeqIs ==
  ASSUME NEW buffer \in Buffers, NEW from \in Nat \ {0}, NEW part \in Buffers,
         from + Len(part) <= Len(buffer) + 1,
         \A i \in 1..Len(part) : buffer[from + i - 1] = part[i]
  PROVE  SubSeq(buffer, from, from + Len(part) - 1) = part
<1> DEFINE n == Len(part)
           to == from + n - 1
           data == SubSeq(buffer, from, to)
<1>1. n \in Nat /\ Len(buffer) \in Nat
  BY DEF Buffers
<1>2. to \in Int /\ from <= to + 1 /\ to <= Len(buffer) /\ to - from + 1 = n
  BY <1>1
<1>3. \A i \in from..to : buffer[i] \in Bytes
  <2>1. \A i \in 1..Len(buffer) : buffer[i] \in Bytes
    BY DEF Buffers
  <2> HIDE DEF to
  <2>2. \A i \in from..to : i \in 1..Len(buffer)
    BY <1>1, <1>2
  <2> QED BY <2>1, <2>2
<1>4. data \in Buffers /\ Len(data) = n
  <2>1. data \in Buffers /\ Len(data) = to - from + 1
    BY <1>2, <1>3, SubSeqProperties DEF Buffers
  <2> QED BY <1>2, <2>1
<1>5. \A i \in 1..n : data[i] = buffer[from + i - 1]
  BY <1>1, <1>2, <1>3, <1>4, SubSeqProperties DEF Buffers
<1>6. \A i \in 1..n : data[i] = part[i]
  BY <1>5
<1> HIDE DEF data
<1>7. data = part
  BY <1>1, <1>4, <1>6, SeqEqual DEF Buffers
<1> QED BY <1>7 DEF data

\* One and two bytes of a buffer.
LEMMA ShortSubSeq ==
  ASSUME NEW buffer \in Buffers, NEW i \in 1..Len(buffer)
  PROVE  /\ SubSeq(buffer, i, i) = <<buffer[i]>>
         /\ i < Len(buffer) => SubSeq(buffer, i, i + 1) = <<buffer[i], buffer[i + 1]>>
<1>1. \A j \in 1..Len(buffer) : buffer[j] \in Bytes
  BY DEF Buffers
<1>2. SubSeq(buffer, i, i) = <<buffer[i]>>
  <2> DEFINE s == SubSeq(buffer, i, i)
             t == <<buffer[i]>>
  <2>1. s \in Buffers /\ Len(s) = 1 /\ s[1] = buffer[i]
    BY <1>1, SubSeqProperties DEF Buffers
  <2>2. t \in Buffers /\ Len(t) = 1 /\ t[1] = buffer[i]
    BY <1>1 DEF Buffers
  <2> HIDE DEF s, t
  <2>3. s = t
    BY <2>1, <2>2, ShortEqual
  <2> QED BY <2>3 DEF s, t
<1>3. ASSUME i < Len(buffer) PROVE SubSeq(buffer, i, i + 1) = <<buffer[i], buffer[i + 1]>>
  <2> DEFINE s == SubSeq(buffer, i, i + 1)
             t == <<buffer[i], buffer[i + 1]>>
  <2>1. i + 1 \in 1..Len(buffer) /\ buffer[i] \in Bytes /\ buffer[i + 1] \in Bytes
    BY <1>1, <1>3 DEF Buffers
  <2>2. s \in Buffers /\ Len(s) = 2 /\ s[1] = buffer[i] /\ s[2] = buffer[i + 1]
    <3>1. \A j \in i..(i + 1) : buffer[j] \in Bytes
      BY <2>1
    <3>2. /\ s \in Buffers /\ Len(s) = 2
          /\ \A j \in 1..2 : s[j] = buffer[i + j - 1]
      BY <3>1, SubSeqProperties DEF Buffers
    <3> QED BY <3>2
  <2>3. t \in Buffers /\ Len(t) = 2 /\ t[1] = buffer[i] /\ t[2] = buffer[i + 1]
    BY <2>1 DEF Buffers
  <2> HIDE DEF s, t
  <2>4. s = t
    BY <2>2, <2>3, ShortEqual
  <2> QED BY <2>4 DEF s, t
<1> QED BY <1>2, <1>3
-----------------------------------------------------------------------------
\* One buffer after another.
Joined(s, t, u) == u = s \o t

After(s, t, u) ==
  /\ u \in Buffers /\ Len(s) \in Nat /\ Len(t) \in Nat /\ Len(u) = Len(s) + Len(t)
  /\ \A i \in 1..Len(s) : u[i] = s[i]
  /\ \A i \in (Len(s) + 1)..Len(u) : u[i] = t[i - Len(s)]

LEMMA Join ==
  ASSUME NEW s \in Buffers, NEW t \in Buffers, NEW u, Joined(s, t, u)
  PROVE  After(s, t, u)
<1>1. Len(s) \in Nat /\ Len(t) \in Nat
  BY DEF Buffers
<1>2. /\ u \in Buffers /\ Len(u) = Len(s) + Len(t)
      /\ \A i \in 1..(Len(s) + Len(t)) : u[i] = IF i <= Len(s) THEN s[i] ELSE t[i - Len(s)]
  <2>1. /\ s \o t \in Buffers /\ Len(s \o t) = Len(s) + Len(t)
        /\ \A i \in 1..(Len(s) + Len(t)) :
             (s \o t)[i] = IF i <= Len(s) THEN s[i] ELSE t[i - Len(s)]
    BY ConcatProperties, Zenon DEF Buffers
  <2> QED BY <2>1, Zenon DEF Joined
<1>3. \A i \in 1..Len(s) : u[i] = s[i]
  BY <1>1, <1>2
<1>4. \A i \in (Len(s) + 1)..Len(u) : u[i] = t[i - Len(s)]
  BY <1>1, <1>2
<1> QED BY <1>1, <1>2, <1>3, <1>4 DEF After

LEMMA LineEnd == CRLF \in Buffers /\ Len(CRLF) = 2 /\ CRLF[1] = "\r" /\ CRLF[2] = "\n"
<1>1. "\r" \in Bytes /\ "\n" \in Bytes
  BY RespAssumption
<1> QED BY <1>1 DEF CRLF, Buffers

\* The bytes of a reply, which come before the end of its header line.
LEMMA EncodeSimple ==
  ASSUME NEW reply \in {Status, Refusal, Missed}, NEW bytes, bytes = Encode(reply)
  PROVE  /\ bytes \in Buffers
         /\ Len(bytes) = IF reply = Missed THEN 5 ELSE 4
         /\ bytes[1] = IF reply = Status THEN "+" ELSE IF reply = Refusal THEN "-" ELSE "$"
         /\ bytes[2] = IF reply = Missed THEN "-" ELSE "t"
         /\ bytes[3] = IF reply = Missed THEN "1" ELSE "\r"
         /\ bytes[4] = IF reply = Missed THEN "\r" ELSE "\n"
         /\ reply = Missed => bytes[5] = "\n"
<1>1. Status # Refusal /\ Status # Missed /\ Refusal # Missed
  BY DEF Status, Refusal, Missed
<1>2. {"+", "-", "$", "t", "1"} \subseteq Bytes
  BY RespAssumption
<1>3. ASSUME NEW c \in {"+", "-"}, bytes = <<c>> \o <<"t">> \o CRLF
      PROVE  /\ bytes \in Buffers /\ Len(bytes) = 4
             /\ bytes[1] = c /\ bytes[2] = "t" /\ bytes[3] = "\r" /\ bytes[4] = "\n"
  <2> DEFINE first == <<c>>
             second == <<"t">>
             both == first \o second
  <2>1. /\ first \in Buffers /\ Len(first) = 1 /\ first[1] = c
        /\ second \in Buffers /\ Len(second) = 1 /\ second[1] = "t"
    BY <1>2 DEF Buffers
  <2> HIDE DEF first, second
  <2>2. Joined(first, second, both)
    BY DEF Joined
  <2>3. Joined(both, CRLF, bytes)
    BY <1>3 DEF Joined, first, second
  <2> HIDE DEF both
  <2>4. both \in Buffers /\ Len(both) = 2 /\ both[1] = c /\ both[2] = "t"
    <3>1. After(first, second, both)
      BY <2>1, <2>2, Join
    <3> QED BY <2>1, <3>1 DEF After
  <2>5. After(both, CRLF, bytes)
    BY <2>3, <2>4, LineEnd, Join
  <2> QED BY <2>4, <2>5, LineEnd DEF After
<1>4. CASE reply = Missed
  <2> DEFINE head == <<"$", "-", "1">>
  <2>1. Joined(head, CRLF, bytes)
    BY <1>4 DEF Joined, Encode, Missed
  <2>2. head \in Buffers /\ Len(head) = 3 /\ head[1] = "$" /\ head[2] = "-" /\ head[3] = "1"
    BY <1>2 DEF Buffers
  <2> HIDE DEF head
  <2>3. /\ bytes \in Buffers /\ Len(bytes) = 5 /\ bytes[1] = "$" /\ bytes[2] = "-"
        /\ bytes[3] = "1" /\ bytes[4] = "\r" /\ bytes[5] = "\n"
    <3>1. After(head, CRLF, bytes)
      BY <2>1, <2>2, LineEnd, Join
    <3> QED BY <2>2, <3>1, LineEnd DEF After
  <2> QED BY <2>3, <1>1, <1>4
<1>5. CASE reply = Status
  <2>1. bytes = <<"+">> \o <<"t">> \o CRLF
    BY <1>5 DEF Encode, Status
  <2> QED BY <1>1, <1>3, <1>5, <2>1
<1>6. CASE reply = Refusal
  <2>1. bytes = <<"-">> \o <<"t">> \o CRLF
    BY <1>6 DEF Encode, Refusal
  <2> QED BY <1>1, <1>3, <1>6, <2>1
<1> QED BY <1>4, <1>5, <1>6

\* A bulk string has its length before its bytes.
BulkBytes(payload, n, header, w, bytes) ==
  /\ bytes \in Buffers /\ Len(bytes) = w + n + 5
  /\ bytes[1] = "$" /\ \A i \in 1..w : bytes[1 + i] = header[i]
  /\ bytes[w + 2] = "\r" /\ bytes[w + 3] = "\n"
  /\ \A i \in 1..n : bytes[w + 3 + i] = payload[i]
  /\ bytes[w + n + 4] = "\r" /\ bytes[w + n + 5] = "\n"

LEMMA EncodeBulk ==
  ASSUME NEW payload \in Payloads, NEW bytes, bytes = Encode(Bulk(payload)),
         NEW w, Numeral(Len(payload), Decimal(Len(payload)), w)
  PROVE  BulkBytes(payload, Len(payload), Decimal(Len(payload)), w, bytes)
<1> DEFINE n == Len(payload)
           header == Decimal(n)
           sign == <<"$">>
           line == sign \o header
           a == line \o CRLF
           b == a \o payload
<1>1. payload \in Buffers /\ n \in Nat /\ Len(payload) = n
  BY RespAssumption DEF Buffers
<1>2. header \in Buffers /\ Len(header) = w /\ w \in Nat
  BY DEF Numeral
<1>3. /\ Joined(sign, header, line) /\ Joined(line, CRLF, a)
      /\ Joined(a, payload, b) /\ Joined(b, CRLF, bytes)
  BY DEF Joined, Encode, Bulk
<1>4. sign \in Buffers /\ Len(sign) = 1 /\ sign[1] = "$"
  BY RespAssumption DEF Buffers
<1> HIDE DEF n, header, sign
<1>5. /\ line \in Buffers /\ Len(line) = w + 1 /\ line[1] = "$"
      /\ \A i \in 1..w : line[1 + i] = header[i]
  <2>1. After(sign, header, line)
    BY <1>2, <1>3, <1>4, Join
  <2>2. /\ line \in Buffers /\ Len(line) = w + 1 /\ line[1] = "$"
        /\ \A i \in (1 + 1)..(w + 1) : line[i] = header[i - 1]
    BY <1>2, <1>4, <2>1 DEF After
  <2>3. ASSUME NEW i \in 1..w PROVE line[1 + i] = header[i]
    <3>1. 1 + i \in (1 + 1)..(w + 1) /\ (1 + i) - 1 = i
      BY <1>2
    <3> QED BY <2>2, <3>1
  <2> QED BY <2>2, <2>3
<1> HIDE DEF line
<1>6. /\ a \in Buffers /\ Len(a) = w + 3
      /\ \A i \in 1..(w + 1) : a[i] = line[i]
      /\ a[w + 2] = "\r" /\ a[w + 3] = "\n"
  <2>1. After(line, CRLF, a)
    BY <1>3, <1>5, LineEnd, Join
  <2>2. /\ a \in Buffers /\ Len(a) = w + 3
        /\ \A i \in 1..(w + 1) : a[i] = line[i]
        /\ \A i \in (w + 2)..(w + 3) : a[i] = CRLF[i - (w + 1)]
    BY <1>2, <1>5, <2>1, LineEnd DEF After
  <2>3. /\ w + 2 \in (w + 2)..(w + 3) /\ w + 3 \in (w + 2)..(w + 3)
        /\ (w + 2) - (w + 1) = 1 /\ (w + 3) - (w + 1) = 2
    BY <1>2
  <2> QED BY <2>2, <2>3, LineEnd
<1> HIDE DEF a
<1>7. /\ b \in Buffers /\ Len(b) = w + 3 + n
      /\ \A i \in 1..(w + 3) : b[i] = a[i]
      /\ \A i \in 1..n : b[w + 3 + i] = payload[i]
  <2>1. After(a, payload, b)
    BY <1>1, <1>3, <1>6, Join
  <2>2. /\ b \in Buffers /\ Len(b) = w + 3 + n
        /\ \A i \in 1..(w + 3) : b[i] = a[i]
        /\ \A i \in (w + 3 + 1)..(w + 3 + n) : b[i] = payload[i - (w + 3)]
    BY <1>1, <1>6, <2>1 DEF After
  <2>3. ASSUME NEW i \in 1..n PROVE b[w + 3 + i] = payload[i]
    <3>1. w + 3 + i \in (w + 3 + 1)..(w + 3 + n) /\ (w + 3 + i) - (w + 3) = i
      BY <1>1, <1>2
    <3> QED BY <2>2, <3>1
  <2> QED BY <2>2, <2>3
<1> HIDE DEF b
<1>8. /\ bytes \in Buffers /\ Len(bytes) = w + n + 5
      /\ \A i \in 1..(w + 3 + n) : bytes[i] = b[i]
      /\ bytes[w + n + 4] = "\r" /\ bytes[w + n + 5] = "\n"
  <2>1. After(b, CRLF, bytes)
    BY <1>3, <1>7, LineEnd, Join
  <2>2. /\ bytes \in Buffers /\ Len(bytes) = w + n + 5
        /\ \A i \in 1..(w + 3 + n) : bytes[i] = b[i]
        /\ \A i \in (w + n + 4)..(w + n + 5) : bytes[i] = CRLF[i - (w + 3 + n)]
    BY <1>1, <1>2, <1>7, <2>1, LineEnd DEF After
  <2>3. /\ w + n + 4 \in (w + n + 4)..(w + n + 5) /\ w + n + 5 \in (w + n + 4)..(w + n + 5)
        /\ (w + n + 4) - (w + 3 + n) = 1 /\ (w + n + 5) - (w + 3 + n) = 2
    BY <1>1, <1>2
  <2> QED BY <2>2, <2>3, LineEnd
<1>9. \A i \in 1..(w + 3) : bytes[i] = a[i]
  <2>1. \A i \in 1..(w + 3) : i \in 1..(w + 3 + n)
    BY <1>1, <1>2
  <2> QED BY <1>7, <1>8, <2>1
<1>10. \A i \in 1..n : bytes[w + 3 + i] = payload[i]
  <2>1. \A i \in 1..n : w + 3 + i \in 1..(w + 3 + n)
    BY <1>1, <1>2
  <2> QED BY <1>7, <1>8, <2>1
<1>11. bytes[1] = "$" /\ \A i \in 1..w : bytes[1 + i] = header[i]
  <2>1. 1 \in 1..(w + 1) /\ 1 \in 1..(w + 3)
    BY <1>2
  <2>2. \A i \in 1..w : 1 + i \in 1..(w + 1) /\ 1 + i \in 1..(w + 3)
    BY <1>2
  <2> QED BY <1>5, <1>6, <1>9, <2>1, <2>2
<1>12. bytes[w + 2] = "\r" /\ bytes[w + 3] = "\n"
  <2>1. w + 2 \in 1..(w + 3) /\ w + 3 \in 1..(w + 3)
    BY <1>2
  <2> QED BY <1>6, <1>9, <2>1
<1> QED BY <1>8, <1>10, <1>11, <1>12 DEF BulkBytes, n, header
-----------------------------------------------------------------------------
\* Where the header line ends, if it has.
LEMMA HeaderEnds ==
  ASSUME NEW buffer \in Buffers, NEW at \in Nat \ {0}, NEW n \in Nat \ {0},
         \A i \in at..(at + n - 1) : i <= Len(buffer) => buffer[i] # "\r"
  PROVE  /\ Len(buffer) < at + n + 1 => LineEnds(buffer, at) = {}
         /\ at + n + 1 <= Len(buffer) /\ buffer[at + n] = "\r" /\ buffer[at + n + 1] = "\n"
              => LineEnds(buffer, at) # {} /\ Min(LineEnds(buffer, at)) = at + n
<1>1. /\ Len(buffer) \in Nat
      /\ \A i : i \in LineEnds(buffer, at) <=>
           /\ i \in at..(Len(buffer) - 1) /\ buffer[i] = "\r" /\ buffer[i + 1] = "\n"
  BY LineEndsFacts DEF Buffers
<1>2. ASSUME NEW i, i \in LineEnds(buffer, at)
      PROVE  i \in Nat /\ at + n <= i /\ i + 1 <= Len(buffer)
  <2>1. i \in at..(Len(buffer) - 1) /\ buffer[i] = "\r"
    BY <1>1, <1>2
  <2>2. i \in Nat /\ at <= i /\ i + 1 <= Len(buffer)
    BY <1>1, <2>1
  <2>3. ~(i <= at + n - 1)
    BY <2>1, <2>2
  <2> QED BY <2>2, <2>3
<1>3. ASSUME Len(buffer) < at + n + 1 PROVE LineEnds(buffer, at) = {}
  BY <1>1, <1>2, <1>3
<1>4. ASSUME at + n + 1 <= Len(buffer), buffer[at + n] = "\r", buffer[at + n + 1] = "\n"
      PROVE  LineEnds(buffer, at) # {} /\ Min(LineEnds(buffer, at)) = at + n
  <2>1. at + n \in LineEnds(buffer, at)
    BY <1>1, <1>4
  <2> QED BY <1>2, <2>1, MinFacts
<1> QED BY <1>3, <1>4

\* The decoder's result on a buffer that has a whole header line.
LEMMA ParseLine ==
  ASSUME NEW buffer \in Buffers, NEW at \in Nat \ {0}, NEW n \in Nat \ {0},
         at + n + 1 <= Len(buffer), LineEnds(buffer, at) # {},
         Min(LineEnds(buffer, at)) = at + n
  PROVE  ParseResp(buffer, at) =
           Decoded(buffer, buffer[at], SubSeq(buffer, at + 1, at + n - 1), at + n + 2)
<1>1. ~(at > Len(buffer) \/ LineEnds(buffer, at) = {})
  BY DEF Buffers
<1> QED BY <1>1 DEF ParseResp

\* A reply of one line.
LEMMA ParseSimple ==
  ASSUME NEW buffer \in Buffers, NEW at \in Nat \ {0},
         NEW reply \in {Status, Refusal, Missed}, NEW bytes, bytes = Encode(reply)
  PROVE  /\ Whole(buffer, at, bytes) =>
              ParseResp(buffer, at) = [reply |-> reply, next |-> at + Len(bytes)]
         /\ Cut(buffer, at, bytes) => ParseResp(buffer, at) = Incomplete
<1> DEFINE n == IF reply = Missed THEN 3 ELSE 2
<1>0. /\ Status # Refusal /\ Status # Missed /\ Refusal # Missed
      /\ Len(buffer) \in Nat /\ n \in {2, 3} /\ n \in Nat \ {0} /\ (reply = Missed <=> n = 3)
  BY DEF Status, Refusal, Missed, Buffers
<1>1. Len(bytes) = n + 2
  BY EncodeSimple
<1>2. /\ \A i \in 1..n : bytes[i] # "\r"
      /\ bytes[n + 1] = "\r" /\ bytes[n + 2] = "\n"
  BY EncodeSimple, <1>0, <1>1
<1> HIDE DEF n
<1>3. ASSUME Whole(buffer, at, bytes)
      PROVE  ParseResp(buffer, at) = [reply |-> reply, next |-> at + Len(bytes)]
  <2>1. /\ at + n + 1 <= Len(buffer)
        /\ \A i \in at..(at + n + 1) : buffer[i] = bytes[i - at + 1]
    <3>1. at + Len(bytes) = at + n + 2 /\ (at + n + 2) - 1 = at + n + 1
      BY <1>0, <1>1
    <3>2. /\ at + n + 2 <= Len(buffer) + 1
          /\ \A i \in at..((at + n + 2) - 1) : buffer[i] = bytes[i - at + 1]
      BY <1>3, <3>1 DEF Whole
    <3> QED BY <1>0, <3>1, <3>2
  <2>2. ASSUME NEW i \in at..(at + n - 1) PROVE buffer[i] # "\r"
    <3>1. i \in at..(at + n + 1) /\ i - at + 1 \in 1..n
      BY <1>0, <1>1
    <3>2. buffer[i] = bytes[i - at + 1]
      BY <2>1, <3>1
    <3> QED BY <1>2, <3>1, <3>2
  <2>3. buffer[at + n] = "\r" /\ buffer[at + n + 1] = "\n"
    BY <1>0, <1>1, <1>2, <2>1
  <2>4. LineEnds(buffer, at) # {} /\ Min(LineEnds(buffer, at)) = at + n
    BY <1>0, <1>1, <2>1, <2>2, <2>3, HeaderEnds
  <2>5. ParseResp(buffer, at) =
          Decoded(buffer, buffer[at], SubSeq(buffer, at + 1, at + n - 1), at + n + 2)
    BY <1>0, <1>1, <2>1, <2>4, ParseLine
  <2>6. buffer[at] = bytes[1] /\ buffer[at + 1] = bytes[2]
    <3>1. at \in at..(at + n + 1) /\ at + 1 \in at..(at + n + 1)
      BY <1>0
    <3>2. at - at + 1 = 1 /\ (at + 1) - at + 1 = 2
      OBVIOUS
    <3> QED BY <2>1, <3>1, <3>2
  <2>7. CASE reply = Missed
    <3>1. SubSeq(buffer, at + 1, at + n - 1) = <<"-", "1">>
      <4>1. at + n - 1 = (at + 1) + 1 /\ at + 1 \in 1..Len(buffer) /\ at + 1 < Len(buffer)
        BY <1>0, <1>1, <2>1, <2>7
      <4>2. buffer[at + 1] = "-" /\ buffer[(at + 1) + 1] = "1"
        BY <1>0, <1>1, <2>1, <2>7, EncodeSimple
      <4> QED BY <4>1, <4>2, ShortSubSeq
    <3>2. buffer[at] = "$" /\ at + n + 2 = at + Len(bytes)
      BY <1>0, <1>1, <2>6, <2>7, EncodeSimple
    <3> QED BY <2>5, <2>7, <3>1, <3>2 DEF Decoded
  <2>8. CASE reply # Missed
    <3>1. SubSeq(buffer, at + 1, at + n - 1) = <<"t">>
      <4>1. at + n - 1 = at + 1 /\ at + 1 \in 1..Len(buffer)
        BY <1>0, <1>1, <2>1, <2>8
      <4>2. buffer[at + 1] = "t"
        BY <2>6, <2>8, EncodeSimple
      <4> QED BY <4>1, <4>2, ShortSubSeq
    <3>2. /\ buffer[at] = IF reply = Status THEN "+" ELSE "-"
          /\ at + n + 2 = at + Len(bytes)
      BY <1>0, <1>1, <2>6, <2>8, EncodeSimple
    <3> QED BY <1>0, <1>1, <2>5, <2>8, <3>1, <3>2 DEF Decoded, Status, Refusal
  <2> QED BY <2>7, <2>8
<1>4. ASSUME Cut(buffer, at, bytes) PROVE ParseResp(buffer, at) = Incomplete
  <2>1. /\ Len(buffer) < at + n + 1
        /\ \A i \in at..Len(buffer) : buffer[i] = bytes[i - at + 1]
    BY <1>0, <1>1, <1>4 DEF Cut
  <2>2. \A i \in at..(at + n - 1) : i <= Len(buffer) => buffer[i] # "\r"
    BY <1>0, <1>1, <1>2, <2>1
  <2>3. LineEnds(buffer, at) = {}
    BY <1>0, <1>1, <2>1, <2>2, HeaderEnds
  <2> QED BY <2>3 DEF ParseResp
<1> QED BY <1>3, <1>4

\* A bulk string, whose header announces its length.
LEMMA ParseBulk ==
  ASSUME NEW buffer \in Buffers, NEW at \in Nat \ {0},
         NEW payload \in Payloads, NEW bytes, bytes = Encode(Bulk(payload))
  PROVE  /\ Whole(buffer, at, bytes) =>
              ParseResp(buffer, at) = [reply |-> Bulk(payload), next |-> at + Len(bytes)]
         /\ Cut(buffer, at, bytes) => ParseResp(buffer, at) = Incomplete
<1> DEFINE n == Len(payload)
           header == Decimal(n)
<1>0. Len(buffer) \in Nat /\ n \in Nat /\ payload \in Buffers
  BY RespAssumption DEF Buffers
<1>1. PICK w : Numeral(n, header, w)
  BY <1>0, DecimalFacts
<1>2. /\ w \in Nat \ {0} /\ header \in Buffers /\ Len(header) = w
      /\ \A i \in 1..w : header[i] # "\r"
  BY <1>1 DEF Numeral
<1>3. BulkBytes(payload, n, header, w, bytes)
  BY <1>1, EncodeBulk
<1>4. Size(header) = n /\ header # <<"-", "1">>
  BY <1>0, <1>1, Announced
<1>5. Len(payload) = n
  OBVIOUS
<1> HIDE DEF n, header
<1>6. /\ bytes \in Buffers /\ Len(bytes) = w + n + 5 /\ bytes[1] = "$"
      /\ \A i \in 1..w : bytes[1 + i] = header[i]
      /\ bytes[w + 2] = "\r" /\ bytes[w + 3] = "\n"
      /\ \A i \in 1..n : bytes[w + 3 + i] = payload[i]
  BY <1>3 DEF BulkBytes
<1>7. ASSUME NEW i \in 1..(w + 1) PROVE bytes[i] # "\r"
  <2>1. CASE i = 1
    BY <1>6, <2>1
  <2>2. CASE i # 1
    <3>1. i - 1 \in 1..w /\ 1 + (i - 1) = i
      BY <1>2, <2>2
    <3>2. bytes[1 + (i - 1)] = header[i - 1]
      BY <1>6, <3>1
    <3> QED BY <1>2, <3>1, <3>2
  <2> QED BY <2>1, <2>2
<1>8. \* The whole header line.
      ASSUME at + w + 2 <= Len(buffer),
             \A i \in at..(at + w + 2) : buffer[i] = bytes[i - at + 1]
      PROVE  ParseResp(buffer, at) = Sized(buffer, at + w + 3, n)
  <2>1. ASSUME NEW k \in 1..(w + 3) PROVE buffer[at + k - 1] = bytes[k]
    <3>1. at + k - 1 \in at..(at + w + 2) /\ (at + k - 1) - at + 1 = k
      BY <1>2
    <3> QED BY <1>8, <3>1
  <2>2. buffer[at] = "$" /\ buffer[at + (w + 1)] = "\r" /\ buffer[at + (w + 1) + 1] = "\n"
    <3>1. /\ 1 \in 1..(w + 3) /\ w + 2 \in 1..(w + 3) /\ w + 3 \in 1..(w + 3)
          /\ at + 1 - 1 = at /\ at + (w + 2) - 1 = at + (w + 1)
          /\ at + (w + 3) - 1 = at + (w + 1) + 1
      BY <1>2
    <3> QED BY <1>6, <2>1, <3>1
  <2>3. ASSUME NEW i \in at..(at + (w + 1) - 1) PROVE buffer[i] # "\r"
    <3>1. i - at + 1 \in 1..(w + 1) /\ i - at + 1 \in 1..(w + 3)
          /\ at + (i - at + 1) - 1 = i
      BY <1>2
    <3>2. buffer[i] = bytes[i - at + 1]
      BY <2>1, <3>1
    <3> QED BY <1>7, <3>1, <3>2
  <2>4. w + 1 \in Nat \ {0} /\ at + (w + 1) + 1 <= Len(buffer)
    BY <1>0, <1>2, <1>8
  <2>5. LineEnds(buffer, at) # {} /\ Min(LineEnds(buffer, at)) = at + (w + 1)
    BY <2>2, <2>3, <2>4, HeaderEnds
  <2>6. ParseResp(buffer, at) =
          Decoded(buffer, buffer[at], SubSeq(buffer, at + 1, at + (w + 1) - 1), at + (w + 1) + 2)
    BY <2>4, <2>5, ParseLine
  <2>7. SubSeq(buffer, at + 1, at + (w + 1) - 1) = header
    <3>1. ASSUME NEW i \in 1..w PROVE buffer[(at + 1) + i - 1] = header[i]
      <4>1. 1 + i \in 1..(w + 3) /\ at + (1 + i) - 1 = (at + 1) + i - 1
        BY <1>2
      <4>2. buffer[at + (1 + i) - 1] = bytes[1 + i]
        BY <2>1, <4>1
      <4> QED BY <1>6, <4>1, <4>2
    <3>2. at + 1 \in Nat \ {0} /\ (at + 1) + w <= Len(buffer) + 1
          /\ at + (w + 1) - 1 = (at + 1) + w - 1
      BY <1>0, <1>2, <1>8
    <3>3. SubSeq(buffer, at + 1, (at + 1) + w - 1) = header
      BY <1>2, <3>1, <3>2, SubSeqIs
    <3> QED BY <3>2, <3>3
  <2>8. Decoded(buffer, "$", header, at + w + 3) = Sized(buffer, at + w + 3, n)
    BY <1>4 DEF Decoded
  <2>9. at + (w + 1) + 2 = at + w + 3
    BY <1>2
  <2> QED BY <2>2, <2>6, <2>7, <2>8, <2>9
<1>9. ASSUME Whole(buffer, at, bytes)
      PROVE  ParseResp(buffer, at) = [reply |-> Bulk(payload), next |-> at + Len(bytes)]
  <2>1. /\ at + w + n + 4 <= Len(buffer)
        /\ \A i \in at..(at + w + n + 4) : buffer[i] = bytes[i - at + 1]
    <3>1. at + Len(bytes) = at + w + n + 5 /\ (at + w + n + 5) - 1 = at + w + n + 4
      BY <1>0, <1>2, <1>6
    <3>2. /\ at + w + n + 5 <= Len(buffer) + 1
          /\ \A i \in at..((at + w + n + 5) - 1) : buffer[i] = bytes[i - at + 1]
      BY <1>9, <3>1 DEF Whole
    <3> QED BY <1>0, <1>2, <3>1, <3>2
  <2>2. ParseResp(buffer, at) = Sized(buffer, at + w + 3, n)
    <3>1. at + w + 2 <= Len(buffer)
      BY <1>0, <1>2, <2>1
    <3>2. \A i \in at..(at + w + 2) : i \in at..(at + w + n + 4)
      BY <1>0, <1>2
    <3> QED BY <1>8, <2>1, <3>1, <3>2
  <2> DEFINE start == at + w + 3
  <2>3. SubSeq(buffer, start, start + n - 1) = payload
    <3>1. ASSUME NEW i \in 1..n PROVE buffer[start + i - 1] = payload[i]
      <4>1. /\ start + i - 1 \in at..(at + w + n + 4)
            /\ (start + i - 1) - at + 1 = w + 3 + i
        BY <1>0, <1>2
      <4>2. buffer[start + i - 1] = bytes[w + 3 + i]
        BY <2>1, <4>1
      <4> QED BY <1>6, <4>2
    <3>2. start \in Nat \ {0} /\ start + n <= Len(buffer) + 1
      BY <1>0, <1>2, <2>1
    <3> HIDE DEF start
    <3> QED BY <1>0, <1>5, <3>1, <3>2, SubSeqIs
  <2>4. ~(Len(buffer) < start + n + 1) /\ start + n + 2 = at + Len(bytes)
    BY <1>0, <1>2, <1>6, <2>1
  <2>5. ParseResp(buffer, at) = Sized(buffer, start, n)
    BY <2>2
  <2> HIDE DEF start
  <2> QED BY <2>3, <2>4, <2>5 DEF Sized
<1>10. ASSUME Cut(buffer, at, bytes) PROVE ParseResp(buffer, at) = Incomplete
  <2>1. /\ Len(buffer) < at + w + n + 4
        /\ \A i \in at..Len(buffer) : buffer[i] = bytes[i - at + 1]
    BY <1>0, <1>2, <1>6, <1>10 DEF Cut
  <2>2. CASE at + w + 2 <= Len(buffer)
    <3>1. \A i \in at..(at + w + 2) : buffer[i] = bytes[i - at + 1]
      <4>1. \A i \in at..(at + w + 2) : i \in at..Len(buffer)
        BY <1>0, <1>2, <2>2
      <4> QED BY <2>1, <4>1
    <3>2. ParseResp(buffer, at) = Sized(buffer, at + w + 3, n)
      BY <1>8, <2>2, <3>1
    <3>3. Len(buffer) < (at + w + 3) + n + 1
      BY <1>0, <1>2, <2>1
    <3> QED BY <3>2, <3>3 DEF Sized
  <2>3. CASE Len(buffer) < at + w + 2
    <3>1. ASSUME NEW i \in at..(at + (w + 1) - 1), i <= Len(buffer) PROVE buffer[i] # "\r"
      <4>1. i \in at..Len(buffer) /\ i - at + 1 \in 1..(w + 1)
        BY <1>0, <1>2, <3>1
      <4> QED BY <1>7, <2>1, <4>1
    <3>2. w + 1 \in Nat \ {0} /\ Len(buffer) < at + (w + 1) + 1
      BY <1>0, <1>2, <2>3
    <3>3. LineEnds(buffer, at) = {}
      BY <3>1, <3>2, HeaderEnds
    <3> QED BY <3>3 DEF ParseResp
  <2> QED BY <1>0, <1>2, <2>2, <2>3
<1> QED BY <1>9, <1>10

\* Whole or cut, and whatever follows it, a reply is decoded as itself.
LEMMA EncodeReply ==
  ASSUME NEW reply \in Replies
  PROVE  Encode(reply) \in Buffers /\ Len(Encode(reply)) \in Nat \ {0}
<1> DEFINE bytes == Encode(reply)
<1>0. bytes = Encode(reply)
  OBVIOUS
<1> HIDE DEF bytes
<1>1. CASE reply \in {Status, Refusal, Missed}
  <2>1. bytes \in Buffers /\ Len(bytes) \in {4, 5}
    BY <1>0, <1>1, EncodeSimple
  <2> QED BY <2>1 DEF bytes
<1>2. CASE \E payload \in Payloads : reply = Bulk(payload)
  <2>1. PICK payload \in Payloads : reply = Bulk(payload)
    BY <1>2
  <2> DEFINE n == Len(payload)
  <2>2. n \in Nat /\ bytes = Encode(Bulk(payload))
    BY <1>0, <2>1, RespAssumption
  <2>3. PICK w : Numeral(n, Decimal(n), w)
    BY <2>2, DecimalFacts
  <2>4. BulkBytes(payload, n, Decimal(n), w, bytes) /\ w \in Nat
    BY <2>2, <2>3, EncodeBulk DEF Numeral
  <2> HIDE DEF n
  <2>5. bytes \in Buffers /\ Len(bytes) \in Nat \ {0}
    BY <2>2, <2>4 DEF BulkBytes
  <2> QED BY <2>5 DEF bytes
<1> QED BY <1>1, <1>2 DEF Replies

LEMMA ParseReply ==
  ASSUME NEW buffer \in Buffers, NEW at \in Nat \ {0},
         NEW reply \in Replies, NEW bytes, bytes = Encode(reply)
  PROVE  /\ Whole(buffer, at, bytes) =>
              ParseResp(buffer, at) = [reply |-> reply, next |-> at + Len(bytes)]
         /\ Cut(buffer, at, bytes) => ParseResp(buffer, at) = Incomplete
<1>1. CASE reply \in {Status, Refusal, Missed}
  BY <1>1, ParseSimple
<1>2. CASE \E payload \in Payloads : reply = Bulk(payload)
  <2>1. PICK payload \in Payloads : reply = Bulk(payload)
    BY <1>2
  <2> QED BY <2>1, ParseBulk
<1> QED BY <1>1, <1>2 DEF Replies
-----------------------------------------------------------------------------
(* The stream.                                                                 *)

\* Where the bytes of a reply start, of at most three.
Place(sequence, i) ==
  1 + (IF i > 1 THEN Len(Part(sequence, 1)) ELSE 0)
    + (IF i > 2 THEN Len(Part(sequence, 2)) ELSE 0)
    + (IF i > 3 THEN Len(Part(sequence, 3)) ELSE 0)

LEMMA PartFacts ==
  ASSUME NEW sequence \in Seq(Replies), NEW i \in Nat \ {0}
  PROVE  /\ Part(sequence, i) \in Buffers /\ Len(Part(sequence, i)) \in Nat
         /\ i <= Len(sequence) =>
              /\ sequence[i] \in Replies
              /\ Part(sequence, i) = Encode(sequence[i])
              /\ Len(Part(sequence, i)) > 0
         /\ i > Len(sequence) => Len(Part(sequence, i)) = 0
<1>1. CASE i <= Len(sequence)
  <2>1. i \in DOMAIN sequence /\ sequence[i] \in Replies
    BY <1>1
  <2>2. Encode(sequence[i]) \in Buffers /\ Len(Encode(sequence[i])) \in Nat \ {0}
    BY <2>1, EncodeReply
  <2>3. Part(sequence, i) = Encode(sequence[i])
    BY <2>1 DEF Part
  <2> QED BY <1>1, <2>1, <2>2, <2>3
<1>2. CASE i > Len(sequence)
  <2>1. i \notin DOMAIN sequence
    BY <1>2
  <2>2. Part(sequence, i) = <<>>
    BY <2>1 DEF Part
  <2> QED BY <1>2, <2>2 DEF Buffers
<1> QED BY <1>1, <1>2

LEMMA PlaceFacts ==
  ASSUME NEW sequence \in Seq(Replies), Len(sequence) <= 3
  PROVE  /\ Place(sequence, 1) = 1
         /\ \A i \in 1..4 : Place(sequence, i) \in Nat \ {0}
         /\ \A i \in 1..3 : Place(sequence, i + 1) = Place(sequence, i) + Len(Part(sequence, i))
         /\ \A i \in 1..4 : i > Len(sequence) => Place(sequence, i) = Place(sequence, 4)
         /\ \A i \in 1..4 : Place(sequence, i) <= Place(sequence, 4)
<1> DEFINE a == Len(Part(sequence, 1))
           b == Len(Part(sequence, 2))
           c == Len(Part(sequence, 3))
<1>1. a \in Nat /\ b \in Nat /\ c \in Nat
  BY PartFacts
<1>2. /\ 1 > Len(sequence) => a = 0
      /\ 2 > Len(sequence) => b = 0
      /\ 3 > Len(sequence) => c = 0
  BY PartFacts
<1>3. /\ Place(sequence, 1) = 1 /\ Place(sequence, 2) = 1 + a
      /\ Place(sequence, 3) = 1 + a + b /\ Place(sequence, 4) = 1 + a + b + c
  BY <1>1 DEF Place
<1> HIDE DEF a, b, c
<1>4. \A i \in 1..4 : Place(sequence, i) \in Nat \ {0}
  BY <1>1, <1>3
<1>5. \A i \in 1..3 : Place(sequence, i + 1) = Place(sequence, i) + Len(Part(sequence, i))
  <2>1. /\ Place(sequence, 1 + 1) = Place(sequence, 1) + Len(Part(sequence, 1))
        /\ Place(sequence, 2 + 1) = Place(sequence, 2) + Len(Part(sequence, 2))
        /\ Place(sequence, 3 + 1) = Place(sequence, 3) + Len(Part(sequence, 3))
    BY <1>1, <1>3 DEF a, b, c
  <2>2. \A i \in 1..3 : i = 1 \/ i = 2 \/ i = 3
    OBVIOUS
  <2> QED BY <2>1, <2>2
<1>6. \A i \in 1..4 : i > Len(sequence) => Place(sequence, i) = Place(sequence, 4)
  <2>1. \A i \in 1..4 : i = 1 \/ i = 2 \/ i = 3 \/ i = 4
    OBVIOUS
  <2> QED BY <1>1, <1>2, <1>3, <2>1
<1>7. \A i \in 1..4 : Place(sequence, i) <= Place(sequence, 4)
  <2>1. \A i \in 1..4 : i = 1 \/ i = 2 \/ i = 3 \/ i = 4
    OBVIOUS
  <2> QED BY <1>1, <1>3, <2>1
<1> QED BY <1>3, <1>4, <1>5, <1>6, <1>7

\* The bytes of every reply are at its place.
LEMMA StreamHolds ==
  ASSUME NEW sequence \in Seq(Replies), Len(sequence) <= 3
  PROVE  /\ Stream(sequence) \in Buffers
         /\ Len(Stream(sequence)) = Place(sequence, 4) - 1
         /\ \A i \in 1..3 : \A j \in Place(sequence, i)..(Place(sequence, i + 1) - 1) :
              Stream(sequence)[j] = Part(sequence, i)[j - Place(sequence, i) + 1]
<1> DEFINE p == Part(sequence, 1)
           q == Part(sequence, 2)
           r == Part(sequence, 3)
           u == p \o q
           s == Stream(sequence)
<1>1. p \in Buffers /\ q \in Buffers /\ r \in Buffers
  BY PartFacts
<1>2. Joined(p, q, u) /\ Joined(u, r, s)
  BY DEF Joined, Stream
<1>3. /\ Place(sequence, 1) = 1
      /\ Place(sequence, 2) = Place(sequence, 1) + Len(p)
      /\ Place(sequence, 3) = Place(sequence, 2) + Len(q)
      /\ Place(sequence, 4) = Place(sequence, 3) + Len(r)
  <2>1. /\ Place(sequence, 1) = 1
        /\ \A i \in 1..3 : Place(sequence, i + 1) = Place(sequence, i) + Len(Part(sequence, i))
    BY PlaceFacts
  <2>2. 1 + 1 = 2 /\ 2 + 1 = 3 /\ 3 + 1 = 4 /\ 1 \in 1..3 /\ 2 \in 1..3 /\ 3 \in 1..3
    OBVIOUS
  <2> QED BY <2>1, <2>2
<1> HIDE DEF u, s, p, q, r
<1>4. After(p, q, u)
  BY <1>1, <1>2, Join
<1>5. u \in Buffers
  BY <1>4 DEF After
<1>6. After(u, r, s)
  BY <1>1, <1>2, <1>5, Join
<1> DEFINE a == Len(p)
           b == Len(q)
           c == Len(r)
<1>7. /\ a \in Nat /\ b \in Nat /\ c \in Nat /\ Len(u) = a + b /\ Len(s) = a + b + c
      /\ s \in Buffers
  BY <1>4, <1>6 DEF After
<1>8. /\ \A j \in 1..a : s[j] = p[j]
      /\ \A j \in (a + 1)..(a + b) : s[j] = q[j - a]
      /\ \A j \in (a + b + 1)..(a + b + c) : s[j] = r[j - (a + b)]
  <2>1. \A j \in 1..a : s[j] = p[j]
    BY <1>4, <1>6, <1>7 DEF After
  <2>2. \A j \in (a + 1)..(a + b) : s[j] = q[j - a]
    BY <1>4, <1>6, <1>7 DEF After
  <2>3. \A j \in (a + b + 1)..(a + b + c) : s[j] = r[j - (a + b)]
    BY <1>4, <1>6, <1>7 DEF After
  <2> QED BY <2>1, <2>2, <2>3
<1>9. /\ Place(sequence, 1) = 1 /\ Place(sequence, 2) = 1 + a
      /\ Place(sequence, 3) = 1 + a + b /\ Place(sequence, 4) = 1 + a + b + c
  BY <1>3, <1>7
<1> HIDE DEF a, b, c
<1>10. \A j \in Place(sequence, 1)..(Place(sequence, 1 + 1) - 1) :
         s[j] = p[j - Place(sequence, 1) + 1]
  <2> TAKE j \in Place(sequence, 1)..(Place(sequence, 1 + 1) - 1)
  <2>1. j \in 1..a /\ j - Place(sequence, 1) + 1 = j
    BY <1>7, <1>9
  <2> QED BY <1>8, <2>1
<1>11. \A j \in Place(sequence, 2)..(Place(sequence, 2 + 1) - 1) :
         s[j] = q[j - Place(sequence, 2) + 1]
  <2> TAKE j \in Place(sequence, 2)..(Place(sequence, 2 + 1) - 1)
  <2>1. j \in (a + 1)..(a + b) /\ j - Place(sequence, 2) + 1 = j - a
    BY <1>7, <1>9
  <2> QED BY <1>8, <2>1
<1>12. \A j \in Place(sequence, 3)..(Place(sequence, 3 + 1) - 1) :
         s[j] = r[j - Place(sequence, 3) + 1]
  <2> TAKE j \in Place(sequence, 3)..(Place(sequence, 3 + 1) - 1)
  <2>1. j \in (a + b + 1)..(a + b + c) /\ j - Place(sequence, 3) + 1 = j - (a + b)
    BY <1>7, <1>9
  <2> QED BY <1>8, <2>1
<1>13. \A i \in 1..3 : \A j \in Place(sequence, i)..(Place(sequence, i + 1) - 1) :
         s[j] = Part(sequence, i)[j - Place(sequence, i) + 1]
  <2>1. \A i \in 1..3 : i = 1 \/ i = 2 \/ i = 3
    OBVIOUS
  <2> QED BY <1>10, <1>11, <1>12, <2>1 DEF p, q, r
<1>14. Len(s) = Place(sequence, 4) - 1
  BY <1>7, <1>9
<1> QED BY <1>7, <1>13, <1>14 DEF s

\* What the client decodes when so many bytes of the stream have reached it.
LEMMA Decode ==
  ASSUME NEW sequence \in Seq(Replies), Len(sequence) <= 3,
         NEW n \in 0..Len(Stream(sequence)), NEW i \in 1..4, i <= Len(sequence) + 1
  PROVE  ParseResp(SubSeq(Stream(sequence), 1, n), Place(sequence, i)) =
           IF i <= Len(sequence) /\ Place(sequence, i + 1) <= n + 1
           THEN [reply |-> sequence[i], next |-> Place(sequence, i + 1)]
           ELSE Incomplete
<1> DEFINE s == Stream(sequence)
           buffer == SubSeq(s, 1, n)
           at == Place(sequence, i)
<1>0. Len(sequence) \in Nat
  OBVIOUS
<1>1. /\ s \in Buffers /\ Len(s) = Place(sequence, 4) - 1 /\ Len(s) \in Nat
      /\ at \in Nat \ {0} /\ Place(sequence, 4) \in Nat \ {0}
  <2>1. \A j \in 1..4 : Place(sequence, j) \in Nat \ {0}
    BY PlaceFacts
  <2>2. 4 \in 1..4
    OBVIOUS
  <2>3. at \in Nat \ {0} /\ Place(sequence, 4) \in Nat \ {0}
    BY <2>1, <2>2
  <2>4. s \in Buffers /\ Len(s) = Place(sequence, 4) - 1
    BY StreamHolds
  <2>5. Len(s) \in Nat
    BY <2>3, <2>4
  <2> QED BY <2>3, <2>4, <2>5
<1> HIDE DEF s
<1>2. /\ buffer \in Buffers /\ Len(buffer) = n
      /\ \A j \in 1..n : buffer[j] = s[j]
  <2>1. n \in Nat /\ n <= Len(s)
    BY <1>1 DEF s
  <2>2. \A j \in 1..n : s[j] \in Bytes
    BY <1>1, <2>1 DEF Buffers
  <2>3. buffer \in Seq(Bytes) /\ Len(buffer) = n
    BY <2>1, <2>2, SubSeqProperties
  <2>4. \A j \in 1..n : buffer[j] = s[1 + j - 1]
    BY <2>1, <2>2, <2>3, SubSeqProperties
  <2>5. \A j \in 1..n : 1 + j - 1 = j
    OBVIOUS
  <2> QED BY <2>3, <2>4, <2>5 DEF Buffers
<1> HIDE DEF buffer, at
<1>3. CASE i > Len(sequence)
  <2>1. at > Len(buffer)
    <3>1. at = Place(sequence, 4)
      BY <1>3, PlaceFacts DEF at
    <3> QED BY <1>1, <1>2, <3>1 DEF s
  <2>2. ParseResp(buffer, at) = Incomplete
    BY <2>1 DEF ParseResp
  <2>3. ~(i <= Len(sequence))
    BY <1>0, <1>3
  <2> QED BY <2>2, <2>3 DEF buffer, at, s
<1>4. CASE i <= Len(sequence)
  <2> DEFINE bytes == Encode(sequence[i])
  <2>1. /\ i \in 1..3 /\ sequence[i] \in Replies /\ bytes = Part(sequence, i)
        /\ bytes = Encode(sequence[i])
    <3>1. i \in 1..3
      BY <1>4
    <3> QED BY <1>4, <3>1, PartFacts
  <2> HIDE DEF bytes
  <2>2. /\ Place(sequence, i + 1) = at + Len(bytes) /\ Len(bytes) \in Nat
        /\ \A j \in at..(Place(sequence, i + 1) - 1) : s[j] = bytes[j - at + 1]
    <3>1. Place(sequence, i + 1) = at + Len(bytes)
      BY <2>1, PlaceFacts DEF at
    <3>2. Len(bytes) \in Nat
      BY <2>1, PartFacts
    <3>3. \A j \in at..(Place(sequence, i + 1) - 1) : s[j] = bytes[j - at + 1]
      BY <2>1, StreamHolds DEF at, s
    <3> QED BY <3>1, <3>2, <3>3, Zenon
  <2>3. /\ Whole(buffer, at, bytes) =>
             ParseResp(buffer, at) = [reply |-> sequence[i], next |-> at + Len(bytes)]
        /\ Cut(buffer, at, bytes) => ParseResp(buffer, at) = Incomplete
    BY <1>1, <1>2, <2>1, ParseReply
  <2>4. CASE Place(sequence, i + 1) <= n + 1
    <3>1. Whole(buffer, at, bytes)
      <4>1. at + Len(bytes) <= Len(buffer) + 1
        BY <1>2, <2>2, <2>4
      <4>2. ASSUME NEW j \in at..(at + Len(bytes) - 1) PROVE buffer[j] = bytes[j - at + 1]
        <5>1. j \in 1..n /\ j \in at..(Place(sequence, i + 1) - 1)
          BY <1>1, <1>2, <2>2, <4>1
        <5> QED BY <1>2, <2>2, <5>1
      <4> QED BY <4>1, <4>2 DEF Whole
    <3> QED BY <1>4, <2>2, <2>3, <2>4, <3>1 DEF buffer, at, s
  <2>5. CASE ~(Place(sequence, i + 1) <= n + 1)
    <3>1. Cut(buffer, at, bytes)
      <4>1. Len(buffer) + 1 < at + Len(bytes)
        BY <1>1, <1>2, <2>2, <2>5
      <4>2. ASSUME NEW j \in at..Len(buffer) PROVE buffer[j] = bytes[j - at + 1]
        <5>1. j \in 1..n /\ j \in at..(Place(sequence, i + 1) - 1)
          BY <1>1, <1>2, <2>2, <4>1
        <5> QED BY <1>2, <2>2, <5>1
      <4> QED BY <4>1, <4>2 DEF Cut
    <3> QED BY <2>3, <2>5, <3>1 DEF buffer, at, s
  <2> QED BY <2>4, <2>5
<1> QED BY <1>0, <1>3, <1>4

\* The places of a longer sequence.
LEMMA PlacesStay ==
  ASSUME NEW sequence \in Seq(Replies), NEW longer \in Seq(Replies),
         Len(sequence) <= Len(longer), Len(longer) <= 3,
         \A i \in 1..Len(sequence) : longer[i] = sequence[i]
  PROVE  \A i \in 1..4 : i <= Len(sequence) + 1 => Place(longer, i) = Place(sequence, i)
<1>1. ASSUME NEW i \in 1..3, i <= Len(sequence)
      PROVE  Part(longer, i) = Part(sequence, i)
  <2>1. i \in DOMAIN sequence /\ i \in DOMAIN longer /\ longer[i] = sequence[i]
    BY <1>1
  <2> QED BY <2>1 DEF Part
<1>2. ASSUME NEW i \in 1..4, i <= Len(sequence) + 1 PROVE Place(longer, i) = Place(sequence, i)
  <2>1. /\ i > 1 => Part(longer, 1) = Part(sequence, 1)
        /\ i > 2 => Part(longer, 2) = Part(sequence, 2)
        /\ i > 3 => Part(longer, 3) = Part(sequence, 3)
    BY <1>1, <1>2
  <2> QED BY <2>1 DEF Place
<1> QED BY <1>2

\* The stream of the first replies.
LEMMA StreamOf ==
  ASSUME NEW sequence \in Seq(Replies), Len(sequence) <= 3, NEW k \in 1..Len(sequence)
  PROVE  Len(Stream(SubSeq(sequence, 1, k))) = Place(sequence, k + 1) - 1
<1> DEFINE first == SubSeq(sequence, 1, k)
<1>1. /\ first \in Seq(Replies) /\ Len(first) = k
      /\ \A j \in 1..k : sequence[j] = first[j]
  <2>1. \A j \in 1..k : sequence[j] \in Replies
    OBVIOUS
  <2>2. first \in Seq(Replies) /\ Len(first) = k
    BY <2>1, SubSeqProperties
  <2>3. \A j \in 1..k : first[j] = sequence[1 + j - 1]
    BY <2>1, <2>2, SubSeqProperties
  <2>4. \A j \in 1..k : 1 + j - 1 = j
    OBVIOUS
  <2> QED BY <2>2, <2>3, <2>4
<1> HIDE DEF first
<1>2. k \in 1..3 /\ k + 1 \in 1..4 /\ k <= Len(sequence)
  OBVIOUS
<1>3. Place(sequence, k + 1) = Place(first, k + 1)
  BY <1>1, <1>2, PlacesStay
<1>4. Place(first, k + 1) = Place(first, 4)
  <2>1. Len(first) <= 3 /\ k + 1 > Len(first)
    BY <1>1, <1>2
  <2>2. \A i \in 1..4 : i > Len(first) => Place(first, i) = Place(first, 4)
    BY <1>1, <2>1, PlaceFacts
  <2> QED BY <1>2, <2>1, <2>2
<1>5. Len(Stream(first)) = Place(first, 4) - 1
  BY <1>1, <1>2, StreamHolds
<1> QED BY <1>3, <1>4, <1>5 DEF first

-----------------------------------------------------------------------------
(* The client's rounds.                                                        *)

Total == Len(Commands)
Extent(sequence) == Len(Stream(sequence))

Forgotten == [kind |-> "forgotten"]

Outcomes == {Waiting, Failed, Forgotten} \union {Returned(reply) : reply \in Replies}

AllAccepted(sequence, count) == \A i \in 1..count : sequence[i].kind # "error"

\* What a client has that has taken so many replies: it waits, all accepted so
\* far, or it gave up, or it returned the last that it took.
Good(sequence, count, next, result) ==
  /\ count \in 0..Len(sequence) /\ next = Place(sequence, count + 1)
  /\ \/ result = Waiting /\ count < Total /\ AllAccepted(sequence, count)
     \/ result \in {Failed, Forgotten}
     \/ /\ count > 0 /\ AllAccepted(sequence, count - 1) /\ result = Returned(sequence[count])
        /\ sequence[count].kind # "error" => count = Total

\* It has taken what it can.
Settled(sequence, count, result, n) ==
  result = Waiting /\ count < Len(sequence) => Place(sequence, count + 2) > n + 1

-----------------------------------------------------------------------------
(* The invariant.                                                              *)

RespTypeOK ==
  /\ setup \in Setups /\ (setup.command = "SET" => setup.value = Missed)
  /\ sent \in 1..3 /\ replies \in Seq(Replies)
  /\ database \in [authenticated : BOOLEAN, number : {"default", "asked"}]
  /\ delivered \in Nat /\ taken \in [count : Nat, next : Nat]
  /\ outcome \in Outcomes /\ written \subseteq {"default", "asked"}

Pace ==
  /\ Len(replies) <= sent /\ sent <= Total
  /\ delivered <= Extent(replies)

\* A reader has sent no more than it has read the replies before.
ReadersWait ==
  setup.client = "reader" =>
    /\ sent - 1 <= Len(replies) /\ AllAccepted(replies, sent - 1)
    /\ outcome = Waiting => sent = taken.count + 1

Selected ==
  /\ database.number = "asked" => "SELECT" \in ToSet(setup.commands)
  /\ \A i \in 1..Len(replies) :
       Commands[i] = "SELECT" /\ replies[i].kind # "error" => database.number = "asked"

RespInv ==
  /\ RespTypeOK /\ Pace
  /\ Good(replies, taken.count, taken.next, outcome)
  /\ Settled(replies, taken.count, outcome, delivered)
  /\ ReadersWait /\ Selected /\ WritesWhereAsked

\* The commands of a setup: the command is the last.
LEMMA CommandsFacts ==
  ASSUME setup \in Setups
  PROVE  /\ Len(setup.commands) \in 0..2 /\ Total = Len(setup.commands) + 1
         /\ Commands[Total] = setup.command
         /\ \A i \in 1..Len(setup.commands) :
              Commands[i] = setup.commands[i] /\ Commands[i] \in {"AUTH", "SELECT"}
         /\ setup.command \in {"GET", "SET"} /\ setup.client \in {"node", "reader"}
         /\ setup.value \in Replies
<1> DEFINE Kinds == {"AUTH", "SELECT", "GET", "SET"}
           list == setup.commands
           last == setup.command
<1>1. /\ list \in {<<>>, <<"AUTH">>, <<"SELECT">>, <<"AUTH", "SELECT">>}
      /\ last \in {"GET", "SET"} /\ setup.client \in {"node", "reader"}
      /\ setup.value \in {Missed} \union {Bulk(payload) : payload \in Payloads}
  BY DEF Setups
<1>2. setup.value \in Replies
  BY <1>1 DEF Replies
<1> HIDE DEF list, last
<1>3. /\ list \in Seq(Kinds) /\ Len(list) \in 0..2 /\ last \in Kinds
      /\ \A i \in 1..Len(list) : list[i] \in {"AUTH", "SELECT"}
  <2>1. CASE list = <<>>
    BY <1>1, <2>1
  <2>2. CASE list = <<"AUTH">>
    BY <1>1, <2>2
  <2>3. CASE list = <<"SELECT">>
    BY <1>1, <2>3
  <2>4. CASE list = <<"AUTH", "SELECT">>
    BY <1>1, <2>4
  <2> QED BY <1>1, <2>1, <2>2, <2>3, <2>4
<1>4. Commands = Append(list, last)
  BY DEF Commands, list, last
<1>5. /\ Total = Len(list) + 1 /\ Commands[Total] = last
      /\ \A i \in 1..Len(list) : Commands[i] = list[i]
  <2>1. /\ Len(Append(list, last)) = Len(list) + 1
        /\ \A i \in 1..Len(list) : Append(list, last)[i] = list[i]
        /\ Append(list, last)[Len(list) + 1] = last
    BY <1>3, AppendProperties
  <2> QED BY <1>4, <2>1 DEF Total
<1> QED BY <1>1, <1>2, <1>3, <1>5 DEF list, last

\* A reply that is returned says what it is.
LEMMA ReturnedFacts ==
  ASSUME NEW reply \in Replies
  PROVE  /\ Returned(reply) \notin {Waiting, Failed, Forgotten}
         /\ Returned(reply).reply = reply
         /\ Returned(reply).kind = "answered" <=> reply.kind # "error"
         /\ Returned(reply).kind = "refused" <=> reply.kind = "error"
         /\ Returned(reply) \in Outcomes
<1>1. Returned(reply).kind = IF reply.kind = "error" THEN "refused" ELSE "answered"
  BY DEF Returned
<1>2. Returned(reply).reply = reply /\ Returned(reply) \in Outcomes
  BY DEF Returned, Outcomes
<1>3. Waiting.kind = "waiting" /\ Failed.kind = "failed" /\ Forgotten.kind = "forgotten"
  BY DEF Waiting, Failed, Forgotten
<1> QED BY <1>1, <1>2, <1>3

LEMMA Lengths ==
  ASSUME setup \in Setups, NEW sequence \in Seq(Replies), Len(sequence) <= Total
  PROVE  /\ Total \in 1..3 /\ Len(sequence) \in 0..3
         /\ Extent(sequence) \in Nat
<1>1. Total \in 1..3
  <2> DEFINE before == Len(setup.commands)
  <2>1. before \in 0..2 /\ Total = before + 1
    BY CommandsFacts
  <2> HIDE DEF before
  <2> QED BY <2>1
<1>2. Len(sequence) \in Nat
  OBVIOUS
<1>3. Len(sequence) \in 0..3 /\ Len(sequence) <= 3
  <2> DEFINE k == Len(sequence)
  <2>1. k \in Nat /\ k <= Total
    BY <1>2
  <2> HIDE DEF k
  <2>2. k \in 0..3 /\ k <= 3
    BY <1>1, <2>1
  <2> QED BY <2>2 DEF k
<1>4. Stream(sequence) \in Buffers
  BY <1>3, StreamHolds
<1>5. Extent(sequence) \in Nat
  BY <1>4 DEF Buffers, Extent
<1> QED BY <1>1, <1>3, <1>5

States == [count : Nat, next : Nat, outcome : Outcomes]

\* One round of the loop.
LEMMA Round ==
  ASSUME setup \in Setups, NEW sequence \in Seq(Replies), Len(sequence) <= Total,
         NEW n \in 0..Extent(sequence), NEW state \in States, NEW after,
         Good(sequence, state.count, state.next, state.outcome),
         after = Take(state, SubSeq(Stream(sequence), 1, n))
  PROVE  /\ after \in States /\ Good(sequence, after.count, after.next, after.outcome)
         /\ \/ Settled(sequence, after.count, after.outcome, n)
            \/ after.count = state.count + 1
         /\ Settled(sequence, state.count, state.outcome, n) => after = state
         /\ state.count <= after.count
<1> DEFINE buffer == SubSeq(Stream(sequence), 1, n)
           parsed == ParseResp(buffer, state.next)
           count == state.count + 1
<1>0. /\ Total \in 1..3 /\ Len(sequence) \in 0..3
      /\ state.count \in Nat /\ state.count <= Len(sequence) /\ state.outcome \in Outcomes
      /\ state = [count |-> state.count, next |-> state.next, outcome |-> state.outcome]
      /\ state.next = Place(sequence, count)
      /\ count \in 1..4 /\ count <= Len(sequence) + 1 /\ state.count + 2 = count + 1
      /\ n \in Nat /\ Len(sequence) <= 3
  <2>1. /\ Total \in 1..3 /\ Len(sequence) \in 0..3
        /\ Extent(sequence) \in Nat
    BY Lengths
  <2>2. state.count \in 0..Len(sequence) /\ state.next = Place(sequence, state.count + 1)
    BY DEF Good
  <2>3. /\ state.outcome \in Outcomes
        /\ state = [count |-> state.count, next |-> state.next, outcome |-> state.outcome]
    BY DEF States
  <2>4. count \in 1..4 /\ count <= Len(sequence) + 1 /\ state.count + 2 = count + 1
    BY <2>1, <2>2
  <2>5. n \in Nat
    BY <2>1
  <2>6. Len(sequence) <= 3 /\ state.count \in Nat /\ state.count <= Len(sequence)
    BY <2>1, <2>2
  <2> QED BY <2>1, <2>2, <2>3, <2>4, <2>5, <2>6
<1>1. parsed = IF count <= Len(sequence) /\ Place(sequence, count + 1) <= n + 1
               THEN [reply |-> sequence[count], next |-> Place(sequence, count + 1)]
               ELSE Incomplete
  <2>1. ParseResp(SubSeq(Stream(sequence), 1, n), Place(sequence, count)) =
           IF count <= Len(sequence) /\ Place(sequence, count + 1) <= n + 1
           THEN [reply |-> sequence[count], next |-> Place(sequence, count + 1)]
           ELSE Incomplete
    <3> HIDE DEF count
    <3> QED BY <1>0, Decode DEF Extent
  <2> QED BY <1>0, <2>1
<1>2. after = IF state.outcome # Waiting \/ parsed = Incomplete THEN state
              ELSE [count |-> count, next |-> parsed.next,
                    outcome |-> IF parsed.reply.kind = "error" \/ count = Total
                                THEN Returned(parsed.reply) ELSE Waiting]
  BY DEF Take, Total
<1>3. \A i \in 1..4 : Place(sequence, i) \in Nat \ {0}
  BY <1>0, PlaceFacts
<1> HIDE DEF count, buffer, parsed
<1>4. CASE state.outcome # Waiting
  BY <1>0, <1>2, <1>4 DEF Settled
<1>5. CASE /\ state.outcome = Waiting
           /\ ~(count <= Len(sequence) /\ Place(sequence, count + 1) <= n + 1)
  <2>1. after = state
    BY <1>1, <1>2, <1>5
  <2>2. Settled(sequence, state.count, state.outcome, n)
    <3>1. ASSUME state.count < Len(sequence) PROVE Place(sequence, state.count + 2) > n + 1
      <4>1. count <= Len(sequence) /\ count + 1 \in 1..4 /\ n \in Nat
        BY <1>0, <3>1 DEF count
      <4>2. Place(sequence, count + 1) \in Nat
        BY <1>3, <4>1
      <4> QED BY <1>0, <1>5, <4>1, <4>2
    <3> QED BY <3>1 DEF Settled
  <2> QED BY <1>0, <2>1, <2>2
<1>6. CASE /\ state.outcome = Waiting /\ count <= Len(sequence)
           /\ Place(sequence, count + 1) <= n + 1
  <2>1. /\ count + 1 \in 1..4 /\ Place(sequence, count + 1) \in Nat \ {0}
        /\ sequence[count] \in Replies /\ n \in Nat
    <3>1. count + 1 \in 1..4 /\ count \in 1..Len(sequence)
      BY <1>0, <1>6
    <3>2. sequence[count] \in Replies
      BY <3>1
    <3> QED BY <1>0, <1>3, <3>1, <3>2
  <2>2. parsed = [reply |-> sequence[count], next |-> Place(sequence, count + 1)]
    BY <1>1, <1>6
  <2>3. parsed # Incomplete /\ parsed.reply = sequence[count]
        /\ parsed.next = Place(sequence, count + 1)
    BY <2>1, <2>2 DEF Incomplete
  <2> DEFINE result == IF sequence[count].kind = "error" \/ count = Total
                       THEN Returned(sequence[count]) ELSE Waiting
  <2>4. after = [count |-> count, next |-> Place(sequence, count + 1), outcome |-> result]
    BY <1>2, <1>6, <2>3
  <2>5. state.count < Total /\ AllAccepted(sequence, state.count)
    <3>1. Waiting \notin {Failed, Forgotten}
      BY DEF Waiting, Failed, Forgotten
    <3>2. ASSUME state.count > 0 PROVE Waiting # Returned(sequence[state.count])
      <4>1. sequence[state.count] \in Replies
        BY <1>0, <3>2
      <4> QED BY <4>1, ReturnedFacts
    <3> QED BY <1>6, <3>1, <3>2 DEF Good
  <2>6. result \in Outcomes
    BY <2>1, ReturnedFacts DEF Outcomes
  <2>7. after \in States /\ after.count = count
    BY <1>0, <2>1, <2>4, <2>6 DEF States
  <2>8. Good(sequence, count, Place(sequence, count + 1), result)
    <3>1. count \in 0..Len(sequence) /\ count > 0 /\ count - 1 = state.count
      BY <1>0, <1>6 DEF count
    <3>2. CASE sequence[count].kind = "error" \/ count = Total
      BY <2>5, <3>1, <3>2 DEF Good
    <3>3. CASE ~(sequence[count].kind = "error" \/ count = Total)
      <4>1. count < Total
        BY <1>0, <1>6, <3>3
      <4>2. AllAccepted(sequence, count)
        <5> SUFFICES ASSUME NEW i \in 1..count PROVE sequence[i].kind # "error"
          BY DEF AllAccepted
        <5>1. i \in 1..state.count \/ i = count
          BY <1>0 DEF count
        <5> QED BY <2>5, <3>3, <5>1 DEF AllAccepted
      <4> QED BY <3>1, <3>3, <4>1, <4>2 DEF Good
    <3> QED BY <3>2, <3>3
  <2>9. ~Settled(sequence, state.count, state.outcome, n)
    BY <1>0, <1>6, <2>1 DEF Settled, count
  <2> HIDE DEF result
  <2>10. after.next = Place(sequence, count + 1) /\ after.outcome = result
    BY <2>4
  <2> QED BY <1>0, <2>7, <2>8, <2>9, <2>10 DEF count
<1> QED BY <1>4, <1>5, <1>6

\* The loop ends: three rounds are all of them.
LEMMA Rounds ==
  ASSUME setup \in Setups, NEW sequence \in Seq(Replies), Len(sequence) <= Total,
         NEW n \in 0..Extent(sequence), NEW state \in States, NEW after,
         Good(sequence, state.count, state.next, state.outcome),
         after = Take(Take(Take(state, SubSeq(Stream(sequence), 1, n)),
                           SubSeq(Stream(sequence), 1, n)), SubSeq(Stream(sequence), 1, n))
  PROVE  /\ after \in States /\ Good(sequence, after.count, after.next, after.outcome)
         /\ Settled(sequence, after.count, after.outcome, n) /\ state.count <= after.count
<1> DEFINE one == Take(state, SubSeq(Stream(sequence), 1, n))
           two == Take(one, SubSeq(Stream(sequence), 1, n))
<1>1. /\ one \in States /\ Good(sequence, one.count, one.next, one.outcome)
      /\ \/ Settled(sequence, one.count, one.outcome, n)
         \/ one.count = state.count + 1
      /\ Settled(sequence, state.count, state.outcome, n) => one = state
      /\ state.count <= one.count
  BY Round
<1>2. two = Take(one, SubSeq(Stream(sequence), 1, n))
      /\ after = Take(two, SubSeq(Stream(sequence), 1, n))
  OBVIOUS
<1> HIDE DEF one, two
<1>3. /\ two \in States /\ Good(sequence, two.count, two.next, two.outcome)
      /\ \/ Settled(sequence, two.count, two.outcome, n)
         \/ two.count = one.count + 1
      /\ Settled(sequence, one.count, one.outcome, n) => two = one
      /\ one.count <= two.count
  BY <1>1, <1>2, Round
<1>4. /\ after \in States /\ Good(sequence, after.count, after.next, after.outcome)
      /\ \/ Settled(sequence, after.count, after.outcome, n)
         \/ after.count = two.count + 1
      /\ Settled(sequence, two.count, two.outcome, n) => after = two
      /\ two.count <= after.count
  BY <1>2, <1>3, Round
<1>5. state.count <= after.count
  <2>1. /\ state.count \in Nat /\ one.count \in Nat /\ two.count \in Nat
        /\ after.count \in Nat
    BY <1>1, <1>3, <1>4 DEF States
  <2> QED BY <1>1, <1>3, <1>4, <2>1
<1>6. CASE Settled(sequence, one.count, one.outcome, n)
  BY <1>1, <1>3, <1>4, <1>5, <1>6
<1>7. CASE Settled(sequence, two.count, two.outcome, n)
  BY <1>3, <1>4, <1>5, <1>7
<1>8. CASE /\ one.count = state.count + 1 /\ two.count = one.count + 1
           /\ after.count = two.count + 1
  <2>1. Len(sequence) \in 0..3
    BY Lengths
  <2>2. state.count \in Nat
    BY DEF States
  <2>3. ~(after.count < Len(sequence))
    <3> DEFINE k == Len(sequence)
    <3>1. k \in 0..3
      BY <2>1
    <3> HIDE DEF k
    <3>2. after.count = state.count + 1 + 1 + 1 /\ ~(after.count < k)
      BY <1>8, <2>2, <3>1
    <3> QED BY <3>2 DEF k
  <2> QED BY <1>4, <1>5, <2>3 DEF Settled
<1> QED BY <1>1, <1>3, <1>4, <1>5, <1>6, <1>7, <1>8

\* One more reply changes nothing of what was taken.
Extends(sequence, reply, longer, n) ==
  /\ longer \in Seq(Replies) /\ Len(longer) = Len(sequence) + 1
  /\ longer[Len(sequence) + 1] = reply
  /\ \A i \in 1..Len(sequence) : longer[i] = sequence[i]
  /\ n <= Extent(longer)

LEMMA Longer ==
  ASSUME setup \in Setups, NEW sequence \in Seq(Replies), NEW reply \in Replies,
         NEW longer, longer = Append(sequence, reply), Len(sequence) + 1 <= Total,
         NEW n \in Nat, n <= Extent(sequence), NEW count, NEW next, NEW result,
         Good(sequence, count, next, result), Settled(sequence, count, result, n)
  PROVE  Extends(sequence, reply, longer, n) /\ Good(longer, count, next, result)
         /\ Settled(longer, count, result, n)
<1> DEFINE k == Len(sequence)
<1>1. /\ longer \in Seq(Replies) /\ Len(longer) = k + 1 /\ longer[k + 1] = reply
      /\ \A i \in 1..k : longer[i] = sequence[i]
  BY AppendProperties
<1>2. k = Len(sequence) /\ k \in Nat
  OBVIOUS
<1> HIDE DEF k
<1>3. Total \in 1..3
  <2> DEFINE before == Len(setup.commands)
  <2>1. before \in 0..2 /\ Total = before + 1
    BY CommandsFacts
  <2> HIDE DEF before
  <2> QED BY <2>1
<1>4. k + 1 <= Total /\ k + 1 \in 1..3 /\ k \in 0..2
  <2>1. k + 1 <= Total
    BY <1>2
  <2> QED BY <1>2, <1>3, <2>1
<1>5. Len(sequence) <= 3 /\ Len(longer) <= 3 /\ Len(sequence) <= Len(longer)
  BY <1>1, <1>2, <1>4
<1>6. \A i \in 1..4 : i <= k + 1 => Place(longer, i) = Place(sequence, i)
  BY <1>1, <1>2, <1>5, PlacesStay
<1>7. /\ \A i \in 1..4 : Place(sequence, i) \in Nat \ {0}
      /\ \A i \in 1..4 : Place(longer, i) \in Nat \ {0}
  BY <1>1, <1>5, PlaceFacts
<1>8. /\ Extent(sequence) = Place(sequence, k + 1) - 1
      /\ Extent(longer) = Place(longer, k + 2) - 1
  <2>1. Extent(sequence) = Place(sequence, 4) - 1 /\ Extent(longer) = Place(longer, 4) - 1
    BY <1>1, <1>5, StreamHolds DEF Extent
  <2>2. /\ k + 1 \in 1..4 /\ k + 2 \in 1..4
        /\ k + 1 > Len(sequence) /\ k + 2 > Len(longer)
    BY <1>1, <1>2, <1>4
  <2>3. /\ \A i \in 1..4 : i > Len(sequence) => Place(sequence, i) = Place(sequence, 4)
        /\ \A i \in 1..4 : i > Len(longer) => Place(longer, i) = Place(longer, 4)
    BY <1>1, <1>5, PlaceFacts
  <2> QED BY <2>1, <2>2, <2>3
<1>9. Place(longer, k + 2) > Place(sequence, k + 1)
  <2>1. k + 1 \in 1..3 /\ k + 1 \in 1..4 /\ k + 1 <= Len(longer) /\ (k + 1) + 1 = k + 2
    BY <1>1, <1>2, <1>4
  <2>2. Place(longer, k + 2) = Place(longer, k + 1) + Len(Part(longer, k + 1))
    BY <1>1, <1>5, <2>1, PlaceFacts
  <2>3. Len(Part(longer, k + 1)) \in Nat /\ Len(Part(longer, k + 1)) > 0
    <3> DEFINE i == k + 1
    <3>1. longer \in Seq(Replies) /\ i \in Nat \ {0} /\ i <= Len(longer)
      BY <1>1, <2>1
    <3> HIDE DEF i
    <3>2. Len(Part(longer, i)) \in Nat /\ Len(Part(longer, i)) > 0
      BY <3>1, PartFacts
    <3> QED BY <3>2 DEF i
  <2>4. Place(longer, k + 1) = Place(sequence, k + 1) /\ Place(sequence, k + 1) \in Nat
    BY <1>6, <1>7, <2>1, <1>2
  <2> DEFINE size == Len(Part(longer, k + 1))
  <2>5. size \in Nat /\ size > 0 /\ Place(longer, k + 2) = Place(sequence, k + 1) + size
    BY <2>2, <2>3, <2>4
  <2> HIDE DEF size
  <2> QED BY <2>4, <2>5
<1>10. Place(sequence, k + 1) \in Nat /\ Place(longer, k + 2) \in Nat
  <2>1. k + 1 \in 1..4 /\ k + 2 \in 1..4
    BY <1>4
  <2> QED BY <1>7, <2>1
<1>11. n <= Extent(longer) /\ Place(longer, k + 2) > n + 1
  <2>1. n <= Extent(sequence) /\ n \in Nat
    OBVIOUS
  <2> QED BY <1>8, <1>9, <1>10, <2>1
<1>12. count \in 0..k /\ next = Place(sequence, count + 1)
  BY <1>2 DEF Good
<1>13. Good(longer, count, next, result)
  <2>1. count \in 0..Len(longer) /\ next = Place(longer, count + 1)
    <3>1. count \in 0..(k + 1) /\ count + 1 \in 1..4 /\ count + 1 <= k + 1
      BY <1>4, <1>12
    <3> QED BY <1>1, <1>6, <1>12, <3>1
  <2>2. ASSUME NEW c \in 0..k, AllAccepted(sequence, c) PROVE AllAccepted(longer, c)
    <3>1. \A i \in 1..c : i \in 1..k
      BY <1>4
    <3> QED BY <1>1, <2>2, <3>1 DEF AllAccepted
  <2>3. CASE result = Waiting /\ count < Total /\ AllAccepted(sequence, count)
    BY <1>12, <2>1, <2>2, <2>3 DEF Good
  <2>4. CASE result \in {Failed, Forgotten}
    BY <2>1, <2>4 DEF Good
  <2>5. CASE /\ count > 0 /\ AllAccepted(sequence, count - 1)
             /\ result = Returned(sequence[count])
             /\ sequence[count].kind # "error" => count = Total
    <3>1. count \in 1..k /\ count - 1 \in 0..k
      BY <1>4, <1>12, <2>5
    <3>2. longer[count] = sequence[count] /\ AllAccepted(longer, count - 1)
      BY <1>1, <2>2, <2>5, <3>1
    <3> QED BY <2>1, <2>5, <3>2 DEF Good
  <2> QED BY <2>3, <2>4, <2>5 DEF Good
<1>14. Settled(longer, count, result, n)
  <2> SUFFICES ASSUME result = Waiting, count < k + 1
               PROVE  Place(longer, count + 2) > n + 1
    BY <1>1 DEF Settled
  <2>1. CASE count = k
    BY <1>11, <2>1
  <2>2. CASE count # k
    <3>1. count < k /\ count + 2 \in 1..4 /\ count + 2 <= k + 1
      BY <1>4, <1>12, <2>2
    <3>2. Place(sequence, count + 2) > n + 1
      BY <1>2, <3>1 DEF Settled
    <3> QED BY <1>6, <3>1, <3>2
  <2> QED BY <2>1, <2>2
<1> QED BY <1>1, <1>2, <1>11, <1>13, <1>14 DEF Extends

-----------------------------------------------------------------------------
(* The steps.                                                                  *)

LEMMA RespStarts == RespInit => RespInv
<1> SUFFICES ASSUME RespInit PROVE RespInv
  OBVIOUS
<1>1. setup \in Setups /\ setup.client \in {"node", "reader"}
  BY CommandsFacts DEF RespInit
<1>2. replies = <<>> /\ replies \in Seq(Replies) /\ Len(replies) = 0
  BY DEF RespInit
<1>3. Total \in 1..3 /\ Extent(replies) \in Nat
  <2>1. Len(replies) <= Total
    <3> DEFINE before == Len(setup.commands)
    <3>1. before \in 0..2 /\ Total = before + 1
      BY <1>1, CommandsFacts
    <3> HIDE DEF before
    <3>2. 0 <= Total
      BY <3>1
    <3> QED BY <1>2, <3>2
  <2> QED BY <1>1, <1>2, <2>1, Lengths
<1>4. sent = IF setup.client = "node" THEN Total ELSE 1
  BY DEF RespInit, Sent, Total
<1>5. sent \in 1..3 /\ sent <= Total /\ 0 <= sent
  BY <1>3, <1>4
<1>6. RespTypeOK
  BY <1>1, <1>2, <1>5 DEF RespInit, RespTypeOK, Outcomes
<1>7. Pace
  <2>1. delivered = 0 /\ 0 <= Extent(replies)
    BY <1>3 DEF RespInit
  <2> QED BY <1>2, <1>5, <2>1 DEF Pace
<1>8. taken.count = 0 /\ taken.next = 1 /\ outcome = Waiting
  BY DEF RespInit
<1>9. Good(replies, taken.count, taken.next, outcome)
  <2>1. Place(replies, 0 + 1) = 1
    BY DEF Place
  <2>2. 0 < Total /\ AllAccepted(replies, 0) /\ 0 \in 0..Len(replies)
    BY <1>2, <1>3 DEF AllAccepted
  <2> QED BY <1>8, <2>1, <2>2 DEF Good
<1>10. Settled(replies, taken.count, outcome, delivered)
  BY <1>2, <1>8 DEF Settled
<1>11. ReadersWait
  <2>1. setup.client = "reader" => sent = 1
    BY <1>4
  <2> QED BY <1>2, <1>8, <2>1 DEF ReadersWait, AllAccepted
<1>12. Selected
  BY <1>2 DEF Selected, RespInit
<1>13. WritesWhereAsked
  BY DEF WritesWhereAsked, RespInit
<1> QED BY <1>6, <1>7, <1>9, <1>10, <1>11, <1>12, <1>13 DEF RespInv

LEMMA ArriveKeeps == RespInv /\ Arrive => RespInv'
<1> SUFFICES ASSUME RespInv, Arrive PROVE RespInv'
  OBVIOUS
<1> DEFINE before == [count |-> taken.count, next |-> taken.next, outcome |-> Waiting]
           buffer == SubSeq(Stream(replies), 1, delivered')
           state == Take(Take(Take(before, buffer), buffer), buffer)
<1>1. /\ outcome = Waiting /\ delivered' \in (delivered + 1)..Extent(replies)
      /\ taken' = [count |-> state.count, next |-> state.next]
      /\ outcome' = state.outcome
      /\ sent' = IF state.outcome = Waiting THEN Sent(state.count) ELSE sent
  BY DEF Arrive, Extent
<1>2. /\ setup' = setup /\ replies' = replies /\ database' = database /\ written' = written
  BY DEF Arrive
<1>3. /\ setup \in Setups /\ replies \in Seq(Replies) /\ Len(replies) <= Total
      /\ Total \in 1..3 /\ Len(replies) \in 0..3 /\ Extent(replies) \in Nat /\ delivered \in Nat
      /\ setup.client \in {"node", "reader"}
  <2>1. setup \in Setups /\ replies \in Seq(Replies) /\ delivered \in Nat /\ sent \in Nat
    BY DEF RespInv, RespTypeOK
  <2>2. Total \in 1..3
    <3> DEFINE list == Len(setup.commands)
    <3>1. list \in 0..2 /\ Total = list + 1
      BY <2>1, CommandsFacts
    <3> HIDE DEF list
    <3> QED BY <3>1
  <2>3. Len(replies) <= Total
    <3> DEFINE k == Len(replies)
    <3>1. k <= sent /\ sent <= Total /\ k \in Nat
      BY <2>1 DEF RespInv, Pace
    <3> HIDE DEF k
    <3>2. k <= Total
      BY <2>1, <2>2, <3>1
    <3> QED BY <3>2 DEF k
  <2> QED BY <2>1, <2>3, Lengths, CommandsFacts
<1>4. delivered' \in 0..Extent(replies) /\ delivered' \in Nat /\ delivered' <= Extent(replies)
  BY <1>1, <1>3
<1>5. before \in States /\ Good(replies, before.count, before.next, before.outcome)
  <2>1. before.count = taken.count /\ before.next = taken.next /\ before.outcome = outcome
    BY <1>1
  <2>2. before \in States
    BY DEF RespInv, RespTypeOK, States, Outcomes
  <2> HIDE DEF before
  <2> QED BY <2>1, <2>2 DEF RespInv
<1> DEFINE now == delivered'
<1>6. now \in 0..Extent(replies) /\ buffer = SubSeq(Stream(replies), 1, now)
  BY <1>4
<1> HIDE DEF before, now
<1>7. /\ state \in States /\ Good(replies, state.count, state.next, state.outcome)
      /\ Settled(replies, state.count, state.outcome, now) /\ taken.count <= state.count
  <2>1. /\ state \in States /\ Good(replies, state.count, state.next, state.outcome)
        /\ Settled(replies, state.count, state.outcome, now) /\ before.count <= state.count
    <3>1. state = Take(Take(Take(before, SubSeq(Stream(replies), 1, now)),
                       SubSeq(Stream(replies), 1, now)), SubSeq(Stream(replies), 1, now))
      BY <1>6
    <3> HIDE DEF state
    <3> QED BY <1>3, <1>5, <1>6, <3>1, Rounds
  <2> QED BY <2>1 DEF before
<1> HIDE DEF state, buffer
<1>8. /\ taken'.count = state.count /\ taken'.next = state.next
      /\ state.count \in Nat /\ state.next \in Nat /\ state.outcome \in Outcomes
  BY <1>1, <1>7 DEF States
<1>9. ASSUME state.outcome = Waiting
      PROVE  state.count < Total /\ AllAccepted(replies, state.count)
             /\ state.count \in 0..Len(replies)
  <2>1. Waiting \notin {Failed, Forgotten}
    BY DEF Waiting, Failed, Forgotten
  <2>2. ASSUME state.count > 0 PROVE Waiting # Returned(replies[state.count])
    <3>1. state.count \in 1..Len(replies)
      BY <1>7, <2>2 DEF Good
    <3>2. replies[state.count] \in Replies
      BY <1>3, <3>1
    <3> QED BY <3>2, ReturnedFacts
  <2> QED BY <1>7, <1>9, <2>1, <2>2 DEF Good
<1>10. /\ state.outcome = Waiting => sent' = IF setup.client = "node" THEN Total
                                            ELSE state.count + 1
       /\ state.outcome # Waiting => sent' = sent
  BY <1>1 DEF Sent, Total
<1>11. /\ sent \in 1..3 /\ Len(replies) <= sent /\ sent <= Total /\ taken.count \in Nat
       /\ setup.client = "reader" => /\ sent - 1 <= Len(replies)
                                     /\ AllAccepted(replies, sent - 1)
                                     /\ sent = taken.count + 1
  BY <1>1 DEF RespInv, RespTypeOK, Pace, ReadersWait
<1> DEFINE k == Len(replies)
<1>12. k \in 0..3 /\ k <= Total /\ k <= sent
  BY <1>3, <1>11
<1> HIDE DEF k
<1>13. sent' \in 1..3 /\ k <= sent' /\ sent' <= Total
  <2>1. CASE state.outcome # Waiting
    BY <1>10, <1>11, <1>12, <2>1
  <2>2. CASE state.outcome = Waiting /\ setup.client = "node"
    BY <1>3, <1>10, <1>12, <2>2
  <2>3. CASE state.outcome = Waiting /\ setup.client = "reader"
    <3>1. sent' = state.count + 1 /\ sent = taken.count + 1 /\ state.count < Total
      BY <1>9, <1>10, <1>11, <2>3
    <3> QED BY <1>3, <1>7, <1>8, <1>11, <1>12, <3>1
  <2> QED BY <1>3, <2>1, <2>2, <2>3
<1>14. RespTypeOK'
  <2>1. taken' \in [count : Nat, next : Nat] /\ outcome' \in Outcomes
    BY <1>1, <1>8
  <2>2. /\ database \in [authenticated : BOOLEAN, number : {"default", "asked"}]
        /\ written \subseteq {"default", "asked"}
        /\ setup.command = "SET" => setup.value = Missed
    BY DEF RespInv, RespTypeOK
  <2> QED BY <1>2, <1>3, <1>4, <1>13, <2>1, <2>2 DEF RespTypeOK
<1>15. Pace'
  BY <1>2, <1>4, <1>13 DEF Pace, Extent, k, Total, Commands
<1>16. Good(replies, taken.count, taken.next, outcome)'
  BY <1>1, <1>2, <1>7, <1>8 DEF Good, Total, Commands
<1>17. Settled(replies, taken.count, outcome, delivered)'
  BY <1>1, <1>2, <1>7, <1>8 DEF Settled, now
<1>18. ReadersWait'
  <2> SUFFICES ASSUME setup.client = "reader"
               PROVE  /\ sent' - 1 <= k /\ AllAccepted(replies, sent' - 1)
                      /\ outcome' = Waiting => sent' = state.count + 1
    BY <1>1, <1>2, <1>8 DEF ReadersWait, AllAccepted, k
  <2>1. CASE state.outcome # Waiting
    BY <1>1, <1>10, <1>11, <2>1 DEF k
  <2>2. CASE state.outcome = Waiting
    <3>1. sent' = state.count + 1 /\ sent' - 1 = state.count /\ state.count \in 0..k
      BY <1>8, <1>9, <1>10, <2>2 DEF k
    <3>2. state.count <= k
      BY <1>12, <3>1
    <3> QED BY <1>1, <1>9, <2>2, <3>1, <3>2
  <2> QED BY <2>1, <2>2
<1>19. Selected'
  BY <1>2 DEF RespInv, Selected, Commands
<1>20. WritesWhereAsked'
  BY <1>2 DEF RespInv, WritesWhereAsked
<1> QED BY <1>14, <1>15, <1>16, <1>17, <1>18, <1>19, <1>20 DEF RespInv

\* Where a command is among those of a setup.
LEMMA InCommands ==
  ASSUME setup \in Setups
  PROVE  /\ Total \in 1..3
         /\ \A i \in 1..Total : Commands[i] = "SELECT" => "SELECT" \in ToSet(setup.commands)
         /\ \A i \in 1..Total : Commands[i] = "SET" => i = Total
         /\ "SELECT" \in ToSet(setup.commands) => \E i \in 1..(Total - 1) : Commands[i] = "SELECT"
<1> DEFINE before == Len(setup.commands)
<1>1. /\ before \in 0..2 /\ Total = before + 1
      /\ Commands[Total] \in {"GET", "SET"}
      /\ \A i \in 1..before : Commands[i] = setup.commands[i] /\ Commands[i] \in {"AUTH", "SELECT"}
  BY CommandsFacts
<1>2. DOMAIN setup.commands = 1..before
  <2> DEFINE list == setup.commands
  <2>1. list \in {<<>>, <<"AUTH">>, <<"SELECT">>, <<"AUTH", "SELECT">>}
    BY DEF Setups
  <2> HIDE DEF list
  <2>2. DOMAIN list = 1..Len(list)
    BY <2>1
  <2> QED BY <2>2 DEF list
<1> HIDE DEF before
<1>3. Total \in 1..3 /\ Total - 1 = before
  BY <1>1
<1>4. \A i \in 1..Total : i \in 1..before \/ i = Total
  BY <1>1
<1>5. \A i \in 1..Total : Commands[i] = "SELECT" => "SELECT" \in ToSet(setup.commands)
  <2> SUFFICES ASSUME NEW i \in 1..Total, Commands[i] = "SELECT"
               PROVE  "SELECT" \in ToSet(setup.commands)
    OBVIOUS
  <2>1. i \in DOMAIN setup.commands /\ setup.commands[i] = "SELECT"
    BY <1>1, <1>2, <1>4
  <2> QED BY <2>1 DEF ToSet
<1>6. \A i \in 1..Total : Commands[i] = "SET" => i = Total
  BY <1>1, <1>4
<1>7. ASSUME "SELECT" \in ToSet(setup.commands)
      PROVE  \E i \in 1..(Total - 1) : Commands[i] = "SELECT"
  <2>1. PICK i \in DOMAIN setup.commands : setup.commands[i] = "SELECT"
    BY <1>7 DEF ToSet
  <2>2. i \in 1..(Total - 1) /\ Commands[i] = "SELECT"
    BY <1>1, <1>2, <1>3, <2>1
  <2> QED BY <2>2
<1> QED BY <1>3, <1>5, <1>6, <1>7

LEMMA ExecuteKeeps == RespInv /\ Execute => RespInv'
<1> SUFFICES ASSUME RespInv, Execute PROVE RespInv'
  OBVIOUS
<1> DEFINE k == Len(replies)
           command == Commands[k + 1]
           reply == Reply(command)
           done == reply.kind # "error"
<1>1. /\ k < sent /\ replies' = Append(replies, reply)
      /\ database'.number = IF command = "SELECT" /\ done THEN "asked" ELSE database.number
      /\ database' \in [authenticated : BOOLEAN, number : {"default", "asked"}]
      /\ written' = IF command = "SET" /\ done THEN written \union {database.number} ELSE written
  <2>1. database.authenticated \in BOOLEAN /\ database.number \in {"default", "asked"}
    BY DEF RespInv, RespTypeOK
  <2>2. database' = [authenticated |-> database.authenticated \/ (command = "AUTH" /\ done),
                     number |-> IF command = "SELECT" /\ done THEN "asked" ELSE database.number]
    BY DEF Execute
  <2>3. k < sent /\ replies' = Append(replies, reply)
        /\ written' = IF command = "SET" /\ done THEN written \union {database.number} ELSE written
    BY DEF Execute
  <2> QED BY <2>1, <2>2, <2>3
<1>2. UNCHANGED <<setup, sent, delivered, taken, outcome>>
  BY DEF Execute
<1>3. /\ setup \in Setups /\ replies \in Seq(Replies) /\ sent \in 1..3 /\ sent <= Total
      /\ Total \in 1..3 /\ k \in Nat /\ delivered \in Nat /\ delivered <= Extent(replies)
      /\ database.number \in {"default", "asked"}
  <2>1. /\ setup \in Setups /\ replies \in Seq(Replies) /\ sent \in 1..3 /\ sent <= Total
        /\ delivered \in Nat /\ delivered <= Extent(replies)
        /\ database.number \in {"default", "asked"}
    BY DEF RespInv, RespTypeOK, Pace
  <2> QED BY <2>1, InCommands
<1>4. reply \in Replies
  <2>1. setup.value \in Replies
    BY <1>3, CommandsFacts
  <2> QED BY <2>1 DEF Reply, Replies
<1> DEFINE longer == replies'
<1>5. /\ longer \in Seq(Replies) /\ Len(longer) = k + 1 /\ longer[k + 1] = reply
      /\ \A i \in 1..k : longer[i] = replies[i]
      /\ Good(longer, taken.count, taken.next, outcome)
      /\ Settled(longer, taken.count, outcome, delivered)
      /\ delivered <= Extent(longer)
  <2>1. Len(replies) + 1 <= Total /\ longer = Append(replies, reply)
    <3> HIDE DEF k
    <3>1. k + 1 <= Total
      BY <1>1, <1>3
    <3> QED BY <1>1, <3>1 DEF k
  <2> DEFINE count == taken.count
             next == taken.next
  <2>2. Good(replies, count, next, outcome) /\ Settled(replies, count, outcome, delivered)
    BY DEF RespInv
  <2> HIDE DEF reply, longer, count, next
  <2>3. /\ Extends(replies, reply, longer, delivered)
        /\ Good(longer, count, next, outcome) /\ Settled(longer, count, outcome, delivered)
    BY <1>3, <1>4, <2>1, <2>2, Longer
  <2> QED BY <2>3 DEF Extends, count, next
<1> HIDE DEF k, reply, longer
<1>6. k + 1 \in 1..Total /\ k + 1 <= sent
  BY <1>1, <1>3
<1>7. RespTypeOK'
  <2>1. /\ setup.command = "SET" => setup.value = Missed
        /\ taken \in [count : Nat, next : Nat] /\ outcome \in Outcomes
        /\ written' \subseteq {"default", "asked"}
    BY <1>1, <1>3 DEF RespInv, RespTypeOK
  <2> QED BY <1>1, <1>2, <1>3, <1>5, <2>1 DEF RespTypeOK, longer
<1>8. Pace'
  <2>1. Len(replies') <= sent /\ sent <= Total /\ delivered <= Extent(replies')
    BY <1>3, <1>5, <1>6 DEF longer
  <2> QED BY <1>2, <2>1 DEF Pace, Extent, Total, Commands
<1>9. Good(replies, taken.count, taken.next, outcome)'
  BY <1>2, <1>5 DEF Good, Total, Commands, longer
<1>10. Settled(replies, taken.count, outcome, delivered)'
  BY <1>2, <1>5 DEF Settled, longer
<1>11. ReadersWait'
  <2> SUFFICES ASSUME setup.client = "reader"
               PROVE  /\ sent - 1 <= k + 1 /\ AllAccepted(longer, sent - 1)
                      /\ outcome = Waiting => sent = taken.count + 1
    BY <1>2, <1>5 DEF ReadersWait, AllAccepted, longer
  <2>1. /\ sent - 1 <= k /\ AllAccepted(replies, sent - 1)
        /\ outcome = Waiting => sent = taken.count + 1
    BY DEF RespInv, ReadersWait, k
  <2>2. sent - 1 <= k + 1 /\ \A i \in 1..(sent - 1) : i \in 1..k
    BY <1>3, <2>1
  <2> QED BY <1>5, <2>1, <2>2 DEF AllAccepted
<1>12. Selected'
  <2>1. /\ database.number = "asked" => "SELECT" \in ToSet(setup.commands)
        /\ \A i \in 1..k : Commands[i] = "SELECT" /\ replies[i].kind # "error" =>
             database.number = "asked"
    BY DEF RespInv, Selected, k
  <2>2. database'.number = "asked" => "SELECT" \in ToSet(setup.commands)
    <3>1. command = "SELECT" => "SELECT" \in ToSet(setup.commands)
      BY <1>3, <1>6, InCommands
    <3> QED BY <1>1, <2>1, <3>1
  <2>3. ASSUME NEW i \in 1..(k + 1), Commands[i] = "SELECT", longer[i].kind # "error"
        PROVE  database'.number = "asked"
    <3>1. i \in 1..k \/ i = k + 1
      BY <1>3
    <3>2. CASE i = k + 1
      BY <1>1, <1>5, <2>3, <3>2
    <3>3. CASE i \in 1..k
      <4>1. database.number = "asked"
        BY <1>5, <2>1, <2>3, <3>3
      <4> QED BY <1>1, <4>1
    <3> QED BY <3>1, <3>2, <3>3
  <2> QED BY <1>2, <1>5, <2>2, <2>3 DEF Selected, Commands, longer
<1>13. WritesWhereAsked'
  <2> SUFFICES ASSUME setup.client = "reader"
               PROVE  written' \subseteq
                        {IF "SELECT" \in ToSet(setup.commands) THEN "asked" ELSE "default"}
    BY <1>2 DEF WritesWhereAsked
  <2>1. written \subseteq {IF "SELECT" \in ToSet(setup.commands) THEN "asked" ELSE "default"}
    BY DEF RespInv, WritesWhereAsked
  <2>2. ASSUME command = "SET"
        PROVE  database.number = IF "SELECT" \in ToSet(setup.commands) THEN "asked" ELSE "default"
    <3>1. k + 1 = Total
      BY <1>3, <1>6, <2>2, InCommands
    <3>2. Total - 1 = k /\ sent - 1 = k
      BY <1>3, <1>6, <3>1
    <3>3. AllAccepted(replies, k)
      BY <3>2 DEF RespInv, ReadersWait
    <3>4. /\ database.number = "asked" => "SELECT" \in ToSet(setup.commands)
          /\ \A i \in 1..k : Commands[i] = "SELECT" /\ replies[i].kind # "error" =>
               database.number = "asked"
      BY DEF RespInv, Selected, k
    <3>5. "SELECT" \in ToSet(setup.commands) => \E i \in 1..k : Commands[i] = "SELECT"
      BY <1>3, <3>2, InCommands
    <3> QED BY <1>3, <3>3, <3>4, <3>5 DEF AllAccepted
  <2> HIDE DEF command
  <2> QED BY <1>1, <2>1, <2>2
<1> QED BY <1>7, <1>8, <1>9, <1>10, <1>11, <1>12, <1>13 DEF RespInv

\* A client that gives up keeps what it has.
LEMMA GivingUpKeeps == RespInv /\ (Disconnect \/ TimeOut) => RespInv'
<1> SUFFICES ASSUME RespInv, Disconnect \/ TimeOut PROVE RespInv'
  OBVIOUS
<1>1. /\ outcome' \in {Failed, Forgotten}
      /\ UNCHANGED <<setup, sent, replies, database, delivered, taken, written>>
  BY DEF Disconnect, TimeOut, ReadEnded, Forgotten
<1>2. Waiting \notin {Failed, Forgotten}
  BY DEF Waiting, Failed, Forgotten
<1>3. RespTypeOK'
  BY <1>1 DEF RespInv, RespTypeOK, Outcomes
<1>4. Pace'
  BY <1>1 DEF RespInv, Pace, Total, Commands
<1>5. Good(replies, taken.count, taken.next, outcome)'
  BY <1>1 DEF RespInv, Good
<1>6. Settled(replies, taken.count, outcome, delivered)'
  BY <1>1, <1>2 DEF Settled
<1>7. ReadersWait' /\ Selected' /\ WritesWhereAsked'
  BY <1>1, <1>2 DEF RespInv, ReadersWait, Selected, WritesWhereAsked, Commands
<1> QED BY <1>3, <1>4, <1>5, <1>6, <1>7 DEF RespInv

LEMMA RespKeeps == RespInv /\ [RespNext]_respVars => RespInv'
<1>1. RespInv /\ UNCHANGED respVars => RespInv'
  <2> SUFFICES ASSUME RespInv, UNCHANGED respVars PROVE RespInv'
    OBVIOUS
  <2>1. UNCHANGED <<setup, sent, replies, database, delivered, taken, outcome, written>>
    BY DEF respVars
  <2>2. RespTypeOK' /\ Pace'
    BY <2>1 DEF RespInv, RespTypeOK, Pace, Total, Commands
  <2>3. Good(replies, taken.count, taken.next, outcome)'
    BY <2>1 DEF RespInv, Good, Total, Commands
  <2>4. Settled(replies, taken.count, outcome, delivered)' /\ ReadersWait'
    BY <2>1 DEF RespInv, Settled, ReadersWait
  <2>5. Selected' /\ WritesWhereAsked'
    BY <2>1 DEF RespInv, Selected, WritesWhereAsked, Commands
  <2> QED BY <2>2, <2>3, <2>4, <2>5 DEF RespInv
<1> QED BY <1>1, ArriveKeeps, ExecuteKeeps, GivingUpKeeps DEF RespNext

LEMMA RespHolds == RespSpec => []RespInv
<1> QED BY RespStarts, RespKeeps, PTL DEF RespSpec
-----------------------------------------------------------------------------
\* What the client and Redis keep is well typed: for all replies and values of
\* at most two bytes.
THEOREM RespTypeCorrect == RespSpec => []RespTypeOK
<1>1. RespInv => RespTypeOK
  BY DEF RespInv
<1> QED BY <1>1, RespHolds, PTL

\* However the stream is cut, a client returns the reply to its command when all
\* before it were accepted, or the first refusal; and it has taken what it could.
THEOREM AnswersCorrect == RespSpec => []AnswersAreReplies
<1>1. RespInv => AnswersAreReplies
  <2> SUFFICES ASSUME RespInv PROVE AnswersAreReplies
    OBVIOUS
  <2> DEFINE k == Len(replies)
             count == taken.count
  <2>1. /\ replies \in Seq(Replies) /\ setup \in Setups /\ k \in Nat /\ sent \in 1..3
        /\ delivered \in Nat /\ outcome \in Outcomes /\ k <= sent /\ sent <= Total
        /\ count \in 0..k /\ Total \in 1..3
    <3>1. /\ replies \in Seq(Replies) /\ setup \in Setups /\ k \in Nat /\ sent \in 1..3
          /\ delivered \in Nat /\ outcome \in Outcomes /\ k <= sent /\ sent <= Total
      BY DEF RespInv, RespTypeOK, Pace
    <3>2. count \in 0..k
      BY DEF RespInv, Good
    <3> QED BY <3>1, <3>2, InCommands
  <2>2. ASSUME outcome.kind \in {"answered", "refused"}
        PROVE  /\ count \in 1..k /\ replies[count] \in Replies
               /\ AllAccepted(replies, count - 1)
               /\ outcome = Returned(replies[count])
               /\ replies[count].kind # "error" => count = Total
    <3>1. outcome \notin {Waiting, Failed, Forgotten}
      BY <2>2 DEF Waiting, Failed, Forgotten
    <3>2. /\ count > 0 /\ AllAccepted(replies, count - 1)
          /\ outcome = Returned(replies[count])
          /\ replies[count].kind # "error" => count = Total
      BY <3>1 DEF RespInv, Good
    <3>3. count \in 1..k
      BY <2>1, <3>2
    <3>4. replies[count] \in Replies
      BY <2>1, <3>3
    <3> QED BY <3>2, <3>3, <3>4
  <2>3. ASSUME outcome.kind = "answered"
        PROVE  /\ Len(replies) = Len(Commands) /\ Accepted(Len(replies))
               /\ outcome.reply = Last(replies)
    <3>1. /\ replies[count].kind # "error" /\ outcome.reply = replies[count] /\ count = Total
      BY <2>2, <2>3, ReturnedFacts
    <3> HIDE DEF k, count
    <3>2. k = Total /\ count = k /\ \A i \in 1..k : i \in 1..(count - 1) \/ i = count
      BY <2>1, <2>2, <2>3, <3>1
    <3>3. \A i \in 1..k : replies[i].kind # "error"
      BY <2>2, <2>3, <3>1, <3>2 DEF AllAccepted
    <3> QED BY <3>1, <3>2, <3>3 DEF Accepted, Last, k, Total
  <2>4. ASSUME outcome.kind = "refused"
        PROVE  \E i \in DOMAIN replies : Accepted(i - 1) /\ replies[i] = outcome.reply
    <3>1. outcome.reply = replies[count] /\ count \in DOMAIN replies
      BY <2>1, <2>2, <2>4, ReturnedFacts
    <3>2. Accepted(count - 1)
      BY <2>2, <2>4 DEF Accepted, AllAccepted
    <3> QED BY <3>1, <3>2
  <2>5. ASSUME outcome = Waiting, taken.count < Len(replies)
        PROVE  Len(Stream(SubSeq(replies, 1, taken.count + 1))) > delivered
    <3>1. Place(replies, count + 2) > delivered + 1
      BY <2>5 DEF RespInv, Settled
    <3>2. Len(replies) <= 3 /\ count + 1 \in 1..Len(replies)
      <4> HIDE DEF k, count
      <4>1. k <= 3 /\ count < k
        BY <2>1, <2>5 DEF k, count
      <4>2. count + 1 \in 1..k
        BY <2>1, <4>1
      <4> QED BY <4>1, <4>2 DEF k
    <3>3. Len(Stream(SubSeq(replies, 1, count + 1))) = Place(replies, (count + 1) + 1) - 1
      BY <2>1, <3>2, StreamOf
    <3>4. (count + 1) + 1 = count + 2 /\ count + 2 \in 1..4
      BY <2>1, <3>2
    <3>5. Place(replies, count + 2) \in Nat
      BY <2>1, <3>2, <3>4, PlaceFacts
    <3> QED BY <2>1, <3>1, <3>3, <3>4, <3>5
  <2> QED BY <2>3, <2>4, <2>5 DEF AnswersAreReplies
<1> QED BY <1>1, RespHolds, PTL

\* A reader's SET takes effect in the database it asked for or nowhere: whatever
\* Redis refuses, and although it executes what no client waits for any more.
THEOREM WritesCorrect == RespSpec => []WritesWhereAsked
<1>1. RespInv => WritesWhereAsked
  BY DEF RespInv
<1> QED BY <1>1, RespHolds, PTL
=============================================================================
