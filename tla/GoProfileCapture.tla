--------------------------- MODULE GoProfileCapture ---------------------------
(* The profile captures of the Go prototype: the server that samples its own   *)
(* CPU profile under a lock and stores it in Redis, and the controller, which  *)
(* asks for one capture per iteration, fetches what is under its key and       *)
(* merges the files.  A controller that was killed or gave up may be started   *)
(* again with its RUN_ID, so with the same keys; its curl may outlive it.      *)
EXTENDS Naturals

CONSTANTS Attempts,     \* how often the controller is started
          Iterations,   \* max_iter, the captures of an attempt
          NoCapture,
          CaptureFaults \* kills, failed commands and restarts

Captures == (1..Attempts) \X (1..Iterations)

ASSUME CaptureAssumption ==
  /\ Attempts \in Nat \ {0} /\ Iterations \in Nat \ {0} /\ CaptureFaults \in Nat
  /\ NoCapture \notin Captures

VARIABLES request,    \* of each capture: how far its request is,
          status,     \* its HTTP status,
          gone,       \* whether its client is gone,
          sampled,    \* and the attempt whose traffic it sampled
          holder,     \* the capture that holds profileLock, or NoCapture
          stored,     \* Redis: of each iteration, the capture under its key
          controller, \* what the controller does,
          attempt,    \* in which attempt
          iter,       \* and iteration
          file,       \* of each iteration, the capture in raw/invoke-<iter>.pprof
          disturbed   \* how many faults there were

serverVars == <<request, status, gone, sampled, holder, stored>>
controllerVars == <<controller, attempt, iter, file>>
captureVars == <<serverVars, controllerVars, disturbed>>

CaptureTypeOK ==
  /\ request \in [Captures -> {"idle", "sent", "sampling", "setting", "late", "over"}]
  /\ status \in [Captures -> {"none", "200", "409", "502"}]
  /\ gone \in [Captures -> BOOLEAN]
  /\ sampled \in [Captures -> 0..Attempts]
  /\ holder \in Captures \union {NoCapture}
  /\ stored \in [1..Iterations -> Captures \union {NoCapture}]
  /\ controller \in {"capture", "wait", "fetch", "stopped", "merged"}
  /\ attempt \in 1..Attempts /\ iter \in 1..Iterations
  /\ file \in [1..Iterations -> Captures \union {NoCapture}]
  /\ disturbed \in 0..CaptureFaults

CaptureInit ==
  /\ request = [c \in Captures |-> "idle"] /\ status = [c \in Captures |-> "none"]
  /\ gone = [c \in Captures |-> FALSE] /\ sampled = [c \in Captures |-> 0]
  /\ holder = NoCapture
  /\ stored = [i \in 1..Iterations |-> NoCapture]
  /\ controller = "capture" /\ attempt = 1 /\ iter = 1
  /\ file = [i \in 1..Iterations |-> NoCapture]
  /\ disturbed = 0

Disturb == disturbed < CaptureFaults /\ disturbed' = disturbed + 1

-----------------------------------------------------------------------------
\* handleProfileCapture: TryLock, or 409.
TryLock(c) ==
  /\ request[c] = "sent" /\ holder = NoCapture
  /\ request' = [request EXCEPT ![c] = "sampling"]
  /\ sampled' = [sampled EXCEPT ![c] = attempt]
  /\ holder' = c
  /\ UNCHANGED <<status, gone, stored, controllerVars, disturbed>>

Conflict(c) ==
  /\ request[c] = "sent" /\ holder # NoCapture
  /\ request' = [request EXCEPT ![c] = "over"]
  /\ status' = [status EXCEPT ![c] = "409"]
  /\ UNCHANGED <<gone, sampled, holder, stored, controllerVars, disturbed>>

\* The sleep of the handler does not look at the request's context.
Sampled(c) ==
  /\ request[c] = "sampling"
  /\ request' = [request EXCEPT ![c] = "setting"]
  /\ UNCHANGED <<status, gone, sampled, holder, stored, controllerVars, disturbed>>

\* The handler returns, and the deferred Unlock runs.
Return(c, next, code) ==
  /\ request' = [request EXCEPT ![c] = next]
  /\ status' = [status EXCEPT ![c] = code]
  /\ holder' = NoCapture
  /\ UNCHANGED <<gone, sampled>>

StoreProfile(c) == stored' = [stored EXCEPT ![c[2]] = c]

\* The SET under the context of the request: of a client that is gone it may be
\* dropped; one that fails or times out may have taken effect, or do so later.
SetProfile(c) ==
  /\ request[c] = "setting"
  /\ \/ Return(c, "over", "200") /\ StoreProfile(c) /\ UNCHANGED disturbed
     \/ Return(c, "over", "502") /\ gone[c] /\ UNCHANGED <<stored, disturbed>>
     \/ Return(c, "over", "502") /\ Disturb /\ (StoreProfile(c) \/ UNCHANGED stored)
     \/ Return(c, "late", "502") /\ Disturb /\ UNCHANGED stored
  /\ UNCHANGED controllerVars

SetLate(c) ==
  /\ request[c] = "late"
  /\ StoreProfile(c)
  /\ request' = [request EXCEPT ![c] = "over"]
  /\ UNCHANGED <<status, gone, sampled, holder, controllerVars, disturbed>>

-----------------------------------------------------------------------------
\* capture_profile: curl in the background, beside it the warm traffic.
Own == <<attempt, iter>>

StartCapture ==
  /\ controller = "capture"
  /\ controller' = "wait"
  /\ request' = [request EXCEPT ![Own] = "sent"]
  /\ UNCHANGED <<status, gone, sampled, holder, stored, attempt, iter, file, disturbed>>

\* The mutant does not look at the status of curl.
WaitOnly ==
  /\ controller = "wait" /\ status[Own] # "none"
  /\ controller' = "fetch"
  /\ UNCHANGED <<serverVars, attempt, iter, file, disturbed>>

\* wait under set -e: with any status but 200 curl -f fails, and the controller.
WaitCapture ==
  /\ controller = "wait" /\ status[Own] # "none"
  /\ controller' = IF status[Own] = "200" THEN "fetch" ELSE "stopped"
  /\ UNCHANGED <<serverVars, attempt, iter, file, disturbed>>

\* handleProfileFetch.  After the last iteration the files are merged.
FetchFile ==
  /\ controller = "fetch" /\ stored[iter] # NoCapture
  /\ file' = [file EXCEPT ![iter] = stored[iter]]
  /\ controller' = IF iter = Iterations THEN "merged" ELSE "capture"
  /\ iter' = IF iter = Iterations THEN iter ELSE iter + 1
  /\ UNCHANGED <<serverVars, attempt, disturbed>>

\* 404, or 502: no file is written and the controller stops.
FetchNothing ==
  /\ controller = "fetch"
  /\ controller' = "stopped"
  /\ (stored[iter] = NoCapture /\ UNCHANGED disturbed) \/ Disturb
  /\ UNCHANGED <<serverVars, attempt, iter, file>>

\* Killed: a curl in the background goes with it, or does not.
Kill ==
  /\ controller \in {"capture", "wait", "fetch"} /\ Disturb
  /\ controller' = "stopped"
  /\ gone' \in {gone, [gone EXCEPT ![Own] = TRUE]}
  /\ UNCHANGED <<request, status, sampled, holder, stored, attempt, iter, file>>

\* Started again, with the same RUN_ID.
Rerun ==
  /\ controller \in {"stopped", "merged"} /\ attempt < Attempts
  /\ controller' = "capture" /\ attempt' = attempt + 1 /\ iter' = 1
  /\ UNCHANGED <<serverVars, file, disturbed>>

-----------------------------------------------------------------------------
\* The pod restarts: the gateway answers for it; a SET may be on its way.
ServerCrash ==
  /\ Disturb
  /\ \/ holder = NoCapture /\ UNCHANGED <<request, status, gone, sampled, holder>>
     \/ holder # NoCapture /\ Return(holder, "over", "502")
     \/ /\ holder # NoCapture /\ request[holder] = "setting"
        /\ Return(holder, "late", "502")
  /\ UNCHANGED <<stored, controllerVars>>

\* Redis runs without persistence, and its connections end with it.
StoreRestart ==
  /\ Disturb
  /\ stored' = [i \in 1..Iterations |-> NoCapture]
  /\ request' = [c \in Captures |-> IF request[c] = "late" THEN "over" ELSE request[c]]
  /\ UNCHANGED <<status, gone, sampled, holder, controllerVars>>

CaptureNext ==
  \/ \E c \in Captures : TryLock(c) \/ Conflict(c) \/ Sampled(c) \/ SetProfile(c) \/ SetLate(c)
  \/ StartCapture \/ WaitCapture \/ FetchFile \/ FetchNothing \/ Kill \/ Rerun
  \/ ServerCrash \/ StoreRestart

CaptureSpec == CaptureInit /\ [][CaptureNext]_captureVars

-----------------------------------------------------------------------------
\* A merge uses profiles of its own attempt's traffic: of an earlier attempt
\* with the same keys, whose curl may still run, it only sees a profile whose SET
\* failed or came late (handleProfileCapture holds the lock until its SET is
\* answered, and the controller stops at 409).
MergesOwnTraffic ==
  controller = "merged" =>
    \A i \in 1..Iterations :
      sampled[file[i]] = attempt \/ status[file[i]] = "502"
=============================================================================
