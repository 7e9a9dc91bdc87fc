--------------------------- MODULE FingerWebSocket ---------------------------
(***************************************************************************)
(* The capture websocket of study_serve.py.  Each connection c has a      *)
(* handler thread (ws4py calls received_message and closed on it) and a   *)
(* worker thread running finger_worker.  current_req and abort_request    *)
(* are per connection; the Condition available_req is a class attribute,  *)
(* so its lock and its FIFO of waiters are shared by every connection.    *)
(*                                                                         *)
(* The worker holds the lock for the whole of finger_process.  The        *)
(* handler's sections under the lock (finger_request, closed) are single  *)
(* steps taken when the lock is free.  abort_request is written without   *)
(* the lock.  Sensor events (finger lifted, image ready) are steps the    *)
(* environment may or may not take.  ectool retries a failing command    *)
(* until it succeeds or abort is set, and ectool_fpmode's -1 for output   *)
(* it cannot parse keeps finger_wait_done polling: a sensor that fails,   *)
(* or never reports, is one whose events never happen.                   *)
(***************************************************************************)
EXTENDS Naturals, Sequences, FiniteSets

CONSTANTS Conns,        \* open websocket connections
          MaxRequests,  \* finger requests a page sends on one connection
          None

VARIABLES lock,      \* the worker holding available_req's lock, or None
          waiters,   \* workers blocked in available_req.wait(), FIFO
          wpc,       \* wpc[c]: where c's worker thread is
          hpc,       \* hpc[c]: where c's handler thread is
          cur,       \* current_req
          abort,     \* abort_request
          proc,      \* the argument of the finger_process call in progress
          saved,     \* finger_save_image wrote the raw frame of proc
          received,  \* finger requests received so far (request n is n)
          terminated,\* ws4py's server_terminated / client_terminated
          taken,     \* the last request the worker began processing
          sent       \* results sent to the page: <<c, req, frame saved>>

vars == <<lock, waiters, wpc, hpc, cur, abort, proc, saved, received,
          terminated, taken, sent>>

Reqs == 1..MaxRequests

Closing(c) == hpc[c] \in {"close_notify", "joining", "closed"}

Init ==
  /\ lock = None
  /\ waiters = <<>>
  /\ wpc = [c \in Conns |-> "loop"]
  /\ hpc = [c \in Conns |-> "idle"]
  /\ cur = [c \in Conns |-> None]
  /\ abort = [c \in Conns |-> FALSE]
  /\ proc = [c \in Conns |-> None]
  /\ saved = [c \in Conns |-> FALSE]
  /\ received = [c \in Conns |-> 0]
  /\ terminated = [c \in Conns |-> FALSE]
  /\ taken = [c \in Conns |-> 0]
  /\ sent = {}

\* Mutant: notify() that wakes the thread but leaves it among the waiters.
NotifyKeepsWaiter ==
  IF waiters = <<>>
    THEN UNCHANGED <<waiters, wpc>>
    ELSE /\ wpc' = [wpc EXCEPT ![Head(waiters)] = "reacquire"]
         /\ UNCHANGED waiters

\* available_req.notify(): wakes the longest waiting thread, whichever
\* connection it serves; it then has to reacquire the lock.
Notify ==
  IF waiters = <<>>
    THEN UNCHANGED <<waiters, wpc>>
    ELSE /\ waiters' = Tail(waiters)
         /\ wpc' = [wpc EXCEPT ![Head(waiters)] = "reacquire"]

Step(c, from, to) == wpc[c] = from /\ wpc' = [wpc EXCEPT ![c] = to]

-----------------------------------------------------------------------------
(* finger_worker                                                           *)

WorkerLoop(c) ==
  /\ wpc[c] = "loop"
  /\ wpc' = [wpc EXCEPT ![c] = IF terminated[c] THEN "exited" ELSE "acquire"]
  /\ UNCHANGED <<lock, waiters, hpc, cur, abort, proc, saved, received,
                 terminated, taken, sent>>

WorkerAcquire(c) ==
  /\ lock = None
  /\ Step(c, "acquire", "check")
  /\ lock' = c
  /\ UNCHANGED <<waiters, hpc, cur, abort, proc, saved, received,
                 terminated, taken, sent>>

\* while not current_req and not abort_request: wait(); then
\* finger_process(self.current_req).
WorkerCheck(c) ==
  /\ wpc[c] = "check"
  /\ IF cur[c] = None /\ ~abort[c]
       THEN /\ lock' = None
            /\ waiters' = Append(waiters, c)
            /\ wpc' = [wpc EXCEPT ![c] = "waiting"]
            /\ UNCHANGED <<proc, taken>>
       ELSE /\ proc' = [proc EXCEPT ![c] = cur[c]]
            /\ taken' = IF cur[c] = None THEN taken
                        ELSE [taken EXCEPT ![c] = cur[c]]
            /\ wpc' = [wpc EXCEPT ![c] = "finger_up"]
            /\ UNCHANGED <<lock, waiters>>
  /\ UNCHANGED <<hpc, cur, abort, saved, received, terminated, sent>>

\* Woken from wait(): reacquire the lock, then test the loop condition.
WorkerReacquire(c) ==
  /\ lock = None
  /\ Step(c, "reacquire", "check")
  /\ lock' = c
  /\ UNCHANGED <<waiters, hpc, cur, abort, proc, saved, received,
                 terminated, taken, sent>>

-----------------------------------------------------------------------------
(* finger_process, lock held                                               *)

\* finger_wait_done(...) returns False once abort_request is set:
\* finger_process returns without a result.
WaitDoneAborted(c) ==
  /\ wpc[c] \in {"finger_up", "capture_wait"}
  /\ abort[c]
  /\ wpc' = [wpc EXCEPT ![c] = "clear"]
  /\ UNCHANGED <<lock, waiters, hpc, cur, abort, proc, saved, received,
                 terminated, taken, sent>>

\* The sensor reports the finger up: FP_MODE_FINGER_UP clears, then
\* ectool_fpmode('capture', 'vendor').
FingerLifted(c) ==
  /\ ~abort[c]
  /\ Step(c, "finger_up", "capture_wait")
  /\ UNCHANGED <<lock, waiters, hpc, cur, abort, proc, saved, received,
                 terminated, taken, sent>>

\* The sensor reports the image captured: FP_MODE_CAPTURE clears.  Then
\* ectool_fpmode('fingerup'), req['result'] = 'ok', and finger_save_image.
ImageCaptured(c) ==
  /\ ~abort[c]
  /\ Step(c, "capture_wait", "save")
  /\ UNCHANGED <<lock, waiters, hpc, cur, abort, proc, saved, received,
                 terminated, taken, sent>>

\* ectool('fpframe', 'raw') returns b'' once abort_request is set: "Failed
\* to download fpframe", nothing is saved.
FingerSaveImage(c) ==
  /\ abort[c]
  /\ Step(c, "save", "send")
  /\ saved' = [saved EXCEPT ![c] = FALSE]
  /\ UNCHANGED <<lock, waiters, hpc, cur, abort, proc, received,
                 terminated, taken, sent>>

\* The sensor answers ectool('fpframe', 'raw'): the raw frame is saved.
\* Until it does, ectool retries the failing command with the lock held.
FrameDownloaded(c) ==
  /\ ~abort[c]
  /\ Step(c, "save", "send")
  /\ saved' = [saved EXCEPT ![c] = TRUE]
  /\ UNCHANGED <<lock, waiters, hpc, cur, abort, proc, received,
                 terminated, taken, sent>>

\* self.send(json.dumps(req)): the page is told the capture is 'ok'.
SendResult(c) ==
  /\ Step(c, "send", "clear")
  /\ sent' = sent \cup {<<c, proc[c], saved[c]>>}
  /\ UNCHANGED <<lock, waiters, hpc, cur, abort, proc, saved, received,
                 terminated, taken>>

\* self.current_req = None; self.available_req.release()
WorkerClear(c) ==
  /\ Step(c, "clear", "loop")
  /\ cur' = [cur EXCEPT ![c] = None]
  /\ proc' = [proc EXCEPT ![c] = None]
  /\ saved' = [saved EXCEPT ![c] = FALSE]
  /\ lock' = None
  /\ UNCHANGED <<waiters, hpc, abort, received, terminated, taken, sent>>

-----------------------------------------------------------------------------
(* Handler thread                                                          *)

\* received_message with a 'finger' key: finger_request sets
\* abort_request without the lock, then blocks on acquire().
FingerRequestAbort(c) ==
  /\ hpc[c] = "idle"
  /\ received[c] < MaxRequests
  /\ received' = [received EXCEPT ![c] = @ + 1]
  /\ abort' = [abort EXCEPT ![c] = TRUE]
  /\ hpc' = [hpc EXCEPT ![c] = "request"]
  /\ UNCHANGED <<lock, waiters, wpc, cur, proc, saved, terminated, taken, sent>>

\* Mutant: finger_request that leaves abort_request set.
FingerRequestAssignNoReset(c) ==
  /\ hpc[c] = "request"
  /\ lock = None
  /\ cur' = [cur EXCEPT ![c] = received[c]]
  /\ Notify
  /\ hpc' = [hpc EXCEPT ![c] = "idle"]
  /\ UNCHANGED <<lock, abort, proc, saved, received, terminated, taken, sent>>

\* Mutant: finger_request without available_req.notify().
FingerRequestAssignNoNotify(c) ==
  /\ hpc[c] = "request"
  /\ lock = None
  /\ abort' = [abort EXCEPT ![c] = FALSE]
  /\ cur' = [cur EXCEPT ![c] = received[c]]
  /\ hpc' = [hpc EXCEPT ![c] = "idle"]
  /\ UNCHANGED <<lock, waiters, wpc, proc, saved, received, terminated,
                 taken, sent>>

\* Under the lock: abort_request = False, current_req = req, notify().
FingerRequestAssign(c) ==
  /\ hpc[c] = "request"
  /\ lock = None
  /\ abort' = [abort EXCEPT ![c] = FALSE]
  /\ cur' = [cur EXCEPT ![c] = received[c]]
  /\ Notify
  /\ hpc' = [hpc EXCEPT ![c] = "idle"]
  /\ UNCHANGED <<lock, proc, saved, received, terminated, taken, sent>>

\* closed(): abort_request = True.  A clean close handshake has already
\* marked the socket terminated; an abrupt one has not.
ClosedAbort(c) ==
  /\ hpc[c] = "idle"
  /\ abort' = [abort EXCEPT ![c] = TRUE]
  /\ \E clean \in BOOLEAN :
       terminated' = [terminated EXCEPT ![c] = @ \/ clean]
  /\ hpc' = [hpc EXCEPT ![c] = "close_notify"]
  /\ UNCHANGED <<lock, waiters, wpc, cur, proc, saved, received, taken, sent>>

\* "Wake up the thread so it can exit": acquire, notify, release.
ClosedNotify(c) ==
  /\ hpc[c] = "close_notify"
  /\ lock = None
  /\ Notify
  /\ hpc' = [hpc EXCEPT ![c] = "joining"]
  /\ UNCHANGED <<lock, cur, abort, proc, saved, received, terminated, taken, sent>>

\* worker.join(10.0) returns when the worker exits or after the timeout;
\* then ws4py marks the socket terminated.
ClosedJoin(c) ==
  /\ hpc[c] = "joining"
  /\ hpc' = [hpc EXCEPT ![c] = "closed"]
  /\ terminated' = [terminated EXCEPT ![c] = TRUE]
  /\ UNCHANGED <<lock, waiters, wpc, cur, abort, proc, saved, received, taken, sent>>

-----------------------------------------------------------------------------
Worker(c) ==
  \/ WorkerLoop(c) \/ WorkerAcquire(c) \/ WorkerCheck(c) \/ WorkerReacquire(c)
  \/ WaitDoneAborted(c) \/ FingerSaveImage(c) \/ SendResult(c) \/ WorkerClear(c)

Sensor(c) == FingerLifted(c) \/ ImageCaptured(c) \/ FrameDownloaded(c)

Next ==
  \E c \in Conns :
    \/ Worker(c) \/ Sensor(c)
    \/ FingerRequestAbort(c) \/ FingerRequestAssign(c)
    \/ ClosedAbort(c) \/ ClosedNotify(c) \/ ClosedJoin(c)

(* Threads are OS threads: a thread step that stays enabled is taken     *)
(* (weak fairness).  A thread blocked in acquire() gets the lock if it is *)
(* released infinitely often, even while another thread keeps taking it  *)
(* back (strong fairness on the steps that acquire available_req).  The   *)
(* page's messages, the user's finger and the sensor's answers are not  *)
(* under the program's control and get no fairness.                      *)
Fairness ==
  \A c \in Conns :
    /\ WF_vars(Worker(c))
    /\ SF_vars(WorkerAcquire(c)) /\ SF_vars(WorkerReacquire(c))
    /\ SF_vars(FingerRequestAssign(c)) /\ SF_vars(ClosedNotify(c))
    /\ WF_vars(ClosedJoin(c))

Spec == Init /\ [][Next]_vars /\ Fairness

(* A user who follows the page and a working sensor: every finger        *)
(* placement or lift the worker polls for eventually happens, and ectool *)
(* eventually gets an answer.                                            *)
CooperativeUserSpec == Spec /\ \A c \in Conns : WF_vars(Sensor(c))

-----------------------------------------------------------------------------
TypeOK ==
  /\ lock \in Conns \cup {None}
  /\ waiters \in Seq(Conns)
  /\ \A c \in Conns :
       (wpc[c] = "waiting") <=> (\E k \in DOMAIN waiters : waiters[k] = c)
  /\ \A c \in Conns :
       /\ wpc[c] \in {"loop", "acquire", "check", "waiting", "reacquire",
                      "finger_up", "capture_wait", "save", "send", "clear",
                      "exited"}
       /\ hpc[c] \in {"idle", "request", "close_notify", "joining", "closed"}
       /\ cur[c] \in Reqs \cup {None}
       /\ proc[c] \in Reqs \cup {None}
       /\ abort[c] \in BOOLEAN /\ saved[c] \in BOOLEAN
       /\ terminated[c] \in BOOLEAN
       /\ received[c] \in 0..MaxRequests /\ taken[c] \in 0..MaxRequests
  /\ sent \subseteq Conns \X Reqs \X BOOLEAN

(* Every capture the page is told is 'ok' has its raw frame on disk      *)
(* (finger_process: "retrieve the finger image", then "tell the page     *)
(* about the acquisition result").                                       *)
OkMeansSaved == \A s \in sent : s[3]

(* abort_request only cuts a capture short when the page has sent a      *)
(* newer request or the socket is closing: finger_process never drops    *)
(* the current request on its own.                                       *)
AbortOnlyWhenSuperseded ==
  [][\A c \in Conns :
       (WaitDoneAborted(c) /\ proc[c] # None)
         => (received[c] > proc[c] \/ Closing(c))]_vars

(* A request handed to the worker (current_req = req; notify()) is taken *)
(* up by finger_process, unless a newer request or a close replaces it.  *)
RequestEventuallyTaken ==
  \A c \in Conns, n \in Reqs :
    (cur[c] = n) ~> (taken[c] >= n \/ received[c] > n \/ Closing(c))

(* After closed() the worker thread ends: no thread is left blocked on   *)
(* available_req.                                                        *)
WorkerExitsAfterClose ==
  \A c \in Conns : (hpc[c] = "closed") ~> (wpc[c] = "exited")
=============================================================================
