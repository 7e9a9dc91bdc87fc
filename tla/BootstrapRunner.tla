--------------------------- MODULE BootstrapRunner ---------------------------
(***************************************************************************)
(* Bootstrap.run (bootstrap.py): NumSamples replicates of _sample, either *)
(* in the calling process with one generator (num_proc = None), or over a *)
(* multiprocessing.Pool of worker processes with one of two strategies:   *)
(*   - "per_replicate": a generator default_rng(i) per replicate i, sent  *)
(*     to a worker with the task;                                         *)
(*   - "global" (USE_GLOBAL_SHARING, set by every concrete sampler): the  *)
(*     pool initializer installs the sampler and an unseeded generator in *)
(*     each worker's class state; only the index crosses to the worker.   *)
(*                                                                         *)
(* A replicate is abstracted to the part of a random stream it consumes:  *)
(* the pair <<stream, k>> for the k-th replicate drawn from stream.  Two  *)
(* replicates with the same pair are the same random draws.  The timing   *)
(* stamps are kept as the window the main process is in.                  *)
(*                                                                         *)
(* pool.map: the parent turns the iterable into a list (building every    *)
(* lazily generated argument), puts the tasks on the pool's queue in      *)
(* order, workers take them in turn, and the result of task i is stored   *)
(* at index i.  Pool() returns once the workers are spawned; a worker     *)
(* runs the initializer before its first task.                            *)
(***************************************************************************)
EXTENDS Naturals, Sequences, FiniteSets

CONSTANTS NumSamples,  \* run(num_samples)
          Workers,     \* the pool's processes (num_proc, or cpu_count() for 0)
          None         \* no value yet

Indices == 0..(NumSamples - 1)
Modes == {"sequential", "per_replicate", "global"}
Windows == {"none", "rng", "pool", "samples"}

\* A killed worker process is replaced by a new one in the same slot; one
\* replacement per slot is enough for a task to be lost.
Incarnations == 0..1

Streams == ({"seed"} \X Indices) \cup ({"entropy"} \X (Workers \X Incarnations))
           \cup {<<"main", 0>>}
Draws == Streams \X (0..NumSamples)

VARIABLES mode,       \* num_proc is None / USE_GLOBAL_SHARING
          pc,         \* the main process's place in run()
          window,     \* which _time_*_start .. _end window is open
          queue,      \* the pool's task queue: [pos, rng] per task
          worker,     \* worker[w]: its state, task and process-local generator
          seqNext,    \* __run_single_process: replicates done so far
          results,    \* boot_counts: results[i] for replicate i
          rngMadeIn   \* the windows in which generators were constructed

vars == <<mode, pc, window, queue, worker, seqNext, results, rngMadeIn>>

NoRng == None

\* The generator constructed by default_rng(i) or default_rng().
Fresh(stream) == <<stream, 0>>

\* Task n of pool.map: the n-th element of the argument list, with the
\* position its result goes to.  Per replicate, the element is the n-th
\* generator of rngs, default_rng(n), pickled with the task; globally it
\* is the index n itself, which _process_global_sample ignores.
Task(n) == [pos |-> n,
            rng |-> IF mode = "per_replicate" THEN Fresh(<<"seed", n>>) ELSE NoRng]
Tasks == [pos : Indices, rng : Draws \cup {NoRng}]

Init ==
  /\ mode \in Modes
  /\ pc = "start"
  /\ window = "none"
  /\ queue = <<>>
  /\ worker = [w \in Workers |-> [st |-> "absent", task |-> None, rng |-> NoRng,
                                    inc |-> 0]]
  /\ seqNext = 0
  /\ results = [i \in Indices |-> None]
  /\ rngMadeIn = {}

-----------------------------------------------------------------------------
(* __run_single_process                                                    *)

\* rng = np.random.default_rng() inside the RNG timing window.
SingleRngInit ==
  /\ mode = "sequential" /\ pc = "start"
  /\ rngMadeIn' = rngMadeIn \cup {"rng"}
  /\ pc' = "seq_loop"
  /\ window' = "samples"
  /\ UNCHANGED <<mode, queue, worker, seqNext, results>>

\* Mutant: one replicate too many (range(num_samples + 1)).
SingleSampleExtra ==
  /\ pc = "seq_loop"
  /\ seqNext <= NumSamples
  /\ results' = [results EXCEPT ![seqNext] = <<<<"main", 0>>, seqNext>>]
  /\ seqNext' = seqNext + 1
  /\ UNCHANGED <<mode, pc, window, queue, worker, rngMadeIn>>

\* boot_counts.append(self._sample(rng)): the shared generator advances.
SingleSample ==
  /\ pc = "seq_loop"
  /\ seqNext < NumSamples
  /\ results' = [results EXCEPT ![seqNext] = <<<<"main", 0>>, seqNext>>]
  /\ seqNext' = seqNext + 1
  /\ UNCHANGED <<mode, pc, window, queue, worker, rngMadeIn>>

SingleDone ==
  /\ pc = "seq_loop"
  /\ seqNext = NumSamples
  /\ pc' = "done"
  /\ window' = "none"
  /\ UNCHANGED <<mode, queue, worker, seqNext, results, rngMadeIn>>

-----------------------------------------------------------------------------
(* __run_multi_process                                                     *)

\* mp.Pool(...) spawns the workers inside the pool-startup window.
PoolSpawn ==
  /\ mode \in {"per_replicate", "global"} /\ pc = "start"
  /\ worker' = [w \in Workers |-> [worker[w] EXCEPT !.st = "starting"]]
  /\ window' = "pool"
  /\ pc' = "pool_started"
  /\ UNCHANGED <<mode, queue, seqNext, results, rngMadeIn>>

\* The Pool constructor returns: _time_pool_startup_end.
PoolReady ==
  /\ pc = "pool_started"
  /\ window' = "none"
  /\ pc' = IF mode = "per_replicate" THEN "rngs" ELSE "map"
  /\ UNCHANGED <<mode, queue, worker, seqNext, results, rngMadeIn>>

\* rngs = progress(default_rng(i) for i in range(num_samples)): a generator
\* expression, so the RNG window opens and closes with nothing built.
LazyRngs ==
  /\ pc = "rngs"
  /\ pc' = "map"
  /\ UNCHANGED <<mode, window, queue, worker, seqNext, results, rngMadeIn>>

\* Mutant: range(num_samples - 1), one replicate never queued.
MapDispatchShort ==
  /\ pc = "map"
  /\ window' = "samples"
  /\ rngMadeIn' = IF mode = "per_replicate" THEN rngMadeIn \cup {"samples"}
                                            ELSE rngMadeIn
  /\ queue' = [n \in 1..(NumSamples - 1) |-> Task(n - 1)]
  /\ pc' = "wait"
  /\ UNCHANGED <<mode, worker, seqNext, results>>

\* _time_samples_start, then pool.map lists its iterable (building every
\* per-replicate generator now) and queues one task per replicate.
MapDispatch ==
  /\ pc = "map"
  /\ window' = "samples"
  /\ rngMadeIn' = IF mode = "per_replicate" THEN rngMadeIn \cup {"samples"}
                                            ELSE rngMadeIn
  /\ queue' = [n \in 1..NumSamples |-> Task(n - 1)]
  /\ pc' = "wait"
  /\ UNCHANGED <<mode, worker, seqNext, results>>

\* pool.map returns every result; leaving `with` terminates the pool.
MapCollect ==
  /\ pc = "wait"
  /\ \A i \in Indices : results[i] # None
  /\ window' = "none"
  /\ worker' = [w \in Workers |-> [worker[w] EXCEPT !.st = "terminated"]]
  /\ pc' = "done"
  /\ UNCHANGED <<mode, queue, seqNext, results, rngMadeIn>>

-----------------------------------------------------------------------------
(* Worker processes                                                        *)

\* Mutant: a worker's generator identified by its pool slot alone, as a
\* seed derived from the worker index would be.
ProcessBySlot(w) == <<w, 0>>

\* The OS process that currently fills pool slot w.
Process(w) == <<w, worker[w].inc>>

\* Mutant: every worker starts from the same generator state (one built
\* before the fork, or a fixed seed).
WorkerStartSharedRng(w) ==
  /\ worker[w].st = "starting"
  /\ IF mode = "global"
       THEN /\ worker' = [worker EXCEPT ![w].st = "idle",
                  ![w].rng = Fresh(<<"entropy", <<CHOOSE x \in Workers : TRUE, 0>>>>)]
            /\ rngMadeIn' = rngMadeIn \cup {window}
       ELSE /\ worker' = [worker EXCEPT ![w].st = "idle"]
            /\ UNCHANGED rngMadeIn
  /\ UNCHANGED <<mode, pc, window, queue, seqNext, results>>

\* The pool initializer: _process_global_init installs default_rng() in
\* the global strategy; the other strategy has no initializer.
WorkerStart(w) ==
  /\ worker[w].st = "starting"
  /\ IF mode = "global"
       THEN /\ worker' = [worker EXCEPT ![w].st = "idle",
                                        ![w].rng = Fresh(<<"entropy", Process(w)>>)]
            /\ rngMadeIn' = rngMadeIn \cup {window}
       ELSE /\ worker' = [worker EXCEPT ![w].st = "idle"]
            /\ UNCHANGED rngMadeIn
  /\ UNCHANGED <<mode, pc, window, queue, seqNext, results>>

\* A worker takes the next task off the queue.
WorkerTake(w) ==
  /\ worker[w].st = "idle"
  /\ queue # <<>>
  /\ worker' = [worker EXCEPT ![w].st = "busy", ![w].task = Head(queue)]
  /\ queue' = Tail(queue)
  /\ UNCHANGED <<mode, pc, window, seqNext, results, rngMadeIn>>

WorkerSample(w) ==
  /\ worker[w].st = "busy"
  /\ LET t == worker[w].task
         draw == IF mode = "global" THEN worker[w].rng ELSE t.rng
     IN /\ results' = [results EXCEPT ![t.pos] = draw]
        /\ worker' = [worker EXCEPT
                        ![w].st = "idle", ![w].task = None,
                        ![w].rng = IF mode = "global"
                                     THEN <<@[1], @[2] + 1>> ELSE @]
  /\ UNCHANGED <<mode, pc, window, queue, seqNext, rngMadeIn>>

\* Mutant: the pool does not replace a killed worker.
WorkerCrashNoRespawn(w) ==
  /\ worker[w].st \in {"idle", "busy"}
  /\ worker[w].inc + 1 \in Incarnations
  /\ worker' = [worker EXCEPT ![w] = [st |-> "terminated", task |-> None,
                                      rng |-> NoRng, inc |-> @.inc + 1]]
  /\ UNCHANGED <<mode, pc, window, queue, seqNext, results, rngMadeIn>>

\* The worker process is killed (OOM killer, a signal).  The pool's
\* maintenance thread starts a replacement, which runs the initializer
\* again; the task the dead process had taken is never put back on the
\* queue and its result never arrives.
WorkerCrash(w) ==
  /\ worker[w].st \in {"idle", "busy"}
  /\ worker[w].inc + 1 \in Incarnations
  /\ worker' = [worker EXCEPT ![w] = [st |-> "starting", task |-> None,
                                      rng |-> NoRng, inc |-> @.inc + 1]]
  /\ UNCHANGED <<mode, pc, window, queue, seqNext, results, rngMadeIn>>

-----------------------------------------------------------------------------
Next ==
  \/ SingleRngInit \/ SingleSample \/ SingleDone
  \/ PoolSpawn \/ PoolReady \/ LazyRngs \/ MapDispatch \/ MapCollect
  \/ \E w \in Workers : WorkerStart(w) \/ WorkerTake(w) \/ WorkerSample(w)

\* Main process and workers are OS processes: each keeps running while it
\* can (weak fairness on every step of every process).
Fairness ==
  /\ WF_vars(SingleRngInit \/ SingleSample \/ SingleDone)
  /\ WF_vars(PoolSpawn \/ PoolReady \/ LazyRngs \/ MapDispatch \/ MapCollect)
  /\ \A w \in Workers : WF_vars(WorkerStart(w) \/ WorkerTake(w) \/ WorkerSample(w))

Spec == Init /\ [][Next]_vars /\ Fairness

\* Worker processes may be killed while the pool runs.
CrashSpec == Init /\ [][Next \/ \E w \in Workers : WorkerCrash(w)]_vars /\ Fairness

-----------------------------------------------------------------------------
TypeOK ==
  /\ mode \in Modes
  /\ window \in Windows
  /\ queue \in Seq(Tasks)
  /\ \A w \in Workers :
       /\ worker[w].st \in {"absent", "starting", "idle", "busy", "terminated"}
       /\ worker[w].task \in Tasks \cup {None}
       /\ worker[w].rng \in Draws \cup {NoRng}
       /\ worker[w].inc \in Incarnations
  /\ seqNext \in 0..NumSamples
  /\ results \in [Indices -> Draws \cup {None}]
  /\ rngMadeIn \subseteq Windows

(* No two replicates of a run reuse the same random draws: "All processes *)
(* must have their own unique seed ... otherwise they will all generate   *)
(* the same random values" (__run_multi_process).  It needs the shared    *)
(* generator to advance between sequential replicates, distinct seeds per *)
(* task, and in the global strategy one generator per worker that         *)
(* persists across the tasks that worker runs.                            *)
IndependentReplicates ==
  \A i, j \in Indices :
    (i # j /\ results[i] # None) => results[i] # results[j]

RunReturnsAllReplicates ==
  <>(pc = "done" /\ \A i \in Indices : results[i] # None)

\* A dispatched replicate that has no result, is not on the queue and is
\* held by no worker: its process was killed with it.
TaskLost ==
  /\ pc = "wait"
  /\ \E i \in Indices :
       /\ results[i] = None
       /\ \A k \in DOMAIN queue : queue[k].pos # i
       /\ \A w \in Workers : worker[w].task = None \/ worker[w].task.pos # i

(* Whatever workers are killed, run() returns with a result for every     *)
(* replicate unless a task was lost with its process: killing an idle     *)
(* worker is harmless, as the pool starts a replacement that runs the     *)
(* initializer and takes tasks from the queue.  Without kills this is     *)
(* RunReturnsAllReplicates, as no task is ever lost.                      *)
RunReturnsUnlessTaskLost == RunReturnsAllReplicates \/ <>TaskLost

(* run() does not hang: the design document (section 5) has a run either *)
(* complete every replicate or fail outright, "worker crash propagates as *)
(* a run failure, not a partial result".  Pool.map is run()'s only exit, *)
(* so ending means pool.map returning.                                   *)
RunEnds == <>(pc = "done")

(* The phase print_timing attributes generator construction to: the RNG  *)
(* window, or for the global strategy the pool setup ("includes RNG      *)
(* init"); the design document requires this phase to be recorded.       *)
TimedRngWindow == IF mode = "global" THEN "pool" ELSE "rng"

(* Every generator the run uses is built inside the window that times it.*)
RngInitTimed == \A win \in rngMadeIn : win = TimedRngWindow

=============================================================================
