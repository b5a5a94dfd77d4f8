----------------------------- MODULE Optimizer ------------------------------
(***************************************************************************)
(* optimizer/: a server hands out batches of strategy parameters as jobs,  *)
(* workers run the strategy with each of them and push the best result of  *)
(* every job back, and the server's result sinc keeps the best of all.     *)
(*                                                                         *)
(* Workers are processes that reach the server with XML-RPC.  The server   *)
(* handles one request at a time, in the thread of serve_forever; a second *)
(* thread (local.run_impl, or AutoStopThread under server.serve) polls     *)
(* Server.jobsPending and stops the server.  A worker repeats a call that  *)
(* failed (retry_on_network_error), whether the server handled it or not.  *)
(*                                                                         *)
(* Parameters are numbered in the order of the parameter source.           *)
(***************************************************************************)
EXTENDS Naturals, FiniteSets

CONSTANTS
  Workers,         (* the worker processes                                       *)
  Nobody,          (* not a worker                                               *)
  NumParams,       (* how many parameters the source yields                      *)
  BatchSize,       (* Server.__batchSize                                         *)
  Ids,             (* the values of id(job), which an object leaves free again   *)
  ResultOf,        (* the result of running the strategy with each parameter     *)
  None,            (* the result of a run that raised an exception               *)
  Pythons,         (* the versions of Python                                     *)
  StopModes,       (* the ways to stop: AutoStopThread (TRUE), run_impl (FALSE)  *)
  MaxAttempts,     (* bound: attempts of one call before the worker gives up     *)
  MaxFaults        (* bound: how many requests or replies the network loses      *)

Params == 1 .. NumParams

ASSUME OptimizerAssumption ==
  /\ NumParams \in Nat /\ BatchSize \in Nat \ {0}
  /\ None \notin Nat /\ ResultOf \in [Params -> Nat \cup {None}]
  /\ Nobody \notin Workers
  /\ Pythons \subseteq {2, 3} /\ StopModes \subseteq BOOLEAN
  /\ MaxAttempts \in Nat \ {0} /\ MaxFaults \in Nat

VARIABLES
  python,      (* the version of Python that runs the server and the workers     *)
  nextParam,   (* the next parameter of ParameterSource.__iter                   *)
  exhausted,   (* ParameterSource.__iter is None                                 *)
  activeJobs,  (* Server.__activeJobs: the parameters of a job, {} for no entry  *)
  serverBest,  (* Server.__bestResult                                            *)
  sincBest,    (* ResultSinc.__bestResult                                        *)
  sincParam,   (* ResultSinc.__bestParameters, 0 for None                        *)
  handling,    (* the worker whose results the server has yet to give the sinc   *)
  server,      (* the server's thread                                            *)
  main,        (* the thread that stops the server                               *)
  pc,          (* where each worker is                                           *)
  job,         (* the job each worker has and what it made of it                 *)
  attempts,    (* failed attempts of the call each worker is making              *)
  faults,      (* how many requests or replies were lost                         *)
  received     (* history: the jobs whose results were given to the sinc         *)

source == <<nextParam, exhausted>>
sinc   == <<sincBest, sincParam, received>>
worker == <<pc, job, attempts>>
vars   == <<python, source, activeJobs, serverBest, sinc, handling, server, main, worker, faults>>

Ended == {"finished", "failed", "terminated"}
Calls == {"starting", "fetching", "pushing"}

NoJob == [id |-> 0, batch |-> {}, todo |-> {}, best |-> None, bestParam |-> 0]

-----------------------------------------------------------------------------
(* Calls *)

(* The single-threaded server can take a request.  Once stopping it may    *)
(* still take the one that woke it up.                                     *)
Idle == server # "stopped" /\ handling = Nobody

(* The call returned and the worker goes on.                               *)
Return(w, next) ==
  /\ pc' = [pc EXCEPT ![w] = IF @ = "terminated" THEN @ ELSE next]
  /\ attempts' = [attempts EXCEPT ![w] = 0]

(* The call failed: it is made again, unless stop_max_delay has passed.    *)
Retry(w) ==
  /\ attempts[w] + 1 < MaxAttempts
  /\ attempts' = [attempts EXCEPT ![w] = @ + 1]
  /\ pc' = pc
GiveUp(w) ==
  /\ pc' = [pc EXCEPT ![w] = IF @ = "terminated" THEN @ ELSE "failed"]
  /\ attempts' = attempts
Fail(w) == Retry(w) \/ GiveUp(w)

(* The request, or the reply to a request that was handled, is lost.       *)
Lose(w) ==
  /\ faults < MaxFaults
  /\ faults' = faults + 1
  /\ Fail(w)

LoseRequest(w) ==
  /\ pc[w] \in Calls /\ handling # w
  /\ Lose(w)
  /\ UNCHANGED <<python, source, activeJobs, serverBest, sinc, handling, server, main, job>>

ServerGone(w) ==
  /\ pc[w] \in Calls
  /\ server = "stopped"
  /\ GiveUp(w)
  /\ UNCHANGED <<python, source, activeJobs, serverBest, sinc, handling, server, main, job, faults>>

-----------------------------------------------------------------------------
(* A worker gets the bars, then one job after the other *)

FetchBars(w) ==
  /\ pc[w] = "starting"
  /\ Idle
  /\ Return(w, "fetching")
  /\ UNCHANGED <<python, source, activeJobs, serverBest, sinc, handling, server, main, job, faults>>

(* ParameterSource.getNext: asking for more than there is exhausts it.     *)
NextBatch == {p \in Params : nextParam <= p /\ p < nextParam + BatchSize}
Exhausts  == nextParam + BatchSize > NumParams + 1

Unregistered(id, batch) == activeJobs   \* mutant: the job is not registered
Register(id, batch) == [activeJobs EXCEPT ![id] = batch]

GetNextJob(w, id) ==
  /\ pc[w] = "fetching"
  /\ Idle
  /\ NextBatch # {} /\ activeJobs[id] = {}
  /\ nextParam' = nextParam + Cardinality(NextBatch)
  /\ exhausted' = (exhausted \/ Exhausts)
  /\ activeJobs' = Register(id, NextBatch)
  /\ \/ /\ Return(w, "running")
        /\ job' = [job EXCEPT ![w] = [NoJob EXCEPT !.id = id, !.batch = NextBatch, !.todo = NextBatch]]
        /\ faults' = faults
     \/ Lose(w) /\ job' = job
  /\ UNCHANGED <<python, serverBest, sinc, handling, server, main>>

NoMoreJobs(w) ==
  /\ pc[w] = "fetching"
  /\ Idle
  /\ NextBatch = {}
  /\ exhausted' = TRUE
  /\ \/ Return(w, "finished") /\ faults' = faults
     \/ Lose(w)
  /\ UNCHANGED <<python, nextParam, activeJobs, serverBest, sinc, handling, server, main, job>>

-----------------------------------------------------------------------------
(* Worker.__processJob *)

(* Comparing None with a number, which the code does with ">": in Python 2 *)
(* None is smaller, Python 3 raises a TypeError.                           *)
Raises(r, best)   == python = 3 /\ r = None /\ best # None
Improves(r, best) == best = None \/ (r # None /\ r > best)
LastOf(todo)      == CHOOSE p \in todo : \A q \in todo : q <= p

BestParam(r, best, p, param) == IF Improves(r, best) THEN p ELSE param

(* One run of the strategy; an exception makes its result None.            *)
RunStrategy(w) ==
  LET p == LastOf(job[w].todo)
      r == ResultOf[p]
      rest == job[w].todo \ {p} IN
  /\ pc[w] = "running"
  /\ ~Raises(r, job[w].best)
  /\ job' = [job EXCEPT ![w].todo = rest,
                        ![w].best = IF Improves(r, job[w].best) THEN r ELSE job[w].best,
                        ![w].bestParam = BestParam(r, job[w].best, p, job[w].bestParam)]
  /\ pc' = [pc EXCEPT ![w] = IF rest = {} THEN "pushing" ELSE "running"]
  /\ UNCHANGED <<python, source, activeJobs, serverBest, sinc, handling, server, main, attempts, faults>>

(* The comparison is outside the try: it ends the worker.                  *)
ComparisonRaises(w) ==
  /\ pc[w] = "running"
  /\ Raises(ResultOf[LastOf(job[w].todo)], job[w].best)
  /\ pc' = [pc EXCEPT ![w] = "failed"]
  /\ UNCHANGED <<python, source, activeJobs, serverBest, sinc, handling, server, main, job, attempts, faults>>

-----------------------------------------------------------------------------
(* Server.pushJobResults *)

NeverDeleted(id) == activeJobs          \* mutant: the job stays active
Delete(id) == [activeJobs EXCEPT ![id] = {}]

(* The job is not in __activeJobs: KeyError.                               *)
AlreadySubmitted(w) ==
  /\ pc[w] = "pushing"
  /\ Idle
  /\ activeJobs[job[w].id] = {}
  /\ \/ Return(w, "fetching") /\ faults' = faults
     \/ Lose(w)
  /\ UNCHANGED <<python, source, activeJobs, serverBest, sinc, handling, server, main, job>>

(* With the lock: the job is removed and its result compared.              *)
RemoveJob(w) ==
  /\ pc[w] = "pushing"
  /\ Idle
  /\ activeJobs[job[w].id] # {}
  /\ activeJobs' = Delete(job[w].id)
  /\ IF Raises(job[w].best, serverBest)
     THEN Fail(w) /\ UNCHANGED <<serverBest, handling>>
     ELSE /\ serverBest' = IF Improves(job[w].best, serverBest) THEN job[w].best ELSE serverBest
          /\ handling' = w
          /\ UNCHANGED <<pc, attempts>>
  /\ UNCHANGED <<python, source, sinc, server, main, job, faults>>

(* ResultSinc.push, without the server's lock, and the reply.              *)
Better(r, best) == r # None /\ (best = None \/ r > best)

PushToSinc(w) ==
  LET r == job[w].best IN
  /\ handling = w
  /\ handling' = Nobody
  /\ IF Better(r, sincBest)
     THEN sincBest' = r /\ sincParam' = job[w].bestParam
     ELSE UNCHANGED <<sincBest, sincParam>>
  /\ received' = received \cup {job[w].batch}
  /\ \/ Return(w, "fetching") /\ faults' = faults
     \/ Lose(w)
  /\ UNCHANGED <<python, source, activeJobs, serverBest, server, main, job>>

-----------------------------------------------------------------------------
(* Waiting for the jobs and stopping *)

SourcePending == ~exhausted             \* mutant: jobs being run are forgotten
JobsPending   == ~exhausted \/ \E id \in Ids : activeJobs[id] # {}

(* run_impl goes on to stop the workers, AutoStopThread stops the server.  *)
JobsDone ==
  /\ main = "polling"
  /\ ~JobsPending
  /\ \E autoStop \in StopModes :
       /\ main' = IF autoStop THEN "stopServer" ELSE "stopWorkers"
       /\ server' = IF autoStop THEN "stopping" ELSE server
  /\ UNCHANGED <<python, source, activeJobs, serverBest, sinc, handling, worker, faults>>

(* stop_process: a worker that has not ended by itself is terminated.      *)
StopWorker(w) ==
  /\ main = "stopWorkers"
  /\ pc[w] \notin Ended
  /\ pc' = [pc EXCEPT ![w] = "terminated"]
  /\ UNCHANGED <<python, source, activeJobs, serverBest, sinc, handling, server, main, job, attempts, faults>>

StopServer ==
  /\ main = "stopWorkers"
  /\ \A w \in Workers : pc[w] \in Ended
  /\ main' = "stopServer"
  /\ server' = "stopping"
  /\ UNCHANGED <<python, source, activeJobs, serverBest, sinc, handling, worker, faults>>

(* shutdown waits for serve_forever, which ends between two requests.      *)
AtAnyTime == TRUE                       \* mutant: the request is not waited for
BetweenRequests == handling = Nobody

ServerStops ==
  /\ server = "stopping"
  /\ BetweenRequests
  /\ server' = "stopped"
  /\ UNCHANGED <<python, source, activeJobs, serverBest, sinc, handling, main, worker, faults>>

(* ResultSinc.getBest gives the result of the optimization.                *)
GetBest ==
  /\ main = "stopServer" /\ server = "stopped"
  /\ main' = "done"
  /\ UNCHANGED <<python, source, activeJobs, serverBest, sinc, handling, server, worker, faults>>

-----------------------------------------------------------------------------

Init ==
  /\ python \in Pythons
  /\ nextParam = 1 /\ exhausted = FALSE
  /\ activeJobs = [id \in Ids |-> {}]
  /\ serverBest = None
  /\ sincBest = None /\ sincParam = 0
  /\ handling = Nobody
  /\ server = "serving" /\ main = "polling"
  /\ pc = [w \in Workers |-> "starting"]
  /\ job = [w \in Workers |-> NoJob]
  /\ attempts = [w \in Workers |-> 0]
  /\ faults = 0 /\ received = {}

Work(w) ==
  \/ FetchBars(w)
  \/ \E id \in Ids : GetNextJob(w, id)
  \/ NoMoreJobs(w)
  \/ RunStrategy(w) \/ ComparisonRaises(w)
  \/ AlreadySubmitted(w) \/ RemoveJob(w) \/ PushToSinc(w)
  \/ ServerGone(w)

Stop ==
  \/ JobsDone
  \/ \E w \in Workers : StopWorker(w)
  \/ StopServer \/ ServerStops \/ GetBest

Next == Stop \/ \E w \in Workers : Work(w) \/ LoseRequest(w)

(* Threads and processes go on, and a request sent to a server that serves *)
(* is handled.  The network may lose what it likes, up to the bound.       *)
Spec == Init /\ [][Next]_vars /\ WF_vars(Stop) /\ \A w \in Workers : WF_vars(Work(w))

-----------------------------------------------------------------------------
(* Properties *)

Unbeaten(best, p) == ResultOf[p] = None \/ (best # None /\ best >= ResultOf[p])

BestHasItsParameters ==
  /\ sincBest # None => sincParam \in Params /\ ResultOf[sincParam] = sincBest
  /\ \A w \in Workers :
       job[w].best # None => job[w].bestParam \in job[w].batch /\ ResultOf[job[w].bestParam] = job[w].best

(* "Finds the parameters that yield the best results" (local.py), if the   *)
(* network loses nothing; None only if every run failed.                   *)
FindsTheBest == main = "done" /\ faults = 0 => \A p \in Params : Unbeaten(sincBest, p)

(* The sinc keeps the best of all the jobs it received, in any order and   *)
(* some of them twice, with the parameters that had this result, and under *)
(* Python 2 finds the best.  Python 3 refuses to compare the result of a   *)
(* job all of whose runs failed, and the worker's second push of it may    *)
(* remove another worker's job, which got the same id in the meantime.     *)
ResultIsBest ==
  /\ BestHasItsParameters
  /\ \A batch \in received : \A p \in batch : Unbeaten(sincBest, p)
  /\ python = 2 => FindsTheBest

(* No parameter is handed to two workers; and unless the network loses     *)
(* something or the server raises, whatever the source gave out is in an   *)
(* active job, or its result reached the sinc, or is on its way there      *)
(* inside the server.                                                      *)
NoWorkLost ==
  /\ \A v, w \in Workers : v # w => job[v].batch \cap job[w].batch = {}
  /\ faults = 0 /\ python = 2 =>
       \A p \in 1 .. nextParam - 1 :
         \/ \E id \in Ids : p \in activeJobs[id]
         \/ \E batch \in received : p \in batch
         \/ handling # Nobody /\ p \in job[handling].batch

(* Stopping never interrupts a worker that is running a strategy or has    *)
(* results the server still waits for, if nothing was lost and no          *)
(* comparison raises.                                                      *)
InterruptsNoJob ==
  \A w \in Workers :
    faults = 0 /\ python = 2 /\ pc[w] # "terminated" /\ pc'[w] = "terminated" =>
      pc[w] # "running" /\ (pc[w] = "pushing" => job[w].batch \in received \/ handling = w)
NoJobInterrupted == [][InterruptsNoJob]_vars

(* "Wait for all jobs to complete" (local.py) comes to an end, unless a    *)
(* worker loses its connection or ends with an exception.                  *)
Completes == <>(main = "done" \/ faults > 0 \/ \E w \in Workers : pc[w] = "failed")

=============================================================================
