-------------------------- MODULE OptimizerProofs ---------------------------
(***************************************************************************)
(* The optimizer, for every number of workers and parameters, every size   *)
(* of a batch, every result and every loss on the network: no parameter is *)
(* handed out twice, what the sinc keeps is the best of what it received,  *)
(* and, while the network loses nothing and no comparison raises, no work  *)
(* is lost or interrupted and the best result of all comes out.            *)
(***************************************************************************)
EXTENDS Optimizer, DataTheorems

Results == Nat \cup {None}
Jobs == [id : Ids \cup {0}, batch : SUBSET Params, todo : SUBSET Params,
         best : Results, bestParam : Params \cup {0}]

(* Every variable holds a value of its kind.                               *)
TypeOK ==
  /\ python \in {2, 3} /\ nextParam \in Nat \ {0} /\ exhausted \in BOOLEAN
  /\ activeJobs \in [Ids -> SUBSET Params]
  /\ serverBest \in Results /\ sincBest \in Results
  /\ handling \in Workers \cup {Nobody}
  /\ server \in {"serving", "stopping", "stopped"}
  /\ main \in {"polling", "stopWorkers", "stopServer", "done"}
  /\ pc \in [Workers -> Calls \cup {"running"} \cup Ended]
  /\ job \in [Workers -> Jobs] /\ faults \in Nat
  /\ received \subseteq SUBSET Params

(* The source yields each parameter once, and nothing after the last.      *)
SourceOK ==
  /\ nextParam <= NumParams + 1
  /\ exhausted => nextParam = NumParams + 1
  /\ \A w \in Workers : \A p \in job[w].batch : p < nextParam
  /\ \A v, w \in Workers : v # w => job[v].batch \cap job[w].batch = {}

(* What a worker knows of its job.                                         *)
JobOK(w) ==
  /\ job[w].todo \subseteq job[w].batch
  /\ pc[w] \in {"running", "pushing"} => job[w].id \in Ids /\ job[w].batch # {}
  /\ pc[w] = "running" => job[w].todo # {} /\ handling # w
  /\ pc[w] = "pushing" \/ handling = w => job[w].todo = {}
  /\ handling = w => pc[w] \in {"pushing", "terminated"}
  /\ job[w].best # None => job[w].bestParam \in job[w].batch /\ ResultOf[job[w].bestParam] = job[w].best
  /\ \A p \in job[w].batch \ job[w].todo : Unbeaten(job[w].best, p)

SincOK ==
  /\ sincBest # None => sincParam \in Params /\ ResultOf[sincParam] = sincBest
  /\ \A batch \in received : \A p \in batch : Unbeaten(sincBest, p)

(* The server stops between two requests, after all the jobs.              *)
StopOK ==
  /\ main # "polling" => exhausted /\ \A id \in Ids : activeJobs[id] = {}
  /\ server = "stopped" => handling = Nobody
  /\ main = "done" => server = "stopped"
  /\ server # "serving" => main \in {"stopServer", "done"}

(* As long as nothing was lost and no comparison raises, a job that a      *)
(* worker has is active until its result is on the way to the sinc, and    *)
(* nothing that was given out is anywhere else.                            *)
Holds(w) == pc[w] \in {"running", "pushing"} /\ handling # w
Clean    == faults = 0 /\ python = 2
Somewhere(p) ==
  \/ \E id \in Ids : p \in activeJobs[id]
  \/ \E batch \in received : p \in batch
  \/ handling # Nobody /\ p \in job[handling].batch

CleanOK ==
  Clean => /\ \A w \in Workers : Holds(w) => activeJobs[job[w].id] = job[w].batch
           /\ \A p \in 1 .. nextParam - 1 : Somewhere(p)

IInv == TypeOK /\ SourceOK /\ (\A w \in Workers : JobOK(w)) /\ SincOK /\ StopOK /\ CleanOK

-----------------------------------------------------------------------------
(* The source and the initial states *)

(* A batch is a stretch of parameters from the next one on.                *)
LEMMA BatchIs ==
  ASSUME TypeOK, SourceOK
  PROVE  \E n \in Nat :
           /\ Cardinality(NextBatch) = n /\ NextBatch = nextParam .. nextParam + n - 1
           /\ NextBatch \subseteq Params /\ nextParam + n <= NumParams + 1
           /\ Exhausts => nextParam + n = NumParams + 1
           /\ NextBatch = {} => nextParam = NumParams + 1
<1>1. nextParam \in Nat \ {0} /\ NumParams \in Nat /\ BatchSize \in Nat \ {0} /\ nextParam <= NumParams + 1
  BY OptimizerAssumption DEF TypeOK, SourceOK
<1>2. PICK n \in Nat : n = IF Exhausts THEN NumParams + 1 - nextParam ELSE BatchSize
  <2>1. NumParams + 1 - nextParam \in Nat
    BY <1>1
  <2> QED BY <1>1, <2>1
<1>3. NextBatch = nextParam .. nextParam + n - 1
  BY <1>1, <1>2 DEF NextBatch, Params, Exhausts
<1>4. /\ NextBatch \subseteq Params /\ nextParam + n <= NumParams + 1
      /\ Exhausts => nextParam + n = NumParams + 1
  BY <1>1, <1>2, <1>3 DEF Params, Exhausts
<1>5. NextBatch = {} => nextParam = NumParams + 1
  <2>1. NextBatch = {} => ~ (nextParam \in nextParam .. nextParam + n - 1)
    BY <1>3
  <2> QED BY <1>1, <1>2, <2>1 DEF Exhausts
<1>6. Cardinality(NextBatch) = n
  <2>1. PICK a \in Int, b \in Int : a = nextParam /\ b = nextParam + n - 1
    BY <1>1, <1>2
  <2>2. Cardinality(a .. b) = IF a > b THEN 0 ELSE b - a + 1
    BY FS_Interval
  <2>3. NextBatch = a .. b
    BY <1>3, <2>1
  <2>4. (IF a > b THEN 0 ELSE b - a + 1) = n
    BY <1>1, <1>2, <2>1
  <2> QED BY <2>2, <2>3, <2>4
<1> QED BY <1>2, <1>3, <1>4, <1>5, <1>6

(* A set of parameters that is not empty has a last one.                   *)
LEMMA LastIn ==
  ASSUME NEW todo \in SUBSET Params, todo # {}
  PROVE  LastOf(todo) \in todo
<1> DEFINE B == {NumParams - p : p \in todo}
<1>1. NumParams \in Nat
  BY OptimizerAssumption
<1>2. B \in SUBSET Nat /\ B # {}
  <2>1. \A p \in todo : NumParams - p \in Nat
    BY <1>1 DEF Params
  <2> QED BY <2>1
<1>3. PICK m \in B : \A k \in B : m <= k
  <2> HIDE DEF B
  <2> QED BY <1>2, LeastNatural
<1>4. PICK p \in todo : m = NumParams - p
  BY <1>3
<1>5. ASSUME NEW q \in todo PROVE q <= p
  <2>1. NumParams - p <= NumParams - q
    BY <1>3, <1>4
  <2>2. p \in Nat /\ q \in Nat
    BY DEF Params
  <2> QED BY <1>1, <2>1, <2>2
<1> QED BY <1>5 DEF LastOf

(* The invariant holds before the first worker asks for a job.             *)
LEMMA InitIInv == Init => IInv
<1> SUFFICES ASSUME Init PROVE IInv
  OBVIOUS
<1>0. NumParams \in Nat /\ Pythons \subseteq {2, 3} /\ Nobody \notin Workers
  BY OptimizerAssumption
<1>1. NoJob \in Jobs
  BY DEF NoJob, Jobs, Results
<1>2. TypeOK
  <2>1. python \in {2, 3} /\ nextParam \in Nat \ {0} /\ exhausted \in BOOLEAN /\ faults \in Nat
    <3>1. python \in Pythons /\ nextParam = 1 /\ exhausted = FALSE /\ faults = 0
      BY DEF Init
    <3>2. python \in {2, 3}
      BY <1>0, <3>1
    <3>3. exhausted \in BOOLEAN
      BY <3>1, Zenon
    <3> QED BY <3>1, <3>2, <3>3
  <2>6. serverBest \in Results /\ sincBest \in Results /\ handling \in Workers \cup {Nobody}
    BY DEF Init, Results
  <2>2. server \in {"serving", "stopping", "stopped"} /\ main \in {"polling", "stopWorkers", "stopServer", "done"}
    BY DEF Init
  <2>3. activeJobs \in [Ids -> SUBSET Params] /\ received \subseteq SUBSET Params
    BY DEF Init
  <2>4. pc \in [Workers -> Calls \cup {"running"} \cup Ended]
    BY DEF Init, Calls
  <2>5. job \in [Workers -> Jobs]
    BY <1>1 DEF Init
  <2> QED BY <2>1, <2>2, <2>3, <2>4, <2>5, <2>6 DEF TypeOK
<1>3. \A w \in Workers : job[w].batch = {} /\ job[w].todo = {} /\ job[w].best = None /\ pc[w] = "starting" /\ handling # w
  BY <1>0 DEF Init, NoJob
<1>4. SourceOK
  BY <1>0, <1>3 DEF Init, SourceOK
<1>5. \A w \in Workers : JobOK(w)
  BY <1>3 DEF JobOK
<1>6. SincOK /\ StopOK
  BY DEF Init, SincOK, StopOK
<1>7. CleanOK
  BY <1>3 DEF Init, CleanOK, Holds
<1> QED BY <1>2, <1>4, <1>5, <1>6, <1>7 DEF IInv

-----------------------------------------------------------------------------
(* Steps *)

(* A step that leaves the jobs alone: a worker may stop working on one.    *)
Quiet ==
  /\ UNCHANGED <<python, nextParam, activeJobs, sinc, handling, job, serverBest>>
  /\ exhausted' = exhausted \/ (exhausted' = TRUE /\ NextBatch = {})
  /\ \A w \in Workers : \/ pc'[w] = pc[w]
                        \/ pc'[w] = "terminated"
                        \/ handling # w /\ pc'[w] \notin {"running", "pushing"}
  /\ pc' \in [Workers -> Calls \cup {"running"} \cup Ended]
  /\ faults' \in Nat /\ (faults' = 0 => faults = 0)

(* A call that returns changes where its worker is, and no other.          *)
LEMMA Returns ==
  ASSUME TypeOK, NEW w \in Workers, NEW next \in Calls \cup {"running"} \cup Ended, Return(w, next)
  PROVE  /\ pc' \in [Workers -> Calls \cup {"running"} \cup Ended]
         /\ \A v \in Workers \ {w} : pc'[v] = pc[v]
         /\ pc'[w] = IF pc[w] = "terminated" THEN "terminated" ELSE next
BY DEF TypeOK, Return

(* So does one that fails, which may be tried again.                       *)
LEMMA Fails ==
  ASSUME TypeOK, NEW w \in Workers, Fail(w)
  PROVE  /\ pc' \in [Workers -> Calls \cup {"running"} \cup Ended]
         /\ \A v \in Workers \ {w} : pc'[v] = pc[v]
         /\ pc'[w] \in {pc[w], "failed"}
BY DEF TypeOK, Fail, Retry, GiveUp, Ended

(* A step is one of the four that move jobs and results, or touches        *)
(* neither.                                                                *)
LEMMA Steps ==
  ASSUME IInv, [Next]_vars
  PROVE  \/ Quiet
         \/ \E w \in Workers : RunStrategy(w) \/ RemoveJob(w) \/ PushToSinc(w)
         \/ \E w \in Workers, id \in Ids : GetNextJob(w, id)
<1>1. TypeOK /\ Nobody \notin Workers
  BY OptimizerAssumption DEF IInv
<1>2. pc \in [Workers -> Calls \cup {"running"} \cup Ended] /\ faults \in Nat
  BY <1>1 DEF TypeOK
<1>3. \A w \in Workers : Lose(w) => faults' \in Nat /\ faults' # 0 /\ Fail(w)
  BY <1>2 DEF Lose
<1>4. \A w \in Workers : JobOK(w) /\ (server = "stopped" => handling # w)
  BY <1>1 DEF IInv, StopOK
<1>5. ASSUME NEW w \in Workers, FetchBars(w) PROVE Quiet
  <2>1. Return(w, "fetching") /\ handling = Nobody
    BY <1>5 DEF FetchBars, Idle
  <2> QED BY <1>1, <1>2, <1>5, <2>1, Returns DEF FetchBars, Quiet, source, Calls
<1>6. ASSUME NEW w \in Workers, NoMoreJobs(w) PROVE Quiet
  <2>1. handling = Nobody /\ pc[w] = "fetching" /\ NextBatch = {} /\ exhausted' = TRUE
        /\ UNCHANGED <<python, nextParam, activeJobs, serverBest, sinc, handling, job>>
    BY <1>6 DEF NoMoreJobs, Idle
  <2>2. CASE Return(w, "finished") /\ faults' = faults
    BY <1>1, <1>2, <2>1, <2>2, Returns DEF Quiet, Ended
  <2>3. CASE Lose(w)
    BY <1>1, <1>3, <2>1, <2>3, Fails DEF Quiet
  <2> QED BY <1>6, <2>2, <2>3 DEF NoMoreJobs
<1>7. ASSUME NEW w \in Workers, ComparisonRaises(w) PROVE Quiet
  <2>1. handling # w
    BY <1>4, <1>7 DEF ComparisonRaises, JobOK
  <2> QED BY <1>1, <1>2, <1>7, <2>1 DEF ComparisonRaises, Quiet, source, Ended
<1>8. ASSUME NEW w \in Workers, AlreadySubmitted(w) PROVE Quiet
  <2>1. handling = Nobody /\ pc[w] = "pushing"
        /\ UNCHANGED <<python, source, activeJobs, serverBest, sinc, handling, job>>
    BY <1>8 DEF AlreadySubmitted, Idle
  <2>2. CASE Return(w, "fetching") /\ faults' = faults
    BY <1>1, <1>2, <2>1, <2>2, Returns DEF Quiet, Calls, source
  <2>3. CASE Lose(w)
    BY <1>1, <1>3, <2>1, <2>3, Fails DEF Quiet, source
  <2> QED BY <1>8, <2>2, <2>3 DEF AlreadySubmitted
<1>9. ASSUME NEW w \in Workers, ServerGone(w) PROVE Quiet
  <2>1. Fail(w) /\ handling # w
    BY <1>4, <1>9 DEF ServerGone, Fail
  <2> QED BY <1>1, <1>2, <1>9, <2>1, Fails DEF ServerGone, Quiet, source
<1>10. ASSUME NEW w \in Workers, LoseRequest(w) PROVE Quiet
  <2>1. Lose(w) /\ handling # w
    BY <1>10 DEF LoseRequest
  <2> QED BY <1>1, <1>3, <1>10, <2>1, Fails DEF LoseRequest, Quiet, source
<1>11. CASE Stop
  <2>1. ASSUME NEW w \in Workers, StopWorker(w) PROVE Quiet
    BY <1>1, <1>2, <2>1 DEF StopWorker, Quiet, source, Ended
  <2>2. CASE JobsDone \/ StopServer \/ ServerStops \/ GetBest
    BY <1>2, <2>2 DEF JobsDone, StopServer, ServerStops, GetBest, Quiet, source, worker
  <2> QED BY <1>11, <2>1, <2>2 DEF Stop
<1>12. CASE UNCHANGED vars
  BY <1>2, <1>12 DEF vars, source, worker, Quiet
<1> QED BY <1>5, <1>6, <1>7, <1>8, <1>9, <1>10, <1>11, <1>12 DEF Next, Work

(* All but StopOK is kept by the steps that leave the jobs alone.          *)
LEMMA QuietStep ==
  ASSUME IInv, Quiet
  PROVE  SourceOK' /\ (\A w \in Workers : JobOK(w)') /\ SincOK' /\ CleanOK'
<1>1. TypeOK /\ SourceOK /\ (\A w \in Workers : JobOK(w)) /\ SincOK /\ CleanOK
  BY DEF IInv
<1>2. SourceOK'
  <2>1. NextBatch = {} => nextParam = NumParams + 1
    BY <1>1, BatchIs
  <2> QED BY <1>1, <2>1 DEF Quiet, SourceOK
<1>3. ASSUME NEW w \in Workers PROVE JobOK(w)'
  BY <1>1 DEF Quiet, JobOK
<1>4. SincOK'
  BY <1>1 DEF Quiet, SincOK, sinc
<1>5. CleanOK'
  <2>1. SUFFICES ASSUME Clean' PROVE /\ \A w \in Workers : Holds(w)' => activeJobs'[job'[w].id] = job'[w].batch
                                    /\ \A p \in 1 .. nextParam' - 1 : Somewhere(p)'
    BY DEF CleanOK
  <2>2. Clean
    BY <2>1 DEF Quiet, Clean
  <2>3. \A w \in Workers : Holds(w)' => Holds(w)
    BY DEF Quiet, Holds
  <2>4. \A p \in 1 .. nextParam - 1 : Somewhere(p)
    BY <1>1, <2>2 DEF CleanOK
  <2>5. \A p : Somewhere(p) => Somewhere(p)'
    BY DEF Quiet, Somewhere, sinc
  <2> QED BY <1>1, <2>2, <2>3, <2>4, <2>5 DEF CleanOK, Quiet
<1> QED BY <1>2, <1>3, <1>4, <1>5

(* The better of two results leaves behind it what one of them did.        *)
LEMMA BetterOfTwo ==
  ASSUME NEW r \in Results, NEW best \in Results, NEW q \in Params,
         NEW new, new \in {IF Improves(r, best) THEN r ELSE best, IF Better(r, best) THEN r ELSE best}
  PROVE  /\ new \in Results
         /\ Unbeaten(best, q) => Unbeaten(new, q)
         /\ Unbeaten(r, q) => Unbeaten(new, q)
<1>1. None \notin Nat /\ ResultOf[q] \in Results
  BY OptimizerAssumption DEF Results
<1> QED BY <1>1 DEF Results, Improves, Better, Unbeaten

(* A worker gets the next batch, under an id that is free.                 *)
LEMMA GetNextJobStep ==
  ASSUME IInv, NEW w \in Workers, NEW id \in Ids, GetNextJob(w, id)
  PROVE  SourceOK' /\ (\A v \in Workers : JobOK(v)') /\ SincOK' /\ CleanOK'
<1>1. TypeOK /\ SourceOK /\ (\A v \in Workers : JobOK(v)) /\ SincOK /\ CleanOK /\ Nobody \notin Workers
  BY OptimizerAssumption DEF IInv
<1>2. PICK n \in Nat : /\ Cardinality(NextBatch) = n /\ NextBatch = nextParam .. nextParam + n - 1
                       /\ NextBatch \subseteq Params /\ nextParam + n <= NumParams + 1
                       /\ Exhausts => nextParam + n = NumParams + 1
  BY <1>1, BatchIs
<1>3. /\ pc[w] = "fetching" /\ handling = Nobody /\ NextBatch # {} /\ activeJobs[id] = {}
      /\ nextParam' = nextParam + n /\ exhausted' = (exhausted \/ Exhausts)
      /\ activeJobs' = [activeJobs EXCEPT ![id] = NextBatch]
      /\ UNCHANGED <<python, serverBest, sinc, handling, server, main>>
  BY <1>2 DEF GetNextJob, Idle, Register
<1>4. nextParam \in Nat \ {0} /\ NumParams \in Nat /\ job \in [Workers -> Jobs] /\ faults \in Nat
  BY <1>1, OptimizerAssumption DEF TypeOK
<1>5. \/ /\ pc'[w] = "running" /\ faults' = faults
         /\ job' = [job EXCEPT ![w] = [NoJob EXCEPT !.id = id, !.batch = NextBatch, !.todo = NextBatch]]
      \/ job' = job /\ pc'[w] \in {pc[w], "terminated", "failed"} /\ faults' # 0
  <2>1. CASE Return(w, "running") /\ faults' = faults
             /\ job' = [job EXCEPT ![w] = [NoJob EXCEPT !.id = id, !.batch = NextBatch, !.todo = NextBatch]]
    BY <1>1, <1>3, <2>1, Returns DEF Calls
  <2>2. CASE Lose(w) /\ job' = job
    BY <1>1, <1>4, <2>2, Fails DEF Lose
  <2> QED BY <2>1, <2>2 DEF GetNextJob
<1>6. \A v \in Workers \ {w} : pc'[v] = pc[v] /\ job'[v] = job[v]
  <2>1. CASE Return(w, "running")
    BY <1>1, <1>4, <1>5, <2>1, Returns DEF Calls
  <2>2. CASE Lose(w)
    BY <1>1, <1>4, <1>5, <2>2, Fails DEF Lose
  <2> QED BY <2>1, <2>2 DEF GetNextJob
<1>7. \/ job'[w] = job[w]
      \/ /\ job'[w].id = id /\ job'[w].batch = NextBatch /\ job'[w].todo = NextBatch /\ job'[w].best = None
  BY <1>4, <1>5 DEF NoJob
<1>8. SourceOK'
  <2>1. nextParam' <= NumParams + 1 /\ (exhausted' => nextParam' = NumParams + 1)
    <3>1. ~ exhausted
      <4>1. exhausted => nextParam = NumParams + 1
        BY <1>1 DEF SourceOK
      <4>2. nextParam <= nextParam + n - 1
        BY <1>2, <1>3, <1>4
      <4> QED BY <1>2, <1>4, <4>1, <4>2
    <3> QED BY <1>2, <1>3, <3>1
  <2>2. \A p \in NextBatch : p < nextParam' /\ ~ (p < nextParam)
    BY <1>2, <1>3, <1>4
  <2>3. \A v \in Workers : \A p \in job[v].batch : p < nextParam /\ p < nextParam'
    <3>1. \A v \in Workers : \A p \in job[v].batch : p \in Nat /\ p < nextParam
      BY <1>1, <1>4 DEF SourceOK, Jobs, Params
    <3> QED BY <1>3, <1>4, <3>1
  <2>4. \A v \in Workers : \A p \in job'[v].batch : p < nextParam'
    BY <1>6, <1>7, <2>2, <2>3
  <2>5. \A u, v \in Workers : u # v => job'[u].batch \cap job'[v].batch = {}
    BY <1>1, <1>6, <1>7, <2>2, <2>3 DEF SourceOK
  <2> QED BY <2>1, <2>4, <2>5 DEF SourceOK
<1>9. ASSUME NEW v \in Workers PROVE JobOK(v)'
  <2>1. CASE v # w
    BY <1>1, <1>3, <1>6, <2>1 DEF JobOK
  <2>2. CASE v = w /\ pc'[w] = "running" /\ job'[w].id = id /\ job'[w].batch = NextBatch
             /\ job'[w].todo = NextBatch /\ job'[w].best = None
    BY <1>1, <1>3, <2>2 DEF JobOK
  <2>3. CASE v = w /\ job'[w] = job[w] /\ pc'[w] \in {pc[w], "terminated", "failed"}
    BY <1>1, <1>3, <2>3 DEF JobOK
  <2> QED BY <1>4, <1>5, <2>1, <2>2, <2>3 DEF NoJob
<1>10. SincOK'
  BY <1>1, <1>3 DEF SincOK, sinc
<1>11. CleanOK'
  <2>1. SUFFICES ASSUME Clean' PROVE /\ \A v \in Workers : Holds(v)' => activeJobs'[job'[v].id] = job'[v].batch
                                    /\ \A p \in 1 .. nextParam' - 1 : Somewhere(p)'
    BY DEF CleanOK
  <2>2. Clean /\ faults' = 0 /\ faults' = faults
    BY <1>3, <1>5, <2>1 DEF Clean
  <2>3. pc'[w] = "running" /\ job'[w].id = id /\ job'[w].batch = NextBatch
    BY <1>4, <1>5, <2>2 DEF NoJob
  <2>4. activeJobs'[id] = NextBatch /\ \A i \in Ids \ {id} : activeJobs'[i] = activeJobs[i]
    BY <1>1, <1>3 DEF TypeOK
  <2>5. ASSUME NEW v \in Workers, Holds(v)' PROVE activeJobs'[job'[v].id] = job'[v].batch
    <3>1. CASE v = w
      BY <2>3, <2>4, <3>1
    <3>2. CASE v # w
      <4>1. Holds(v) /\ job'[v] = job[v]
        BY <1>3, <1>6, <2>5, <3>2 DEF Holds
      <4>2. job[v].id \in Ids /\ job[v].batch # {} /\ activeJobs[job[v].id] = job[v].batch
        BY <1>1, <2>2, <4>1 DEF JobOK, Holds, CleanOK
      <4> QED BY <1>3, <2>4, <4>1, <4>2
    <3> QED BY <3>1, <3>2
  <2>6. ASSUME NEW p \in 1 .. nextParam' - 1 PROVE Somewhere(p)'
    <3>1. CASE p \in 1 .. nextParam - 1
      <4>1. Somewhere(p)
        BY <1>1, <2>2, <3>1 DEF CleanOK
      <4> QED BY <1>3, <2>4, <4>1 DEF Somewhere, sinc
    <3>2. CASE p \notin 1 .. nextParam - 1
      <4>1. p \in NextBatch
        BY <1>2, <1>3, <1>4, <3>2
      <4> QED BY <2>4, <4>1 DEF Somewhere
    <3> QED BY <3>1, <3>2
  <2> QED BY <2>5, <2>6
<1> QED BY <1>8, <1>9, <1>10, <1>11

(* A worker runs the strategy once, and keeps the better result.           *)
LEMMA RunStrategyStep ==
  ASSUME IInv, NEW w \in Workers, RunStrategy(w)
  PROVE  SourceOK' /\ (\A v \in Workers : JobOK(v)') /\ SincOK' /\ CleanOK'
<1>1. TypeOK /\ SourceOK /\ (\A v \in Workers : JobOK(v)) /\ SincOK /\ CleanOK
  BY DEF IInv
<1>2. job \in [Workers -> Jobs] /\ pc \in [Workers -> Calls \cup {"running"} \cup Ended] /\ None \notin Nat
  BY <1>1, OptimizerAssumption DEF TypeOK
<1>3. PICK p \in job[w].todo : p = LastOf(job[w].todo)
  <2>1. job[w].todo # {} /\ job[w].todo \in SUBSET Params
    BY <1>1, <1>2 DEF RunStrategy, JobOK, Jobs
  <2> QED BY <2>1, LastIn
<1>4. PICK r \in Results : r = ResultOf[p]
  <2>1. p \in Params
    BY <1>2 DEF Jobs
  <2> QED BY <2>1, OptimizerAssumption DEF Results
<1>5. PICK best \in Results : best = IF Improves(r, job[w].best) THEN r ELSE job[w].best
  BY <1>2, <1>4 DEF Jobs
<1>6. /\ pc[w] = "running" /\ handling # w
      /\ \A v \in Workers \ {w} : job'[v] = job[v] /\ pc'[v] = pc[v]
      /\ job'[w].batch = job[w].batch /\ job'[w].id = job[w].id
      /\ job'[w].todo = job[w].todo \ {p}
      /\ job'[w].best = best
      /\ job'[w].bestParam = IF Improves(r, job[w].best) THEN p ELSE job[w].bestParam
      /\ pc'[w] = IF job[w].todo \ {p} = {} THEN "pushing" ELSE "running"
      /\ UNCHANGED <<python, nextParam, exhausted, activeJobs, sinc, handling, faults>>
  BY <1>1, <1>2, <1>3, <1>4, <1>5 DEF RunStrategy, JobOK, Jobs, BestParam, source
<1>7. SourceOK'
  <2>1. \A v \in Workers : job'[v].batch = job[v].batch
    BY <1>6
  <2> QED BY <1>1, <1>6, <2>1 DEF SourceOK
<1>8. ASSUME NEW v \in Workers PROVE JobOK(v)'
  <2>1. CASE v # w
    BY <1>1, <1>6, <2>1 DEF JobOK
  <2>2. CASE v = w
    <3>1. /\ job[w].todo \subseteq job[w].batch /\ job[w].id \in Ids /\ job[w].batch # {}
          /\ job[w].best # None => job[w].bestParam \in job[w].batch /\ ResultOf[job[w].bestParam] = job[w].best
          /\ \A q \in job[w].batch \ job[w].todo : Unbeaten(job[w].best, q)
      BY <1>1, <1>6 DEF JobOK
    <3>2. \A q \in job'[w].batch \ job'[w].todo : Unbeaten(job'[w].best, q)
      <4>1. TAKE q \in job'[w].batch \ job'[w].todo
      <4>2. q \in Params /\ job[w].best \in Results
        BY <1>2, <1>6 DEF Jobs
      <4>3. CASE q = p
        <5>1. Unbeaten(r, p)
          BY <1>2, <1>4 DEF Unbeaten, Results
        <5> QED BY <1>5, <1>6, <4>2, <4>3, <5>1, BetterOfTwo
      <4>4. CASE q # p
        <5>1. Unbeaten(job[w].best, q)
          BY <1>6, <3>1, <4>4
        <5> QED BY <1>5, <1>6, <4>2, <5>1, BetterOfTwo
      <4> QED BY <4>3, <4>4
    <3>3. job'[w].best # None => job'[w].bestParam \in job'[w].batch /\ ResultOf[job'[w].bestParam] = job'[w].best
      BY <1>3, <1>4, <1>5, <1>6, <3>1
    <3>4. job'[w].todo \subseteq job'[w].batch /\ job'[w].id \in Ids /\ job'[w].batch # {}
      BY <1>6, <3>1
    <3> QED BY <1>6, <2>2, <3>2, <3>3, <3>4 DEF JobOK
  <2> QED BY <2>1, <2>2
<1>9. SincOK'
  BY <1>1, <1>6 DEF SincOK, sinc
<1>10. CleanOK'
  <2>1. \A v \in Workers : (Holds(v)' => Holds(v)) /\ job'[v].batch = job[v].batch /\ job'[v].id = job[v].id
    BY <1>6 DEF Holds
  <2>2. \A q : handling \in Workers => (q \in job[handling].batch <=> q \in job'[handling].batch)
    BY <2>1
  <2>3. handling # Nobody => handling \in Workers
    BY <1>1 DEF TypeOK
  <2>4. \A q : Somewhere(q) => Somewhere(q)'
    BY <1>6, <2>2, <2>3 DEF Somewhere, sinc
  <2> QED BY <1>1, <1>6, <2>1, <2>4 DEF CleanOK, Clean
<1> QED BY <1>7, <1>8, <1>9, <1>10

(* The server removes a job that was pushed: no other worker has its id.   *)
LEMMA RemoveJobStep ==
  ASSUME IInv, NEW w \in Workers, RemoveJob(w)
  PROVE  SourceOK' /\ (\A v \in Workers : JobOK(v)') /\ SincOK' /\ CleanOK'
<1>1. TypeOK /\ SourceOK /\ (\A v \in Workers : JobOK(v)) /\ SincOK /\ CleanOK /\ Nobody \notin Workers
  BY OptimizerAssumption DEF IInv
<1>2. /\ pc[w] = "pushing" /\ handling = Nobody /\ UNCHANGED <<python, source, sinc, job, faults>>
      /\ activeJobs' = [activeJobs EXCEPT ![job[w].id] = {}]
      /\ \/ python = 3 /\ handling' = handling /\ Fail(w)
         \/ handling' = w /\ pc' = pc
  BY DEF RemoveJob, Idle, Delete, Raises
<1>3. /\ \A v \in Workers \ {w} : pc'[v] = pc[v]
      /\ pc'[w] \in {pc[w], "terminated", "failed"}
  BY <1>1, <1>2, Fails
<1>4. SourceOK'
  BY <1>1, <1>2 DEF SourceOK, source
<1>5. ASSUME NEW v \in Workers PROVE JobOK(v)'
  <2>1. CASE v # w
    BY <1>1, <1>2, <1>3, <2>1 DEF JobOK
  <2>2. CASE v = w
    BY <1>1, <1>2, <1>3, <2>2 DEF JobOK
  <2> QED BY <2>1, <2>2
<1>6. SincOK'
  BY <1>1, <1>2 DEF SincOK, sinc
<1>7. CleanOK'
  <2>1. SUFFICES ASSUME Clean' PROVE /\ \A v \in Workers : Holds(v)' => activeJobs'[job'[v].id] = job'[v].batch
                                    /\ \A p \in 1 .. nextParam' - 1 : Somewhere(p)'
    BY DEF CleanOK
  <2>2. Clean /\ handling' = w /\ pc' = pc
    BY <1>2, <2>1 DEF Clean
  <2>3. /\ job[w].id \in Ids /\ activeJobs[job[w].id] = job[w].batch
    BY <1>1, <1>2, <2>2 DEF JobOK, CleanOK, Holds
  <2>4. \A id \in Ids : id # job[w].id => activeJobs'[id] = activeJobs[id]
    BY <1>1, <1>2 DEF TypeOK
  <2>5. ASSUME NEW v \in Workers, Holds(v)' PROVE activeJobs'[job'[v].id] = job'[v].batch
    <3>1. v # w /\ Holds(v) /\ job[v].id \in Ids /\ job[v].batch # {} /\ activeJobs[job[v].id] = job[v].batch
      BY <1>1, <1>2, <2>2, <2>5 DEF Holds, JobOK, CleanOK
    <3>2. job[v].id # job[w].id
      <4>1. job[v].batch \cap job[w].batch = {}
        BY <1>1, <3>1 DEF SourceOK
      <4> QED BY <2>3, <3>1, <4>1
    <3> QED BY <1>2, <2>4, <3>1, <3>2
  <2>6. ASSUME NEW p \in 1 .. nextParam' - 1 PROVE Somewhere(p)'
    <3>1. Somewhere(p)
      BY <1>1, <1>2, <2>2 DEF CleanOK, source
    <3>2. CASE \E id \in Ids : p \in activeJobs[id]
      BY <1>1, <1>2, <2>2, <2>3, <2>4, <3>2 DEF Somewhere
    <3>3. CASE \E batch \in received : p \in batch
      BY <1>2, <3>3 DEF Somewhere, sinc
    <3> QED BY <1>2, <3>1, <3>2, <3>3 DEF Somewhere
  <2> QED BY <2>5, <2>6
<1> QED BY <1>4, <1>5, <1>6, <1>7

(* The sinc receives the result of a job and keeps it if it is better.     *)
LEMMA PushToSincStep ==
  ASSUME IInv, NEW w \in Workers, PushToSinc(w)
  PROVE  SourceOK' /\ (\A v \in Workers : JobOK(v)') /\ SincOK' /\ CleanOK'
<1>1. TypeOK /\ SourceOK /\ (\A v \in Workers : JobOK(v)) /\ SincOK /\ CleanOK /\ Nobody \notin Workers
  BY OptimizerAssumption DEF IInv
<1>2. /\ handling = w /\ handling' = Nobody /\ UNCHANGED <<python, source, activeJobs, job>>
      /\ sincBest' = IF Better(job[w].best, sincBest) THEN job[w].best ELSE sincBest
      /\ sincParam' = IF Better(job[w].best, sincBest) THEN job[w].bestParam ELSE sincParam
      /\ received' = received \cup {job[w].batch}
  BY DEF PushToSinc
<1>3. /\ \A v \in Workers \ {w} : pc'[v] = pc[v]
      /\ \/ faults' = faults /\ pc'[w] \in {"fetching", "terminated"}
         \/ faults' # 0 /\ pc'[w] \in {pc[w], "terminated", "failed"}
  <2>1. CASE Return(w, "fetching") /\ faults' = faults
    BY <1>1, <2>1, Returns DEF Calls
  <2>2. CASE Lose(w)
    <3>1. faults' # 0
      BY <1>1, <2>2 DEF Lose, TypeOK
    <3> QED BY <1>1, <2>2, <3>1, Fails DEF Lose
  <2> QED BY <2>1, <2>2 DEF PushToSinc
<1>4. /\ job[w].todo = {} /\ pc[w] # "running" /\ job[w].best \in Results /\ job[w].batch \subseteq Params
      /\ job[w].best # None => job[w].bestParam \in job[w].batch /\ ResultOf[job[w].bestParam] = job[w].best
      /\ \A p \in job[w].batch : Unbeaten(job[w].best, p)
  BY <1>1, <1>2 DEF JobOK, TypeOK, Jobs
<1>5. SourceOK'
  BY <1>1, <1>2 DEF SourceOK, source
<1>6. ASSUME NEW v \in Workers PROVE JobOK(v)'
  <2>1. CASE v # w
    BY <1>1, <1>2, <1>3, <2>1 DEF JobOK
  <2>2. CASE v = w
    BY <1>1, <1>2, <1>3, <1>4, <2>2 DEF JobOK
  <2> QED BY <2>1, <2>2
<1>7. SincOK'
  <2>1. sincBest' # None => sincParam' \in Params /\ ResultOf[sincParam'] = sincBest'
    BY <1>1, <1>2, <1>4 DEF SincOK, Better
  <2>2. ASSUME NEW batch \in received', NEW p \in batch PROVE Unbeaten(sincBest', p)
    <3>1. p \in Params /\ sincBest \in Results
      BY <1>1, <1>2, <1>4, <2>2 DEF TypeOK
    <3>2. Unbeaten(sincBest, p) \/ Unbeaten(job[w].best, p)
      BY <1>1, <1>2, <1>4, <2>2 DEF SincOK
    <3> QED BY <1>2, <1>4, <3>1, <3>2, BetterOfTwo
  <2> QED BY <2>1, <2>2 DEF SincOK
<1>8. CleanOK'
  <2>1. SUFFICES ASSUME Clean' PROVE /\ \A v \in Workers : Holds(v)' => activeJobs'[job'[v].id] = job'[v].batch
                                    /\ \A p \in 1 .. nextParam' - 1 : Somewhere(p)'
    BY DEF CleanOK
  <2>2. Clean /\ pc'[w] \in {"fetching", "terminated"}
    BY <1>2, <1>3, <2>1 DEF Clean
  <2>3. \A v \in Workers : Holds(v)' => Holds(v)
    BY <1>2, <1>3, <2>2 DEF Holds
  <2>4. \A p : Somewhere(p) => Somewhere(p)'
    BY <1>2 DEF Somewhere
  <2> QED BY <1>1, <1>2, <2>2, <2>3, <2>4 DEF CleanOK, source
<1> QED BY <1>5, <1>6, <1>7, <1>8

(* What no step does to the stopping of the server.                        *)
LEMMA StopStep ==
  ASSUME IInv, [Next]_vars
  PROVE  /\ StopOK'
         /\ server' \in {"serving", "stopping", "stopped"}
         /\ main' \in {"polling", "stopWorkers", "stopServer", "done"}
<1>1. /\ TypeOK /\ StopOK /\ exhausted \in BOOLEAN
      /\ exhausted => nextParam = NumParams + 1
      /\ server \in {"serving", "stopping", "stopped"}
      /\ main \in {"polling", "stopWorkers", "stopServer", "done"}
  BY DEF IInv, TypeOK, SourceOK
<1>2. CASE JobsDone
  <2>1. /\ main = "polling" /\ main' \in {"stopServer", "stopWorkers"} /\ exhausted
        /\ \A id \in Ids : activeJobs[id] = {}
        /\ server' = IF main' = "stopServer" THEN "stopping" ELSE server
        /\ UNCHANGED <<exhausted, activeJobs, handling>>
    BY <1>2 DEF JobsDone, JobsPending, source
  <2> QED BY <1>1, <2>1 DEF StopOK
<1>3. CASE StopServer
  BY <1>1, <1>3 DEF StopServer, StopOK, source
<1>4. CASE ServerStops
  BY <1>1, <1>4 DEF ServerStops, BetweenRequests, StopOK, source
<1>5. CASE GetBest
  BY <1>1, <1>5 DEF GetBest, StopOK, source
<1>6. SUFFICES ASSUME /\ UNCHANGED <<main, server>> /\ (exhausted => exhausted')
                      /\ activeJobs' = activeJobs \/ main = "polling"
                      /\ handling' = handling \/ handling' = Nobody \/ server # "stopped"
               PROVE  StopOK' /\ server' = server /\ main' = main
  <2>1. ASSUME NEW w \in Workers, NEW id \in Ids, GetNextJob(w, id)
        PROVE  /\ UNCHANGED <<main, server, handling>> /\ (exhausted => exhausted')
               /\ main = "polling"
    <3>1. UNCHANGED <<main, server, handling>> /\ exhausted' = (exhausted \/ Exhausts) /\ NextBatch # {}
      BY <2>1 DEF GetNextJob
    <3>2. ~ exhausted
      <4>1. exhausted => NextBatch = {}
        BY <1>1, OptimizerAssumption DEF NextBatch, Params
      <4> QED BY <3>1, <4>1
    <3> QED BY <1>1, <3>1, <3>2 DEF StopOK
  <2>2. ASSUME NEW w \in Workers, RemoveJob(w)
        PROVE  /\ UNCHANGED <<main, server, exhausted>> /\ server # "stopped" /\ main = "polling"
    <3>1. UNCHANGED <<main, server, source>> /\ server # "stopped" /\ pc[w] = "pushing" /\ activeJobs[job[w].id] # {}
      BY <2>2 DEF RemoveJob, Idle
    <3>2. job[w].id \in Ids
      BY <3>1 DEF IInv, JobOK
    <3> QED BY <1>1, <3>1, <3>2 DEF StopOK, source
  <2>3. ASSUME NEW w \in Workers, FetchBars(w) \/ NoMoreJobs(w) \/ RunStrategy(w) \/ ComparisonRaises(w)
                                  \/ AlreadySubmitted(w) \/ PushToSinc(w) \/ ServerGone(w)
                                  \/ LoseRequest(w) \/ StopWorker(w)
        PROVE  /\ UNCHANGED <<main, server, activeJobs>> /\ (exhausted => exhausted')
               /\ handling' = handling \/ handling' = Nobody
    BY <2>3 DEF FetchBars, NoMoreJobs, RunStrategy, ComparisonRaises, AlreadySubmitted, PushToSinc,
                ServerGone, LoseRequest, StopWorker, source
  <2>4. CASE UNCHANGED vars
    BY <1>1, <1>6, <2>4 DEF vars, source
  <2>5. CASE Stop
    BY <1>1, <1>2, <1>3, <1>4, <1>5, <1>6, <2>3, <2>5 DEF Stop
  <2>6. CASE \E w \in Workers : Work(w) \/ LoseRequest(w)
    BY <1>1, <1>6, <2>1, <2>2, <2>3, <2>6 DEF Work
  <2> QED BY <2>4, <2>5, <2>6 DEF Next
<1> QED BY <1>1, <1>6 DEF StopOK

(* Every variable holds a value of its kind after every step.              *)
LEMMA TypeStep ==
  ASSUME IInv, [Next]_vars
  PROVE  TypeOK'
<1>1. TypeOK /\ \A w \in Workers : JobOK(w)
  BY DEF IInv
<1>2. /\ server' \in {"serving", "stopping", "stopped"}
      /\ main' \in {"polling", "stopWorkers", "stopServer", "done"}
  BY StopStep
<1>3. CASE Quiet
  BY <1>1, <1>2, <1>3 DEF Quiet, TypeOK, sinc
<1>4. ASSUME NEW w \in Workers, NEW id \in Ids, GetNextJob(w, id) PROVE TypeOK'
  <2>1. PICK n \in Nat : Cardinality(NextBatch) = n /\ NextBatch \subseteq Params
    BY <1>1, BatchIs DEF IInv
  <2>2. /\ nextParam' \in Nat \ {0} /\ exhausted' \in BOOLEAN
        /\ activeJobs' \in [Ids -> SUBSET Params]
        /\ UNCHANGED <<python, serverBest, sinc, handling>>
    <3>1. nextParam' = nextParam + n /\ nextParam \in Nat \ {0}
      BY <1>1, <1>4, <2>1 DEF GetNextJob, TypeOK
    <3>2. activeJobs' \in [Ids -> SUBSET Params]
      BY <1>1, <1>4, <2>1 DEF GetNextJob, Register, TypeOK
    <3>3. exhausted' \in BOOLEAN
      <4>1. exhausted' = (exhausted \/ Exhausts)
        BY <1>4 DEF GetNextJob
      <4> QED BY <4>1, Zenon
    <3>4. UNCHANGED <<python, serverBest, sinc, handling>>
      BY <1>4 DEF GetNextJob
    <3> QED BY <3>1, <3>2, <3>3, <3>4
  <2>3. [NoJob EXCEPT !.id = id, !.batch = NextBatch, !.todo = NextBatch] \in Jobs
    BY <2>1 DEF NoJob, Jobs, Results
  <2>4. job' \in [Workers -> Jobs] /\ pc' \in [Workers -> Calls \cup {"running"} \cup Ended] /\ faults' \in Nat
    <3>1. CASE Return(w, "running") /\ faults' = faults
               /\ job' = [job EXCEPT ![w] = [NoJob EXCEPT !.id = id, !.batch = NextBatch, !.todo = NextBatch]]
      BY <1>1, <2>3, <3>1, Returns DEF TypeOK
    <3>2. CASE Lose(w) /\ job' = job
      BY <1>1, <3>2, Fails DEF TypeOK, Lose
    <3> QED BY <1>4, <3>1, <3>2 DEF GetNextJob
  <2> QED BY <1>1, <1>2, <2>2, <2>4 DEF TypeOK, sinc
<1>5. ASSUME NEW w \in Workers, RunStrategy(w) PROVE TypeOK'
  <2>1. PICK p \in job[w].todo : p = LastOf(job[w].todo)
    <3>1. job[w].todo # {} /\ job[w].todo \in SUBSET Params
      BY <1>1, <1>5 DEF RunStrategy, JobOK, TypeOK, Jobs
    <3> QED BY <3>1, LastIn
  <2>2. p \in Params /\ ResultOf[p] \in Results
    BY <1>1, <2>1, OptimizerAssumption DEF TypeOK, Jobs, Results
  <2>3. job' \in [Workers -> Jobs]
    <3>1. PICK best \in Results : best = IF Improves(ResultOf[p], job[w].best) THEN ResultOf[p] ELSE job[w].best
      BY <1>1, <2>2 DEF TypeOK, Jobs
    <3>2. PICK param \in Params \cup {0} : param = BestParam(ResultOf[p], job[w].best, p, job[w].bestParam)
      BY <1>1, <2>2 DEF TypeOK, Jobs, BestParam
    <3>3. job' = [job EXCEPT ![w].todo = job[w].todo \ {p}, ![w].best = best, ![w].bestParam = param]
      BY <1>5, <2>1, <3>1, <3>2 DEF RunStrategy
    <3>4. PICK j \in Jobs : j = [job[w] EXCEPT !.todo = job[w].todo \ {p}, !.best = best, !.bestParam = param]
      <4>1. job[w] \in Jobs /\ job[w].todo \ {p} \in SUBSET Params
        BY <1>1 DEF TypeOK, Jobs
      <4> QED BY <4>1 DEF Jobs
    <3>5. job' = [job EXCEPT ![w] = j]
      BY <1>1, <3>3, <3>4 DEF TypeOK, Jobs
    <3> QED BY <1>1, <3>4, <3>5 DEF TypeOK
  <2>4. pc' \in [Workers -> Calls \cup {"running"} \cup Ended]
    BY <1>1, <1>5 DEF RunStrategy, TypeOK, Calls
  <2>5. UNCHANGED <<python, source, activeJobs, serverBest, sinc, handling, faults>>
    BY <1>5 DEF RunStrategy
  <2> QED BY <1>1, <1>2, <2>3, <2>4, <2>5 DEF TypeOK, source, sinc
<1>6. ASSUME NEW w \in Workers, RemoveJob(w) PROVE TypeOK'
  <2>1. activeJobs' \in [Ids -> SUBSET Params] /\ serverBest' \in Results /\ handling' \in Workers \cup {Nobody}
    BY <1>1, <1>6 DEF RemoveJob, Delete, TypeOK, Jobs
  <2>2. pc' \in [Workers -> Calls \cup {"running"} \cup Ended]
    <3>1. pc' = pc \/ Fail(w)
      BY <1>6 DEF RemoveJob
    <3> QED BY <1>1, <3>1, Fails DEF TypeOK
  <2>3. UNCHANGED <<python, source, sinc, job, faults>>
    BY <1>6 DEF RemoveJob
  <2> QED BY <1>1, <1>2, <2>1, <2>2, <2>3 DEF TypeOK, source, sinc
<1>7. ASSUME NEW w \in Workers, PushToSinc(w) PROVE TypeOK'
  <2>1. sincBest' \in Results /\ received' \subseteq SUBSET Params /\ handling' \in Workers \cup {Nobody}
    BY <1>1, <1>7 DEF PushToSinc, TypeOK, Jobs
  <2>2. pc' \in [Workers -> Calls \cup {"running"} \cup Ended] /\ faults' \in Nat
    <3>1. CASE Return(w, "fetching") /\ faults' = faults
      BY <1>1, <3>1, Returns DEF TypeOK, Calls
    <3>2. CASE Lose(w)
      BY <1>1, <3>2, Fails DEF TypeOK, Lose
    <3> QED BY <1>7, <3>1, <3>2 DEF PushToSinc
  <2>3. UNCHANGED <<python, source, activeJobs, serverBest, job>>
    BY <1>7 DEF PushToSinc
  <2> QED BY <1>1, <1>2, <2>1, <2>2, <2>3 DEF TypeOK, source
<1> QED BY <1>3, <1>4, <1>5, <1>6, <1>7, Steps

(* The steps keep the invariant.                                           *)
LEMMA StepIInv == IInv /\ [Next]_vars => IInv'
<1> SUFFICES ASSUME IInv, [Next]_vars PROVE IInv'
  OBVIOUS
<1>1. TypeOK' /\ StopOK'
  BY TypeStep, StopStep
<1>2. SourceOK' /\ (\A w \in Workers : JobOK(w)') /\ SincOK' /\ CleanOK'
  BY Steps, QuietStep, GetNextJobStep, RunStrategyStep, RemoveJobStep, PushToSincStep
<1> QED BY <1>1, <1>2 DEF IInv

(* The invariant holds in every state the server and the workers reach,    *)
(* under every version of Python and whatever the network loses.           *)
THEOREM Invariance == Spec => []IInv
BY InitIInv, StepIInv, PTL DEF Spec

-----------------------------------------------------------------------------
(* The properties *)

(* No parameter goes to two workers, and none that the source gave out is  *)
(* lost while nothing else is.                                             *)
THEOREM NoWorkLostCorrect == Spec => []NoWorkLost
<1>1. IInv => NoWorkLost
  BY DEF IInv, SourceOK, CleanOK, Clean, Somewhere, NoWorkLost
<1> QED BY <1>1, Invariance, PTL

(* The best result comes out, with its parameters.                         *)
THEOREM ResultIsBestCorrect == Spec => []ResultIsBest
<1>1. IInv => ResultIsBest
  <2> SUFFICES ASSUME IInv PROVE ResultIsBest
    OBVIOUS
  <2>1. BestHasItsParameters /\ \A batch \in received : \A p \in batch : Unbeaten(sincBest, p)
    BY DEF IInv, SincOK, JobOK, BestHasItsParameters
  <2>2. ASSUME python = 2, main = "done", faults = 0, NEW p \in Params PROVE Unbeaten(sincBest, p)
    <3>1. exhausted /\ (\A id \in Ids : activeJobs[id] = {}) /\ handling = Nobody
      BY <2>2 DEF IInv, StopOK
    <3>2. nextParam = NumParams + 1
      BY <3>1 DEF IInv, SourceOK
    <3>3. p \in 1 .. nextParam - 1
      BY <3>2, OptimizerAssumption DEF Params
    <3>4. Somewhere(p)
      BY <2>2, <3>3 DEF IInv, CleanOK, Clean
    <3> QED BY <2>1, <3>1, <3>4 DEF Somewhere
  <2> QED BY <2>1, <2>2 DEF ResultIsBest, FindsTheBest
<1> QED BY <1>1, Invariance, PTL

(* Only StopWorker terminates a worker.                                    *)
LEMMA Terminates ==
  ASSUME TypeOK, [Next]_vars, NEW w \in Workers, pc[w] # "terminated", pc'[w] = "terminated"
  PROVE  main = "stopWorkers"
<1>1. ASSUME NEW v \in Workers, NEW next \in {"fetching", "running", "finished"}, Return(v, next) PROVE FALSE
  <2>1. next \in Calls \cup {"running"} \cup Ended
    BY DEF Calls, Ended
  <2>2. pc'[v] = (IF pc[v] = "terminated" THEN "terminated" ELSE next) /\ \A u \in Workers \ {v} : pc'[u] = pc[u]
    BY <1>1, <2>1, Returns
  <2> QED BY <2>2
<1>2. ASSUME NEW v \in Workers, Fail(v) PROVE FALSE
  BY <1>2, Fails
<1>3. ASSUME NEW v \in Workers, RunStrategy(v) \/ ComparisonRaises(v) PROVE FALSE
  BY <1>3 DEF RunStrategy, ComparisonRaises, TypeOK
<1>4. ASSUME NEW v \in Workers, Work(v) \/ LoseRequest(v) PROVE FALSE
  <2>1. pc' # pc
    OBVIOUS
  <2> QED BY <1>1, <1>2, <1>3, <1>4, <2>1 DEF Work, FetchBars, GetNextJob, NoMoreJobs, AlreadySubmitted, RemoveJob,
                                         PushToSinc, ServerGone, LoseRequest, Lose, Fail
<1>5. ASSUME NEW v \in Workers, StopWorker(v) PROVE main = "stopWorkers"
  BY <1>5 DEF StopWorker
<1>6. CASE JobsDone \/ StopServer \/ ServerStops \/ GetBest \/ UNCHANGED vars
  BY <1>6 DEF JobsDone, StopServer, ServerStops, GetBest, vars, worker
<1> QED BY <1>4, <1>5, <1>6 DEF Next, Stop

(* Stopping interrupts no worker that has a job the server waits for.      *)
THEOREM NoJobInterruptedCorrect == Spec => NoJobInterrupted
<1>1. IInv /\ [Next]_vars => [InterruptsNoJob]_vars
  <2> SUFFICES ASSUME IInv, [Next]_vars, NEW w \in Workers, faults = 0, python = 2,
                      pc[w] # "terminated", pc'[w] = "terminated"
               PROVE  pc[w] # "running" /\ (pc[w] = "pushing" => job[w].batch \in received \/ handling = w)
    BY DEF InterruptsNoJob
  <2>1. TypeOK /\ JobOK(w) /\ StopOK /\ CleanOK
    BY DEF IInv
  <2>2. main = "stopWorkers"
    BY <2>1, Terminates
  <2>3. \A id \in Ids : activeJobs[id] = {}
    BY <2>1, <2>2 DEF StopOK
  <2>4. ~ Holds(w)
    BY <2>1, <2>3 DEF Holds, JobOK, CleanOK, Clean
  <2> QED BY <2>1, <2>4 DEF Holds, JobOK
<1> QED BY <1>1, Invariance, PTL DEF Spec, NoJobInterrupted

=============================================================================
