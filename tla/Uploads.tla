------------------------------- MODULE Uploads -------------------------------
(***************************************************************************)
(* Uploads of holdings files: routers/holdings.py stores the text of a     *)
(* file and queues a job, tasks/holdings_tasks.py parses it in a worker    *)
(* and writes what it found onto the row that the browser polls.           *)
(*                                                                         *)
(* A worker, the hook of its main process, the sweeper and the router each *)
(* read that a job is pending and write its end later, by primary key and  *)
(* without a condition.  The model keeps the two apart for each of them.   *)
(***************************************************************************)
EXTENDS Integers, FiniteSets

CONSTANTS
    Jobs,       \* one upload each
    Workers,
    Rescuers,   \* the runs of the sweeper and of the hook for killed workers
    Nothing,
    Faults      \* bound: how often something goes wrong

ASSUME UploadsAssumption == Nothing \notin Jobs /\ Faults \in Nat

VARIABLES
    jobs,       \* upload_jobs
    router,     \* how far the upload request of each job is
    messages,   \* the copies of each job's message in the broker
    worker,     \* the job each worker holds the message of, and how far it is
    rescuer,    \* the job each rescuer has read as pending, or Nothing
    killed,     \* the jobs whose worker the hard time limit has killed
    faults,     \* how much has gone wrong
    overlapped  \* history: two have read a job as pending before either wrote

uploadVars == <<jobs, router, messages, worker, rescuer, killed, faults, overlapped>>

\* text: raw_text is there; stale: older than _SWEEP_STALE_AFTER_SECONDS; age:
\* before, past the retention, and a day past it.
Job == [status : {"none", "pending", "success", "failed", "deleted"}, text : BOOLEAN,
        preview : BOOLEAN, stale : BOOLEAN, age : {"new", "old", "older"}]
NoJob == [status |-> "none", text |-> FALSE, preview |-> FALSE, stale |-> FALSE, age |-> "new"]
Stored == [NoJob EXCEPT !.status = "pending", !.text = TRUE]

\* doomed: the broker has the message, and the router will hear an error.
Router == {"none", "stored", "sent", "doomed", "done"}
Worker == [phase : {"idle", "parse", "written"}, job : Jobs \cup {Nothing}]
IdleWorker == [phase |-> "idle", job |-> Nothing]

Ended == {"success", "failed"}
Pending(j) == jobs[j].status = "pending"
Fault == faults < Faults /\ faults' = faults + 1

\* Those who have read the job as pending and may still write its end.
Parsing(j) == {w \in Workers : worker[w] = [phase |-> "parse", job |-> j]}
Rescuing(j) == {r \in Rescuers : rescuer[r] = j}
Enqueueing(j) == router[j] \in {"stored", "doomed"}
Claimed(j) == Parsing(j) # {} \/ Rescuing(j) # {} \/ Enqueueing(j)

ReadsPending(j) ==
    /\ Pending(j)
    /\ overlapped' = [overlapped EXCEPT ![j] = @ \/ Claimed(j)]

Succeeded(job) == [job EXCEPT !.status = "success", !.preview = TRUE, !.text = FALSE]
Failed(job) == [job EXCEPT !.status = "failed", !.text = FALSE]
\* A row that is gone cannot be updated: the writer gets an error instead.
End(j, row) == jobs' = IF jobs[j].status = "deleted" THEN jobs ELSE [jobs EXCEPT ![j] = row]

----------------------------------------------------------------------------
(* upload_holdings *)

Upload(j) ==
    /\ jobs[j].status = "none"
    /\ jobs' = [jobs EXCEPT ![j] = Stored]
    /\ router' = [router EXCEPT ![j] = "stored"]
    /\ UNCHANGED <<messages, worker, rescuer, killed, faults, overlapped>>

Enqueue(j) ==
    /\ router[j] = "stored"
    /\ messages' = [messages EXCEPT ![j] = @ + 1]
    /\ \/ router' = [router EXCEPT ![j] = "sent"] /\ UNCHANGED faults
       \/ router' = [router EXCEPT ![j] = "doomed"] /\ Fault
    /\ UNCHANGED <<jobs, worker, rescuer, killed, overlapped>>

\* delay() raises: the router marks the job it has just stored.
EnqueueFails(j) ==
    /\ \/ router[j] = "stored" /\ Fault
       \/ router[j] = "doomed" /\ UNCHANGED faults
    /\ End(j, Failed(jobs[j]))
    /\ router' = [router EXCEPT ![j] = "done"]
    /\ UNCHANGED <<messages, worker, rescuer, killed, overlapped>>

\* The process stops after the row was committed.
RouterDies(j) ==
    /\ router[j] \in {"stored", "doomed"}
    /\ Fault
    /\ router' = [router EXCEPT ![j] = "done"]
    /\ UNCHANGED <<jobs, messages, worker, rescuer, killed, overlapped>>

----------------------------------------------------------------------------
(***************************************************************************)
(* parse_holdings_upload.  Messages are acknowledged late: a worker that   *)
(* dies leaves its message in the broker, unless the hard limit killed it. *)
(***************************************************************************)
Set(w, phase, j) == worker' = [worker EXCEPT ![w] = [phase |-> phase, job |-> j]]
Idle(w) == worker' = [worker EXCEPT ![w] = IdleWorker]

\* A mutant: a redelivered message is parsed again.
StartParseAgain(w, j) ==
    /\ worker[w].phase = "idle"
    /\ messages[j] > 0
    /\ messages' = [messages EXCEPT ![j] = @ - 1]
    /\ overlapped' = [overlapped EXCEPT ![j] = @ \/ Claimed(j)]
    /\ Set(w, "parse", j)
    /\ UNCHANGED <<jobs, router, rescuer, killed, faults>>

StartParse(w, j) ==
    /\ worker[w].phase = "idle"
    /\ messages[j] > 0
    /\ messages' = [messages EXCEPT ![j] = @ - 1]
    /\ ReadsPending(j)
    /\ Set(w, "parse", j)
    /\ UNCHANGED <<jobs, router, rescuer, killed, faults>>

\* A redelivery of a job that has ended, or is gone, is acknowledged.
SkipParse(w, j) ==
    /\ worker[w].phase = "idle"
    /\ messages[j] > 0 /\ ~Pending(j)
    /\ messages' = [messages EXCEPT ![j] = @ - 1]
    /\ UNCHANGED <<jobs, router, worker, rescuer, killed, faults, overlapped>>

\* The soft limit, or no answer of the model, fails the job as any error does.
FinishParse(w) ==
    /\ worker[w].phase = "parse"
    /\ \E row \in {Succeeded(jobs[worker[w].job]), Failed(jobs[worker[w].job])} :
        End(worker[w].job, row)
    /\ Set(w, "written", worker[w].job)
    /\ UNCHANGED <<router, messages, rescuer, killed, faults, overlapped>>

Acknowledge(w) ==
    /\ worker[w].phase = "written"
    /\ Idle(w)
    /\ UNCHANGED <<jobs, router, messages, rescuer, killed, faults, overlapped>>

\* The commit fails: the task ends in an error, which acknowledges the message.
CommitFails(w) ==
    /\ worker[w].phase = "parse"
    /\ Fault
    /\ Idle(w)
    /\ UNCHANGED <<jobs, router, messages, rescuer, killed, overlapped>>

HardLimit(w) ==
    /\ worker[w].phase \in {"parse", "written"}
    /\ Fault
    /\ Idle(w)
    /\ killed' = killed \cup {worker[w].job}
    /\ UNCHANGED <<jobs, router, messages, rescuer, overlapped>>

WorkerDies(w) ==
    /\ worker[w].phase \in {"parse", "written"}
    /\ Fault
    /\ Idle(w)
    /\ messages' = [messages EXCEPT ![worker[w].job] = @ + 1]
    /\ UNCHANGED <<jobs, router, rescuer, killed, overlapped>>

\* The broker takes a message that waits too long in a worker for lost.
Redeliver(j) ==
    /\ messages[j] > 0
    /\ Fault
    /\ messages' = [messages EXCEPT ![j] = @ + 1]
    /\ UNCHANGED <<jobs, router, worker, rescuer, killed, overlapped>>

----------------------------------------------------------------------------
(***************************************************************************)
(* _resolve_pending_job_as_failed, called by the hook of the main process  *)
(* as soon as it has killed a worker and by the sweeper every 30 seconds.  *)
(***************************************************************************)
ByHook(j) == j \in killed
\* A mutant: the hook alone.
BySweeperNever(j) == FALSE
BySweeper(j) == jobs[j].stale

RescueReads(r, j) ==
    /\ rescuer[r] = Nothing
    /\ ByHook(j) \/ BySweeper(j)
    /\ ReadsPending(j)
    /\ rescuer' = [rescuer EXCEPT ![r] = j]
    /\ killed' = killed \ {j}
    /\ UNCHANGED <<jobs, router, messages, worker, faults>>

RescueWrites(r) ==
    /\ rescuer[r] # Nothing
    /\ End(rescuer[r], Failed(jobs[rescuer[r]]))
    /\ rescuer' = [rescuer EXCEPT ![r] = Nothing]
    /\ UNCHANGED <<router, messages, worker, killed, faults, overlapped>>

\* An error of the database is logged; the next sweep sees the job again.
RescueFails(r) ==
    /\ rescuer[r] # Nothing
    /\ Fault
    /\ rescuer' = [rescuer EXCEPT ![r] = Nothing]
    /\ UNCHANGED <<jobs, router, messages, worker, killed, overlapped>>

\* The main process is restarted before its hook has run, or the hook finds the
\* job ended.
HookMissed(j) ==
    /\ j \in killed
    /\ \/ ~Pending(j) /\ UNCHANGED faults
       \/ Pending(j) /\ Fault
    /\ killed' = killed \ {j}
    /\ UNCHANGED <<jobs, router, messages, worker, rescuer, overlapped>>

----------------------------------------------------------------------------
(* Time.  A worker holds a job for 45 seconds at most, a rescuer or the router *)
(* for less: nobody does who has read it a month ago. *)

Stale(j) ==
    /\ Pending(j) /\ ~jobs[j].stale
    /\ jobs' = [jobs EXCEPT ![j].stale = TRUE]
    /\ UNCHANGED <<router, messages, worker, rescuer, killed, faults, overlapped>>

Age(j) ==
    /\ jobs[j].status # "none" /\ jobs[j].age # "older"
    /\ ~Claimed(j)
    /\ Pending(j) => jobs[j].stale
    /\ jobs' = [jobs EXCEPT ![j].age = IF @ = "new" THEN "old" ELSE "older"]
    /\ UNCHANGED <<router, messages, worker, rescuer, killed, faults, overlapped>>

\* _cleanup_expired_upload_jobs: a pending row has a day longer.
Expired(job) == \/ job.age # "new" /\ job.status \in Ended
                \/ job.age = "older" /\ job.status = "pending"

CleanupUploadJobs ==
    LET expired == {j \in Jobs : Expired(jobs[j])}
    IN  /\ expired # {}
        /\ jobs' = [j \in Jobs |-> IF j \in expired THEN [NoJob EXCEPT !.status = "deleted"]
                                                    ELSE jobs[j]]
        /\ UNCHANGED <<router, messages, worker, rescuer, killed, faults, overlapped>>

----------------------------------------------------------------------------
UploadsInit ==
    /\ jobs = [j \in Jobs |-> NoJob]
    /\ router = [j \in Jobs |-> "none"]
    /\ messages = [j \in Jobs |-> 0]
    /\ worker = [w \in Workers |-> IdleWorker]
    /\ rescuer = [r \in Rescuers |-> Nothing]
    /\ killed = {} /\ faults = 0
    /\ overlapped = [j \in Jobs |-> FALSE]

OfJob(j) == Upload(j) \/ Enqueue(j) \/ EnqueueFails(j) \/ RouterDies(j) \/ Redeliver(j)
            \/ HookMissed(j) \/ Stale(j) \/ Age(j)
OfWorker(w) == \/ \E j \in Jobs : StartParse(w, j) \/ SkipParse(w, j)
               \/ FinishParse(w) \/ Acknowledge(w) \/ CommitFails(w) \/ HardLimit(w)
               \/ WorkerDies(w)
OfRescuer(r) == (\E j \in Jobs : RescueReads(r, j)) \/ RescueWrites(r) \/ RescueFails(r)

UploadsNext == \/ \E j \in Jobs : OfJob(j)
        \/ \E w \in Workers : OfWorker(w)
        \/ \E r \in Rescuers : OfRescuer(r)
        \/ CleanupUploadJobs

UploadsSpec == UploadsInit /\ [][UploadsNext]_uploadVars

\* Time passes and Celery Beat starts the sweeper; nothing is asked of a worker.
SweepFairness ==
    /\ \A j \in Jobs : WF_uploadVars(Stale(j))
    /\ \A r \in Rescuers : /\ \A j \in Jobs : WF_uploadVars(RescueReads(r, j))
                           /\ WF_uploadVars(RescueWrites(r))

----------------------------------------------------------------------------
\* Every variable holds values of its kind, and whoever is at work has a job.
UploadsTypeOK ==
    /\ jobs \in [Jobs -> Job]
    /\ router \in [Jobs -> Router]
    /\ messages \in [Jobs -> Nat]
    /\ worker \in [Workers -> Worker]
    /\ \A w \in Workers : worker[w].phase = "idle" <=> worker[w].job = Nothing
    /\ rescuer \in [Rescuers -> Jobs \cup {Nothing}]
    /\ killed \subseteq Jobs /\ faults \in 0 .. Faults
    /\ overlapped \in [Jobs -> BOOLEAN]

\* The text of a file stays on its row only as long as its job is pending, and a
\* preview belongs to a success unless two have ended the job at once.
TextOnlyWhilePending ==
    \A j \in Jobs : /\ jobs[j].text <=> Pending(j)
                    /\ jobs[j].preview => jobs[j].status = "success" \/ overlapped[j]

\* A job that has ended stays as it ended until it is deleted, however often its
\* message is delivered and whoever gives up on it, unless two of them had read it
\* as pending at the same time: their writes are blind
\* (models/upload_job.py: a preview is "Never populated on failure").
ResultStands ==
    [][\A j \in Jobs :
        jobs[j].status \in Ended /\ ~overlapped[j] =>
            \/ jobs'[j].status = "deleted"
            \/ /\ jobs'[j].status = jobs[j].status
               /\ jobs'[j].preview = jobs[j].preview]_uploadVars

\* Every pending job ends, whatever becomes of its message and of its workers.
JobsEnd == \A j \in Jobs : Pending(j) ~> ~Pending(j)

=============================================================================
