--------------------------------- MODULE Uploads ---------------------------------
(***************************************************************************)
(* Image uploads: a request saves the file and queues a job for the worker,*)
(* which makes it smaller in place and writes its thumbnail.               *)
(*                                                                         *)
(* The connection to the queue is opened by the first request that needs   *)
(* it, under a lock, and kept.  A job whose worker died is taken up again; *)
(* one that failed is not.                                                 *)
(***************************************************************************)
EXTENDS Redis

CONSTANTS
    Files,        \* uploads; each gets a name of its own
    MaxDeaths     \* bound on deaths of the worker

ASSUME UploadsAssumption == MaxDeaths \in Nat

VARIABLES
    upload,     \* where the request of a file stands
    image,      \* what it is an image of: "fits", "large", or nothing Pillow reads
    file,       \* the file under its name
    thumb,      \* files with a thumbnail
    job,        \* where the job of a file stands
    pool,       \* whether the connection is open
    worker,     \* whether the worker runs
    deaths,     \* how often it died
    torn        \* files it was saving when it died

uploadVars == <<upload, image, file, thumb, job, pool, worker, deaths, torn>>

Requested == {"saved", "connecting", "queueing", "removing"}
Ended == {"answered", "failed", "unconnected", "died"}
Working == {"started", "loaded", "saving", "resized"}

UploadsInit ==
    /\ upload = [f \in Files |-> "none"]
    /\ image \in [Files -> {"fits", "large", "unreadable"}]
    /\ file = [f \in Files |-> "absent"]
    /\ thumb = {} /\ torn = {}
    /\ job = [f \in Files |-> "none"]
    /\ pool = FALSE
    /\ worker = TRUE
    /\ deaths = 0

-----------------------------------------------------------------------------
\* The request.  One with a wrong type, signature or size ends before it does
\* anything.

MovesTo(f, phase) == upload' = [upload EXCEPT ![f] = phase]

Saves(f) ==
    /\ upload[f] = "none"
    /\ MovesTo(f, "saved")
    /\ file' = [file EXCEPT ![f] = "whole"]
    /\ UNCHANGED <<image, thumb, job, pool, worker, deaths, torn, redisVars>>

\* get_arq_redis: the connection is there, or this request opens it while the
\* others wait for the lock; they look again once they have it.
Connects(f) ==
    /\ \/ /\ upload[f] = "saved" /\ pool
          /\ MovesTo(f, "queueing")
          /\ UNCHANGED pool
       \/ /\ upload[f] = "saved" /\ ~pool
          /\ \A g \in Files : upload[g] # "connecting"
          /\ MovesTo(f, "connecting")
          /\ UNCHANGED pool
       \/ /\ upload[f] = "connecting" /\ up
          /\ MovesTo(f, "queueing")
          /\ pool' = TRUE
    /\ UNCHANGED <<image, file, thumb, job, worker, deaths, torn, redisVars>>

\* create_pool gives up; nobody removes the file.
GivesUp(f) ==
    /\ upload[f] = "connecting" /\ ~up
    /\ MovesTo(f, "unconnected")
    /\ UNCHANGED <<image, file, thumb, job, pool, worker, deaths, torn, redisVars>>

\* enqueue_job, and the addresses are answered.
Enqueues(f) ==
    /\ upload[f] = "queueing" /\ up
    /\ MovesTo(f, "answered")
    /\ job' = [job EXCEPT ![f] = "queued"]
    /\ UNCHANGED <<image, file, thumb, pool, worker, deaths, torn, redisVars>>

\* It raises; the job is queued nevertheless where only the answer was lost.
EnqueueFails(f) ==
    /\ upload[f] = "queueing"
    /\ MovesTo(f, "removing")
    /\ \/ ~up /\ UNCHANGED <<job, redisVars>>
       \/ GoesDown /\ job' = [job EXCEPT ![f] = "queued"]
    /\ UNCHANGED <<image, file, thumb, pool, worker, deaths, torn>>

\* Mutant: the error is logged instead of raised.
Swallowed(f) == "answered"

AfterError(f) == "failed"

\* Mutant: the file is left for the next upload to replace.
KeptFile(f) == file

WithoutFile(f) == [file EXCEPT ![f] = "absent"]

Removes(f) ==
    /\ upload[f] = "removing"
    /\ MovesTo(f, AfterError(f))
    /\ file' = WithoutFile(f)
    /\ UNCHANGED <<image, thumb, job, pool, worker, deaths, torn, redisVars>>

\* The process stops and starts again.
ForgetsUploads ==
    /\ upload' = [f \in Files |-> IF upload[f] \in Requested THEN "died" ELSE upload[f]]
    /\ pool' = FALSE
    /\ UNCHANGED <<image, file, thumb, job, worker, deaths, torn>>

-----------------------------------------------------------------------------
\* The worker, and process_image step by step.

Steps(f, from, to) ==
    /\ worker /\ job[f] = from
    /\ job' = [job EXCEPT ![f] = to]

Readable(f) == file[f] = "whole" /\ image[f] # "unreadable"

Takes(f) ==
    /\ up
    /\ Steps(f, "queued", "started")
    /\ UNCHANGED <<upload, image, file, thumb, pool, worker, deaths, torn, redisVars>>

\* The image is opened; one that cannot be read fails its job.
Opens(f) ==
    /\ \/ ~Readable(f) /\ Steps(f, "started", "failed")
       \/ Readable(f) /\ image[f] = "fits" /\ Steps(f, "started", "resized")
       \/ Readable(f) /\ image[f] = "large" /\ Steps(f, "started", "loaded")
    /\ UNCHANGED <<upload, image, file, thumb, pool, worker, deaths, torn, redisVars>>

\* Saving over the file: it is empty first, and whole at the end.
BeginsSave(f) ==
    /\ Steps(f, "loaded", "saving")
    /\ file' = [file EXCEPT ![f] = "partial"]
    /\ UNCHANGED <<upload, image, thumb, pool, worker, deaths, torn, redisVars>>

\* A file removed meanwhile stays removed: what is saved goes to nobody's name.
EndsSave(f) ==
    /\ Steps(f, "saving", "resized")
    /\ IF file[f] = "partial"
       THEN file' = [file EXCEPT ![f] = "whole"] /\ image' = [image EXCEPT ![f] = "fits"]
       ELSE UNCHANGED <<file, image>>
    /\ UNCHANGED <<upload, thumb, pool, worker, deaths, torn, redisVars>>

MakesThumbnail(f) ==
    /\ IF Readable(f)
       THEN Steps(f, "resized", "done") /\ thumb' = thumb \cup {f}
       ELSE Steps(f, "resized", "failed") /\ UNCHANGED thumb
    /\ UNCHANGED <<upload, image, file, pool, worker, deaths, torn, redisVars>>

\* Its jobs are queued again.
WorkerDies ==
    /\ worker /\ deaths < MaxDeaths
    /\ worker' = FALSE
    /\ deaths' = deaths + 1
    /\ torn' = torn \cup {f \in Files : job[f] = "saving"}
    /\ job' = [f \in Files |-> IF job[f] \in Working THEN "queued" ELSE job[f]]
    /\ UNCHANGED <<upload, image, file, thumb, pool, redisVars>>

WorkerStarts ==
    /\ ~worker
    /\ worker' = TRUE
    /\ UNCHANGED <<upload, image, file, thumb, job, pool, deaths, torn, redisVars>>

RequestStep(f) == Connects(f) \/ GivesUp(f) \/ Enqueues(f) \/ EnqueueFails(f) \/ Removes(f)
WorkerStep(f) ==
    Takes(f) \/ Opens(f) \/ BeginsSave(f) \/ EndsSave(f) \/ MakesThumbnail(f)

UploadsNext ==
    \/ \E f \in Files : Saves(f) \/ RequestStep(f) \/ WorkerStep(f)
    \/ WorkerDies \/ WorkerStarts
=============================================================================
