------------------------------- MODULE Upload -------------------------------
(***************************************************************************)
(* UploadService: pictures are stored in a bucket of an object store       *)
(* (MinIO or S3) that the server looks for once when it starts, and again  *)
(* before an upload as long as it has not seen it.  The files of one       *)
(* request are uploaded concurrently, and the first that fails answers the *)
(* request while the others go on.                                         *)
(*                                                                         *)
(* A call to the store is one step: it is carried out and answered, or it  *)
(* fails, before or after it was carried out.                              *)
(***************************************************************************)
EXTENDS Integers, FiniteSets

CONSTANTS
  Batches,     \* requests to POST /upload/image and /upload/images
  Files,       \* their files
  BatchOf,     \* the request each file belongs to
  Boot,        \* the start of the server, which looks for the bucket too
  MaxOutages,  \* bound: times the store becomes unreachable
  MaxOperations, \* bound: times an operator removes or makes the bucket
  MaxRestarts  \* bound: restarts of the server

ASSUME BatchesAssumption == BatchOf \in [Files -> Batches] /\ Boot \notin Files

ASSUME BoundsAssumption == {MaxOutages, MaxOperations, MaxRestarts} \subseteq Nat

VARIABLES
  reachable,     \* does the store answer?
  bucket,        \* does the bucket exist?
  objects,       \* files stored in it
  bucketChecked, \* UploadService.bucketChecked
  pc,            \* the await each file, and the start, stands at
  answer,        \* what each request was told
  outages,       \* times the store became unreachable so far
  operations,    \* times an operator removed or made the bucket so far
  restarts,      \* restarts of the server so far
  removed,       \* history: the bucket was removed since the server started
  wiped,         \* history: files whose object went with the bucket
  excused        \* history: requests that something happened to which they may fail for

store   == <<reachable, bucket, objects, outages, operations>>
service == <<bucketChecked, pc, answer>>
history == <<removed, wiped, excused>>
vars    == <<store, service, restarts, history>>

Tasks   == Files \cup {Boot}
Steps   == {"idle", "head", "create", "sharp", "put", "stored", "failed"}
Answers == {"none", "waiting", "ok", "error", "lost"}

FilesOf(b) == {f \in Files : BatchOf[f] = b}

Init ==
  /\ reachable \in BOOLEAN
  /\ bucket \in BOOLEAN
  /\ objects = {}
  /\ bucketChecked = FALSE
  /\ pc = [t \in Tasks |-> IF t = Boot THEN "head" ELSE "idle"]
  /\ answer = [b \in Batches |-> "none"]
  /\ outages = 0 /\ operations = 0 /\ restarts = 0
  /\ removed = FALSE /\ wiped = {} /\ excused = {}

Waiting == {b \in Batches : answer[b] = "waiting"}

\* Mutants of Replies: some files are enough for an answer of its own; the first file
\* answers for all.
RepliesPartly(pc2, open) ==
  [b \in Batches |->
     IF b \notin open THEN answer[b]
     ELSE IF \E f, g \in FilesOf(b) : pc2[f] = "stored" /\ pc2[g] = "failed" THEN "partial"
     ELSE IF \A f \in FilesOf(b) : pc2[f] \in {"stored", "failed"} THEN "ok"
     ELSE "waiting"]

RepliesByFirst(pc2, open) ==
  [b \in Batches |->
     IF b \notin open THEN answer[b]
     ELSE IF \E f \in FilesOf(b) : pc2[f] = "stored" THEN "ok"
     ELSE IF \E f \in FilesOf(b) : pc2[f] = "failed" THEN "error"
     ELSE "waiting"]

\* Promise.all over the files of the requests that are open: the first failure
\* answers, or the last file.
Replies(pc2, open) ==
  [b \in Batches |->
     IF b \notin open THEN answer[b]
     ELSE IF \E f \in FilesOf(b) : pc2[f] = "failed" THEN "error"
     ELSE IF \A f \in FilesOf(b) : pc2[f] = "stored" THEN "ok"
     ELSE "waiting"]

Goto(t, step) ==
  /\ pc' = [pc EXCEPT ![t] = step]
  /\ answer' = Replies(pc', Waiting)
  /\ UNCHANGED restarts

\* The start is over, whatever came of it; a file goes on, or fails.
Proceed(t) == Goto(t, IF t = Boot THEN "idle" ELSE "sharp")

\* Mutant of Throw: onModuleInit lets the error pass.
ThrowOn(t) == Goto(t, "failed")

Throw(t) == Goto(t, IF t = Boot THEN "idle" ELSE "failed")

-----------------------------------------------------------------------------
(* The server.                                                              *)

\* The server listens when the start is over.  Every file runs to its first
\* await: that for the bucket, if it has not been seen; an empty file fails.
Receive(b) ==
  /\ pc[Boot] = "idle"
  /\ answer[b] = "none"
  /\ \E empty \in SUBSET FilesOf(b) :
       /\ pc' = [t \in Tasks |->
                   IF t \in empty THEN "failed"
                   ELSE IF t \in FilesOf(b) THEN IF bucketChecked THEN "sharp" ELSE "head"
                   ELSE pc[t]]
       /\ excused' = IF empty # {} \/ ~reachable \/ (bucketChecked /\ ~bucket /\ removed)
                     THEN excused \cup {b} ELSE excused
  /\ answer' = Replies(pc', Waiting \cup {b})
  /\ UNCHANGED <<store, bucketChecked, restarts, removed, wiped>>

\* HeadBucket finds it.
FindBucket(t) ==
  /\ pc[t] = "head"
  /\ reachable /\ bucket
  /\ bucketChecked' = TRUE
  /\ Proceed(t)
  /\ UNCHANGED <<store, history>>

\* Mutant of MissBucket: the bucket counts as seen before it is created.
MissAndCheck(t) ==
  /\ pc[t] = "head"
  /\ reachable /\ ~bucket
  /\ bucketChecked' = TRUE
  /\ Goto(t, "create")
  /\ UNCHANGED <<store, history>>

\* HeadBucket answers 404.
MissBucket(t) ==
  /\ pc[t] = "head"
  /\ reachable /\ ~bucket
  /\ Goto(t, "create")
  /\ UNCHANGED <<store, bucketChecked, history>>

\* The others that have missed the bucket are late now.
CreateBucket(t) ==
  /\ pc[t] = "create"
  /\ reachable /\ ~bucket
  /\ bucket' = TRUE
  /\ bucketChecked' = TRUE
  /\ Proceed(t)
  /\ excused' = excused \cup {BatchOf[f] : f \in {f \in Files \ {t} : pc[f] = "create"}}
  /\ UNCHANGED <<reachable, objects, outages, operations, removed, wiped>>

\* The bucket was created since this task missed it: MinIO answers 409
\* (BucketAlreadyOwnedByYou), S3 in us-east-1 lets it pass.
CreateAgain(t) ==
  /\ pc[t] = "create"
  /\ reachable /\ bucket
  /\ \/ Proceed(t) /\ bucketChecked' = TRUE
     \/ Throw(t) /\ UNCHANGED bucketChecked
  /\ UNCHANGED <<store, history>>

\* sharp makes a JPEG of it, or cannot read it.
Convert(f) ==
  /\ pc[f] = "sharp"
  /\ \/ Goto(f, "put") /\ UNCHANGED excused
     \/ Goto(f, "failed") /\ excused' = excused \cup {BatchOf[f]}
  /\ UNCHANGED <<store, bucketChecked, removed, wiped>>

PutObject(f) ==
  /\ pc[f] = "put"
  /\ reachable /\ bucket
  /\ objects' = objects \cup {f}
  /\ Goto(f, "stored")
  /\ UNCHANGED <<reachable, bucket, outages, operations, bucketChecked, history>>

\* NoSuchBucket.
PutNowhere(f) ==
  /\ pc[f] = "put"
  /\ reachable /\ ~bucket
  /\ Throw(f)
  /\ UNCHANGED <<store, bucketChecked, history>>

AtStore(t) == pc[t] \in {"head", "create", "put"}

\* The store is not there.
CallFails(t) ==
  /\ AtStore(t) /\ ~reachable
  /\ Throw(t)
  /\ UNCHANGED <<store, bucketChecked, history>>

\* The connection breaks: the call may have been carried out.
CallBreaks(t) ==
  /\ AtStore(t) /\ reachable
  /\ outages < MaxOutages
  /\ outages' = outages + 1
  /\ \/ UNCHANGED <<bucket, objects>>
     \/ pc[t] = "create" /\ bucket' = TRUE /\ UNCHANGED objects
     \/ pc[t] = "put" /\ bucket /\ objects' = objects \cup {t} /\ UNCHANGED bucket
  /\ excused' = excused \cup Waiting
  /\ Throw(t)
  /\ UNCHANGED <<reachable, operations, bucketChecked, removed, wiped>>

\* A crash or a deployment; the requests are lost, the start begins anew.
Restart ==
  /\ restarts < MaxRestarts
  /\ restarts' = restarts + 1
  /\ pc' = [t \in Tasks |-> IF t = Boot THEN "head" ELSE "idle"]
  /\ answer' = [b \in Batches |-> IF b \in Waiting THEN "lost" ELSE answer[b]]
  /\ bucketChecked' = FALSE
  /\ removed' = FALSE
  /\ UNCHANGED <<store, excused, wiped>>

-----------------------------------------------------------------------------
(* The store and its operator.                                              *)

Unreachable ==
  /\ reachable /\ outages < MaxOutages
  /\ reachable' = FALSE
  /\ outages' = outages + 1
  /\ excused' = excused \cup Waiting
  /\ UNCHANGED <<bucket, objects, operations, service, restarts, removed, wiped>>

Reachable ==
  /\ ~reachable
  /\ reachable' = TRUE
  /\ UNCHANGED <<bucket, objects, outages, operations, service, restarts, history>>

\* The operator removes the bucket with all that is in it, or makes one.
RemoveBucket ==
  /\ bucket /\ operations < MaxOperations
  /\ bucket' = FALSE
  /\ objects' = {}
  /\ wiped' = wiped \cup objects
  /\ operations' = operations + 1
  /\ removed' = TRUE
  /\ excused' = excused \cup Waiting
  /\ UNCHANGED <<reachable, outages, service, restarts>>

MakeBucket ==
  /\ ~bucket /\ operations < MaxOperations
  /\ bucket' = TRUE
  /\ operations' = operations + 1
  /\ excused' = excused \cup Waiting
  /\ UNCHANGED <<reachable, objects, outages, service, restarts, removed, wiped>>

-----------------------------------------------------------------------------

TaskStep(t) ==
  \/ FindBucket(t) \/ MissBucket(t) \/ CreateBucket(t) \/ CreateAgain(t)
  \/ CallFails(t) \/ CallBreaks(t)
  \/ t \in Files /\ (Convert(t) \/ PutObject(t) \/ PutNowhere(t))

Next ==
  \/ \E b \in Batches : Receive(b)
  \/ \E t \in Tasks : TaskStep(t)
  \/ Restart
  \/ Unreachable \/ Reachable \/ RemoveBucket \/ MakeBucket

\* sharp ends, and so does every call to the store, with an answer or an error.
Spec == Init /\ [][Next]_vars /\ \A t \in Tasks : WF_vars(TaskStep(t))

-----------------------------------------------------------------------------
(* What must be true of it.                                                 *)

TypeOK ==
  /\ {reachable, bucket, bucketChecked, removed} \subseteq BOOLEAN
  /\ objects \subseteq Files /\ wiped \subseteq Files
  /\ pc \in [Tasks -> Steps]
  /\ answer \in [Batches -> Answers]
  /\ outages \in 0..MaxOutages /\ operations \in 0..MaxOperations /\ restarts \in 0..MaxRestarts
  /\ excused \subseteq Batches

\* A request that got its URLs finds every one of its pictures in the bucket, unless
\* somebody removed it (uploadMultipleImages answers all or nothing).
OkMeansStored ==
  \A b \in Batches : answer[b] = "ok" => FilesOf(b) \subseteq objects \cup wiped

\* "uploads will fail until MinIO is available" (upload.service.ts:70), and not
\* longer: a start without a store, an earlier failure or a restart leave nothing
\* behind that fails a later request.  What does: a picture that is none, a store out
\* of reach or a bucket removed or made by hand meanwhile, a bucket removed since the
\* server saw it (bucketChecked is never cleared), and another task that creates the
\* bucket at the same moment.
FailuresExcused == \A b \in Batches : answer[b] = "error" => b \in excused

\* "allow app to start" (upload.service.ts:72): whatever the store does, the server
\* listens; and every request is answered, though its files fail in any order.
ServerResponds ==
  /\ pc[Boot] # "idle" ~> pc[Boot] = "idle"
  /\ \A b \in Batches : answer[b] = "waiting" ~> answer[b] # "waiting"
=============================================================================
