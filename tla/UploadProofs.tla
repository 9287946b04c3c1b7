----------------------------- MODULE UploadProofs -----------------------------
(***************************************************************************)
(* Proofs of the safety that Upload promises for any number of requests    *)
(* and files.                                                              *)
(***************************************************************************)
EXTENDS Upload, TLAPS

\* A file under way belongs to a request that waits or was told of an error; a file
\* stored is there, and one that failed has an excuse.
FileOk(f) ==
  LET b == BatchOf[f] IN
  /\ pc[f] \notin {"idle", "stored"} => answer[b] \in {"waiting", "error"}
  /\ pc[f] = "stored" => f \in objects \cup wiped
  /\ pc[f] = "failed" => b \in excused

\* What excuses the calls that will fail: the store out of reach, the bucket gone
\* after it was seen, or made after it was missed.
Foreseen(f) ==
  LET b == BatchOf[f] IN
  /\ pc[f] \in {"sharp", "put"} /\ ~bucket => b \in excused
  /\ pc[f] = "create" /\ bucket => b \in excused

BatchOk(b) ==
  /\ answer[b] = "ok" => FilesOf(b) \subseteq objects \cup wiped
  /\ answer[b] = "error" => b \in excused
  /\ answer[b] = "waiting" /\ ~reachable => b \in excused

Inv ==
  /\ TypeOK
  /\ \A f \in Files : FileOk(f) /\ Foreseen(f)
  /\ \A b \in Batches : BatchOk(b)
  /\ bucketChecked /\ ~bucket => removed
  /\ pc[Boot] \in {"idle", "head", "create"}

\* What Replies says of one request.
LEMMA Reply ==
  ASSUME NEW P, NEW open, NEW b \in Batches
  PROVE  /\ b \notin open => Replies(P, open)[b] = answer[b]
         /\ b \in open =>
              /\ Replies(P, open)[b] \in {"waiting", "ok", "error"}
              /\ Replies(P, open)[b] = "ok" => \A f \in FilesOf(b) : P[f] = "stored"
              /\ Replies(P, open)[b] = "error" => \E f \in FilesOf(b) : P[f] = "failed"
              /\ \A f \in FilesOf(b) : P[f] # "stored" => Replies(P, open)[b] # "ok"
BY DEF Replies

LEMMA RepliesTyped ==
  ASSUME answer \in [Batches -> Answers], NEW P, NEW open
  PROVE  Replies(P, open) \in [Batches -> Answers]
BY DEF Replies, Answers

\* The invariant holds at the start.
LEMMA InitInv == Init => Inv
<1> SUFFICES ASSUME Init PROVE Inv
  OBVIOUS
<1>1. TypeOK
  <2>1. {reachable, bucket, bucketChecked, removed} \subseteq BOOLEAN
    BY DEF Init
  <2>2. pc \in [Tasks -> Steps] /\ answer \in [Batches -> Answers]
    BY DEF Init, Steps, Answers
  <2>3. outages \in 0..MaxOutages /\ operations \in 0..MaxOperations /\ restarts \in 0..MaxRestarts
    BY BoundsAssumption DEF Init
  <2>. QED
    BY <2>1, <2>2, <2>3 DEF Init, TypeOK
<1>2. pc[Boot] = "head" /\ \A f \in Files : pc[f] = "idle"
  BY BatchesAssumption DEF Init, Tasks
<1>. QED
  BY <1>1, <1>2 DEF Init, Inv, FileOk, Foreseen, BatchOk

\* A step of a task t to step: what has to be shown of t's own file.
LEMMA Going ==
  ASSUME Inv, NEW t \in Tasks, NEW step \in Steps, Goto(t, step),
         step \notin {"idle", "stored"} => pc[t] \notin {"idle", "stored"},
         step = "idle" => t = Boot, t = Boot => step \in {"idle", "create"},
         pc[t] \notin {"idle", "stored"} \/ t = Boot,
         {reachable', bucket', bucketChecked', removed'} \subseteq BOOLEAN,
         objects' \cup wiped' \subseteq Files, objects \cup wiped \subseteq objects' \cup wiped',
         outages' \in 0..MaxOutages, operations' \in 0..MaxOperations,
         excused' \subseteq Batches, excused \subseteq excused',
         reachable' = reachable,
         bucketChecked' /\ ~bucket' => removed',
         \A f \in Files \ {t} : Foreseen(f)',
         t \in Files => /\ step = "stored" => t \in objects' \cup wiped'
                        /\ step = "failed" => BatchOf[t] \in excused'
                        /\ Foreseen(t)'
  PROVE  Inv'
<1>a. /\ pc \in [Tasks -> Steps] /\ answer \in [Batches -> Answers]
      /\ \A f \in Files : f \in Tasks /\ BatchOf[f] \in Batches
      /\ \A f \in Files : FileOk(f)
      /\ \A b \in Batches : BatchOk(b)
  BY BatchesAssumption DEF Inv, TypeOK, Tasks
<1>1. /\ pc' \in [Tasks -> Steps] /\ pc'[t] = step
      /\ \A x \in Tasks \ {t} : pc'[x] = pc[x]
      /\ answer' = Replies(pc', Waiting) /\ restarts' = restarts
  BY <1>a DEF Goto
<1>2. TypeOK'
  BY <1>1, <1>a, RepliesTyped DEF Inv, TypeOK
<1>3. ASSUME NEW f \in Files PROVE FileOk(f)'
  <2> DEFINE b == BatchOf[f]
  <2>1. pc'[f] = "stored" => f \in objects' \cup wiped'
    BY <1>1, <1>a DEF FileOk
  <2>2. pc'[f] = "failed" => b \in excused'
    BY <1>1, <1>a DEF FileOk
  <2>3. pc'[f] \notin {"idle", "stored"} => pc[f] \notin {"idle", "stored"}
    BY <1>1, <1>a
  <2>4. ASSUME pc'[f] \notin {"idle", "stored"} PROVE answer'[b] \in {"waiting", "error"}
    <3>1. answer[b] \in {"waiting", "error"} /\ b \in Batches /\ f \in FilesOf(b)
      BY <2>3, <2>4, <1>a DEF FileOk, FilesOf
    <3>2. CASE b \in Waiting
      BY <1>1, <2>4, <3>1, <3>2, Reply
    <3>3. CASE b \notin Waiting
      BY <1>1, <3>1, <3>3, Reply
    <3>. QED
      BY <3>2, <3>3
  <2>. QED
    BY <2>1, <2>2, <2>4 DEF FileOk
<1>4. ASSUME NEW b \in Batches PROVE BatchOk(b)'
  <2>1. ASSUME answer'[b] = "ok" PROVE FilesOf(b) \subseteq objects' \cup wiped'
    <3>1. CASE b \in Waiting
      <4>1. \A f \in FilesOf(b) : pc'[f] = "stored" /\ f \in Files
        BY <1>1, <2>1, <3>1, Reply DEF FilesOf
      <4>. QED
        BY <4>1, <1>3 DEF FileOk
    <3>2. CASE b \notin Waiting
      BY <1>1, <1>a, <2>1, <3>2, Reply DEF BatchOk
    <3>. QED
      BY <3>1, <3>2
  <2>2. ASSUME answer'[b] = "error" PROVE b \in excused'
    <3>1. CASE b \in Waiting
      <4>1. PICK f \in FilesOf(b) : pc'[f] = "failed"
        BY <1>1, <2>2, <3>1, Reply
      <4>. QED
        BY <4>1, <1>3 DEF FileOk, FilesOf
    <3>2. CASE b \notin Waiting
      BY <1>1, <1>a, <2>2, <3>2, Reply DEF BatchOk
    <3>. QED
      BY <3>1, <3>2
  <2>3. answer'[b] = "waiting" => answer[b] = "waiting"
    BY <1>1, Reply DEF Waiting
  <2>. QED
    BY <2>1, <2>2, <2>3, <1>a DEF BatchOk
<1>5. \A f \in Files : Foreseen(f)'
  OBVIOUS
<1>6. pc'[Boot] \in {"idle", "head", "create"}
  BY <1>1 DEF Inv, Tasks
<1>. QED
  BY <1>2, <1>3, <1>4, <1>5, <1>6 DEF Inv

\* What the steps of a task may rely on.
LEMMA Known ==
  ASSUME Inv
  PROVE  /\ pc \in [Tasks -> Steps] /\ answer \in [Batches -> Answers]
         /\ {reachable, bucket, bucketChecked, removed} \subseteq BOOLEAN
         /\ objects \subseteq Files /\ wiped \subseteq Files
         /\ outages \in 0..MaxOutages /\ operations \in 0..MaxOperations /\ restarts \in 0..MaxRestarts
         /\ {MaxOutages, MaxOperations, MaxRestarts} \subseteq Nat
         /\ excused \subseteq Batches
         /\ Waiting \subseteq Batches
         /\ \A f \in Files : f \in Tasks /\ f # Boot /\ BatchOf[f] \in Batches
         /\ Boot \in Tasks
         /\ \A f \in Files : FileOk(f) /\ Foreseen(f)
         /\ \A b \in Batches : BatchOk(b)
         /\ bucketChecked /\ ~bucket => removed
         /\ pc[Boot] \in {"idle", "head", "create"}
BY BatchesAssumption, BoundsAssumption DEF Inv, TypeOK, Tasks, Waiting

\* A file that is under way and not excused belongs to a request that waits.
LEMMA Active ==
  ASSUME Inv, NEW f \in Files, pc[f] \notin {"idle", "stored"}, BatchOf[f] \notin excused
  PROVE  BatchOf[f] \in Waiting
BY Known DEF FileOk, BatchOk, Waiting

\* Every step of a task keeps the invariant.
LEMMA TaskKeeps ==
  ASSUME Inv, NEW t \in Tasks, TaskStep(t)
  PROVE  Inv'
<1> USE Known
<1>1. CASE FindBucket(t)
  <2>1. Goto(t, IF t = Boot THEN "idle" ELSE "sharp") /\ pc[t] = "head" /\ reachable /\ bucket
    BY <1>1 DEF FindBucket, Proceed
  <2>2. bucketChecked' = TRUE /\ UNCHANGED <<store, history>>
    BY <1>1 DEF FindBucket
  <2>. QED
    BY <2>1, <2>2, Going DEF Goto, Tasks, Steps, store, history, Foreseen
<1>2. CASE MissBucket(t)
  <2>1. Goto(t, "create") /\ pc[t] = "head" /\ reachable /\ ~bucket
    BY <1>2 DEF MissBucket
  <2>2. UNCHANGED <<store, bucketChecked, history>>
    BY <1>2 DEF MissBucket
  <2>. QED
    BY <2>1, <2>2, Going DEF Goto, Tasks, Steps, store, history, Foreseen
<1>3. CASE CreateBucket(t)
  <2>1. Goto(t, IF t = Boot THEN "idle" ELSE "sharp") /\ pc[t] = "create" /\ reachable /\ ~bucket
    BY <1>3 DEF CreateBucket, Proceed
  <2>2. /\ bucket' = TRUE /\ bucketChecked' = TRUE
        /\ excused' = excused \cup {BatchOf[f] : f \in {f \in Files \ {t} : pc[f] = "create"}}
        /\ UNCHANGED <<reachable, objects, outages, operations, removed, wiped>>
    BY <1>3 DEF CreateBucket
  <2>3. \A f \in Files \ {t} : Foreseen(f)'
    BY <2>1, <2>2 DEF Goto, Foreseen
  <2>4. t \in Files => Foreseen(t)'
    BY <2>1, <2>2 DEF Goto, Foreseen
  <2>. QED
    BY <2>1, <2>2, <2>3, <2>4, Going DEF Tasks, Steps
<1>4. CASE CreateAgain(t)
  <2>1. pc[t] = "create" /\ reachable /\ bucket /\ UNCHANGED <<store, history>>
    BY <1>4 DEF CreateAgain
  <2>2. CASE Proceed(t) /\ bucketChecked' = TRUE
    <3>1. Goto(t, IF t = Boot THEN "idle" ELSE "sharp")
      BY <2>2 DEF Proceed
    <3>. QED
      BY <2>1, <2>2, <3>1, Going DEF Goto, Tasks, Steps, store, history, Foreseen
  <2>3. CASE Throw(t) /\ UNCHANGED bucketChecked
    <3>1. Goto(t, IF t = Boot THEN "idle" ELSE "failed")
      BY <2>3 DEF Throw
    <3>. QED
      BY <2>1, <2>3, <3>1, Going DEF Goto, Tasks, Steps, store, history, Foreseen
  <2>. QED
    BY <1>4, <2>2, <2>3 DEF CreateAgain
<1>5. CASE CallFails(t)
  <2>1. Goto(t, IF t = Boot THEN "idle" ELSE "failed") /\ pc[t] \in {"head", "create", "put"} /\ ~reachable
    BY <1>5 DEF CallFails, AtStore, Throw
  <2>2. UNCHANGED <<store, bucketChecked, history>>
    BY <1>5 DEF CallFails
  <2>3. t \in Files => BatchOf[t] \in excused
    BY <2>1 DEF FileOk, BatchOk
  <2>. QED
    BY <2>1, <2>2, <2>3, Going DEF Goto, Tasks, Steps, store, history, Foreseen
<1>6. CASE CallBreaks(t)
  <2>1. Goto(t, IF t = Boot THEN "idle" ELSE "failed") /\ pc[t] \in {"head", "create", "put"} /\ reachable
    BY <1>6 DEF CallBreaks, AtStore, Throw
  <2>2. /\ outages' = outages + 1 /\ outages < MaxOutages
        /\ excused' = excused \cup Waiting
        /\ UNCHANGED <<reachable, operations, bucketChecked, removed, wiped>>
    BY <1>6 DEF CallBreaks
  <2>d. \/ bucket' = bucket /\ objects' = objects
        \/ bucket' = TRUE /\ objects' = objects
        \/ bucket' = bucket /\ pc[t] = "put" /\ objects' = objects \cup {t}
    BY <1>6 DEF CallBreaks
  <2>e. bucket \in BOOLEAN
    OBVIOUS
  <2>a. bucket' \in BOOLEAN /\ (bucket => bucket')
    <3>1. CASE bucket' = bucket
      BY <2>e, <3>1, Zenon
    <3>2. CASE bucket' = TRUE
      BY <3>2, Zenon
    <3>. QED
      BY <2>d, <3>1, <3>2, Zenon
  <2>b. objects' = objects \/ (pc[t] = "put" /\ objects' = objects \cup {t})
    BY <2>d
  <2>3. t \in Files => BatchOf[t] \in excused'
    BY <2>1, <2>2, Active
  <2>4. ASSUME NEW f \in Files \ {t} PROVE Foreseen(f)'
    <3>1. pc'[f] = pc[f]
      BY <2>1 DEF Goto
    <3>2. pc[f] = "create" => BatchOf[f] \in excused'
      BY <2>2, Active
    <3>3. pc[f] \in {"sharp", "put"} /\ ~bucket' => BatchOf[f] \in excused'
      BY <2>2, <2>a DEF Foreseen
    <3>. QED
      BY <3>1, <3>2, <3>3 DEF Foreseen
  <2>5. t \in Files => Foreseen(t)'
    BY <2>1 DEF Goto, Foreseen
  <2>6. objects' \cup wiped' \subseteq Files /\ objects \cup wiped \subseteq objects' \cup wiped'
    <3>1. ASSUME pc[t] = "put", objects' = objects \cup {t} PROVE t \in Files
      BY <1>6, <2>1, <3>1 DEF Goto, Tasks
    <3>. QED
      BY <2>2, <2>b, <3>1
  <2>7. outages' \in 0..MaxOutages /\ excused' \subseteq Batches
    BY <2>2
  <2>9. {reachable', bucket', bucketChecked', removed'} \subseteq BOOLEAN
    BY <2>2, <2>a
  <2>8. bucketChecked' /\ ~bucket' => removed'
    BY <2>2, <2>a
  <2>. QED
    BY <2>1, <2>2, <2>3, <2>4, <2>5, <2>6, <2>7, <2>8, <2>9, Going DEF Tasks, Steps
<1>7. ASSUME t \in Files, Convert(t) PROVE Inv'
  <2>1. pc[t] = "sharp" /\ UNCHANGED <<store, bucketChecked, removed, wiped>>
    BY <1>7 DEF Convert
  <2>2. CASE Goto(t, "put") /\ UNCHANGED excused
    BY <1>7, <2>1, <2>2, Going DEF Goto, Tasks, Steps, store, Foreseen
  <2>3. CASE Goto(t, "failed") /\ excused' = excused \cup {BatchOf[t]}
    BY <1>7, <2>1, <2>3, Going DEF Goto, Tasks, Steps, store, Foreseen
  <2>. QED
    BY <1>7, <2>2, <2>3 DEF Convert
<1>8. ASSUME t \in Files, PutObject(t) PROVE Inv'
  <2>1. Goto(t, "stored") /\ pc[t] = "put" /\ reachable /\ bucket /\ objects' = objects \cup {t}
    BY <1>8 DEF PutObject
  <2>2. UNCHANGED <<reachable, bucket, outages, operations, bucketChecked, history>>
    BY <1>8 DEF PutObject
  <2>. QED
    BY <1>8, <2>1, <2>2, Going DEF Goto, Tasks, Steps, history, Foreseen
<1>9. ASSUME t \in Files, PutNowhere(t) PROVE Inv'
  <2>1. Goto(t, "failed") /\ pc[t] = "put" /\ ~bucket
    BY <1>9 DEF PutNowhere, Throw
  <2>2. UNCHANGED <<store, bucketChecked, history>>
    BY <1>9 DEF PutNowhere
  <2>. QED
    BY <1>9, <2>1, <2>2, Going DEF Goto, Tasks, Steps, store, history, Foreseen
<1>. QED
  BY <1>1, <1>2, <1>3, <1>4, <1>5, <1>6, <1>7, <1>8, <1>9 DEF TaskStep

\* A request is received.
LEMMA ReceiveKeeps ==
  ASSUME Inv, NEW b \in Batches, Receive(b)
  PROVE  Inv'
<1> USE Known
<1>1. PICK empty \in SUBSET FilesOf(b) :
        /\ pc' = [t \in Tasks |->
                    IF t \in empty THEN "failed"
                    ELSE IF t \in FilesOf(b) THEN IF bucketChecked THEN "sharp" ELSE "head"
                    ELSE pc[t]]
        /\ excused' = IF empty # {} \/ ~reachable \/ (bucketChecked /\ ~bucket /\ removed)
                      THEN excused \cup {b} ELSE excused
  BY DEF Receive
<1>2. /\ answer[b] = "none" /\ answer' = Replies(pc', Waiting \cup {b})
      /\ UNCHANGED <<store, bucketChecked, restarts, removed, wiped>>
  BY DEF Receive
<1>3. pc' \in [Tasks -> Steps] /\ excused' \subseteq Batches /\ excused \subseteq excused'
  BY <1>1 DEF Steps
<1>4. TypeOK'
  BY <1>2, <1>3, RepliesTyped DEF Inv, TypeOK, store
<1>5. \A f \in FilesOf(b) : f \in Files /\ BatchOf[f] = b /\ pc'[f] \in {"failed", "sharp", "head"}
  BY <1>1 DEF FilesOf
<1>6. \A f \in Files \ FilesOf(b) : pc'[f] = pc[f] /\ BatchOf[f] # b
  BY <1>1 DEF FilesOf
<1>7. ASSUME NEW f \in Files PROVE FileOk(f)' /\ Foreseen(f)'
  <2>1. CASE f \in FilesOf(b)
    <3>1. answer'[b] \in {"waiting", "error"}
      BY <1>2, <1>5, <2>1, Reply
    <3>2. pc'[f] = "failed" => b \in excused'
      BY <1>1, <2>1
    <3>3. pc'[f] = "sharp" /\ ~bucket => b \in excused'
      BY <1>1, <2>1
    <3>. QED
      BY <1>2, <1>5, <2>1, <3>1, <3>2, <3>3 DEF FileOk, Foreseen, store
  <2>2. CASE f \notin FilesOf(b)
    <3> DEFINE c == BatchOf[f]
    <3>1. c \in Batches /\ c # b /\ f \in FilesOf(c) /\ pc'[f] = pc[f]
      BY <1>6, <2>2 DEF FilesOf
    <3>2. ASSUME pc[f] \notin {"idle", "stored"} PROVE answer'[c] \in {"waiting", "error"}
      <4>1. CASE c \in Waiting
        BY <1>2, <3>1, <3>2, <4>1, Reply
      <4>2. CASE c \notin Waiting
        BY <1>2, <3>1, <3>2, <4>2, Reply DEF FileOk
      <4>. QED
        BY <4>1, <4>2
    <3>. QED
      BY <1>2, <1>3, <3>1, <3>2 DEF FileOk, Foreseen, store
  <2>. QED
    BY <2>1, <2>2
<1>8. ASSUME NEW c \in Batches PROVE BatchOk(c)'
  <2>1. CASE c \in Waiting \cup {b}
    <3>1. answer'[c] = "ok" => \A f \in FilesOf(c) : pc'[f] = "stored"
      BY <1>2, <2>1, Reply
    <3>2. answer'[c] = "error" => \E f \in FilesOf(c) : pc'[f] = "failed"
      BY <1>2, <2>1, Reply
    <3>3. ~reachable => c \in excused'
      BY <1>1, <2>1 DEF BatchOk, Waiting
    <3>. QED
      BY <1>2, <1>7, <3>1, <3>2, <3>3 DEF BatchOk, FileOk, FilesOf, store
  <2>2. CASE c \notin Waiting \cup {b}
    <3>1. answer'[c] = answer[c]
      BY <1>2, <2>2, Reply
    <3>. QED
      BY <1>2, <1>3, <3>1 DEF BatchOk, store
  <2>. QED
    BY <2>1, <2>2
<1>9. pc'[Boot] = pc[Boot]
  BY <1>1, <1>5
<1>. QED
  BY <1>2, <1>4, <1>7, <1>8, <1>9 DEF Inv, store

\* A restart forgets the requests under way and what was known of the bucket.
LEMMA RestartKeeps == Inv /\ Restart => Inv'
<1> SUFFICES ASSUME Inv, Restart PROVE Inv'
  OBVIOUS
<1> USE Known
<1>1. \A t \in Tasks : pc'[t] = IF t = Boot THEN "head" ELSE "idle"
  BY DEF Restart
<1>2. /\ \A b \in Batches : answer'[b] = IF b \in Waiting THEN "lost" ELSE answer[b]
      /\ UNCHANGED <<store, excused, wiped>>
      /\ bucketChecked' = FALSE /\ removed' = FALSE /\ restarts < MaxRestarts /\ restarts' = restarts + 1
  BY DEF Restart
<1>3. pc' \in [Tasks -> Steps] /\ answer' \in [Batches -> Answers]
  BY DEF Restart, Steps, Answers
<1>4. {reachable', bucket', bucketChecked', removed'} \subseteq BOOLEAN
  BY <1>2 DEF store
<1>5. TypeOK'
  BY <1>2, <1>3, <1>4 DEF store, TypeOK
<1>6. \A f \in Files : FileOk(f)' /\ Foreseen(f)'
  BY <1>1 DEF FileOk, Foreseen
<1>7. \A b \in Batches : BatchOk(b)'
  BY <1>2 DEF BatchOk, Waiting, store
<1>. QED
  BY <1>1, <1>2, <1>5, <1>6, <1>7 DEF Inv

\* What befalls the store excuses the requests that wait.
LEMMA StoreKeeps ==
  Inv /\ (Unreachable \/ Reachable \/ RemoveBucket \/ MakeBucket) => Inv'
<1> SUFFICES ASSUME Inv, Unreachable \/ Reachable \/ RemoveBucket \/ MakeBucket PROVE Inv'
  OBVIOUS
<1> USE Known
<1>1. /\ pc' = pc /\ answer' = answer /\ bucketChecked' = bucketChecked /\ restarts' = restarts
      /\ excused \subseteq excused' /\ excused' \subseteq excused \cup Waiting
      /\ objects' \cup wiped' = objects \cup wiped
  BY DEF Unreachable, Reachable, RemoveBucket, MakeBucket, service, history
<1>2. Reachable => UNCHANGED <<bucket, excused>> /\ reachable'
  BY DEF Reachable, history
<1>3. ~Reachable => excused' = excused \cup Waiting
  BY DEF Unreachable, RemoveBucket, MakeBucket
<1>4. bucketChecked' /\ ~bucket' => removed'
  <2>1. ASSUME Unreachable PROVE bucketChecked' /\ ~bucket' => removed'
    BY <2>1 DEF Unreachable, service
  <2>2. ASSUME Reachable PROVE bucketChecked' /\ ~bucket' => removed'
    BY <2>2 DEF Reachable, service, history
  <2>3. ASSUME RemoveBucket \/ MakeBucket PROVE bucketChecked' /\ ~bucket' => removed'
    BY <2>3 DEF RemoveBucket, MakeBucket
  <2>. QED
    BY <2>1, <2>2, <2>3
<1>5. TypeOK'
  <2>1. {reachable', bucket', removed'} \subseteq BOOLEAN
    BY DEF Unreachable, Reachable, RemoveBucket, MakeBucket, history
  <2>2. outages' \in 0..MaxOutages /\ operations' \in 0..MaxOperations
    BY DEF Unreachable, Reachable, RemoveBucket, MakeBucket
  <2>. QED
    BY <1>1, <2>1, <2>2 DEF TypeOK
<1>6. ASSUME NEW f \in Files PROVE FileOk(f)' /\ Foreseen(f)'
  <2>1. FileOk(f)'
    BY <1>1 DEF FileOk
  <2>2. CASE Reachable
    <3>1. pc'[f] = pc[f] /\ (bucket' <=> bucket) /\ excused' = excused
      BY <1>1, <1>2, <2>2
    <3>2. Foreseen(f)
      OBVIOUS
    <3>. QED
      BY <2>1, <3>1, <3>2 DEF Foreseen
  <2>3. CASE ~Reachable
    <3>1. pc[f] \in {"sharp", "put", "create"} => BatchOf[f] \in excused'
      BY <1>3, <2>3, Active
    <3>2. pc'[f] = pc[f]
      BY <1>1
    <3>3. pc'[f] \in {"sharp", "put", "create"} => BatchOf[f] \in excused'
      BY <3>1, <3>2
    <3>. QED
      BY <2>1, <3>3 DEF Foreseen
  <2>. QED
    BY <2>1, <2>2, <2>3
<1>7. \A b \in Batches : BatchOk(b)'
  BY <1>1, <1>2, <1>3 DEF BatchOk, Waiting
<1>. QED
  BY <1>1, <1>4, <1>5, <1>6, <1>7 DEF Inv

\* Every step keeps the invariant.
LEMMA InvStep == Inv /\ [Next]_vars => Inv'
<1> SUFFICES ASSUME Inv, [Next]_vars PROVE Inv'
  OBVIOUS
<1>1. CASE UNCHANGED vars
  BY <1>1 DEF vars, store, service, history, Inv, TypeOK, FileOk, Foreseen, BatchOk
<1>. QED
  BY <1>1, TaskKeeps, ReceiveKeeps, RestartKeeps, StoreKeeps DEF Next

-----------------------------------------------------------------------------
(* The theorems.                                                            *)

\* The invariant holds throughout.
THEOREM Inductive == Spec => []Inv
BY InitInv, InvStep, PTL DEF Spec

\* The answers and the steps keep their types: a request is told "ok" or an error,
\* never something between.
THEOREM TypeCorrect == Spec => []TypeOK
<1>1. Inv => TypeOK
  BY DEF Inv
<1>. QED
  BY <1>1, Inductive, PTL

\* Who got URLs finds the pictures, unless the bucket was removed.
THEOREM OkIsStored == Spec => []OkMeansStored
<1>1. Inv => OkMeansStored
  BY DEF Inv, BatchOk, OkMeansStored
<1>. QED
  BY <1>1, Inductive, PTL

\* No request fails for what happened before it came, but for a bucket that was
\* removed after the server saw it.
THEOREM FailuresAreExcused == Spec => []FailuresExcused
<1>1. Inv => FailuresExcused
  BY DEF Inv, BatchOk, FailuresExcused
<1>. QED
  BY <1>1, Inductive, PTL
=============================================================================
