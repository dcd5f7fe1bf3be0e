---------------------------- MODULE S3StoreProofs ---------------------------
(***************************************************************************)
(* Proofs about S3Store, for any number of calls, keys, contents, attempts *)
(* and resends, whichever calls may meet faults.                           *)
(***************************************************************************)
EXTENDS S3Store, TLAPS

Place == Ended \cup {"put", "await", "retry", "head", "get"}

\* The object under c's key is the one c wrote.
Owns(c) == Found(c) # NoObject /\ Found(c).by = c

(***************************************************************************)
(* The inductive invariant.  An object that a call wrote is what that call *)
(* was asked to store, with its metadata, whichever copy of the request    *)
(* the service decided.                                                    *)
(***************************************************************************)
WrittenOK ==
  \A k \in Key : bucket[k] # NoObject /\ bucket[k].by # Foreign =>
    /\ request[bucket[k].by].Key = k
    /\ bucket[k].body = request[bucket[k].by].SHA256
    /\ bucket[k].sha256 = request[bucket[k].by].SHA256

\* A reply "ok" and an answer are about an object that is there.
CallOK(c) ==
  /\ wire[c] = "none" <=> pc[c] # "await"
  /\ pc[c] \in {"put", "await"} => attempt[c] < MaxPutAttempts
  /\ wire[c] = "ok" \/ pc[c] = "created" => Owns(c)
  /\ pc[c] = "get" => Found(c) # NoObject /\ Found(c).sha256 = request[c].SHA256
  /\ pc[c] = "existing" => Found(c) # NoObject
  /\ pc[c] = "conflict" =>
       /\ Found(c) # NoObject
       /\ Found(c).by = Foreign \/ Found(c).body # request[c].SHA256

S3Inv == TypeOK /\ WrittenOK /\ \A c \in Call : CallOK(c)

-----------------------------------------------------------------------------

\* What a copy of c's PUT can do to the bucket.
BucketStep(c) ==
  \/ Found(c) = NoObject /\ request[c].source = request[c].SHA256 /\ Store(c)
  \/ UNCHANGED bucket

\* What a step of c, or of the service for it, leaves alone.
OnlyAdds(c) ==
  /\ request' = request
  /\ \A d \in Call \ {c} : /\ pc'[d] = pc[d] /\ wire'[d] = wire[d]
                           /\ attempt'[d] = attempt[d]
  /\ \A k \in Key : bucket[k] # NoObject => bucket'[k] = bucket[k]

(***************************************************************************)
(* What the invariant says of one call, spelled out.                       *)
(***************************************************************************)
LEMMA OfCall ==
  ASSUME S3Inv, NEW c \in Call
  PROVE  /\ request[c].Key \in Key /\ request[c].SHA256 \in Data
         /\ Found(c) \in Object \cup {NoObject} /\ pc[c] \in Place
         /\ attempt[c] \in 0..MaxPutAttempts /\ wire[c] \in Reply \cup {"none", "sent"}
         /\ CallOK(c)
<1>1. request[c].Key \in Key /\ request[c].SHA256 \in Data
  BY DEF S3Inv, TypeOK, PutRequest
<1> QED BY <1>1 DEF S3Inv, TypeOK, Found, Place

(***************************************************************************)
(* A step for one call keeps what the invariant says of the others: no     *)
(* object is replaced.                                                     *)
(***************************************************************************)
LEMMA OthersKept ==
  ASSUME S3Inv, NEW c \in Call, OnlyAdds(c), NEW d \in Call \ {c}
  PROVE  CallOK(d)'
<1>1. Found(d) # NoObject => Found(d)' = Found(d)
  BY OfCall DEF OnlyAdds, Found
<1>2. /\ request' = request /\ pc'[d] = pc[d] /\ wire'[d] = wire[d]
      /\ attempt'[d] = attempt[d]
  BY DEF OnlyAdds
<1>3. Owns(d) => Owns(d)'
  BY <1>1 DEF Owns
<1> QED BY <1>1, <1>2, <1>3, OfCall DEF CallOK

(***************************************************************************)
(* What there is to show of a step for the call c.                         *)
(***************************************************************************)
LEMMA StepOfOne ==
  ASSUME S3Inv, NEW c \in Call, OnlyAdds(c), TypeOK', WrittenOK', CallOK(c)'
  PROVE  S3Inv'
<1>1. \A d \in Call : CallOK(d)'
  BY OthersKept
<1> QED BY <1>1 DEF S3Inv

(***************************************************************************)
(* A decided copy of a PUT adds the object asked for or nothing.           *)
(***************************************************************************)
LEMMA BucketFacts ==
  ASSUME S3Inv, NEW c \in Call, BucketStep(c), UNCHANGED request
  PROVE  /\ bucket' \in [Key -> Object \cup {NoObject}]
         /\ \A k \in Key : bucket[k] # NoObject => bucket'[k] = bucket[k]
         /\ WrittenOK'
<1>1. CASE UNCHANGED bucket
  BY <1>1 DEF S3Inv, TypeOK, WrittenOK
<1>2. CASE Found(c) = NoObject /\ request[c].source = request[c].SHA256 /\ Store(c)
  <2>1. PICK kept \in BOOLEAN :
          bucket' = [bucket EXCEPT ![request[c].Key] =
                       [body |-> request[c].source, sha256 |-> request[c].SHA256,
                        checksum |-> kept, by |-> c]]
    BY <1>2 DEF Store
  <2> DEFINE o == [body |-> request[c].source, sha256 |-> request[c].SHA256,
                   checksum |-> kept, by |-> c]
  <2>2. /\ o \in Object /\ o.by = c /\ o.body = request[c].SHA256
        /\ o.sha256 = request[c].SHA256
    BY <1>2, OfCall DEF Object
  <2>3. request[c].Key \in Key /\ bucket[request[c].Key] = NoObject
    BY <1>2, OfCall DEF Found
  <2>4. bucket' = [bucket EXCEPT ![request[c].Key] = o]
    BY <2>1
  <2> HIDE DEF o
  <2>5. bucket' \in [Key -> Object \cup {NoObject}]
    BY <2>2, <2>4 DEF S3Inv, TypeOK
  <2>6. \A k \in Key : bucket'[k] = IF k = request[c].Key THEN o ELSE bucket[k]
    BY <2>4 DEF S3Inv, TypeOK
  <2>7. WrittenOK'
    BY <2>2, <2>6 DEF S3Inv, WrittenOK
  <2> QED BY <2>3, <2>5, <2>6, <2>7
<1> QED BY <1>1, <1>2 DEF BucketStep

(***************************************************************************)
(* A step that moves the call c and touches its PUT, not the bucket.       *)
(***************************************************************************)
LEMMA MoveStep ==
  ASSUME S3Inv, NEW c \in Call, NEW label \in Place, Goto(c, label),
         NEW w \in Reply \cup {"none", "sent"}, wire' = [wire EXCEPT ![c] = w],
         NEW n \in 0..MaxPutAttempts, attempt' = [attempt EXCEPT ![c] = n],
         resent' \in [Call -> 0..MaxResends], late' \in SUBSET Call,
         UNCHANGED <<request, bucket>>
  PROVE  /\ OnlyAdds(c) /\ TypeOK' /\ WrittenOK'
         /\ pc'[c] = label /\ wire'[c] = w /\ attempt'[c] = n
         /\ Found(c)' = Found(c) /\ Owns(c)' = Owns(c)
<1> USE DEF Goto
<1>1. pc' \in [Call -> Place] /\ pc'[c] = label /\ wire'[c] = w /\ attempt'[c] = n
  BY DEF S3Inv, TypeOK, Place
<1>2. OnlyAdds(c)
  BY DEF OnlyAdds, S3Inv, TypeOK
<1>3. TypeOK'
  BY <1>1 DEF S3Inv, TypeOK, Place
<1>4. WrittenOK'
  BY DEF S3Inv, WrittenOK
<1> QED BY <1>1, <1>2, <1>3, <1>4 DEF Found, Owns

\* What a step that leaves them alone makes of the call's own fields.
LEMMA OwnFieldsKept ==
  ASSUME S3Inv, NEW c \in Call
  PROVE  /\ wire = [wire EXCEPT ![c] = wire[c]] /\ attempt = [attempt EXCEPT ![c] = attempt[c]]
         /\ resent \in [Call -> 0..MaxResends] /\ late \in SUBSET Call
BY DEF S3Inv, TypeOK

(***************************************************************************)
(* The PUT goes out: it is the next of at most MaxPutAttempts.             *)
(***************************************************************************)
LEMMA PutOnceStep == ASSUME S3Inv, NEW c \in Call, PutOnce(c) PROVE S3Inv'
<1>1. resent' \in [Call -> 0..MaxResends]
  BY S3Assumption DEF PutOnce, S3Inv, TypeOK
<1>2. /\ OnlyAdds(c) /\ TypeOK' /\ WrittenOK'
      /\ pc'[c] = "await" /\ wire'[c] = "sent" /\ attempt'[c] = attempt[c]
  <2>1. "await" \in Place /\ attempt[c] \in 0..MaxPutAttempts
    BY OfCall DEF Place
  <2> QED BY <1>1, <2>1, OwnFieldsKept, MoveStep DEF PutOnce
<1>3. CallOK(c)'
  BY <1>2, OfCall DEF PutOnce, At, CallOK
<1> QED BY <1>2, <1>3, StepOfOne

(***************************************************************************)
(* A reply: "ok" is about an object that is there, and is this call's.     *)
(***************************************************************************)
LEMMA ReceiveStep == ASSUME S3Inv, NEW c \in Call, Receive(c) PROVE S3Inv'
<1> DEFINE n == IF wire[c] = "conditional" THEN attempt[c] + 1 ELSE attempt[c]
<1>1. pc[c] = "await" /\ wire[c] \in Reply /\ CallOK(c)
  BY OfCall DEF Receive, At
<1>2. PICK label \in {"created", "head", "retry", "failed"} :
        Goto(c, label) /\ (label = "created" => wire[c] = "ok")
  BY <1>1 DEF Receive, Reply
<1>3. n \in 0..MaxPutAttempts /\ attempt' = [attempt EXCEPT ![c] = n]
  <2>1. attempt[c] \in 0..MaxPutAttempts /\ attempt[c] < MaxPutAttempts
    BY <1>1, OfCall DEF CallOK
  <2>2. n \in 0..MaxPutAttempts
    BY <2>1, S3Assumption
  <2> QED BY <2>2 DEF Receive
<1>4. label \in Place /\ wire' = [wire EXCEPT ![c] = "none"] /\ UNCHANGED <<request, bucket>>
      /\ resent' \in [Call -> 0..MaxResends] /\ late' \in SUBSET Call
  BY OwnFieldsKept DEF Receive, Place, Ended
<1>5. /\ OnlyAdds(c) /\ TypeOK' /\ WrittenOK' /\ pc'[c] = label /\ wire'[c] = "none"
      /\ Owns(c)' = Owns(c)
  <2> HIDE DEF n
  <2> QED BY <1>2, <1>3, <1>4, MoveStep
<1>6. CallOK(c)'
  BY <1>1, <1>2, <1>5 DEF CallOK
<1> QED BY <1>5, <1>6, StepOfOne

(***************************************************************************)
(* The next attempt, or the end of them.                                   *)
(***************************************************************************)
LEMMA RetryStep == ASSUME S3Inv, NEW c \in Call, Retry(c) PROVE S3Inv'
<1>1. PICK label \in {"put", "failed"} :
        Goto(c, label) /\ (label = "put" => attempt[c] < MaxPutAttempts)
  BY DEF Retry
<1>2. label \in Place /\ UNCHANGED <<request, attempt, resent, wire, late, bucket>>
      /\ attempt[c] \in 0..MaxPutAttempts /\ wire[c] \in Reply \cup {"none", "sent"}
  BY OfCall DEF Retry, Place, Ended
<1>3. /\ OnlyAdds(c) /\ TypeOK' /\ WrittenOK' /\ pc'[c] = label /\ wire'[c] = wire[c]
      /\ attempt'[c] = attempt[c] /\ Owns(c)' = Owns(c)
  BY <1>1, <1>2, OwnFieldsKept, MoveStep
<1>4. CallOK(c)'
  BY <1>1, <1>3, OfCall DEF Retry, At, CallOK
<1> QED BY <1>3, <1>4, StepOfOne

(***************************************************************************)
(* What the verification of an existing object may answer, for Head and    *)
(* Get.                                                                    *)
(***************************************************************************)
Verified(c, label) ==
  /\ label = "existing" => Found(c) # NoObject /\ Found(c).body = request[c].SHA256
  /\ label = "conflict" =>
       /\ Found(c) # NoObject
       /\ Found(c).by = Foreign \/ Found(c).body # request[c].SHA256

\* A conflict is not about an object of this store with the same content:
\* such an object has the metadata and the body asked for.
LEMMA ConflictIsReal ==
  ASSUME S3Inv, NEW c \in Call, Found(c) # NoObject,
         Found(c).sha256 # request[c].SHA256 \/ Found(c).body # request[c].SHA256
  PROVE  Found(c).by = Foreign \/ Found(c).body # request[c].SHA256
BY OfCall DEF S3Inv, WrittenOK, Found

\* What Head can conclude.
LEMMA HeadVerifies ==
  ASSUME S3Inv, NEW c \in Call, Head(c)
  PROVE  \E label \in {"failed", "existing", "conflict", "get"} :
           /\ Goto(c, label) /\ Verified(c, label)
           /\ label = "get" => Found(c) # NoObject /\ Found(c).sha256 = request[c].SHA256
<1> DEFINE o == Found(c)
<1>1. CASE o = NoObject
  BY <1>1 DEF Head, Verified
<1>2. CASE o # NoObject /\ o.sha256 # request[c].SHA256
  <2>1. Goto(c, "conflict")
    BY <1>2 DEF Head
  <2> QED BY <1>2, <2>1, ConflictIsReal DEF Verified
<1>3. CASE o # NoObject /\ o.sha256 = request[c].SHA256 /\ o.checksum
  <2>1. Goto(c, IF o.body = request[c].SHA256 THEN "existing" ELSE "conflict")
    BY <1>3 DEF Head
  <2>2. CASE o.body = request[c].SHA256
    BY <1>3, <2>1, <2>2 DEF Verified
  <2>3. CASE o.body # request[c].SHA256
    BY <1>3, <2>1, <2>3 DEF Verified
  <2> QED BY <2>2, <2>3
<1>4. CASE o # NoObject /\ o.sha256 = request[c].SHA256 /\ ~ o.checksum
  <2>1. Goto(c, "get")
    BY <1>4 DEF Head
  <2> QED BY <1>4, <2>1 DEF Verified
<1> QED BY <1>1, <1>2, <1>3, <1>4

\* What Get can conclude.
LEMMA GetVerifies ==
  ASSUME S3Inv, NEW c \in Call, Get(c)
  PROVE  \E label \in {"existing", "conflict"} : Goto(c, label) /\ Verified(c, label)
<1>1. Found(c) # NoObject
  BY OfCall DEF Get, At, CallOK
<1>2. CASE Found(c).body = request[c].SHA256
  BY <1>1, <1>2 DEF Get, Verified
<1>3. CASE Found(c).body # request[c].SHA256
  BY <1>1, <1>3 DEF Get, Verified
<1> QED BY <1>2, <1>3

(***************************************************************************)
(* The verification of an existing object.                                 *)
(***************************************************************************)
LEMMA VerifyStep == ASSUME S3Inv, NEW c \in Call, Head(c) \/ Get(c) PROVE S3Inv'
<1>1. PICK label \in {"failed", "existing", "conflict", "get"} :
        /\ Goto(c, label) /\ Verified(c, label)
        /\ label = "get" => Found(c) # NoObject /\ Found(c).sha256 = request[c].SHA256
  BY HeadVerifies, GetVerifies
<1>2. label \in Place /\ UNCHANGED <<request, attempt, resent, wire, late, bucket>>
      /\ attempt[c] \in 0..MaxPutAttempts /\ wire[c] \in Reply \cup {"none", "sent"}
  BY OfCall DEF Head, Get, Place, Ended
<1>3. /\ OnlyAdds(c) /\ TypeOK' /\ WrittenOK' /\ pc'[c] = label /\ wire'[c] = wire[c]
      /\ Owns(c)' = Owns(c) /\ Found(c)' = Found(c)
  BY <1>1, <1>2, OwnFieldsKept, MoveStep
<1>4. CallOK(c)'
  BY <1>1, <1>2, <1>3, OfCall DEF Head, Get, At, CallOK, Verified
<1> QED BY <1>3, <1>4, StepOfOne

-----------------------------------------------------------------------------
(* The service and the faults.                                             *)

(***************************************************************************)
(* A reply to the PUT in flight, with what it did to the bucket.           *)
(***************************************************************************)
LEMMA ReplyStep ==
  ASSUME S3Inv, NEW c \in Call, wire[c] = "sent", NEW r \in Reply, Replies(c, r),
         BucketStep(c), r = "ok" => Owns(c)', UNCHANGED <<request, pc, attempt, resent, late>>
  PROVE  S3Inv'
<1> USE DEF Replies
<1>1. /\ bucket' \in [Key -> Object \cup {NoObject}] /\ WrittenOK'
      /\ \A k \in Key : bucket[k] # NoObject => bucket'[k] = bucket[k]
  BY BucketFacts
<1>2. wire' \in [Call -> Reply \cup {"none", "sent"}] /\ wire'[c] = r
  BY DEF S3Inv, TypeOK
<1>3. TypeOK'
  BY <1>1, <1>2 DEF S3Inv, TypeOK
<1>4. OnlyAdds(c)
  BY <1>1 DEF OnlyAdds, S3Inv, TypeOK
<1>5. pc[c] = "await" /\ CallOK(c)
  BY OfCall DEF CallOK
<1>6. CallOK(c)'
  BY <1>2, <1>5 DEF CallOK, Reply
<1> QED BY <1>1, <1>3, <1>4, <1>6, StepOfOne

\* What was stored is the writer's.
LEMMA StoreOwns == ASSUME S3Inv, NEW c \in Call, Store(c), UNCHANGED request PROVE Owns(c)'
<1>1. PICK kept \in BOOLEAN :
        bucket' = [bucket EXCEPT ![request[c].Key] =
                     [body |-> request[c].source, sha256 |-> request[c].SHA256,
                      checksum |-> kept, by |-> c]]
  BY DEF Store
<1>2. Found(c)' = [body |-> request[c].source, sha256 |-> request[c].SHA256,
                   checksum |-> kept, by |-> c]
  BY <1>1, OfCall DEF Found, S3Inv, TypeOK
<1>3. Found(c)' \in Object
  BY <1>2, OfCall DEF Object, S3Inv, TypeOK, PutRequest
<1> QED BY <1>2, <1>3, S3ObjectAssumption DEF Owns

(***************************************************************************)
(* The service decides a PUT.                                              *)
(***************************************************************************)
LEMMA DecideStep == ASSUME S3Inv, NEW c \in Call, Decide(c) PROVE S3Inv'
<1>1. PICK r \in Reply :
        Replies(c, r) /\ BucketStep(c) /\ (r = "ok" => Store(c))
  BY DEF Decide, BucketStep, Reply
<1>2. wire[c] = "sent" /\ UNCHANGED <<request, pc, attempt, resent, late>>
  BY DEF Decide
<1>3. r = "ok" => Owns(c)'
  BY <1>1, <1>2, StoreOwns
<1> QED BY <1>1, <1>2, <1>3, ReplyStep

(***************************************************************************)
(* An error of the service, which may have stored the object.              *)
(***************************************************************************)
LEMMA ServiceErrorStep == ASSUME S3Inv, NEW c \in Call, ServiceError(c) PROVE S3Inv'
<1>1. Replies(c, "definitive") /\ BucketStep(c) /\ "definitive" \in Reply
  BY DEF ServiceError, BucketStep, Reply
<1> QED BY <1>1, ReplyStep DEF ServiceError

(***************************************************************************)
(* A given-up copy is decided, whatever became of its call.                *)
(***************************************************************************)
LEMMA DecideLateStep == ASSUME S3Inv, NEW c \in Call, DecideLate(c) PROVE S3Inv'
<1>1. BucketStep(c) /\ UNCHANGED <<request, pc, attempt, resent, wire>>
  BY DEF DecideLate, BucketStep
<1>2. /\ bucket' \in [Key -> Object \cup {NoObject}] /\ WrittenOK'
      /\ \A k \in Key : bucket[k] # NoObject => bucket'[k] = bucket[k]
  BY <1>1, BucketFacts
<1>3. TypeOK'
  BY <1>1, <1>2 DEF DecideLate, S3Inv, TypeOK
<1>4. OnlyAdds(c)
  BY <1>1, <1>2 DEF OnlyAdds
<1>5. Found(c) # NoObject => Found(c)' = Found(c)
  BY <1>1, <1>2, OfCall DEF Found
<1>6. Owns(c) => Owns(c)'
  BY <1>5 DEF Owns
<1>7. CallOK(c)'
  BY <1>1, <1>5, <1>6, OfCall DEF CallOK
<1> QED BY <1>2, <1>3, <1>4, <1>7, StepOfOne

(***************************************************************************)
(* The SDK resends the request: the reply it may have lost is forgotten.   *)
(***************************************************************************)
LEMMA ResendStep == ASSUME S3Inv, NEW c \in Call, Resend(c) PROVE S3Inv'
<1>1. resent' \in [Call -> 0..MaxResends] /\ late' \in SUBSET Call
  BY S3Assumption DEF Resend, GiveUpCopy, S3Inv, TypeOK
<1>2. Goto(c, "await") /\ "await" \in Place /\ attempt[c] \in 0..MaxPutAttempts
  BY OfCall DEF Resend, At, Goto, S3Inv, TypeOK, Place
<1>3. /\ OnlyAdds(c) /\ TypeOK' /\ WrittenOK' /\ pc'[c] = "await" /\ wire'[c] = "sent"
      /\ attempt'[c] = attempt[c]
  BY <1>1, <1>2, OwnFieldsKept, MoveStep DEF Resend, Replies
<1>4. CallOK(c)'
  BY <1>3, OfCall DEF Resend, At, CallOK
<1> QED BY <1>3, <1>4, StepOfOne

(***************************************************************************)
(* The caller turns to verification, or gives up; its PUT may go on.       *)
(***************************************************************************)
LEMMA GiveUpStep == ASSUME S3Inv, NEW c \in Call, Ambiguous(c) \/ GiveUp(c) PROVE S3Inv'
<1>1. PICK label \in {"head", "failed", "dead"} : Goto(c, label)
  BY DEF Ambiguous, GiveUp
<1>2. late' \in SUBSET Call
  BY DEF Ambiguous, GiveUp, GiveUpCopy, S3Inv, TypeOK
<1>3. label \in Place /\ attempt[c] \in 0..MaxPutAttempts
      /\ wire' = [wire EXCEPT ![c] = "none"] /\ UNCHANGED <<request, attempt, resent, bucket>>
  BY OfCall DEF Ambiguous, GiveUp, Replies, Place, Ended
<1>4. OnlyAdds(c) /\ TypeOK' /\ WrittenOK' /\ pc'[c] = label /\ wire'[c] = "none"
  BY <1>1, <1>2, <1>3, OwnFieldsKept, MoveStep
<1>5. CallOK(c)'
  BY <1>4 DEF CallOK
<1> QED BY <1>4, <1>5, StepOfOne

-----------------------------------------------------------------------------

(***************************************************************************)
(* The invariant holds in every reachable state.                           *)
(***************************************************************************)
THEOREM S3Invariant == Spec => []S3Inv
<1>1. Init => S3Inv
  <2> SUFFICES ASSUME Init PROVE S3Inv
    OBVIOUS
  <2>1. TypeOK
    BY S3Assumption DEF Init, TypeOK, Object, Ended
  <2>2. \A k \in Key : bucket[k] # NoObject => bucket[k].by = Foreign
    BY DEF Init
  <2>3. ASSUME NEW c \in Call PROVE CallOK(c)
    BY S3Assumption DEF Init, CallOK
  <2> QED BY <2>1, <2>2, <2>3 DEF S3Inv, WrittenOK
<1>2. S3Inv /\ [Next]_vars => S3Inv'
  <2> SUFFICES ASSUME S3Inv, [Next]_vars PROVE S3Inv'
    OBVIOUS
  <2>1. ASSUME NEW c \in Call, PutStep(c) PROVE S3Inv'
    BY <2>1, PutOnceStep, ReceiveStep, RetryStep, VerifyStep DEF PutStep
  <2>2. ASSUME NEW c \in Call, PutFault(c) PROVE S3Inv'
    BY <2>2, ResendStep, ServiceErrorStep, GiveUpStep DEF PutFault
  <2>3. ASSUME NEW c \in Call, Decide(c) \/ DecideLate(c) PROVE S3Inv'
    BY <2>3, DecideStep, DecideLateStep
  <2>4. CASE UNCHANGED vars
    BY <2>4 DEF vars, S3Inv, TypeOK, WrittenOK, CallOK, Owns, Found
  <2> QED BY <2>1, <2>2, <2>3, <2>4 DEF Next
<1> QED BY <1>1, <1>2, PTL DEF Spec

(***************************************************************************)
(* A Put never takes an object this store wrote with the same content for  *)
(* a conflict.                                                             *)
(***************************************************************************)
THEOREM OwnObjectsAlwaysRecognised == Spec => []OwnObjectsRecognised
<1>1. S3Inv => OwnObjectsRecognised
  BY DEF S3Inv, CallOK, OwnObjectsRecognised, At
<1> QED BY <1>1, S3Invariant, PTL

-----------------------------------------------------------------------------
(* The refinement of ObjectStore.                                          *)

StoreRequest == [c \in Call |-> [Key |-> request[c].Key, SHA256 |-> request[c].SHA256]]

\* The answer at a place of Put, for a call that owns its key's object or not.
AnswerAt(place, owns) ==
  CASE place \in {"created", "existing", "conflict", "failed"} -> place
    [] place = "dead" -> "failed"
    [] place \notin Ended /\ owns -> "stored"
    [] OTHER -> "pending"

(***************************************************************************)
(* The mapped variables, call by call.                                     *)
(***************************************************************************)
LEMMA Mapped ==
  ASSUME S3Inv, NEW c \in Call
  PROVE  /\ StoreRequest[c].Key = request[c].Key
         /\ StoreRequest[c].SHA256 = request[c].SHA256
         /\ Answer[c] = AnswerAt(pc[c], Owns(c))
         /\ Objects[request[c].Key] = IF Found(c) = NoObject THEN NoObject ELSE Found(c).body
         /\ Objects[request[c].Key] = NoObject <=> Found(c) = NoObject
<1>1. Answer[c] = AnswerAt(pc[c], Owns(c))
  BY DEF Answer, AnswerAt, Owns
<1>2. Objects[request[c].Key] = IF Found(c) = NoObject THEN NoObject ELSE Found(c).body
  BY OfCall DEF Objects, Found
<1>3. Found(c) # NoObject => Found(c).body \in Data
  BY OfCall DEF Object
<1> QED BY <1>1, <1>2, <1>3, ObjectAssumption DEF StoreRequest

\* Answer and its next value are functions given by AnswerAt.
LEMMA AnswerIs ==
  /\ Answer = [c \in Call |-> AnswerAt(pc[c], Owns(c))]
  /\ Answer' = [c \in Call |-> AnswerAt(pc'[c], Owns(c)')]
BY DEF Answer, AnswerAt, Owns

\* No call ends in this step.
NoneEnds ==
  \A d \in Call : pc'[d] # pc[d] => pc[d] \notin Ended /\ pc'[d] \notin Ended

(***************************************************************************)
(* Moving between places of a call that has not ended changes nothing the  *)
(* store's callers can tell.                                               *)
(***************************************************************************)
LEMMA Unseen ==
  ASSUME S3Inv, UNCHANGED <<request, bucket>>, NoneEnds
  PROVE  UNCHANGED <<StoreRequest, Objects, Answer>>
<1>1. \A d \in Call : Owns(d)' = Owns(d)
  BY DEF Owns, Found
<1>2. \A d \in Call : AnswerAt(pc'[d], Owns(d)') = AnswerAt(pc[d], Owns(d))
  BY <1>1 DEF AnswerAt, Ended, NoneEnds
<1>3. Answer' = Answer
  BY <1>2, AnswerIs
<1> QED BY <1>3 DEF StoreRequest, Objects

(***************************************************************************)
(* A step that ends the call c returns an answer.                          *)
(***************************************************************************)
LEMMA Returned ==
  ASSUME S3Inv, NEW c \in Call, NEW label \in Ended, Goto(c, label), pc[c] \notin Ended,
         UNCHANGED <<request, bucket>>, Verified(c, label), label = "created" => Owns(c)
  PROVE  Abstract!Return(c)
<1> DEFINE a == AnswerAt(label, Owns(c))
<1>1. a \in {"created", "existing", "conflict", "failed"}
  BY DEF Ended, AnswerAt
<1>2. Answer[c] \in {"pending", "stored"} /\ (Owns(c) => Answer[c] = "stored")
  BY Mapped DEF AnswerAt, Ended
<1>3. /\ a = "created" => Answer[c] = "stored"
      /\ a = "existing" => Objects[StoreRequest[c].Key] = StoreRequest[c].SHA256
      /\ a = "conflict" => Objects[StoreRequest[c].Key] # NoObject
  <2>1. a # "failed" => a = label
    BY DEF Ended, AnswerAt
  <2> QED BY <1>2, <2>1, Mapped DEF Verified
<1>4. Answer' = [Answer EXCEPT ![c] = a]
  <2>1. \A d \in Call : pc'[d] = IF d = c THEN label ELSE pc[d]
    BY DEF S3Inv, TypeOK, Goto
  <2>2. \A d \in Call : Owns(d)' = Owns(d)
    BY DEF Owns, Found
  <2> QED BY <2>1, <2>2, AnswerIs
<1>5. UNCHANGED <<StoreRequest, Objects>>
  BY DEF StoreRequest, Objects
<1> HIDE DEF a
<1> QED BY <1>1, <1>2, <1>3, <1>4, <1>5
        DEF Abstract!Return, Abstract!Found, Abstract!Asked, StoreRequest

(***************************************************************************)
(* A stored object is the store's write of its call, which may have given  *)
(* up but cannot have been told anything about the object.                 *)
(***************************************************************************)
LEMMA Written ==
  ASSUME S3Inv, NEW c \in Call, Found(c) = NoObject,
         request[c].source = request[c].SHA256, Store(c), UNCHANGED <<request, pc>>
  PROVE  Abstract!Write(c)
<1> DEFINE k == request[c].Key
<1>1. PICK kept \in BOOLEAN :
        bucket' = [bucket EXCEPT ![k] =
                     [body |-> request[c].source, sha256 |-> request[c].SHA256,
                      checksum |-> kept, by |-> c]]
  BY DEF Store
<1> DEFINE o == [body |-> request[c].source, sha256 |-> request[c].SHA256,
                 checksum |-> kept, by |-> c]
<1>2. o \in Object /\ o.body = request[c].SHA256 /\ o.by = c
  BY OfCall DEF Object
<1>3. k \in Key /\ bucket[k] = NoObject /\ bucket' = [bucket EXCEPT ![k] = o]
  BY <1>1, OfCall DEF Found
<1> HIDE DEF o
<1>4. o # NoObject
  BY <1>2, S3ObjectAssumption
<1>5. Objects[k] = NoObject /\ Objects' = [Objects EXCEPT ![k] = request[c].SHA256]
  BY <1>2, <1>3, <1>4 DEF Objects, S3Inv, TypeOK
<1>6. ~ Owns(c) /\ pc[c] \notin {"created", "existing", "conflict"}
  BY OfCall DEF CallOK, Owns
<1>7. Answer[c] = IF pc[c] \in Ended THEN "failed" ELSE "pending"
  BY <1>6, Mapped DEF AnswerAt, Ended
<1>8. \A d \in Call : Owns(d)' = (Owns(d) \/ d = c)
  <2>1. Owns(c)'
    BY StoreOwns
  <2>2. ASSUME NEW d \in Call, d # c PROVE Owns(d)' = Owns(d)
    <3>1. CASE request[d].Key = k
      BY <1>2, <1>3, <2>2, <3>1 DEF Owns, Found, S3Inv, TypeOK
    <3>2. CASE request[d].Key # k
      BY <1>3, <3>2 DEF Owns, Found, S3Inv, TypeOK
    <3> QED BY <3>1, <3>2
  <2>3. \A d \in Call : Owns(d)' \in BOOLEAN /\ Owns(d) \in BOOLEAN
    BY DEF Owns
  <2> QED BY <2>1, <2>2, <2>3
<1>9. Answer' = [Answer EXCEPT ![c] = IF @ = "failed" THEN "failed" ELSE "stored"]
  <2> DEFINE b == IF Answer[c] = "failed" THEN "failed" ELSE "stored"
  <2>1. AnswerAt(pc[c], TRUE) = b
    BY <1>6, <1>7 DEF AnswerAt, Ended
  <2>2. \A d \in Call : AnswerAt(pc'[d], Owns(d)') = IF d = c THEN b ELSE AnswerAt(pc[d], Owns(d))
    <3>1. Owns(c)' = TRUE
      BY <1>8
    <3>2. ASSUME NEW d \in Call, d # c PROVE Owns(d)' = Owns(d)
      <4>1. Owns(d) \in BOOLEAN
        BY DEF Owns
      <4> QED BY <1>8, <3>2, <4>1
    <3> HIDE DEF b
    <3> QED BY <2>1, <3>1, <3>2
  <2> HIDE DEF b
  <2>3. Answer' = [Answer EXCEPT ![c] = b]
    BY <2>2, AnswerIs
  <2> QED BY <2>3 DEF b
<1>10. Answer[c] \in {"pending", "failed"}
  BY <1>7
<1>11. /\ StoreRequest' = StoreRequest /\ StoreRequest[c].Key = k
       /\ StoreRequest[c].SHA256 = request[c].SHA256
  BY DEF StoreRequest
<1> QED BY <1>5, <1>9, <1>10, <1>11
        DEF Abstract!Write, Abstract!Found, Abstract!Asked, StoreRequest

(***************************************************************************)
(* A step of Put returns an answer or is not seen.                         *)
(***************************************************************************)
LEMMA PutStepMapped ==
  ASSUME S3Inv, NEW c \in Call, PutStep(c)
  PROVE  Abstract!Return(c) \/ UNCHANGED <<StoreRequest, Objects, Answer>>
<1>1. UNCHANGED <<request, bucket>>
  BY DEF PutStep, PutOnce, Receive, Retry, Head, Get
<1>2. PICK label \in Place :
        /\ Goto(c, label) /\ pc[c] \notin Ended /\ Verified(c, label)
        /\ label = "created" => Owns(c)
  <2> USE DEF Place, Ended, At
  <2>1. CASE PutOnce(c)
    BY <2>1 DEF PutOnce, Verified
  <2>2. CASE Receive(c)
    <3>1. PICK label \in {"created", "head", "retry", "failed"} :
            Goto(c, label) /\ (label = "created" => wire[c] = "ok")
      BY <2>2 DEF Receive, Reply
    <3>2. label = "created" => Owns(c)
      BY <3>1, OfCall DEF CallOK
    <3> QED BY <2>2, <3>1, <3>2 DEF Receive, Verified
  <2>3. CASE Retry(c)
    <3>1. PICK label \in {"put", "failed"} : Goto(c, label)
      BY <2>3 DEF Retry
    <3> QED BY <2>3, <3>1 DEF Retry, Verified
  <2>4. CASE Head(c)
    <3>1. PICK label \in {"failed", "existing", "conflict", "get"} :
            Goto(c, label) /\ Verified(c, label)
      BY <2>4, HeadVerifies
    <3> QED BY <2>4, <3>1 DEF Head
  <2>5. CASE Get(c)
    <3>1. PICK label \in {"existing", "conflict"} : Goto(c, label) /\ Verified(c, label)
      BY <2>5, GetVerifies
    <3> QED BY <2>5, <3>1 DEF Get
  <2> QED BY <2>1, <2>2, <2>3, <2>4, <2>5 DEF PutStep
<1>3. CASE label \in Ended
  BY <1>1, <1>2, <1>3, Returned
<1>4. CASE label \notin Ended
  <2>1. \A d \in Call : pc'[d] = IF d = c THEN label ELSE pc[d]
    BY <1>2 DEF Goto, S3Inv, TypeOK
  <2>2. NoneEnds
    BY <1>2, <1>4, <2>1 DEF NoneEnds
  <2> QED BY <1>1, <2>2, Unseen
<1> QED BY <1>3, <1>4

(***************************************************************************)
(* So is a step of the service or a fault, but for a write.                *)
(***************************************************************************)
LEMMA ServiceMapped ==
  ASSUME S3Inv, NEW c \in Call, PutFault(c) \/ Decide(c) \/ DecideLate(c)
  PROVE  \/ Abstract!Write(c) \/ Abstract!Return(c)
         \/ UNCHANGED <<StoreRequest, Objects, Answer>>
<1>1. CASE Decide(c) \/ DecideLate(c) \/ ServiceError(c)
  <2>1. BucketStep(c) /\ UNCHANGED <<request, pc>>
    BY <1>1 DEF Decide, DecideLate, ServiceError, BucketStep
  <2>2. CASE UNCHANGED bucket
    BY <2>1, <2>2, Unseen DEF NoneEnds
  <2>3. CASE Found(c) = NoObject /\ request[c].source = request[c].SHA256 /\ Store(c)
    BY <2>1, <2>3, Written
  <2> QED BY <2>1, <2>2, <2>3 DEF BucketStep
<1>2. CASE Resend(c)
  BY <1>2, Unseen DEF Resend, NoneEnds
<1>3. CASE Ambiguous(c)
  <2>1. NoneEnds
    BY <1>3 DEF Ambiguous, At, Goto, Ended, S3Inv, TypeOK, NoneEnds
  <2> QED BY <1>3, <2>1, Unseen DEF Ambiguous
<1>4. CASE GiveUp(c)
  <2>1. PICK label \in {"failed", "dead"} : Goto(c, label)
    BY <1>4 DEF GiveUp
  <2>2. label \in Ended /\ label # "created" /\ Verified(c, label)
    BY DEF Ended, Verified
  <2> QED BY <1>4, <2>1, <2>2, Returned DEF GiveUp
<1> QED BY <1>1, <1>2, <1>3, <1>4 DEF PutFault

(***************************************************************************)
(* The bucket implements the store the ingestion services rely on.         *)
(***************************************************************************)
THEOREM S3ImplementsStore == Spec => ImplementsStore
<1>1. Init => Abstract!Init
  <2> SUFFICES ASSUME Init PROVE Abstract!Init
    OBVIOUS
  <2>1. StoreRequest \in [Call -> [Key : Key, SHA256 : Data]]
    BY DEF Init, PutRequest, StoreRequest
  <2>2. Objects \in [Key -> Data \cup {NoObject}]
    BY DEF Init, Objects, Object
  <2>3. Answer = [c \in Call |-> "pending"]
    <3>1. \A k \in Key : bucket[k] # NoObject => bucket[k].by = Foreign
      BY DEF Init
    <3>2. \A c \in Call : ~ Owns(c)
      BY <3>1, S3Assumption DEF Init, PutRequest, Owns, Found
    <3>3. \A c \in Call : AnswerAt(pc[c], Owns(c)) = "pending"
      BY <3>2 DEF Init, AnswerAt
    <3> QED BY <3>3, AnswerIs
  <2> QED BY <2>1, <2>2, <2>3 DEF Abstract!Init, Abstract!PutRequest, StoreRequest
<1>2. S3Inv /\ [Next]_vars => [Abstract!Next]_(Abstract!vars)
  <2> SUFFICES ASSUME S3Inv, [Next]_vars PROVE [Abstract!Next]_(Abstract!vars)
    OBVIOUS
  <2> USE DEF Abstract!Next
  <2>1. ASSUME NEW c \in Call, PutStep(c) PROVE [Abstract!Next]_(Abstract!vars)
    BY <2>1, PutStepMapped DEF Abstract!vars, StoreRequest
  <2>2. ASSUME NEW c \in Call, PutFault(c) \/ Decide(c) \/ DecideLate(c)
        PROVE  [Abstract!Next]_(Abstract!vars)
    BY <2>2, ServiceMapped DEF Abstract!vars, StoreRequest
  <2>3. CASE UNCHANGED vars
    BY <2>3 DEF vars, Abstract!vars, Objects, Answer, Found
  <2> QED BY <2>1, <2>2, <2>3 DEF Next
<1> QED BY <1>1, <1>2, S3Invariant, PTL DEF Spec, ImplementsStore, Abstract!Spec

-----------------------------------------------------------------------------
(* What ObjectStoreProofs shows of every store holds of the bucket.        *)

Proved == INSTANCE ObjectStoreProofs WITH
  request <- [c \in Call |-> [Key |-> request[c].Key, SHA256 |-> request[c].SHA256]],
  objects <- Objects, answer <- Answer, firm <- TRUE

(***************************************************************************)
(* The two instances of the store's specification are one.                 *)
(***************************************************************************)
LEMMA SameStore == Abstract!Spec <=> Proved!Spec
<1>1. Abstract!Init <=> Proved!Init
  BY DEF Abstract!Init, Proved!Init, Abstract!PutRequest, Proved!PutRequest
<1>2. [Abstract!Next]_(Abstract!vars) <=> [Proved!Next]_(Proved!vars)
  BY DEF Abstract!Next, Proved!Next, Abstract!vars, Proved!vars,
         Abstract!PowerLoss, Proved!PowerLoss, Abstract!Kept, Proved!Kept,
         Abstract!Write, Proved!Write, Abstract!Return, Proved!Return,
         Abstract!Found, Proved!Found, Abstract!Asked, Proved!Asked
<1> QED BY <1>1, <1>2, PTL DEF Abstract!Spec, Proved!Spec

\* The object of a call that was told it created it is the one it wrote, and
\* no other call was told so.
CreatedIsMine(c) ==
  /\ Owns(c) /\ Found(c).body = request[c].SHA256
  /\ \A d \in Call : pc[d] = "created" /\ request[d].Key = request[c].Key => d = c

CreatedObjects == \A c \in Call : pc[c] = "created" => CreatedIsMine(c)

(***************************************************************************)
(* Created = true can be relied on: the call's own object is in the bucket *)
(* with the bytes asked for, through lost replies, resent and late         *)
(* requests, and only one call of a key is told so.                        *)
(***************************************************************************)
THEOREM CreatedObjectStays == Spec => []CreatedObjects
<1>1. Spec => [](Proved!CreatedOnce /\ Proved!CreatedIsStored)
  BY S3ImplementsStore, SameStore, Proved!OnlyOneCreates, Proved!CreatedStaysStored,
     ObjectAssumption, PTL DEF ImplementsStore
<1>2. S3Inv /\ Proved!CreatedOnce /\ Proved!CreatedIsStored => CreatedObjects
  <2> SUFFICES ASSUME S3Inv, Proved!CreatedOnce, Proved!CreatedIsStored,
                      NEW c \in Call, pc[c] = "created"
               PROVE  CreatedIsMine(c)
    BY DEF CreatedObjects
  <2>1. \A d \in Call : pc[d] = "created" => Answer[d] = "created"
    BY Mapped DEF AnswerAt, Ended
  <2>2. \A d \in Call : pc[d] = "created" /\ request[d].Key = request[c].Key => d = c
    BY <2>1 DEF Proved!CreatedOnce
  <2>3. Owns(c)
    BY OfCall DEF CallOK
  <2>4. Objects[request[c].Key] = request[c].SHA256
    BY <2>1 DEF Proved!CreatedIsStored, Proved!Found, Proved!Asked
  <2>5. Found(c).body = request[c].SHA256
    BY <2>3, <2>4, Mapped DEF Owns
  <2> QED BY <2>2, <2>3, <2>5 DEF CreatedIsMine
<1> QED BY <1>1, <1>2, S3Invariant, PTL

(***************************************************************************)
(* No step of a call or of the service replaces an object.                 *)
(***************************************************************************)
THEOREM S3ObjectsNeverReplaced == Spec => Proved!NeverReplaced
<1> QED BY S3ImplementsStore, SameStore, Proved!ObjectsNeverReplaced, ObjectAssumption, PTL
        DEF ImplementsStore

=============================================================================
