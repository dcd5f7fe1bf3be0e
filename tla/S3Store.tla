------------------------------ MODULE S3Store -------------------------------
(***************************************************************************)
(* S3Store.Put (internal/storage/s3.go): calls of several processes on one *)
(* bucket.  A conditional PUT (If-None-Match: star) is sent, the service   *)
(* decides it, the reply arrives or is lost; a copy of the request that    *)
(* was given up may still be decided later.  The service and the SDK,      *)
(* which may resend a request by itself, are modelled from how s3.go uses  *)
(* them.                                                                   *)
(***************************************************************************)
EXTENDS Naturals, StoreObjects   \* contents of equal size

CONSTANTS
  Faulty,          \* the calls that may meet faults; a bound
  Foreign,         \* the writer of objects not put by a call
  MaxPutAttempts,  \* maxPutAttempts
  MaxResends       \* how often the SDK repeats one PutObject by itself

ASSUME S3Assumption ==
  /\ Faulty \subseteq Call /\ Foreign \notin Call
  /\ MaxPutAttempts \in Nat \ {0} /\ MaxResends \in Nat

PutRequest == [Key : Key, SHA256 : Data, source : Data]

\* sha256: the metadata, which anybody can set.  checksum: the service kept
\* a SHA-256 of the body and reports it.
Object == [body : Data, sha256 : Data, checksum : BOOLEAN, by : Call \cup {Foreign}]

ASSUME S3ObjectAssumption == NoObject \notin Object

VARIABLES
  request,  \* request[c]
  pc,       \* pc[c]: the place in Put, or how it ended
  attempt,  \* attempt[c]: conditional conflicts met so far
  resent,   \* resent[c]: how often the PUT in flight was repeated
  wire,     \* wire[c]: the PUT in flight, or the reply to it
  late,     \* calls with a given-up copy of the PUT still under way
  bucket    \* bucket[k]: the object under k

vars == <<request, pc, attempt, resent, wire, late, bucket>>

Ended == {"created", "existing", "conflict", "failed", "dead"}
Reply == {"ok", "precondition", "conditional", "definitive"}

TypeOK ==
  /\ request \in [Call -> PutRequest]
  /\ pc \in [Call -> Ended \cup {"put", "await", "retry", "head", "get"}]
  /\ attempt \in [Call -> 0..MaxPutAttempts]
  /\ resent \in [Call -> 0..MaxResends]
  /\ wire \in [Call -> Reply \cup {"none", "sent"}]
  /\ late \in SUBSET Call
  /\ bucket \in [Key -> Object \cup {NoObject}]

Init ==
  /\ request \in [Call -> PutRequest]
  /\ pc = [c \in Call |-> "put"]
  /\ attempt = [c \in Call |-> 0]
  /\ resent = [c \in Call |-> 0]
  /\ wire = [c \in Call |-> "none"]
  /\ late = {}
  /\ bucket \in [Key -> {NoObject} \cup {o \in Object : o.by = Foreign}]

-----------------------------------------------------------------------------

At(c, label) == pc[c] = label

Goto(c, label) == pc' = [pc EXCEPT ![c] = label]

Found(c) == bucket[request[c].Key]

PutOnce(c) ==
  /\ At(c, "put")
  /\ wire' = [wire EXCEPT ![c] = "sent"]
  /\ resent' = [resent EXCEPT ![c] = 0]
  /\ Goto(c, "await")
  /\ UNCHANGED <<request, attempt, late, bucket>>

\* Mutant: conditional conflicts are not counted.
ReceiveUncounted(c) ==
  /\ At(c, "await")
  /\ wire[c] \in Reply
  /\ Goto(c, CASE wire[c] = "ok" -> "created"
               [] wire[c] = "precondition" -> "head"
               [] wire[c] = "conditional" -> "retry"
               [] wire[c] = "definitive" -> "failed")
  /\ wire' = [wire EXCEPT ![c] = "none"]
  /\ UNCHANGED <<request, attempt, resent, late, bucket>>

\* The error of PutObject as classifyS3PutError sees it.
Receive(c) ==
  /\ At(c, "await")
  /\ wire[c] \in Reply
  /\ Goto(c, CASE wire[c] = "ok" -> "created"
               [] wire[c] = "precondition" -> "head"
               [] wire[c] = "conditional" -> "retry"
               [] wire[c] = "definitive" -> "failed")
  /\ wire' = [wire EXCEPT ![c] = "none"]
  /\ attempt' = [attempt EXCEPT ![c] = IF wire[c] = "conditional" THEN @ + 1 ELSE @]
  /\ UNCHANGED <<request, resent, late, bucket>>

\* waitForS3Retry, or the end of the attempts.
Retry(c) ==
  /\ At(c, "retry")
  /\ Goto(c, IF attempt[c] < MaxPutAttempts THEN "put" ELSE "failed")
  /\ UNCHANGED <<request, attempt, resent, wire, late, bucket>>

\* Mutant: the metadata is trusted.
HeadTrustsMetadata(c) ==
  /\ At(c, "head")
  /\ Goto(c, CASE Found(c) = NoObject -> "failed"
               [] Found(c) # NoObject /\ Found(c).sha256 # request[c].SHA256 -> "conflict"
               [] OTHER -> "existing")
  /\ UNCHANGED <<request, attempt, resent, wire, late, bucket>>

\* verifyExisting: metadata first, then the checksum if there is one.
Head(c) ==
  /\ At(c, "head")
  /\ LET o == Found(c) IN
       Goto(c, CASE o = NoObject -> "failed"
                 [] o # NoObject /\ o.sha256 # request[c].SHA256 -> "conflict"
                 [] o # NoObject /\ o.sha256 = request[c].SHA256 /\ o.checksum ->
                      IF o.body = request[c].SHA256 THEN "existing" ELSE "conflict"
                 [] o # NoObject /\ o.sha256 = request[c].SHA256 /\ ~ o.checksum -> "get")
  /\ UNCHANGED <<request, attempt, resent, wire, late, bucket>>

\* verifyExistingBody.
Get(c) ==
  /\ At(c, "get")
  /\ Goto(c, IF Found(c).body = request[c].SHA256 THEN "existing" ELSE "conflict")
  /\ UNCHANGED <<request, attempt, resent, wire, late, bucket>>

-----------------------------------------------------------------------------
(* The service.                                                            *)

\* Mutant: putOnce sets no metadata.
StoreUnlabelled(c) ==
  \E kept \in BOOLEAN, sha \in Data \ {request[c].SHA256} :
    bucket' = [bucket EXCEPT ![request[c].Key] =
      [body |-> request[c].source, sha256 |-> sha, checksum |-> kept, by |-> c]]

\* The service keeps the checksum or not.
Store(c) ==
  \E kept \in BOOLEAN :
    bucket' = [bucket EXCEPT ![request[c].Key] =
      [body |-> request[c].source, sha256 |-> request[c].SHA256,
       checksum |-> kept, by |-> c]]

Replies(c, r) == wire' = [wire EXCEPT ![c] = r]

\* Another PUT of the key is being decided.
Contended(c) ==
  c \in late \/ \E d \in Call \ {c} :
    request[d].Key = request[c].Key /\ (wire[d] = "sent" \/ d \in late)

\* A body that does not match ChecksumSHA256 is refused.
Decide(c) ==
  /\ wire[c] = "sent"
  /\ \/ /\ request[c].source # request[c].SHA256
        /\ Replies(c, "definitive") /\ UNCHANGED bucket
     \/ /\ request[c].source = request[c].SHA256 /\ Found(c) = NoObject
        /\ Store(c) /\ Replies(c, "ok")
     \/ /\ request[c].source = request[c].SHA256 /\ Found(c) # NoObject
        /\ Replies(c, "precondition") /\ UNCHANGED bucket
     \/ /\ Contended(c)
        /\ Replies(c, "conditional") /\ UNCHANGED bucket
  /\ UNCHANGED <<request, pc, attempt, resent, late>>

\* A given-up copy is decided or dropped; nobody hears of it.
DecideLate(c) ==
  /\ c \in late
  /\ late' = late \ {c}
  /\ \/ Found(c) = NoObject /\ request[c].source = request[c].SHA256 /\ Store(c)
     \/ UNCHANGED bucket
  /\ UNCHANGED <<request, pc, attempt, resent, wire>>

-----------------------------------------------------------------------------
(* Faults.                                                                 *)

GiveUpCopy(c) == late' = IF wire[c] = "sent" THEN late \cup {c} ELSE late

\* The SDK meets a lost reply and sends the request again.
Resend(c) ==
  /\ At(c, "await")
  /\ resent[c] < MaxResends
  /\ resent' = [resent EXCEPT ![c] = @ + 1]
  /\ GiveUpCopy(c)
  /\ Replies(c, "sent")
  /\ UNCHANGED <<request, pc, attempt, bucket>>

\* A connection or network error: the outcome is ambiguous.
Ambiguous(c) ==
  /\ At(c, "await")
  /\ GiveUpCopy(c)
  /\ Replies(c, "none")
  /\ Goto(c, "head")
  /\ UNCHANGED <<request, attempt, resent, bucket>>

\* The service answers with an error, having stored the object or not.
ServiceError(c) ==
  /\ wire[c] = "sent"
  /\ \/ Found(c) = NoObject /\ request[c].source = request[c].SHA256 /\ Store(c)
     \/ UNCHANGED bucket
  /\ Replies(c, "definitive")
  /\ UNCHANGED <<request, pc, attempt, resent, late>>

\* The source cannot be opened, a verification fails, the context ends or
\* the process dies.
GiveUp(c) ==
  /\ pc[c] \notin Ended
  /\ GiveUpCopy(c)
  /\ Replies(c, "none")
  /\ \E end \in {"failed", "dead"} : Goto(c, end)
  /\ UNCHANGED <<request, attempt, resent, bucket>>

-----------------------------------------------------------------------------

PutStep(c) == PutOnce(c) \/ Receive(c) \/ Retry(c) \/ Head(c) \/ Get(c)

PutFault(c) ==
  c \in Faulty /\ (Resend(c) \/ Ambiguous(c) \/ ServiceError(c) \/ GiveUp(c))

Next == \E c \in Call : PutStep(c) \/ PutFault(c) \/ Decide(c) \/ DecideLate(c)

Spec == Init /\ [][Next]_vars

\* A live caller goes on and the service answers.
FairSpec == Spec /\ \A c \in Call : WF_vars(PutStep(c)) /\ WF_vars(Decide(c))

-----------------------------------------------------------------------------
(* Implementation of ObjectStore.                                          *)

Objects == [k \in Key |-> IF bucket[k] = NoObject THEN NoObject ELSE bucket[k].body]

Answer ==
  [c \in Call |->
     CASE pc[c] \in {"created", "existing", "conflict", "failed"} -> pc[c]
       [] pc[c] = "dead" -> "failed"
       [] pc[c] \notin Ended /\ Found(c) # NoObject /\ Found(c).by = c -> "stored"
       [] OTHER -> "pending"]

Abstract == INSTANCE ObjectStore WITH
  request <- [c \in Call |-> [Key |-> request[c].Key, SHA256 |-> request[c].SHA256]],
  objects <- Objects, answer <- Answer, firm <- TRUE

(***************************************************************************)
(* The bucket behaves as an ObjectStore through lost replies, resent and   *)
(* late requests and concurrent puts: an object is created once, never     *)
(* replaced, and no answer claims what is not stored.                      *)
(***************************************************************************)
ImplementsStore == Abstract!Spec

(***************************************************************************)
(* A Put never takes an object written by this store with the same content *)
(* for a conflict, its own late or resent write included.                  *)
(***************************************************************************)
OwnObjectsRecognised ==
  \A c \in Call :
    At(c, "conflict") => Found(c).by = Foreign \/ Found(c).body # request[c].SHA256

(***************************************************************************)
(* Every Put of a live process ends: conflicts cannot keep two callers     *)
(* retrying against each other.                                            *)
(***************************************************************************)
PutsEnd == \A c \in Call : <>(pc[c] \in Ended)

=============================================================================
