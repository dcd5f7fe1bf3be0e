----------------------------- MODULE ObjectStore ----------------------------
(***************************************************************************)
(* What the ingestion services rely on when they call storage.Store.Put    *)
(* (internal/storage/storage.go), whichever backend they were given: an    *)
(* object is written whole, once, and never replaced; the answer of a Put  *)
(* says what is stored.  LocalStore and S3Store implement this module.     *)
(***************************************************************************)
EXTENDS StoreObjects

PutRequest == [Key : Key, SHA256 : Data]

VARIABLES
  request,  \* request[c]: the key and the content Put is asked to store
  objects,  \* objects[k]: the content stored under k
  answer,   \* answer[c]: what Put answered, if it did
  firm      \* whether the place that holds the objects outlives a power loss

vars == <<request, objects, answer, firm>>

\* stored: the call's own write took effect, the caller does not know yet.
\* created is Created = true; existing is false or, after an ambiguous
\* reply, nil; conflict is ErrConflict on a stored object, whose content or
\* (on S3) whose metadata differs.
Answer == {"pending", "stored", "created", "existing", "conflict", "failed"}

Asked(c) == request[c].SHA256
Found(c) == objects[request[c].Key]

TypeOK ==
  /\ request \in [Call -> PutRequest]
  /\ objects \in [Key -> Data \cup {NoObject}]
  /\ answer \in [Call -> Answer]
  /\ firm \in BOOLEAN

-----------------------------------------------------------------------------

Init ==
  /\ request \in [Call -> PutRequest]
  /\ objects \in [Key -> Data \cup {NoObject}]
  /\ answer = [c \in Call |-> "pending"]
  /\ firm \in BOOLEAN

\* A write whose call was given up can still arrive.
Write(c) ==
  /\ Found(c) = NoObject
  /\ answer[c] \in {"pending", "failed"}
  /\ objects' = [objects EXCEPT ![request[c].Key] = Asked(c)]
  /\ answer' = [answer EXCEPT ![c] = IF @ = "failed" THEN "failed" ELSE "stored"]
  /\ UNCHANGED <<request, firm>>

Return(c) ==
  /\ answer[c] \in {"pending", "stored"}
  /\ \E a \in {"created", "existing", "conflict", "failed"} :
       /\ a = "created" => answer[c] = "stored"
       /\ a = "existing" => Found(c) = Asked(c)
       /\ a = "conflict" => Found(c) # NoObject
       /\ answer' = [answer EXCEPT ![c] = a]
  /\ UNCHANGED <<request, objects, firm>>

\* An object somebody was told he created survives, if its place does.
Kept(k) == firm /\ \E c \in Call : request[c].Key = k /\ answer[c] = "created"

\* The machine that holds the objects, and the callers on it, go down.
PowerLoss ==
  /\ \E lost \in SUBSET {k \in Key : ~ Kept(k)} :
       objects' = [k \in Key |-> IF k \in lost THEN NoObject ELSE objects[k]]
  /\ \E down \in SUBSET {c \in Call : answer[c] = "pending"} :
       answer' = [c \in Call |-> IF c \in down \/ answer[c] = "stored" THEN "failed"
                                 ELSE answer[c]]
  /\ UNCHANGED <<request, firm>>

Next == PowerLoss \/ \E c \in Call : Write(c) \/ Return(c)

Spec == Init /\ [][Next]_vars

-----------------------------------------------------------------------------

(***************************************************************************)
(* In a firm place Created = true can be relied on: the object is stored   *)
(* with the content asked for, however many others write the key before or *)
(* after and whenever power is lost.  The ingestion models rest on this    *)
(* when they link an archive.                                              *)
(***************************************************************************)
CreatedIsStored == firm => \A c \in Call : answer[c] = "created" => Found(c) = Asked(c)

(***************************************************************************)
(* In a firm place at most one Put of a key is ever told that it created   *)
(* the object (TestLocalStoreConcurrentCreate asks this of twelve          *)
(* concurrent writers, without power losses).                              *)
(***************************************************************************)
CreatedOnce ==
  firm => \A c, d \in Call :
    answer[c] = "created" /\ answer[d] = "created" /\ request[c].Key = request[d].Key
    => c = d

(***************************************************************************)
(* The inductive invariant: a write that was or may still be confirmed is  *)
(* there, and it is the only such write of its key.  A place that is not   *)
(* firm keeps its promises only to calls that have no answer yet.          *)
(***************************************************************************)
Confirmable(c) == answer[c] = "stored" \/ (firm /\ answer[c] = "created")

Inv ==
  /\ TypeOK
  /\ \A c \in Call : Confirmable(c) => Found(c) = Asked(c)
  /\ \A c, d \in Call :
       Confirmable(c) /\ Confirmable(d) /\ request[c].Key = request[d].Key => c = d

(***************************************************************************)
(* A stored object is never replaced by another: Put creates, and meets an *)
(* existing object by comparing with it.                                   *)
(***************************************************************************)
NeverReplaced ==
  [][\A k \in Key : objects[k] # NoObject => objects'[k] \in {objects[k], NoObject}]_vars

=============================================================================
