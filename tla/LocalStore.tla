----------------------------- MODULE LocalStore -----------------------------
(***************************************************************************)
(* LocalStore.Put (internal/storage/local.go): calls of several processes  *)
(* on one directory tree, down to the file operations whose order makes an *)
(* object appear whole and survive a power loss.  A file's bytes survive   *)
(* once the file was synced, its name once the directory was, a directory  *)
(* once its parents were; anything else may or may not.  Put makes the     *)
(* root itself when it is missing, and nothing syncs the directory that    *)
(* holds the root's name.                                                  *)
(***************************************************************************)
EXTENDS StoreObjects

CONSTANTS
  Parent,   \* Parent[k]: the directory of key k
  Faulty,   \* the calls that may meet faults; a bound
  Torn,     \* the content of a file whose bytes did not all survive
  NoFile    \* no temporary file

Dir == {Parent[k] : k \in Key}

\* source: what reading request.Source yields; a file may have changed.
PutRequest == [Key : Key, SHA256 : Data, source : Data]

\* An open or linked file: its bytes, and whether they were synced.
File == [bytes : Data \cup {Torn}, synced : BOOLEAN]

ASSUME LocalAssumption ==
  /\ Faulty \subseteq Call
  /\ Torn \notin Data \cup {NoObject}
  /\ NoFile \notin File

VARIABLES
  request,  \* request[c]
  pc,       \* pc[c]: the place in Put, or how it ended
  root,     \* the root, with the parents made for it: in place, and durable,
            \* before the calls; absent; made by a call; survived a power loss
  linked,   \* linked[k]: the file named k
  named,    \* keys whose name was synced to disk
  made,     \* directories that exist
  rooted,   \* directories whose own names were synced
  temp      \* temp[c]: the call's temporary file

vars == <<request, pc, root, linked, named, made, rooted, temp>>
files == <<root, linked, named, made, rooted, temp>>

\* dead: killed, or returned an error without removing the temporary file.
Ended == {"created", "existing", "conflict", "failed", "dead"}

TypeOK ==
  /\ request \in [Call -> PutRequest]
  /\ pc \in [Call -> Ended \cup
       {"start", "lookup", "mkdir", "sync_chain", "temp", "copy", "sync_temp", "link",
        "reverify", "remove", "sync_dir", "cleanup", "cleanup_existing",
        "cleanup_conflict",
        "cleanup_published"}]
  /\ root \in {"in_place", "absent", "made", "survived"}
  /\ linked \in [Key -> File \cup {NoFile}]
  /\ named \in SUBSET Key
  /\ made \in SUBSET Dir
  /\ rooted \in SUBSET made
  /\ temp \in [Call -> File \cup {NoFile}]

KeyOf(c) == request[c].Key

\* With the root in place, files of earlier puts or put there by hand.
Init ==
  /\ request \in [Call -> PutRequest]
  /\ pc = [c \in Call |-> "start"]
  /\ root \in {"in_place", "absent"}
  /\ linked \in [Key -> {NoFile} \cup [bytes : Data, synced : {TRUE}]]
  /\ root = "absent" => linked = [k \in Key |-> NoFile]
  /\ named = {k \in Key : linked[k] # NoFile}
  /\ made = {Parent[k] : k \in named}
  /\ rooted = made
  /\ temp = [c \in Call |-> NoFile]

-----------------------------------------------------------------------------

At(c, label) == pc[c] = label

Goto(c, label) == pc' = [pc EXCEPT ![c] = label]

\* The root and its missing parents, by absolute path; then os.OpenRoot.
MkdirRoot(c) ==
  /\ At(c, "start")
  /\ root' = IF root = "absent" THEN "made" ELSE root
  /\ Goto(c, "lookup")
  /\ UNCHANGED <<request, linked, named, made, rooted, temp>>

\* verifyExisting: the size and hash of an existing object are compared.
VerifyExisting(c, found, differs, absent) ==
  Goto(c, CASE linked[KeyOf(c)] = NoFile -> absent
            [] linked[KeyOf(c)] # NoFile /\ linked[KeyOf(c)].bytes = request[c].SHA256 -> found
            [] OTHER -> differs)

Lookup(c) ==
  /\ At(c, "lookup")
  /\ VerifyExisting(c, "existing", "conflict", "mkdir")
  /\ UNCHANGED <<request, files>>

MkdirAll(c) ==
  /\ At(c, "mkdir")
  /\ made' = made \cup {Parent[KeyOf(c)]}
  /\ Goto(c, "sync_chain")
  /\ UNCHANGED <<request, root, linked, named, rooted, temp>>

\* syncLocalDirectoryChain: the root and the directories below it, those
\* another call made too.  The root's own name is not synced.
SyncChain(c) ==
  /\ At(c, "sync_chain")
  /\ rooted' = rooted \cup {Parent[KeyOf(c)]}
  /\ named' = named \cup {k \in Key : Parent[k] = Parent[KeyOf(c)] /\ linked[k] # NoFile}
  /\ Goto(c, "temp")
  /\ UNCHANGED <<request, root, linked, made, temp>>

CreateTemp(c) ==
  /\ At(c, "temp")
  /\ temp' = [temp EXCEPT ![c] = [bytes |-> Torn, synced |-> FALSE]]
  /\ Goto(c, "copy")
  /\ UNCHANGED <<request, root, linked, named, made, rooted>>

\* io.Copy through the hash, and the comparison with the request.
Copy(c) ==
  /\ At(c, "copy")
  /\ temp' = [temp EXCEPT ![c].bytes = request[c].source]
  /\ Goto(c, IF request[c].source = request[c].SHA256 THEN "sync_temp" ELSE "cleanup")
  /\ UNCHANGED <<request, root, linked, named, made, rooted>>

SyncTemp(c) ==
  /\ At(c, "sync_temp")
  /\ temp' = [temp EXCEPT ![c].synced = TRUE]
  /\ Goto(c, "link")
  /\ UNCHANGED <<request, root, linked, named, made, rooted>>

\* link(2) fails on an existing name.
Link(c) ==
  /\ At(c, "link")
  /\ IF linked[KeyOf(c)] = NoFile
       THEN /\ linked' = [linked EXCEPT ![KeyOf(c)] = temp[c]]
            /\ Goto(c, "remove")
       ELSE UNCHANGED linked /\ Goto(c, "reverify")
  /\ UNCHANGED <<request, root, named, made, rooted, temp>>

\* Mutant: a lost race is an error.
ReverifyGivesUp(c) ==
  /\ At(c, "reverify")
  /\ Goto(c, "cleanup")
  /\ UNCHANGED <<request, files>>

Reverify(c) ==
  /\ At(c, "reverify")
  /\ VerifyExisting(c, "cleanup_existing", "cleanup_conflict", "cleanup")
  /\ UNCHANGED <<request, files>>

RemoveTemp(c) ==
  /\ At(c, "remove")
  /\ temp' = [temp EXCEPT ![c] = NoFile]
  /\ Goto(c, "sync_dir")
  /\ UNCHANGED <<request, root, linked, named, made, rooted>>

\* Mutant: the published name is not synced.
SyncDirSkipped(c) ==
  /\ At(c, "sync_dir")
  /\ Goto(c, "created")
  /\ UNCHANGED <<request, files>>

SyncDir(c) ==
  /\ At(c, "sync_dir")
  /\ named' = named \cup {k \in Key : Parent[k] = Parent[KeyOf(c)] /\ linked[k] # NoFile}
  /\ Goto(c, "created")
  /\ UNCHANGED <<request, root, linked, made, rooted, temp>>

\* Mutant: a returned error skips the deferred removal.
CleanupForgotten(c) ==
  /\ \/ pc[c] \in {"cleanup", "cleanup_published"} /\ Goto(c, "failed")
     \/ At(c, "cleanup_existing") /\ Goto(c, "existing")
     \/ At(c, "cleanup_conflict") /\ Goto(c, "conflict")
  /\ UNCHANGED <<request, files>>

\* The deferred removal, then the return.
Cleanup(c) ==
  /\ \/ pc[c] \in {"cleanup", "cleanup_published"} /\ Goto(c, "failed")
     \/ At(c, "cleanup_existing") /\ Goto(c, "existing")
     \/ At(c, "cleanup_conflict") /\ Goto(c, "conflict")
  /\ temp' = [temp EXCEPT ![c] = NoFile]
  /\ UNCHANGED <<request, root, linked, named, made, rooted>>

-----------------------------------------------------------------------------
(* Faults.                                                                 *)

\* An operation fails or the context is cancelled.  Once the temporary file
\* exists its removal is deferred; a failing sync of the published name
\* leaves the object in place.
OperationFails(c) ==
  /\ \/ /\ pc[c] \in {"start", "lookup", "mkdir", "sync_chain", "temp", "sync_dir"}
        /\ Goto(c, "failed")
     \/ pc[c] \in {"copy", "sync_temp"} /\ Goto(c, "cleanup")
     \/ At(c, "remove") /\ Goto(c, "cleanup_published")
     \/ At(c, "link") /\ Goto(c, "reverify")
     \/ At(c, "reverify") /\ Goto(c, "cleanup")
  /\ UNCHANGED <<request, files>>

\* The deferred removal fails too, and its error is joined to the result.
CleanupFails(c) ==
  /\ pc[c] \in {"cleanup", "cleanup_existing", "cleanup_conflict", "cleanup_published"}
  /\ Goto(c, "dead")
  /\ UNCHANGED <<request, files>>

Kill(c) ==
  /\ pc[c] \notin Ended
  /\ Goto(c, "dead")
  /\ UNCHANGED <<request, files>>

\* What a power loss leaves of a file.
Remains(f) == IF f = NoFile \/ f.synced THEN f ELSE [f EXCEPT !.bytes = Torn, !.synced = TRUE]

\* Names and directories that were not synced may be gone.
RootRemains ==
  /\ root' = IF root = "made" THEN "survived" ELSE root
  /\ \E kept \in SUBSET Key :
       /\ {k \in named : Parent[k] \in rooted} \subseteq kept
       /\ linked' = [k \in Key |-> IF k \in kept THEN Remains(linked[k]) ELSE NoFile]
       /\ named' = {k \in kept : linked[k] # NoFile}
       /\ made' = rooted \cup {Parent[k] : k \in named'}

\* A root some call made may be gone, with all that was synced below it.
RootLost ==
  /\ root = "made" /\ root' = "absent"
  /\ linked' = [k \in Key |-> NoFile]
  /\ named' = {} /\ made' = {}

\* The files a dead call left over no longer matter.
PowerLoss ==
  /\ RootRemains \/ RootLost
  /\ rooted' = made'
  /\ temp' = [c \in Call |-> NoFile]
  /\ pc' = [c \in Call |-> IF pc[c] \in Ended \cup {"start"} THEN pc[c] ELSE "dead"]
  /\ UNCHANGED request

-----------------------------------------------------------------------------

PutStep(c) ==
  \/ MkdirRoot(c) \/ Lookup(c) \/ MkdirAll(c) \/ SyncChain(c) \/ CreateTemp(c) \/ Copy(c)
  \/ SyncTemp(c) \/ Link(c) \/ Reverify(c) \/ RemoveTemp(c) \/ SyncDir(c) \/ Cleanup(c)

PutFault(c) == c \in Faulty /\ (OperationFails(c) \/ CleanupFails(c) \/ Kill(c))

Next == PowerLoss \/ \E c \in Call : PutStep(c) \/ PutFault(c)

Spec == Init /\ [][Next]_vars

-----------------------------------------------------------------------------
(* Implementation of ObjectStore.                                          *)

Objects == [k \in Key |-> IF linked[k] = NoFile THEN NoObject ELSE linked[k].bytes]

Answer ==
  [c \in Call |->
     CASE pc[c] \in {"created", "existing", "conflict", "failed"} -> pc[c]
       [] pc[c] = "dead" -> "failed"
       [] pc[c] \in {"remove", "cleanup_published", "sync_dir"} -> "stored"
       [] OTHER -> "pending"]

InPlace == root = "in_place"

Store == INSTANCE ObjectStore WITH
  request <- [c \in Call |-> [Key |-> KeyOf(c), SHA256 |-> request[c].SHA256]],
  objects <- Objects, answer <- Answer, firm <- InPlace

(***************************************************************************)
(* The directory behaves as an ObjectStore for concurrent calls that fail, *)
(* are killed or lose power at any file operation: objects appear whole    *)
(* and with the requested content, are not replaced, a lost race is        *)
(* answered by comparison, and a created object survives if the root was   *)
(* in place; below a root the calls made themselves it may be lost.        *)
(***************************************************************************)
ImplementsStore == Store!Spec

(***************************************************************************)
(* A Put that returned and could remove files leaves no temporary file     *)
(* behind (assertNoTemporaryFiles in local_test.go, there without races).  *)
(***************************************************************************)
NoTemporaryFiles ==
  \A c \in Call : pc[c] \in Ended \ {"dead"} => temp[c] = NoFile

(***************************************************************************)
(* Losing a race is not an error: a Put that meets no fault of its own and *)
(* whose source delivers what it promised never fails, whatever the others *)
(* do or suffer; it creates the object or compares with the winner's.      *)
(***************************************************************************)
LoserVerifies ==
  \A c \in Call \ Faulty :
    request[c].source = request[c].SHA256 => pc[c] # "failed"

=============================================================================
