-------------------------- MODULE LocalStoreProofs --------------------------
(***************************************************************************)
(* Proofs about LocalStore, for any number of calls, keys, directories and *)
(* contents, whichever calls may meet faults and however often power is    *)
(* lost, on a root that was in place or one the calls make themselves.     *)
(***************************************************************************)
EXTENDS LocalStore, TLAPS

\* Where a call that did not die has no temporary file.
Resting == Ended \cup {"start", "lookup", "mkdir", "sync_chain", "temp", "sync_dir"}

\* Where a call holds its temporary file.
Holding ==
  {"copy", "sync_temp", "link", "reverify", "remove", "cleanup", "cleanup_existing",
   "cleanup_conflict", "cleanup_published"}

Place == Resting \cup Holding

(***************************************************************************)
(* The inductive invariant.  A call holds a temporary file exactly between *)
(* its creation and its removal, unless it died, and what it links is      *)
(* whole and synced.                                                       *)
(***************************************************************************)
TempOK(c) ==
  /\ pc[c] \in Holding => temp[c] \in File
  /\ pc[c] \in Resting \ {"dead"} => temp[c] = NoFile
  /\ pc[c] \in {"sync_temp", "link", "remove"} => temp[c].bytes = request[c].SHA256
  /\ pc[c] \in {"link", "remove"} => temp[c].synced

\* The directory is durable below the root before a file is put into it, and
\* its entry before the caller hears of it.
DirOK(c) ==
  /\ pc[c] = "sync_chain" => Parent[KeyOf(c)] \in made
  /\ pc[c] \in Holding \cup {"temp", "sync_dir"} => Parent[KeyOf(c)] \in rooted
  /\ InPlace /\ pc[c] = "created" => Parent[KeyOf(c)] \in rooted /\ KeyOf(c) \in named

\* What a call found or put under its key is there while it has not ended,
\* and for good once it answered that it created it, if the root is too.
KeyOK(c) ==
  /\ \/ pc[c] \in {"remove", "cleanup_published", "sync_dir", "cleanup_existing"}
     \/ InPlace /\ pc[c] = "created"
     => linked[KeyOf(c)] # NoFile /\ linked[KeyOf(c)].bytes = request[c].SHA256
  /\ pc[c] = "cleanup_conflict" => linked[KeyOf(c)] # NoFile

\* A call without faults of its own meets an existing object only if there
\* is one, and is on its way to an error only if its source is not what it
\* promised.
FaultlessOK(c) ==
  c \notin Faulty =>
    /\ pc[c] = "reverify" => linked[KeyOf(c)] # NoFile
    /\ request[c].source = request[c].SHA256 =>
         pc[c] \notin {"cleanup", "cleanup_published", "failed"}

CallOK(c) == TempOK(c) /\ DirOK(c) /\ KeyOK(c) /\ FaultlessOK(c)

FilesOK == \A k \in Key : linked[k] # NoFile => linked[k].bytes \in Data /\ linked[k].synced

LocalInv == TypeOK /\ FilesOK /\ \A c \in Call : CallOK(c)

-----------------------------------------------------------------------------

(***************************************************************************)
(* What a step of the call c leaves alone: the other calls, the names that *)
(* are there, and what was synced.                                         *)
(***************************************************************************)
OnlyAdds(c) ==
  /\ request' = request
  /\ \A d \in Call \ {c} : pc'[d] = pc[d] /\ temp'[d] = temp[d]
  /\ \A k \in Key : linked[k] # NoFile => linked'[k] = linked[k]
  /\ named \subseteq named' /\ made \subseteq made' /\ rooted \subseteq rooted'
  /\ root' = root \/ (root = "absent" /\ root' = "made")

(***************************************************************************)
(* A step of one call keeps what the invariant says of the others.         *)
(***************************************************************************)
LEMMA OthersKept ==
  ASSUME LocalInv, NEW c \in Call, OnlyAdds(c), NEW d \in Call \ {c}
  PROVE  CallOK(d)'
<1>1. request' = request /\ pc'[d] = pc[d] /\ temp'[d] = temp[d] /\ KeyOf(d)' = KeyOf(d)
  BY DEF OnlyAdds, KeyOf
<1>2. KeyOf(d) \in Key /\ CallOK(d)
  BY DEF LocalInv, TypeOK, PutRequest, KeyOf
<1>3. TempOK(d)'
  BY <1>1, <1>2 DEF CallOK, TempOK
<1>4. DirOK(d)'
  BY <1>1, <1>2 DEF CallOK, DirOK, OnlyAdds, InPlace
<1>5. linked[KeyOf(d)] # NoFile => linked'[KeyOf(d)] = linked[KeyOf(d)]
  BY <1>2 DEF OnlyAdds
<1>6. KeyOK(d)'
  BY <1>1, <1>2, <1>5 DEF CallOK, KeyOK, OnlyAdds, InPlace
<1>7. FaultlessOK(d)'
  BY <1>1, <1>2, <1>5 DEF CallOK, FaultlessOK
<1> QED BY <1>3, <1>4, <1>6, <1>7 DEF CallOK

(***************************************************************************)
(* What there is to show of a step of the call c.                          *)
(***************************************************************************)
LEMMA StepOfOne ==
  ASSUME LocalInv, NEW c \in Call, OnlyAdds(c), TypeOK', FilesOK', CallOK(c)'
  PROVE  LocalInv'
<1>1. \A d \in Call : CallOK(d)'
  BY OthersKept
<1> QED BY <1>1 DEF LocalInv

(***************************************************************************)
(* A step that only moves the call c to another place.                     *)
(***************************************************************************)
LEMMA MoveStep ==
  ASSUME LocalInv, NEW c \in Call, NEW label \in Place, Goto(c, label),
         UNCHANGED <<request, files>>
  PROVE  OnlyAdds(c) /\ TypeOK' /\ FilesOK' /\ pc'[c] = label /\ KeyOf(c)' = KeyOf(c)
<1> USE DEF Goto, files
<1>1. pc \in [Call -> Place]
  BY DEF LocalInv, TypeOK, Place, Resting, Holding
<1>2. pc' \in [Call -> Place] /\ pc'[c] = label /\ \A d \in Call \ {c} : pc'[d] = pc[d]
  BY <1>1
<1>3. OnlyAdds(c)
  BY <1>2 DEF OnlyAdds
<1>4. TypeOK'
  BY <1>2 DEF LocalInv, TypeOK, Place, Resting, Holding
<1>5. FilesOK'
  BY DEF LocalInv, FilesOK
<1> QED BY <1>2, <1>3, <1>4, <1>5 DEF KeyOf

-----------------------------------------------------------------------------
(* The steps of Put, one lemma each.                                       *)

\* What the invariant says of one call, spelled out.
LEMMA OfCall ==
  ASSUME LocalInv, NEW c \in Call
  PROVE  /\ KeyOf(c) \in Key /\ request[c].SHA256 \in Data /\ request[c].source \in Data
         /\ Parent[KeyOf(c)] \in Dir /\ pc[c] \in Place
         /\ linked[KeyOf(c)] \in File \cup {NoFile} /\ temp[c] \in File \cup {NoFile}
         /\ TempOK(c) /\ DirOK(c) /\ KeyOK(c) /\ FaultlessOK(c)
<1>1. KeyOf(c) \in Key /\ request[c].SHA256 \in Data /\ request[c].source \in Data
  BY DEF LocalInv, TypeOK, PutRequest, KeyOf
<1> QED BY <1>1 DEF LocalInv, TypeOK, CallOK, Dir, Place, Resting, Holding

(***************************************************************************)
(* The root exists from here on; a root that was there is left alone.      *)
(***************************************************************************)
LEMMA MkdirRootStep == ASSUME LocalInv, NEW c \in Call, MkdirRoot(c) PROVE LocalInv'
<1> USE DEF MkdirRoot, Goto, At
<1>1. pc' \in [Call -> Place] /\ pc'[c] = "lookup" /\ KeyOf(c)' = KeyOf(c)
  BY DEF LocalInv, TypeOK, Place, Resting, Holding, KeyOf
<1>2. OnlyAdds(c)
  BY DEF OnlyAdds, LocalInv, TypeOK
<1>3. TypeOK'
  BY <1>1 DEF LocalInv, TypeOK, Place, Resting, Holding
<1>4. FilesOK'
  BY DEF LocalInv, FilesOK
<1>5. CallOK(c)'
  BY <1>1, OfCall DEF CallOK, TempOK, DirOK, KeyOK, FaultlessOK, Resting, Holding, Ended
<1> QED BY <1>2, <1>3, <1>4, <1>5, StepOfOne

(***************************************************************************)
(* The first comparison with an existing object.                           *)
(***************************************************************************)
LEMMA LookupStep == ASSUME LocalInv, NEW c \in Call, Lookup(c) PROVE LocalInv'
<1>1. PICK label \in {"existing", "conflict", "mkdir"} : Goto(c, label)
  BY DEF Lookup, VerifyExisting
<1>2. label \in Place /\ UNCHANGED <<request, files>> /\ pc[c] = "lookup"
  BY DEF Place, Resting, Ended, Lookup, At
<1>3. OnlyAdds(c) /\ TypeOK' /\ FilesOK' /\ pc'[c] = label
  BY <1>1, <1>2, MoveStep
<1>4. CallOK(c)'
  BY <1>2, <1>3, OfCall
     DEF CallOK, TempOK, DirOK, KeyOK, FaultlessOK, Resting, Holding, Ended, KeyOf, files
<1> QED BY <1>3, <1>4, StepOfOne

(***************************************************************************)
(* The directory exists from here on.                                      *)
(***************************************************************************)
LEMMA MkdirStep == ASSUME LocalInv, NEW c \in Call, MkdirAll(c) PROVE LocalInv'
<1> USE DEF MkdirAll, Goto, At
<1>1. pc' \in [Call -> Place] /\ pc'[c] = "sync_chain" /\ KeyOf(c)' = KeyOf(c)
  BY DEF LocalInv, TypeOK, Place, Resting, Holding, KeyOf
<1>2. OnlyAdds(c)
  BY DEF OnlyAdds, LocalInv, TypeOK
<1>3. TypeOK'
  BY <1>1, OfCall DEF LocalInv, TypeOK, Place, Resting, Holding
<1>4. FilesOK'
  BY DEF LocalInv, FilesOK
<1>5. CallOK(c)'
  BY <1>1, OfCall DEF CallOK, TempOK, DirOK, KeyOK, FaultlessOK, Resting, Holding, Ended
<1> QED BY <1>2, <1>3, <1>4, <1>5, StepOfOne

(***************************************************************************)
(* The directory is durable from here on.                                  *)
(***************************************************************************)
LEMMA SyncChainStep == ASSUME LocalInv, NEW c \in Call, SyncChain(c) PROVE LocalInv'
<1> USE DEF SyncChain, Goto, At
<1>1. pc' \in [Call -> Place] /\ pc'[c] = "temp" /\ KeyOf(c)' = KeyOf(c)
  BY DEF LocalInv, TypeOK, Place, Resting, Holding, KeyOf
<1>2. OnlyAdds(c)
  BY DEF OnlyAdds, LocalInv, TypeOK
<1>3. TypeOK'
  BY <1>1, OfCall DEF LocalInv, TypeOK, Place, Resting, Holding, DirOK
<1>4. FilesOK'
  BY DEF LocalInv, FilesOK
<1>5. CallOK(c)'
  BY <1>1, OfCall DEF CallOK, TempOK, DirOK, KeyOK, FaultlessOK, Resting, Holding, Ended
<1> QED BY <1>2, <1>3, <1>4, <1>5, StepOfOne

(***************************************************************************)
(* The temporary file of a call changes with its place, nothing else: the  *)
(* creation, the copy, the sync and both removals.                         *)
(***************************************************************************)
LEMMA TempStep ==
  ASSUME LocalInv, NEW c \in Call, NEW label \in Place, Goto(c, label),
         NEW f \in File \cup {NoFile}, temp' = [temp EXCEPT ![c] = f],
         UNCHANGED <<request, root, linked, named, made, rooted>>
  PROVE  /\ OnlyAdds(c) /\ TypeOK' /\ FilesOK' /\ pc'[c] = label /\ temp'[c] = f
         /\ KeyOf(c)' = KeyOf(c)
<1> USE DEF Goto
<1>1. pc' \in [Call -> Place] /\ pc'[c] = label /\ temp'[c] = f
  BY DEF LocalInv, TypeOK, Place, Resting, Holding
<1>2. OnlyAdds(c)
  BY DEF OnlyAdds, LocalInv, TypeOK
<1>3. TypeOK'
  BY <1>1 DEF LocalInv, TypeOK, Place, Resting, Holding
<1>4. FilesOK'
  BY DEF LocalInv, FilesOK
<1> QED BY <1>1, <1>2, <1>3, <1>4 DEF KeyOf

(***************************************************************************)
(* A new temporary file.                                                   *)
(***************************************************************************)
LEMMA CreateTempStep == ASSUME LocalInv, NEW c \in Call, CreateTemp(c) PROVE LocalInv'
<1> DEFINE f == [bytes |-> Torn, synced |-> FALSE]
<1>1. f \in File /\ "copy" \in Place
  BY DEF File, Place, Holding
<1>2. /\ OnlyAdds(c) /\ TypeOK' /\ FilesOK' /\ pc'[c] = "copy" /\ temp'[c] = f
      /\ KeyOf(c)' = KeyOf(c)
  <2> HIDE DEF f
  <2> QED BY <1>1, TempStep DEF CreateTemp, f
<1>3. CallOK(c)'
  BY <1>1, <1>2, OfCall
     DEF CreateTemp, At, CallOK, TempOK, DirOK, KeyOK, FaultlessOK, Resting, Holding, Ended
<1> QED BY <1>2, <1>3, StepOfOne

(***************************************************************************)
(* The bytes are the ones the request promised, or the call gives up.      *)
(***************************************************************************)
LEMMA CopyStep == ASSUME LocalInv, NEW c \in Call, Copy(c) PROVE LocalInv'
<1> DEFINE f == [temp[c] EXCEPT !.bytes = request[c].source]
           label == IF request[c].source = request[c].SHA256 THEN "sync_temp" ELSE "cleanup"
<1>1. pc[c] = "copy" /\ temp[c] \in File /\ UNCHANGED request
  BY OfCall DEF Copy, At, TempOK, Holding
<1>2. f \in File /\ f.bytes = request[c].source /\ label \in Place
  BY <1>1, OfCall DEF File, Place, Holding
<1>3. temp' = [temp EXCEPT ![c] = f] /\ Goto(c, label)
  BY DEF Copy
<1>4. /\ OnlyAdds(c) /\ TypeOK' /\ FilesOK' /\ pc'[c] = label /\ temp'[c] = f
      /\ KeyOf(c)' = KeyOf(c)
  <2> HIDE DEF f, label
  <2> QED BY <1>2, <1>3, TempStep DEF Copy
<1>5. CallOK(c)'
  <2> HIDE DEF f
  <2> QED BY <1>1, <1>2, <1>4, OfCall
          DEF Copy, CallOK, TempOK, DirOK, KeyOK, FaultlessOK, Resting, Holding, Ended
<1> QED BY <1>4, <1>5, StepOfOne

(***************************************************************************)
(* The bytes are durable before the file gets its name.                    *)
(***************************************************************************)
LEMMA SyncTempStep == ASSUME LocalInv, NEW c \in Call, SyncTemp(c) PROVE LocalInv'
<1> DEFINE f == [temp[c] EXCEPT !.synced = TRUE]
<1>1. /\ pc[c] = "sync_temp" /\ temp[c] \in File /\ temp[c].bytes = request[c].SHA256
      /\ UNCHANGED request
  BY OfCall DEF SyncTemp, At, TempOK, Holding
<1>2. f \in File /\ f.bytes = request[c].SHA256 /\ f.synced /\ "link" \in Place
  BY <1>1 DEF File, Place, Holding
<1>3. temp' = [temp EXCEPT ![c] = f] /\ Goto(c, "link")
  BY DEF SyncTemp
<1>4. /\ OnlyAdds(c) /\ TypeOK' /\ FilesOK' /\ pc'[c] = "link" /\ temp'[c] = f
      /\ KeyOf(c)' = KeyOf(c)
  <2> HIDE DEF f
  <2> QED BY <1>2, <1>3, TempStep DEF SyncTemp
<1>5. CallOK(c)'
  <2> HIDE DEF f
  <2> QED BY <1>1, <1>2, <1>4, OfCall
          DEF SyncTemp, CallOK, TempOK, DirOK, KeyOK, FaultlessOK, Resting, Holding, Ended
<1> QED BY <1>4, <1>5, StepOfOne

(***************************************************************************)
(* What a call links is whole, synced and under a name nobody had; a name  *)
(* that was taken sends it to the comparison.                              *)
(***************************************************************************)
LEMMA LinkStep == ASSUME LocalInv, NEW c \in Call, Link(c) PROVE LocalInv'
<1> DEFINE k == KeyOf(c)
<1>1. /\ pc[c] = "link" /\ k \in Key /\ KeyOf(c)' = k /\ request[c].SHA256 \in Data
      /\ temp[c] \in File /\ temp[c].bytes = request[c].SHA256 /\ temp[c].synced
  BY OfCall DEF Link, At, TempOK, Holding, KeyOf
<1>2. CASE linked[k] # NoFile
  <2>1. UNCHANGED <<request, files>> /\ Goto(c, "reverify") /\ "reverify" \in Place
    BY <1>2 DEF Link, files, Place, Holding
  <2>2. OnlyAdds(c) /\ TypeOK' /\ FilesOK' /\ pc'[c] = "reverify"
    BY <2>1, MoveStep
  <2>3. CallOK(c)'
    BY <1>1, <1>2, <2>1, <2>2, OfCall
       DEF files, CallOK, TempOK, DirOK, KeyOK, FaultlessOK, Resting, Holding, Ended
  <2> QED BY <2>2, <2>3, StepOfOne
<1>3. CASE linked[k] = NoFile
  <2>1. /\ linked' = [linked EXCEPT ![k] = temp[c]] /\ pc' = [pc EXCEPT ![c] = "remove"]
        /\ UNCHANGED <<request, root, named, made, rooted, temp>>
    BY <1>3 DEF Link, Goto
  <2>2. pc' \in [Call -> Place] /\ pc'[c] = "remove" /\ linked'[k] = temp[c]
    BY <1>1, <2>1 DEF LocalInv, TypeOK, Place, Resting, Holding
  <2>3. OnlyAdds(c)
    BY <1>1, <1>3, <2>1 DEF OnlyAdds, LocalInv, TypeOK
  <2>4. TypeOK'
    BY <1>1, <2>1, <2>2 DEF LocalInv, TypeOK, Place, Resting, Holding
  <2>5. FilesOK'
    BY <1>1, <2>1 DEF LocalInv, TypeOK, FilesOK
  <2>6. temp[c] # NoFile
    BY <1>1, LocalAssumption
  <2>7. CallOK(c)'
    BY <1>1, <2>1, <2>2, <2>6, OfCall
       DEF CallOK, TempOK, DirOK, KeyOK, FaultlessOK, Resting, Holding, Ended
  <2> QED BY <2>3, <2>4, <2>5, <2>7, StepOfOne
<1> QED BY <1>2, <1>3

(***************************************************************************)
(* The comparison after a lost race finds an object, unless the link had   *)
(* failed for another reason.                                              *)
(***************************************************************************)
LEMMA ReverifyStep == ASSUME LocalInv, NEW c \in Call, Reverify(c) PROVE LocalInv'
<1> DEFINE f == linked[KeyOf(c)]
<1>1. pc[c] = "reverify" /\ UNCHANGED <<request, files>>
  BY DEF Reverify, At
<1>2. PICK label \in {"cleanup_existing", "cleanup_conflict", "cleanup"} :
        /\ Goto(c, label)
        /\ label = "cleanup_existing" => f # NoFile /\ f.bytes = request[c].SHA256
        /\ label = "cleanup_conflict" => f # NoFile
        /\ label = "cleanup" => f = NoFile
  BY DEF Reverify, VerifyExisting
<1>3. label \in Place
  BY DEF Place, Holding
<1>4. OnlyAdds(c) /\ TypeOK' /\ FilesOK' /\ pc'[c] = label /\ KeyOf(c)' = KeyOf(c)
  BY <1>1, <1>2, <1>3, MoveStep
<1>5. CallOK(c)'
  BY <1>1, <1>2, <1>4, OfCall
     DEF files, CallOK, TempOK, DirOK, KeyOK, FaultlessOK, Resting, Holding, Ended
<1> QED BY <1>4, <1>5, StepOfOne

(***************************************************************************)
(* The temporary name goes, the object stays.                              *)
(***************************************************************************)
LEMMA RemoveTempStep == ASSUME LocalInv, NEW c \in Call, RemoveTemp(c) PROVE LocalInv'
<1>1. /\ OnlyAdds(c) /\ TypeOK' /\ FilesOK' /\ pc'[c] = "sync_dir" /\ temp'[c] = NoFile
      /\ KeyOf(c)' = KeyOf(c)
  <2>1. "sync_dir" \in Place
    BY DEF Place, Resting
  <2> QED BY <2>1, TempStep DEF RemoveTemp
<1>2. CallOK(c)'
  BY <1>1, OfCall DEF RemoveTemp, At, CallOK, TempOK, DirOK, KeyOK, FaultlessOK, Resting,
                      Holding, Ended
<1> QED BY <1>1, <1>2, StepOfOne

(***************************************************************************)
(* The object's name is durable before the caller hears that it created    *)
(* it.                                                                     *)
(***************************************************************************)
LEMMA SyncDirStep == ASSUME LocalInv, NEW c \in Call, SyncDir(c) PROVE LocalInv'
<1> USE DEF SyncDir, Goto, At
<1>1. pc' \in [Call -> Place] /\ pc'[c] = "created" /\ KeyOf(c)' = KeyOf(c)
  BY DEF LocalInv, TypeOK, Place, Resting, Holding, KeyOf, Ended
<1>2. OnlyAdds(c)
  BY DEF OnlyAdds, LocalInv, TypeOK
<1>3. TypeOK'
  BY <1>1 DEF LocalInv, TypeOK, Place, Resting, Holding
<1>4. FilesOK'
  BY DEF LocalInv, FilesOK
<1>5. KeyOf(c) \in named'
  BY OfCall DEF KeyOK
<1>6. CallOK(c)'
  BY <1>1, <1>5, OfCall DEF CallOK, TempOK, DirOK, KeyOK, FaultlessOK, Resting, Holding, Ended
<1> QED BY <1>2, <1>3, <1>4, <1>6, StepOfOne

(***************************************************************************)
(* The deferred removal.                                                   *)
(***************************************************************************)
LEMMA CleanupStep == ASSUME LocalInv, NEW c \in Call, Cleanup(c) PROVE LocalInv'
<1>1. PICK label \in {"failed", "existing", "conflict"} :
        /\ Goto(c, label)
        /\ label = "failed" => pc[c] \in {"cleanup", "cleanup_published"}
  BY DEF Cleanup
<1>2. label \in Place /\ UNCHANGED request
  BY DEF Place, Resting, Ended, Cleanup
<1>3. /\ OnlyAdds(c) /\ TypeOK' /\ FilesOK' /\ pc'[c] = label /\ temp'[c] = NoFile
      /\ KeyOf(c)' = KeyOf(c)
  BY <1>1, <1>2, TempStep DEF Cleanup
<1>4. CallOK(c)'
  BY <1>1, <1>2, <1>3, OfCall
     DEF CallOK, TempOK, DirOK, KeyOK, FaultlessOK, Resting, Holding, Ended
<1> QED BY <1>3, <1>4, StepOfOne

(***************************************************************************)
(* A failing operation removes the temporary file first if there is one.   *)
(***************************************************************************)
LEMMA OperationFailsStep ==
  ASSUME LocalInv, NEW c \in Call, c \in Faulty, OperationFails(c) PROVE LocalInv'
<1>1. PICK label \in {"failed", "cleanup", "cleanup_published", "reverify"} :
        /\ Goto(c, label)
        /\ label = "failed" =>
             pc[c] \in {"start", "lookup", "mkdir", "sync_chain", "temp", "sync_dir"}
        /\ label = "cleanup" => pc[c] \in {"copy", "sync_temp", "reverify"}
        /\ label = "cleanup_published" => pc[c] = "remove"
        /\ label = "reverify" => pc[c] = "link"
  BY DEF OperationFails, At
<1>2. label \in Place /\ UNCHANGED <<request, files>>
  BY DEF Place, Resting, Holding, Ended, OperationFails
<1>3. OnlyAdds(c) /\ TypeOK' /\ FilesOK' /\ pc'[c] = label /\ KeyOf(c)' = KeyOf(c)
  BY <1>1, <1>2, MoveStep
<1>4. CallOK(c)'
  BY <1>1, <1>2, <1>3, OfCall
     DEF files, CallOK, TempOK, DirOK, KeyOK, FaultlessOK, Resting, Holding, Ended
<1> QED BY <1>3, <1>4, StepOfOne

(***************************************************************************)
(* A call that dies may leave its temporary file.                          *)
(***************************************************************************)
LEMMA DyingStep ==
  ASSUME LocalInv, NEW c \in Call, CleanupFails(c) \/ Kill(c) PROVE LocalInv'
<1>1. Goto(c, "dead") /\ "dead" \in Place /\ UNCHANGED <<request, files>>
  BY DEF CleanupFails, Kill, Place, Resting, Ended
<1>2. OnlyAdds(c) /\ TypeOK' /\ FilesOK' /\ pc'[c] = "dead" /\ KeyOf(c)' = KeyOf(c)
  BY <1>1, MoveStep
<1>3. CallOK(c)'
  BY <1>2 DEF CallOK, TempOK, DirOK, KeyOK, FaultlessOK, Resting, Holding, Ended
<1> QED BY <1>2, <1>3, StepOfOne

(***************************************************************************)
(* A power loss takes no bytes of a linked file, as they were synced.  If  *)
(* the root was in place it takes no object somebody was told he created,  *)
(* as its name and its directory were synced too.                          *)
(***************************************************************************)
LEMMA PowerLossKeeps ==
  ASSUME LocalInv, PowerLoss
  PROVE  \E kept \in SUBSET Key :
           /\ linked' = [k \in Key |-> IF k \in kept THEN linked[k] ELSE NoFile]
           /\ named' = {k \in kept : linked[k] # NoFile}
           /\ InPlace => {k \in named : Parent[k] \in rooted} \subseteq kept
           /\ InPlace => rooted \subseteq made'
           /\ made' \subseteq rooted \cup {Parent[k] : k \in named'}
<1>1. \A k \in Key : Remains(linked[k]) = linked[k]
  BY DEF LocalInv, FilesOK, Remains
<1>2. CASE RootRemains
  BY <1>1, <1>2 DEF RootRemains
<1>3. CASE RootLost
  <2>1. ~ InPlace
    BY <1>3 DEF RootLost, InPlace
  <2>2. /\ linked' = [k \in Key |-> IF k \in {} THEN linked[k] ELSE NoFile]
        /\ named' = {k \in {} : linked[k] # NoFile} /\ made' = {}
    BY <1>3 DEF RootLost
  <2> WITNESS {} \in SUBSET Key
  <2> QED BY <2>1, <2>2
<1> QED BY <1>2, <1>3 DEF PowerLoss

\* The calls on the machine die with it, but for those that had not begun.
LEMMA PowerLossStep == ASSUME LocalInv, PowerLoss PROVE LocalInv'
<1>1. PICK kept \in SUBSET Key :
           /\ linked' = [k \in Key |-> IF k \in kept THEN linked[k] ELSE NoFile]
           /\ named' = {k \in kept : linked[k] # NoFile}
           /\ InPlace => {k \in named : Parent[k] \in rooted} \subseteq kept
           /\ InPlace => rooted \subseteq made'
           /\ made' \subseteq rooted \cup {Parent[k] : k \in named'}
  BY PowerLossKeeps
<1>2. /\ rooted' = made' /\ temp' = [c \in Call |-> NoFile] /\ UNCHANGED request
      /\ pc' = [c \in Call |-> IF pc[c] \in Ended \cup {"start"} THEN pc[c] ELSE "dead"]
  BY DEF PowerLoss
<1>3. named' \subseteq Key /\ made' \subseteq Dir
  BY <1>1 DEF LocalInv, TypeOK, Dir
<1>4. TypeOK'
  <2>1. pc' \in [Call -> Place]
    BY <1>2 DEF LocalInv, TypeOK, Place, Resting, Holding, Ended
  <2>2. root' \in {"in_place", "absent", "made", "survived"}
    BY DEF LocalInv, TypeOK, PowerLoss, RootRemains, RootLost
  <2> QED BY <1>1, <1>2, <1>3, <2>1, <2>2 DEF LocalInv, TypeOK, Place, Resting, Holding
<1>5. FilesOK'
  BY <1>1 DEF LocalInv, FilesOK
<1>6. ASSUME NEW c \in Call PROVE CallOK(c)'
  <2>1. /\ KeyOf(c)' = KeyOf(c) /\ temp'[c] = NoFile /\ pc'[c] \in Ended \cup {"start"}
        /\ pc'[c] # "dead" => pc'[c] = pc[c]
    BY <1>2 DEF KeyOf, Ended
  <2> InPlace' => InPlace
    BY DEF PowerLoss, RootRemains, RootLost, InPlace
  <2>2. CASE InPlace' /\ pc'[c] = "created"
    <3>1. /\ KeyOf(c) \in named /\ Parent[KeyOf(c)] \in rooted
          /\ linked[KeyOf(c)] # NoFile /\ linked[KeyOf(c)].bytes = request[c].SHA256
      BY <2>1, <2>2, OfCall DEF DirOK, KeyOK
    <3>2. KeyOf(c) \in kept /\ linked'[KeyOf(c)] = linked[KeyOf(c)] /\ KeyOf(c) \in named'
      BY <1>1, <2>2, <3>1, OfCall
    <3>3. Parent[KeyOf(c)] \in rooted'
      BY <1>1, <1>2, <2>2, <3>1
    <3> QED BY <1>2, <2>1, <2>2, <3>1, <3>2, <3>3
            DEF CallOK, TempOK, DirOK, KeyOK, FaultlessOK, Resting, Holding, Ended
  <2>3. CASE ~ (InPlace' /\ pc'[c] = "created")
    BY <1>2, <2>1, <2>3, OfCall
       DEF CallOK, TempOK, DirOK, KeyOK, FaultlessOK, Resting, Holding, Ended
  <2> QED BY <2>2, <2>3
<1> QED BY <1>4, <1>5, <1>6 DEF LocalInv

-----------------------------------------------------------------------------

(***************************************************************************)
(* The invariant holds in every reachable state: what each call has done   *)
(* by its place in Put and, below a root in place, what is durable then.   *)
(***************************************************************************)
THEOREM LocalInvariant == Spec => []LocalInv
<1>1. Init => LocalInv
  <2> SUFFICES ASSUME Init PROVE LocalInv
    OBVIOUS
  <2>1. TypeOK
    BY DEF Init, TypeOK, File, Dir, Ended
  <2>2. FilesOK
    BY DEF Init, FilesOK
  <2>3. ASSUME NEW c \in Call PROVE CallOK(c)
    BY <2>3 DEF Init, CallOK, TempOK, DirOK, KeyOK, FaultlessOK, Resting, Holding, Ended
  <2> QED BY <2>1, <2>2, <2>3 DEF LocalInv
<1>2. LocalInv /\ [Next]_vars => LocalInv'
  <2> SUFFICES ASSUME LocalInv, [Next]_vars PROVE LocalInv'
    OBVIOUS
  <2>1. CASE PowerLoss
    BY <2>1, PowerLossStep
  <2>2. ASSUME NEW c \in Call, PutStep(c) PROVE LocalInv'
    BY <2>2, MkdirRootStep, LookupStep, MkdirStep, SyncChainStep, CreateTempStep, CopyStep, SyncTempStep,
       LinkStep, ReverifyStep, RemoveTempStep, SyncDirStep, CleanupStep DEF PutStep
  <2>3. ASSUME NEW c \in Call, PutFault(c) PROVE LocalInv'
    BY <2>3, OperationFailsStep, DyingStep DEF PutFault
  <2>4. CASE UNCHANGED vars
    BY <2>4 DEF vars, LocalInv, TypeOK, FilesOK, CallOK, TempOK, DirOK, KeyOK, FaultlessOK,
                KeyOf, InPlace
  <2> QED BY <2>1, <2>2, <2>3, <2>4 DEF Next
<1> QED BY <1>1, <1>2, PTL DEF Spec

(***************************************************************************)
(* A Put that returned and could remove files leaves no temporary file.    *)
(***************************************************************************)
THEOREM NoTemporaryFileStays == Spec => []NoTemporaryFiles
<1>1. LocalInv => NoTemporaryFiles
  BY DEF LocalInv, CallOK, TempOK, NoTemporaryFiles, Resting
<1> QED BY <1>1, LocalInvariant, PTL

(***************************************************************************)
(* A Put without faults of its own and with the bytes it promised never    *)
(* fails, whatever the others do or suffer.                                *)
(***************************************************************************)
THEOREM LosingIsNoError == Spec => []LoserVerifies
<1>1. LocalInv => LoserVerifies
  BY DEF LocalInv, CallOK, FaultlessOK, LoserVerifies
<1> QED BY <1>1, LocalInvariant, PTL

-----------------------------------------------------------------------------
(* The refinement of ObjectStore.                                          *)

StoreRequest == [c \in Call |-> [Key |-> KeyOf(c), SHA256 |-> request[c].SHA256]]

\* What the caller of Put can tell of a place.
AnswerAt(place) ==
  CASE place \in {"created", "existing", "conflict", "failed"} -> place
    [] place = "dead" -> "failed"
    [] place \in {"remove", "cleanup_published", "sync_dir"} -> "stored"
    [] OTHER -> "pending"

(***************************************************************************)
(* The mapped variables, key by key and call by call.                      *)
(***************************************************************************)
LEMMA Mapped ==
  ASSUME LocalInv, NEW c \in Call
  PROVE  /\ StoreRequest[c].Key = KeyOf(c) /\ StoreRequest[c].SHA256 = request[c].SHA256
         /\ Answer[c] = AnswerAt(pc[c])
         /\ Objects[KeyOf(c)] = IF linked[KeyOf(c)] = NoFile THEN NoObject
                                ELSE linked[KeyOf(c)].bytes
         /\ Objects[KeyOf(c)] = NoObject <=> linked[KeyOf(c)] = NoFile
<1>1. Answer[c] = AnswerAt(pc[c])
  BY DEF Answer, AnswerAt
<1>2. Objects[KeyOf(c)] = IF linked[KeyOf(c)] = NoFile THEN NoObject ELSE linked[KeyOf(c)].bytes
  BY OfCall DEF Objects
<1>3. Objects[KeyOf(c)] = NoObject <=> linked[KeyOf(c)] = NoFile
  BY <1>2, OfCall, ObjectAssumption DEF LocalInv, FilesOK
<1> QED BY <1>1, <1>2, <1>3 DEF StoreRequest

(***************************************************************************)
(* No step brings a root into place, or takes one that was.                *)
(***************************************************************************)
LEMMA InPlaceStays ==
  /\ PowerLoss => InPlace' = InPlace
  /\ \A c \in Call : PutStep(c) \/ PutFault(c) => InPlace' = InPlace
<1> USE DEF InPlace
<1>1. PowerLoss => InPlace' = InPlace
  BY DEF PowerLoss, RootRemains, RootLost
<1>2. ASSUME NEW c \in Call, PutStep(c) PROVE InPlace' = InPlace
  <2>1. root' = root \/ MkdirRoot(c)
    BY <1>2 DEF PutStep, Lookup, MkdirAll, SyncChain, CreateTemp, Copy, SyncTemp, Link, Reverify,
                RemoveTemp, SyncDir, Cleanup, files
  <2> QED BY <2>1 DEF MkdirRoot
<1>3. ASSUME NEW c \in Call, PutFault(c) PROVE InPlace' = InPlace
  BY <1>3 DEF PutFault, OperationFails, CleanupFails, Kill, files
<1> QED BY <1>1, <1>2, <1>3

(***************************************************************************)
(* A step of the call c between places of the same answer changes nothing  *)
(* the store's callers can tell.                                           *)
(***************************************************************************)
LEMMA Unseen ==
  ASSUME NEW c \in Call, NEW label, Goto(c, label), AnswerAt(label) = AnswerAt(pc[c]),
         UNCHANGED <<request, linked, InPlace>>
  PROVE  UNCHANGED <<StoreRequest, Objects, Answer, InPlace>>
<1>1. \A d \in Call : AnswerAt(pc'[d]) = AnswerAt(pc[d])
  BY DEF Goto
<1>2. Answer' = Answer
  BY <1>1 DEF Answer, AnswerAt
<1> QED BY <1>2 DEF StoreRequest, KeyOf, Objects

(***************************************************************************)
(* A step that moves the call c to a place with an answer returns it.      *)
(***************************************************************************)
LEMMA Returned ==
  ASSUME LocalInv, NEW c \in Call, NEW label \in Ended, Goto(c, label),
         UNCHANGED <<request, linked, InPlace>>, AnswerAt(pc[c]) \in {"pending", "stored"},
         label = "created" => AnswerAt(pc[c]) = "stored",
         label = "existing" => linked[KeyOf(c)] # NoFile
                                 /\ linked[KeyOf(c)].bytes = request[c].SHA256,
         label = "conflict" => linked[KeyOf(c)] # NoFile
  PROVE  Store!Return(c)
<1> DEFINE a == AnswerAt(label)
<1>1. a \in {"created", "existing", "conflict", "failed"}
  BY DEF Ended, AnswerAt
<1>2. /\ a = "created" => Answer[c] = "stored"
      /\ a = "existing" => Objects[StoreRequest[c].Key] = StoreRequest[c].SHA256
      /\ a = "conflict" => Objects[StoreRequest[c].Key] # NoObject
  BY Mapped DEF Ended, AnswerAt
<1>3. Answer' = [Answer EXCEPT ![c] = a]
  <2>1. \A d \in Call : Answer[d] = AnswerAt(pc[d]) /\ Answer'[d] = AnswerAt(pc'[d])
    BY DEF Answer, AnswerAt
  <2>2. \A d \in Call : pc'[d] = IF d = c THEN label ELSE pc[d]
    BY DEF LocalInv, TypeOK, Goto
  <2>3. /\ Answer = [d \in Call |-> Answer[d]]
        /\ Answer' = [d \in Call |-> Answer'[d]]
    BY DEF Answer
  <2> HIDE DEF a
  <2> QED BY <2>1, <2>2, <2>3 DEF a
<1>4. UNCHANGED <<StoreRequest, Objects>>
  BY DEF StoreRequest, KeyOf, Objects
<1>5. Answer[c] \in {"pending", "stored"}
  BY Mapped
<1> HIDE DEF a
<1> QED BY <1>1, <1>2, <1>3, <1>4, <1>5
        DEF Store!Return, Store!Found, Store!Asked, StoreRequest

(***************************************************************************)
(* The link is the store's write: the object appears whole, under a key    *)
(* that had none.                                                          *)
(***************************************************************************)
LEMMA LinkWrites ==
  ASSUME LocalInv, NEW c \in Call, Link(c), linked[KeyOf(c)] = NoFile, UNCHANGED InPlace
  PROVE  Store!Write(c)
<1> DEFINE k == KeyOf(c)
<1>1. /\ pc[c] = "link" /\ k \in Key /\ temp[c] # NoFile
      /\ temp[c].bytes = request[c].SHA256
      /\ linked' = [linked EXCEPT ![k] = temp[c]] /\ pc' = [pc EXCEPT ![c] = "remove"]
      /\ UNCHANGED request
  BY OfCall, LocalAssumption DEF Link, Goto, At, TempOK, Holding
<1>2. Objects[k] = NoObject /\ Answer[c] = "pending"
  BY <1>1, Mapped DEF AnswerAt
<1>3. Objects' = [Objects EXCEPT ![k] = request[c].SHA256]
  BY <1>1 DEF LocalInv, TypeOK, Objects
<1>4. Answer' = [Answer EXCEPT ![c] = "stored"]
  <2>1. \A d \in Call : Answer[d] = AnswerAt(pc[d]) /\ Answer'[d] = AnswerAt(pc'[d])
    BY DEF Answer, AnswerAt
  <2>2. \A d \in Call : pc'[d] = IF d = c THEN "remove" ELSE pc[d]
    BY <1>1 DEF LocalInv, TypeOK
  <2>3. /\ Answer = [d \in Call |-> Answer[d]]
        /\ Answer' = [d \in Call |-> Answer'[d]]
    BY DEF Answer
  <2>4. AnswerAt("remove") = "stored"
    BY DEF AnswerAt
  <2> QED BY <2>1, <2>2, <2>3, <2>4
<1>5. StoreRequest' = StoreRequest /\ StoreRequest[c].Key = k
      /\ StoreRequest[c].SHA256 = request[c].SHA256
  BY <1>1 DEF StoreRequest, KeyOf
<1> QED BY <1>2, <1>3, <1>4, <1>5 DEF Store!Write, Store!Found, Store!Asked, StoreRequest

(***************************************************************************)
(* A power loss of the directory is one of the store: it takes no object   *)
(* somebody was told he created, if the root was in place.                 *)
(***************************************************************************)
LEMMA PowerLossMapped == ASSUME LocalInv, PowerLoss PROVE Store!PowerLoss
<1>1. PICK kept \in SUBSET Key :
           /\ linked' = [k \in Key |-> IF k \in kept THEN linked[k] ELSE NoFile]
           /\ InPlace => {k \in named : Parent[k] \in rooted} \subseteq kept
  BY PowerLossKeeps
<1> DEFINE lost == Key \ kept
           down == {c \in Call : Answer[c] = "pending" /\ pc[c] # "start"}
<1>2. \A k \in lost : ~ Store!Kept(k)
  <2> SUFFICES ASSUME NEW k \in lost, NEW c \in Call, StoreRequest[c].Key = k,
                      Answer[c] = "created", InPlace
               PROVE  FALSE
    BY DEF Store!Kept, StoreRequest
  <2>1. pc[c] = "created" /\ KeyOf(c) = k
    BY Mapped DEF AnswerAt
  <2> QED BY <1>1, <2>1, OfCall DEF DirOK
<1>3. Objects' = [k \in Key |-> IF k \in lost THEN NoObject ELSE Objects[k]]
  BY <1>1 DEF Objects
<1>4. Answer' = [c \in Call |-> IF c \in down \/ Answer[c] = "stored" THEN "failed"
                                ELSE Answer[c]]
  <2>1. \A c \in Call : Answer[c] = AnswerAt(pc[c]) /\ Answer'[c] = AnswerAt(pc'[c])
    BY DEF Answer, AnswerAt
  <2>2. \A c \in Call : pc'[c] = IF pc[c] \in Ended \cup {"start"} THEN pc[c] ELSE "dead"
    BY DEF PowerLoss
  <2>3. ASSUME NEW c \in Call
        PROVE  Answer'[c] = IF c \in down \/ Answer[c] = "stored" THEN "failed" ELSE Answer[c]
    <3>1. pc[c] \in Place
      BY OfCall
    <3> QED BY <2>1, <2>2, <3>1 DEF AnswerAt, Ended, Place, Resting, Holding
  <2>4. Answer' = [c \in Call |-> Answer'[c]]
    BY DEF Answer
  <2> HIDE DEF down
  <2> QED BY <2>3, <2>4
<1>5. UNCHANGED <<StoreRequest, InPlace>>
  BY InPlaceStays DEF PowerLoss, StoreRequest, KeyOf
<1>6. lost \in SUBSET {k \in Key : ~ Store!Kept(k)}
  BY <1>2
<1>7. down \in SUBSET {c \in Call : Answer[c] = "pending"}
  OBVIOUS
<1> HIDE DEF lost, down
<1> QED BY <1>3, <1>4, <1>5, <1>6, <1>7 DEF Store!PowerLoss, StoreRequest

(***************************************************************************)
(* Every step of Put is a write, an answer, or nothing to the store.       *)
(***************************************************************************)
LEMMA PutStepMapped ==
  ASSUME LocalInv, NEW c \in Call, PutStep(c)
  PROVE  \/ Store!Write(c) \/ Store!Return(c)
         \/ UNCHANGED <<StoreRequest, Objects, Answer, InPlace>>
<1> UNCHANGED InPlace
  BY InPlaceStays
<1>1. CASE Lookup(c)
  <2>1. PICK label \in {"existing", "conflict", "mkdir"} :
          /\ Goto(c, label)
          /\ label = "existing" => linked[KeyOf(c)] # NoFile
                                     /\ linked[KeyOf(c)].bytes = request[c].SHA256
          /\ label = "conflict" => linked[KeyOf(c)] # NoFile
    BY <1>1 DEF Lookup, VerifyExisting
  <2>2. UNCHANGED <<request, linked>> /\ AnswerAt(pc[c]) = "pending"
    BY <1>1 DEF Lookup, At, files, AnswerAt
  <2>3. CASE label = "mkdir"
    <3>1. AnswerAt(label) = AnswerAt(pc[c])
      BY <2>2, <2>3 DEF AnswerAt
    <3> QED BY <2>1, <2>2, <3>1, Unseen
  <2>4. CASE label # "mkdir"
    <3>1. label \in Ended /\ label # "created"
      BY <2>4 DEF Ended
    <3> QED BY <2>1, <2>2, <3>1, Returned
  <2> QED BY <2>3, <2>4
<1>2. CASE MkdirRoot(c) \/ MkdirAll(c) \/ SyncChain(c) \/ CreateTemp(c) \/ Copy(c) \/ SyncTemp(c)
             \/ RemoveTemp(c)
  <2>1. PICK label \in Place :
          Goto(c, label) /\ AnswerAt(label) = AnswerAt(pc[c])
    <3> USE DEF Place, Resting, Holding, AnswerAt, At
    <3>0. CASE MkdirRoot(c)
      BY <3>0 DEF MkdirRoot
    <3>1. CASE MkdirAll(c)
      BY <3>1 DEF MkdirAll
    <3>2. CASE SyncChain(c)
      BY <3>2 DEF SyncChain
    <3>3. CASE CreateTemp(c)
      BY <3>3 DEF CreateTemp
    <3>4. CASE Copy(c)
      <4>1. CASE request[c].source = request[c].SHA256
        BY <3>4, <4>1 DEF Copy
      <4>2. CASE request[c].source # request[c].SHA256
        BY <3>4, <4>2 DEF Copy
      <4> QED BY <4>1, <4>2
    <3>5. CASE SyncTemp(c)
      BY <3>5 DEF SyncTemp
    <3>6. CASE RemoveTemp(c)
      BY <3>6 DEF RemoveTemp
    <3> QED BY <1>2, <3>0, <3>1, <3>2, <3>3, <3>4, <3>5, <3>6
  <2>2. UNCHANGED <<request, linked>>
    BY <1>2 DEF MkdirRoot, MkdirAll, SyncChain, CreateTemp, Copy, SyncTemp, RemoveTemp
  <2> QED BY <2>1, <2>2, Unseen
<1>3. CASE Link(c)
  <2>1. CASE linked[KeyOf(c)] = NoFile
    BY <1>3, <2>1, LinkWrites
  <2>2. CASE linked[KeyOf(c)] # NoFile
    <3>1. Goto(c, "reverify") /\ UNCHANGED <<request, linked>>
      BY <1>3, <2>2 DEF Link
    <3>2. AnswerAt("reverify") = AnswerAt(pc[c])
      BY <1>3 DEF Link, At, AnswerAt
    <3> QED BY <3>1, <3>2, Unseen
  <2> QED BY <2>1, <2>2
<1>4. CASE Reverify(c)
  <2>1. PICK label \in {"cleanup_existing", "cleanup_conflict", "cleanup"} : Goto(c, label)
    BY <1>4 DEF Reverify, VerifyExisting
  <2>2. UNCHANGED <<request, linked>> /\ AnswerAt(label) = AnswerAt(pc[c])
    BY <1>4 DEF Reverify, At, files, AnswerAt
  <2> QED BY <2>1, <2>2, Unseen
<1>5. CASE SyncDir(c)
  <2>1. /\ Goto(c, "created") /\ UNCHANGED <<request, linked>>
        /\ AnswerAt(pc[c]) = "stored" /\ "created" \in Ended
    BY <1>5 DEF SyncDir, At, AnswerAt, Ended
  <2> QED BY <2>1, Returned
<1>6. CASE Cleanup(c)
  <2>1. PICK label \in {"failed", "existing", "conflict"} :
          /\ Goto(c, label)
          /\ label = "failed" => pc[c] \in {"cleanup", "cleanup_published"}
          /\ label = "existing" => pc[c] = "cleanup_existing"
          /\ label = "conflict" => pc[c] = "cleanup_conflict"
    BY <1>6 DEF Cleanup, At
  <2>2. UNCHANGED <<request, linked>> /\ label \in Ended /\ label # "created"
    BY <1>6 DEF Cleanup, Ended
  <2>3. AnswerAt(pc[c]) \in {"pending", "stored"}
    BY <2>1 DEF AnswerAt
  <2>4. /\ label = "existing" => linked[KeyOf(c)] # NoFile
                                   /\ linked[KeyOf(c)].bytes = request[c].SHA256
        /\ label = "conflict" => linked[KeyOf(c)] # NoFile
    BY <2>1, OfCall DEF KeyOK
  <2> QED BY <2>1, <2>2, <2>3, <2>4, Returned
<1> QED BY <1>1, <1>2, <1>3, <1>4, <1>5, <1>6 DEF PutStep

(***************************************************************************)
(* A fault ends the call without an answer that says anything, or is not   *)
(* seen by the store yet.                                                  *)
(***************************************************************************)
LEMMA PutFaultMapped ==
  ASSUME LocalInv, NEW c \in Call, PutFault(c)
  PROVE  Store!Return(c) \/ UNCHANGED <<StoreRequest, Objects, Answer, InPlace>>
<1>1. UNCHANGED <<request, linked, InPlace>>
  BY InPlaceStays DEF PutFault, OperationFails, CleanupFails, Kill, files
<1>2. ASSUME NEW label \in {"failed", "dead"}, Goto(c, label),
             AnswerAt(pc[c]) \in {"pending", "stored"}
      PROVE  Store!Return(c)
  <2>1. label \in Ended /\ label \notin {"created", "existing", "conflict"}
    BY DEF Ended
  <2> QED BY <1>1, <1>2, <2>1, Returned
<1>3. CASE OperationFails(c)
  <2>1. CASE /\ pc[c] \in {"start", "lookup", "mkdir", "sync_chain", "temp", "sync_dir"}
             /\ Goto(c, "failed")
    <3>1. AnswerAt(pc[c]) \in {"pending", "stored"}
      BY <2>1 DEF AnswerAt
    <3> QED BY <1>2, <2>1, <3>1
  <2>2. CASE /\ pc[c] \in {"copy", "sync_temp", "reverify"}
             /\ Goto(c, "cleanup")
    <3>1. AnswerAt("cleanup") = AnswerAt(pc[c])
      BY <2>2 DEF AnswerAt
    <3> QED BY <1>1, <2>2, <3>1, Unseen
  <2>3. CASE pc[c] = "remove" /\ Goto(c, "cleanup_published")
    <3>1. AnswerAt("cleanup_published") = AnswerAt(pc[c])
      BY <2>3 DEF AnswerAt
    <3> QED BY <1>1, <2>3, <3>1, Unseen
  <2>4. CASE pc[c] = "link" /\ Goto(c, "reverify")
    <3>1. AnswerAt("reverify") = AnswerAt(pc[c])
      BY <2>4 DEF AnswerAt
    <3> QED BY <1>1, <2>4, <3>1, Unseen
  <2> QED BY <1>3, <2>1, <2>2, <2>3, <2>4 DEF OperationFails, At
<1>4. CASE CleanupFails(c) \/ Kill(c)
  <2>1. Goto(c, "dead") /\ pc[c] \notin Ended /\ pc[c] \in Place
    BY <1>4, OfCall DEF CleanupFails, Kill, Ended
  <2>2. AnswerAt(pc[c]) \in {"pending", "stored"}
    BY <2>1 DEF AnswerAt, Ended, Place, Resting, Holding
  <2> QED BY <1>2, <2>1, <2>2
<1> QED BY <1>3, <1>4 DEF PutFault

(***************************************************************************)
(* The directory tree implements the store the ingestion services rely on: *)
(* a firm one if its root was in place, one that may forget what it        *)
(* created if Put had to make the root.                                    *)
(***************************************************************************)
THEOREM LocalImplementsStore == Spec => ImplementsStore
<1>1. Init => Store!Init
  <2> SUFFICES ASSUME Init PROVE Store!Init
    OBVIOUS
  <2>1. StoreRequest \in [Call -> [Key : Key, SHA256 : Data]]
    BY DEF Init, PutRequest, StoreRequest, KeyOf
  <2>2. Objects \in [Key -> Data \cup {NoObject}]
    BY DEF Init, Objects
  <2>3. Answer = [c \in Call |-> "pending"]
    BY DEF Init, Answer
  <2>4. InPlace \in BOOLEAN
    BY DEF InPlace
  <2> QED BY <2>1, <2>2, <2>3, <2>4 DEF Store!Init, Store!PutRequest, StoreRequest
<1>2. LocalInv /\ [Next]_vars => [Store!Next]_(Store!vars)
  <2> SUFFICES ASSUME LocalInv, [Next]_vars PROVE [Store!Next]_(Store!vars)
    OBVIOUS
  <2> USE DEF Store!Next
  <2>1. CASE PowerLoss
    BY <2>1, PowerLossMapped
  <2>2. ASSUME NEW c \in Call, PutStep(c) PROVE [Store!Next]_(Store!vars)
    BY <2>2, PutStepMapped DEF Store!vars, StoreRequest
  <2>3. ASSUME NEW c \in Call, PutFault(c) PROVE [Store!Next]_(Store!vars)
    BY <2>3, PutFaultMapped DEF Store!vars, StoreRequest
  <2>4. CASE UNCHANGED vars
    BY <2>4 DEF vars, Store!vars, KeyOf, Objects, Answer, InPlace
  <2> QED BY <2>1, <2>2, <2>3, <2>4 DEF Next
<1> QED BY <1>1, <1>2, LocalInvariant, PTL DEF Spec, ImplementsStore, Store!Spec

-----------------------------------------------------------------------------
(* What ObjectStoreProofs shows of every store holds of the directory.     *)

Proved == INSTANCE ObjectStoreProofs WITH
  request <- [c \in Call |-> [Key |-> KeyOf(c), SHA256 |-> request[c].SHA256]],
  objects <- Objects, answer <- Answer, firm <- InPlace

(***************************************************************************)
(* The two instances of the store's specification are one.                 *)
(***************************************************************************)
LEMMA SameStore == Store!Spec <=> Proved!Spec
<1>1. Store!Init <=> Proved!Init
  BY DEF Store!Init, Proved!Init, Store!PutRequest, Proved!PutRequest
<1>2. [Store!Next]_(Store!vars) <=> [Proved!Next]_(Proved!vars)
  BY DEF Store!Next, Proved!Next, Store!vars, Proved!vars, Store!PowerLoss, Proved!PowerLoss,
         Store!Kept, Proved!Kept, Store!Write, Proved!Write, Store!Return, Proved!Return,
         Store!Found, Proved!Found, Store!Asked, Proved!Asked
<1> QED BY <1>1, <1>2, PTL DEF Store!Spec, Proved!Spec

\* The file of a call that was told it created it, and no other call was.
CreatedIsMine(c) ==
  /\ linked[KeyOf(c)] # NoFile /\ linked[KeyOf(c)].bytes = request[c].SHA256
  /\ \A d \in Call : pc[d] = "created" /\ KeyOf(d) = KeyOf(c) => d = c

CreatedFiles == InPlace => \A c \in Call : pc[c] = "created" => CreatedIsMine(c)

(***************************************************************************)
(* On a root that was in place Created = true can be relied on: the file   *)
(* is in the directory, with the bytes asked for, however many others put  *)
(* the key and whenever power is lost; and only one call of a key is told  *)
(* so.  On a root that Put made itself none of this survives its loss.     *)
(***************************************************************************)
THEOREM CreatedFileStays == Spec => []CreatedFiles
<1>1. Spec => []Proved!CreatedOnce
  BY LocalImplementsStore, SameStore, Proved!OnlyOneCreates, ObjectAssumption, PTL
     DEF ImplementsStore
<1>2. LocalInv /\ Proved!CreatedOnce => CreatedFiles
  <2> SUFFICES ASSUME LocalInv, Proved!CreatedOnce, InPlace,
                      NEW c \in Call, pc[c] = "created"
               PROVE  CreatedIsMine(c)
    BY DEF CreatedFiles
  <2>1. \A d \in Call : pc[d] = "created" => Answer[d] = "created"
    BY DEF Answer
  <2>2. \A d \in Call : pc[d] = "created" /\ KeyOf(d) = KeyOf(c) => d = c
    BY <2>1 DEF Proved!CreatedOnce
  <2> QED BY <2>2, OfCall DEF KeyOK, CreatedIsMine
<1> QED BY <1>1, <1>2, LocalInvariant, PTL

(***************************************************************************)
(* No step of any call, and no power loss, replaces an object's bytes.     *)
(***************************************************************************)
THEOREM FilesNeverReplaced == Spec => Proved!NeverReplaced
<1> QED BY LocalImplementsStore, SameStore, Proved!ObjectsNeverReplaced, ObjectAssumption, PTL
        DEF ImplementsStore

=============================================================================
