-------------------------- MODULE ObjectStoreProofs -------------------------
(***************************************************************************)
(* Proofs about ObjectStore, for any number of calls, keys and contents.   *)
(***************************************************************************)
EXTENDS ObjectStore, TLAPS

(***************************************************************************)
(* A write leaves every other key alone and makes the written one's object *)
(* the writer's: no confirmable write of that key can have been there.     *)
(***************************************************************************)
LEMMA WriteStep == ASSUME Inv, NEW c \in Call, Write(c) PROVE Inv'
<1> USE DEF Confirmable, Found, Asked, Write, Inv, TypeOK, PutRequest, Answer
<1>1. TypeOK'
  OBVIOUS
<1>2. ASSUME NEW d \in Call, Confirmable(d), request[d].Key = request[c].Key
      PROVE  FALSE
  BY <1>2, ObjectAssumption
<1>3. \A d \in Call : Confirmable(d)' => d = c \/ Confirmable(d)
  OBVIOUS
<1>4. \A d \in Call : Confirmable(d)' => (Found(d) = Asked(d))'
  BY <1>2, <1>3
<1>5. \A d, e \in Call :
        Confirmable(d)' /\ Confirmable(e)' /\ request'[d].Key = request'[e].Key => d = e
  BY <1>2, <1>3
<1> QED BY <1>1, <1>4, <1>5

(***************************************************************************)
(* An answer confirms only a write that was confirmable.                   *)
(***************************************************************************)
LEMMA ReturnStep == ASSUME Inv, NEW c \in Call, Return(c) PROVE Inv'
<1> USE DEF Confirmable, Found, Asked, Return, Inv, TypeOK, PutRequest, Answer
<1>1. TypeOK'
  OBVIOUS
<1>2. \A d \in Call : Confirmable(d)' => Confirmable(d)
  OBVIOUS
<1> QED BY <1>1, <1>2

(***************************************************************************)
(* A power loss takes only objects nobody was told he created, and with    *)
(* them the calls that could still have been told.                         *)
(***************************************************************************)
LEMMA PowerLossStep == ASSUME Inv, PowerLoss PROVE Inv'
<1> USE DEF Confirmable, Found, Asked, PowerLoss, Inv, TypeOK, PutRequest, Answer
<1>1. TypeOK'
  OBVIOUS
<1>2. \A d \in Call : Confirmable(d)' => answer[d] = "created" /\ answer'[d] = "created"
  OBVIOUS
<1>3. \A d \in Call : Confirmable(d)' => (Found(d) = Asked(d))'
  BY <1>2 DEF Kept
<1> QED BY <1>1, <1>2, <1>3

(***************************************************************************)
(* The inductive invariant holds in every reachable state of the store.    *)
(***************************************************************************)
THEOREM StoreInvariance == Spec => []Inv
<1>1. Init => Inv
  BY DEF Init, Inv, TypeOK, Confirmable, Answer
<1>2. Inv /\ [Next]_vars => Inv'
  <2> SUFFICES ASSUME Inv, [Next]_vars PROVE Inv'
    OBVIOUS
  <2>1. CASE PowerLoss
    BY <2>1, PowerLossStep
  <2>2. ASSUME NEW c \in Call, Write(c) PROVE Inv'
    BY <2>2, WriteStep
  <2>3. ASSUME NEW c \in Call, Return(c) PROVE Inv'
    BY <2>3, ReturnStep
  <2>4. CASE UNCHANGED vars
    BY <2>4 DEF vars, Inv, TypeOK, Confirmable, Found, Asked
  <2> QED BY <2>1, <2>2, <2>3, <2>4 DEF Next
<1> QED BY <1>1, <1>2, PTL DEF Spec

(***************************************************************************)
(* In a firm place a Put that answered Created = true has its object       *)
(* stored for good, through any concurrent puts and power losses.          *)
(***************************************************************************)
THEOREM CreatedStaysStored == Spec => []CreatedIsStored
<1>1. Inv => CreatedIsStored
  BY DEF Inv, CreatedIsStored, Confirmable
<1> QED BY <1>1, StoreInvariance, PTL

(***************************************************************************)
(* In a firm place no two Puts of a key are both told that they created    *)
(* the object.                                                             *)
(***************************************************************************)
THEOREM OnlyOneCreates == Spec => []CreatedOnce
<1>1. Inv => CreatedOnce
  BY DEF Inv, CreatedOnce, Confirmable
<1> QED BY <1>1, StoreInvariance, PTL

(***************************************************************************)
(* No step of the store replaces an object by another.                     *)
(***************************************************************************)
THEOREM ObjectsNeverReplaced == Spec => NeverReplaced
<1>1. Inv /\ [Next]_vars =>
        [\A k \in Key : objects[k] # NoObject => objects'[k] \in {objects[k], NoObject}]_vars
  BY DEF Inv, TypeOK, Next, vars, Write, Return, PowerLoss, Found, PutRequest
<1> QED BY <1>1, StoreInvariance, PTL DEF Spec, NeverReplaced

=============================================================================
