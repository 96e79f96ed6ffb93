-------------------------- MODULE HashMapTableProofs --------------------------
(* Proofs about HashMapTable, for any number of threads, keys and calls:   *)
(* for a key that is not in doubt the observers' copy is the row, or a     *)
(* thread is about to tell them; and a row is gone only where it is.       *)
EXTENDS HashMapTable, TLAPS

Unlocked == {"insert", "updateByKey", "updateOrDeleteByKey"}
Locked == {"deleteByKey", "deleteWhere", "updateWhere"}
At3 == {"notify", "read", "erase"}

(* The variables the argument is about, and their types.                   *)
Types ==
  /\ rows \in [Keys -> Rows \cup {None}] /\ born \in [Keys -> Nat]
  /\ view = [k \in Keys |-> view[k]]
  /\ owner \in Threads \cup {None}
  /\ call \in [Threads -> Calls \cup {None}]
  /\ pc \in [Threads -> {"idle", "enter", "loop", "notify", "read", "erase", "scan"}]
  /\ cur \in [Threads -> Keys \cup {None}] /\ ref \in [Threads -> Nat]
  /\ todo \in [Threads -> SUBSET Keys] /\ crashed \in BOOLEAN

(* Where a thread is, whether it holds the mutex, and which call it makes. *)
Frame(t) ==
  /\ pc[t] # "idle" => call[t] \in Calls
  /\ pc[t] \in {"loop", "erase"} => owner = t
  /\ pc[t] \in At3 => cur[t] \in Keys /\ (Op(t) \in IF owner = t THEN Locked ELSE Unlocked)
  /\ pc[t] = "erase" => Deletes(t)
  /\ owner = t => Op(t) \in Locked /\ pc[t] \in At3 \cup {"loop"}
  /\ owner = t /\ pc[t] \in At3 => cur[t] \notin todo[t]

(* Thread t is about to tell of k; or has told of its deletion.            *)
Tells(t, k) == pc[t] = "notify" /\ cur[t] = k
HasTold(t, k) == pc[t] \in {"read", "erase"} /\ cur[t] = k /\ owner = t /\ Deletes(t)

(* What holds of a key that is not in doubt.                               *)
Sure(k) ==
  /\ \A t \in Threads : Tells(t, k) /\ Op(t) = "insert" => rows[k] = NewRow(t, k)
  /\ \A t \in Threads : (Tells(t, k) /\ Op(t) # "insert") \/ HasTold(t, k) =>
       rows[k] # None /\ born[k] = ref[t]
  /\ \A t \in Threads : (Tells(t, k) /\ Deletes(t)) \/ HasTold(t, k) =>
       \A u \in Threads \ {t} : ~Tells(u, k)
  /\ \A t \in Threads : HasTold(t, k) => view[k] = None
  /\ \A t \in Threads : owner = t /\ k \in todo[t] => rows[k] # None
  /\ view[k] = rows[k] \/ \E t \in Threads : Tells(t, k) \/ HasTold(t, k)

IInv == Types /\ (\A t \in Threads : Frame(t)) /\ \A k \in Keys \ doubt : Sure(k)

-------------------------------------------------------------------------------
LEMMA TupleIsRow ==
  ASSUME NEW t \in Threads \cup {None}, NEW k \in Keys, NEW nulls \in {{}, {2}}
  PROVE  Tuple(<<k, t>>, nulls) \in Rows
BY DEF Rows

(* What a thread writes is a row.                                          *)
LEMMA NewRowIsRow ==
  ASSUME NEW t \in Threads, NEW k \in Keys
  PROVE  NewRow(t, k) \in Rows /\ Copy(NewRow(t, k)) \in Rows /\ None \notin Rows
<1>1. NewRow(t, k) \in Rows
    BY TupleIsRow DEF NewRow
<1>2. Copy(NewRow(t, k)) = Tuple(<<k, t>>, {})
    BY DEF Copy, NewRow, Tuple
<1> QED BY <1>1, <1>2, TupleIsRow, TableAssumption DEF TableAssumption

(* A call by key is for one key.                                           *)
LEMMA KeyOfIsKey ==
  ASSUME NEW t \in Threads, call[t] \in Calls,
         Op(t) \in {"insert", "updateByKey", "updateOrDeleteByKey"}
  PROVE  KeyOf(t) \in Keys
<1>1. PICK k \in Keys : call[t].keys = {k}
    BY DEF Calls, Op
<1> QED BY <1>1 DEF KeyOf

LEMMA InitIInv == Init => IInv
<1> SUFFICES ASSUME Init PROVE IInv OBVIOUS
<1> USE TableAssumption DEF Init, TableAssumption
<1>1. Types
    BY TupleIsRow DEF Types
<1>2. ASSUME NEW t \in Threads PROVE Frame(t)
    BY <1>2 DEF Frame, At3
<1>3. ASSUME NEW k \in Keys PROVE Sure(k)
    BY <1>3 DEF Sure, Tells, HasTold
<1> QED BY <1>1, <1>2, <1>3 DEF IInv

-------------------------------------------------------------------------------
(* A step that changes nothing of key k, nor who is to tell of it.         *)
Quiet(k) ==
  /\ rows'[k] = rows[k] /\ born'[k] = born[k] /\ view'[k] = view[k]
  /\ \A u \in Threads :
       /\ Tells(u, k)' <=> Tells(u, k)
       /\ HasTold(u, k)' <=> HasTold(u, k)
       /\ Tells(u, k) \/ HasTold(u, k) => call'[u] = call[u] /\ ref'[u] = ref[u]
       /\ owner' = u /\ k \in todo'[u] => rows[k] # None

LEMMA QuietKeepsSure ==
  ASSUME NEW k \in Keys, Sure(k), Quiet(k)
  PROVE  Sure(k)'
<1>1. ASSUME NEW u \in Threads, Tells(u, k) \/ HasTold(u, k)
      PROVE  /\ Op(u)' = Op(u) /\ (Deletes(u)' <=> Deletes(u))
             /\ NewRow(u, k)' = NewRow(u, k)
    BY <1>1 DEF Quiet, Op, Deletes, NewRow
<1>2. \A t \in Threads : Tells(t, k)' /\ Op(t)' = "insert" => rows'[k] = NewRow(t, k)'
    BY <1>1 DEF Quiet, Sure
<1>3. \A t \in Threads : (Tells(t, k)' /\ Op(t)' # "insert") \/ HasTold(t, k)' =>
        rows'[k] # None /\ born'[k] = ref'[t]
    BY <1>1 DEF Quiet, Sure
<1>4. \A t \in Threads : (Tells(t, k)' /\ Deletes(t)') \/ HasTold(t, k)' =>
        \A u \in Threads \ {t} : ~Tells(u, k)'
    BY <1>1 DEF Quiet, Sure
<1>5. \A t \in Threads : HasTold(t, k)' => view'[k] = None
    BY DEF Quiet, Sure
<1>6. \A t \in Threads : owner' = t /\ k \in todo'[t] => rows'[k] # None
    BY DEF Quiet
<1>7. view'[k] = rows'[k] \/ \E t \in Threads : Tells(t, k)' \/ HasTold(t, k)'
    BY DEF Quiet, Sure
<1> QED BY <1>2, <1>3, <1>4, <1>5, <1>6, <1>7 DEF Sure

(* A step of a thread leaves the others where they are.                    *)
Solo(t) ==
  /\ call' = [call EXCEPT ![t] = call'[t]] /\ pc' = [pc EXCEPT ![t] = pc'[t]]
  /\ cur' = [cur EXCEPT ![t] = cur'[t]] /\ ref' = [ref EXCEPT ![t] = ref'[t]]
  /\ todo' = [todo EXCEPT ![t] = todo'[t]]
  /\ owner' = owner \/ (owner = None /\ owner' = t) \/ (owner = t /\ owner' = None)

LEMMA OthersStay ==
  ASSUME Types, NEW t \in Threads, Step(t), \A u \in Threads : Frame(u)
  PROVE  Solo(t)
<1> USE DEF Types
<1>2. CASE Begin(t)
    BY <1>2 DEF Begin, Goto, Solo
<1>3. CASE Insert(t)
    BY <1>3 DEF Insert, At, Goto, Solo
<1>4. CASE UpdateByKey(t)
    BY <1>4 DEF UpdateByKey, Return, At, Goto, Solo
<1>5. CASE GetByKey(t)
    BY <1>5 DEF GetByKey, Return, Goto, Solo
<1>6. CASE Lock(t)
    BY <1>6 DEF Lock, Goto, Solo
<1>7. CASE Visit(t)
    BY <1>7 DEF Visit, Goto, Solo
<1>8. CASE Unlock(t)
    BY <1>8 DEF Unlock, Return, Goto, Solo, Frame
<1>9. CASE Notify(t)
    BY <1>9 DEF Notify, AfterNotify, Return, Goto, Solo, frame
<1>10. CASE Reenter(t)
    BY <1>10 DEF Reenter, AfterNotify, Return, Goto, Solo, frame
<1>11. CASE Erase(t)
    BY <1>11 DEF Erase, Goto, Solo, frame
<1>12. CASE Select(t)
    BY <1>12 DEF Select, Goto, Solo
<1>13. CASE Advance(t)
    BY <1>13 DEF Advance, Return, Goto, Solo
<1>14. CASE Drop(t)
    BY <1>14 DEF Drop, Return, Goto, Solo
<1> QED BY <1>2, <1>3, <1>4, <1>5, <1>6, <1>7, <1>8, <1>9, <1>10, <1>11, <1>12, <1>13, <1>14
        DEF Step

(* What the invariant says of the thread itself after its step.            *)
Mine(t) ==
  /\ call'[t] \in Calls \cup {None} /\ cur'[t] \in Keys \cup {None} /\ ref'[t] \in Nat
  /\ pc'[t] \in {"idle", "enter", "loop", "notify", "read", "erase", "scan"}
  /\ todo'[t] \in SUBSET Keys
  /\ Frame(t)'

LEMMA MineHolds ==
  ASSUME Types, NEW t \in Threads, Step(t), \A u \in Threads : Frame(u)
  PROVE  Mine(t)
<1> USE DEF Types
<1>0. Frame(t) /\ None \notin Threads
    BY TableAssumption DEF TableAssumption
<1>1. Present \subseteq Keys
    BY DEF Present
<1>2. CASE Begin(t)
    BY <1>0, <1>2 DEF Begin, Goto, Mine, Frame, At3
<1>3. CASE Insert(t)
    <2>1. KeyOf(t) \in Keys
        BY <1>0, <1>3, KeyOfIsKey DEF Insert, Frame
    <2>2. born' \in [Keys -> Nat] /\ owner' = None
        BY <1>3 DEF Insert, data
    <2> QED BY <1>0, <1>3, <2>1, <2>2 DEF Insert, At, Goto, Mine, Frame, At3, Unlocked, Op
<1>4. CASE UpdateByKey(t)
    <2>1. KeyOf(t) \in Keys
        BY <1>0, <1>4, KeyOfIsKey DEF UpdateByKey, Frame
    <2>2. CASE rows[KeyOf(t)] = None
        BY <1>0, <1>4, <2>1, <2>2 DEF UpdateByKey, Return, Goto, Mine, Frame, At3
    <2>3. CASE rows[KeyOf(t)] # None
        BY <1>0, <1>4, <2>1, <2>3 DEF UpdateByKey, At, Goto, Mine, Frame, At3, Unlocked, Op
    <2> QED BY <2>2, <2>3
<1>5. CASE GetByKey(t)
    BY <1>0, <1>5 DEF GetByKey, Return, Goto, Mine, Frame, At3
<1>6. CASE Lock(t)
    BY <1>0, <1>1, <1>6 DEF Lock, Goto, Mine, Frame, At3, Locked, Op
<1>7. CASE Visit(t)
    <2>1. owner' = t /\ Op(t)' \in Locked
        BY <1>0, <1>7 DEF Visit, Frame, Op
    <2>2. \A k \in todo[t] : k \in Keys /\ born[k] \in Nat
        OBVIOUS
    <2> QED BY <1>0, <1>7, <2>1, <2>2 DEF Visit, Goto, Mine, Frame, At3
<1>8. CASE Unlock(t)
    BY <1>0, <1>8 DEF Unlock, Return, Goto, Mine, Frame, At3
<1>9. CASE Notify(t)
    BY <1>0, <1>9 DEF Notify, AfterNotify, Return, Goto, Mine, Frame, At3, frame, Op, Deletes
<1>10. CASE Reenter(t)
    BY <1>0, <1>10 DEF Reenter, AfterNotify, Return, Goto, Mine, Frame, At3, frame, Op, Deletes
<1>11. CASE Erase(t)
    BY <1>0, <1>11 DEF Erase, Goto, Mine, Frame, At3, frame, Op
<1>12. CASE Select(t)
    BY <1>0, <1>1, <1>12 DEF Select, Goto, Mine, Frame, At3, Op
<1>13. CASE Advance(t)
    BY <1>0, <1>13 DEF Advance, Return, Goto, Mine, Frame, At3, Op
<1>14. CASE Drop(t)
    BY <1>0, <1>14 DEF Drop, Return, Goto, Mine, Frame, At3
<1> QED BY <1>2, <1>3, <1>4, <1>5, <1>6, <1>7, <1>8, <1>9, <1>10, <1>11, <1>12, <1>13, <1>14
        DEF Step

LEMMA FrameHolds ==
  ASSUME Types, NEW t \in Threads, Step(t), \A u \in Threads : Frame(u)
  PROVE  \A u \in Threads : Frame(u)'
<1> SUFFICES ASSUME NEW u \in Threads PROVE Frame(u)'
    OBVIOUS
<1>1. Solo(t) /\ Mine(t)
    BY OthersStay, MineHolds
<1>2. CASE u = t
    BY <1>1, <1>2 DEF Mine
<1>3. CASE u # t
    <2>1. /\ call'[u] = call[u] /\ pc'[u] = pc[u] /\ cur'[u] = cur[u] /\ todo'[u] = todo[u]
          /\ owner' = u <=> owner = u
        BY <1>1, <1>3, TableAssumption DEF TableAssumption, Solo, Types
    <2> QED BY <2>1 DEF Frame, Op, Deletes
<1> QED BY <1>2, <1>3

LEMMA TypesHold ==
  ASSUME Types, NEW t \in Threads, Step(t), \A u \in Threads : Frame(u)
  PROVE  Types'
<1>1. Solo(t) /\ Mine(t)
    BY OthersStay, MineHolds
<1>2. /\ owner' \in Threads \cup {None} /\ call' \in [Threads -> Calls \cup {None}]
      /\ cur' \in [Threads -> Keys \cup {None}] /\ ref' \in [Threads -> Nat]
      /\ todo' \in [Threads -> SUBSET Keys]
    BY <1>1 DEF Solo, Mine, Types
<1>3. pc' \in [Threads -> {"idle", "enter", "loop", "notify", "read", "erase", "scan"}]
    BY <1>1 DEF Solo, Mine, Types
<1>4. born' \in [Keys -> Nat] /\ rows' \in [Keys -> Rows \cup {None}]
    <2> \A k \in Keys : NewRow(t, k) \in Rows /\ Copy(NewRow(t, k)) \in Rows
        BY NewRowIsRow
    <2>1. CASE Insert(t)
        BY <2>1 DEF Types, Insert, data
    <2>2. CASE UpdateByKey(t)
        BY <2>2 DEF Types, UpdateByKey, data
    <2>3. CASE Visit(t)
        BY <2>3 DEF Types, Visit
    <2>4. CASE Erase(t) \/ Drop(t)
        BY <2>4 DEF Types, Erase, Drop
    <2>5. CASE \/ Begin(t) \/ GetByKey(t) \/ Lock(t) \/ Unlock(t) \/ Notify(t)
               \/ Reenter(t) \/ Select(t) \/ Advance(t)
        BY <2>5 DEF Types, Begin, GetByKey, Lock, Unlock, Notify, Reenter, Select, Advance, data
    <2> QED BY <2>1, <2>2, <2>3, <2>4, <2>5 DEF Step
<1>5. view' = [k \in Keys |-> view'[k]]
    <2>1. CASE Notify(t)
        BY <2>1 DEF Types, Notify
    <2>2. CASE ~Notify(t)
        BY <2>2 DEF Types, Step, Begin, Insert, UpdateByKey, GetByKey, Lock, Visit, Unlock,
                    Reenter, Erase, Select, Advance, Drop
    <2> QED BY <2>1, <2>2
<1>6. crashed' \in BOOLEAN
    BY DEF Types, Step, Begin, Insert, UpdateByKey, GetByKey, Lock, Visit, Unlock, Notify,
           Reenter, Erase, Select, Advance, Drop
<1> QED BY <1>2, <1>3, <1>4, <1>5, <1>6 DEF Types

(* A key of which a step changes nothing, nor what its thread has to tell. *)
LEMMA OtherKey ==
  ASSUME IInv, NEW t \in Threads, Solo(t), NEW k \in Keys \ doubt,
         rows'[k] = rows[k], born'[k] = born[k], view'[k] = view[k],
         Tells(t, k)' <=> Tells(t, k), HasTold(t, k)' <=> HasTold(t, k),
         Tells(t, k) \/ HasTold(t, k) => call'[t] = call[t] /\ ref'[t] = ref[t],
         owner' = t /\ k \in todo'[t] => rows[k] # None
  PROVE  Sure(k)'
<1>1. Types /\ Sure(k)
    BY DEF IInv
<1>2. ASSUME NEW u \in Threads, u # t
      PROVE  /\ call'[u] = call[u] /\ pc'[u] = pc[u] /\ cur'[u] = cur[u]
             /\ ref'[u] = ref[u] /\ todo'[u] = todo[u]
             /\ owner' = u <=> owner = u
    BY <1>1, <1>2, TableAssumption DEF TableAssumption, Solo, Types
<1>3. ASSUME NEW u \in Threads
      PROVE  /\ Tells(u, k)' <=> Tells(u, k)
             /\ HasTold(u, k)' <=> HasTold(u, k)
             /\ Tells(u, k) \/ HasTold(u, k) => call'[u] = call[u] /\ ref'[u] = ref[u]
             /\ owner' = u /\ k \in todo'[u] => rows[k] # None
    <2>1. CASE u = t
        BY <2>1
    <2>2. CASE u # t
        BY <1>1, <1>2, <2>2 DEF Tells, HasTold, Deletes, Op, Sure
    <2> QED BY <2>1, <2>2
<1>4. Quiet(k)
    BY <1>3 DEF Quiet
<1> QED BY <1>1, <1>4, QuietKeepsSure

(* The steps that modify nothing and tell nothing.                         *)
LEMMA SilentStep ==
  ASSUME IInv, NEW t \in Threads, Step(t),
         \/ Begin(t) \/ GetByKey(t) \/ Lock(t) \/ Unlock(t) \/ Reenter(t)
         \/ Select(t) \/ Advance(t),
         NEW k \in Keys \ doubt'
  PROVE  Sure(k)'
<1>0. /\ Types /\ Frame(t) /\ Solo(t) /\ None \notin Threads
      /\ k \in Keys \ doubt /\ Sure(k)
    BY TableAssumption, OthersStay DEF TableAssumption, IInv,
       Begin, GetByKey, Lock, Unlock, Reenter, Select, Advance, history
<1>1. rows' = rows /\ born' = born /\ view' = view
    BY DEF Begin, GetByKey, Lock, Unlock, Reenter, Select, Advance, data
<1>2. /\ ~Tells(t, k) /\ ~HasTold(t, k) /\ ~Tells(t, k)' /\ ~HasTold(t, k)'
      /\ owner' = t /\ k \in todo'[t] => rows[k] # None
    <2>1. CASE Begin(t)
        BY <1>0, <2>1 DEF Types, Begin, Goto, Tells, HasTold, Frame, At3
    <2>2. CASE GetByKey(t)
        BY <1>0, <2>2 DEF Types, GetByKey, Return, Goto, Tells, HasTold
    <2>3. CASE Lock(t)
        BY <1>0, <2>3 DEF Types, Lock, Goto, Tells, HasTold, Present
    <2>4. CASE Unlock(t)
        BY <1>0, <2>4 DEF Types, Unlock, Return, Goto, Tells, HasTold
    <2>5. CASE Reenter(t)
        BY <1>0, <2>5 DEF Types, Reenter, AfterNotify, Return, Goto, Tells, HasTold
    <2>6. CASE Select(t)
        BY <1>0, <2>6 DEF Types, Select, Goto, Tells, HasTold, Frame, At3
    <2>7. CASE Advance(t)
        BY <1>0, <2>7 DEF Types, Advance, Return, Goto, Tells, HasTold, Frame, At3
    <2> QED BY <2>1, <2>2, <2>3, <2>4, <2>5, <2>6, <2>7
<1> QED BY <1>0, <1>1, <1>2, OtherKey

LEMMA InsertStep ==
  ASSUME IInv, NEW t \in Threads, Insert(t), NEW j \in Keys \ doubt'
  PROVE  Sure(j)'
<1>0. /\ Types /\ Frame(t) /\ Solo(t) /\ None \notin Threads
      /\ j \in Keys \ doubt /\ Sure(j)
    <2>1. Types /\ Frame(t) /\ j \in Keys \ doubt
        BY DEF IInv, Insert
    <2> QED BY <2>1, TableAssumption, OthersStay DEF TableAssumption, IInv, Step
<1> PICK k \in Keys : k = KeyOf(t)
    BY <1>0, KeyOfIsKey DEF Insert, Frame
<1>1. /\ owner = None /\ owner' = None /\ view' = view
      /\ pc[t] = "enter" /\ pc'[t] = "notify" /\ cur'[t] = k
      /\ Op(t) = "insert" /\ Op(t)' = "insert" /\ NewRow(t, k)' = NewRow(t, k)
    BY <1>0 DEF Types, Insert, At, Goto, Op, NewRow
<1>2. CASE j # k
    <2>1. rows'[j] = rows[j] /\ born'[j] = born[j]
        BY <1>0, <1>2 DEF Types, Insert, data
    <2> QED BY <1>0, <1>1, <1>2, <2>1, OtherKey DEF Tells, HasTold
<1>3. CASE j = k
    <2>1. rows[k] = None /\ rows'[k] = NewRow(t, k) /\ rows'[k] # None
        BY <1>0, <1>3, NewRowIsRow DEF Insert
    <2>2. \A u \in Threads : ~Tells(u, k) /\ ~HasTold(u, k)
        BY <1>0, <1>3, <2>1, NewRowIsRow DEF Sure
    <2>3. \A u \in Threads : u # t => ~Tells(u, k)' /\ ~HasTold(u, k)'
        BY <1>0, <1>1, <2>2 DEF Types, Solo, Tells, HasTold
    <2>4. Tells(t, k)' /\ ~HasTold(t, k)' /\ ~Deletes(t)'
        BY <1>1 DEF Tells, HasTold, Deletes
    <2> QED BY <1>0, <1>1, <1>3, <2>1, <2>3, <2>4 DEF Sure
<1> QED BY <1>2, <1>3

LEMMA UpdateByKeyStep ==
  ASSUME IInv, NEW t \in Threads, UpdateByKey(t), NEW j \in Keys \ doubt'
  PROVE  Sure(j)'
<1>0. /\ Types /\ (\A u \in Threads : Frame(u)) /\ Solo(t) /\ None \notin Threads
      /\ j \in Keys \ doubt /\ Sure(j)
    <2>1. Types /\ (\A u \in Threads : Frame(u)) /\ j \in Keys \ doubt
        BY DEF IInv, UpdateByKey, history
    <2> QED BY <2>1, TableAssumption, OthersStay DEF TableAssumption, IInv, Step
<1> PICK k \in Keys : k = KeyOf(t)
    BY <1>0, KeyOfIsKey DEF UpdateByKey, Frame
<1>1. owner = None /\ owner' = None /\ view' = view /\ born' = born /\ pc[t] = "enter"
    BY DEF UpdateByKey, data
<1>2. CASE rows[k] = None
    <2>1. rows' = rows /\ pc'[t] = "idle"
        BY <1>0, <1>2 DEF Types, UpdateByKey, Return, Goto, data
    <2> QED BY <1>0, <1>1, <2>1, OtherKey DEF Tells, HasTold
<1>3. CASE rows[k] # None /\ j # k
    <2>1. rows'[j] = rows[j] /\ pc'[t] = "notify" /\ cur'[t] = k
        BY <1>0, <1>3 DEF Types, UpdateByKey, At, Goto
    <2> QED BY <1>0, <1>1, <1>3, <2>1, OtherKey DEF Tells, HasTold
<1>4. CASE rows[k] # None /\ j = k
    <2>1. /\ Op(t) = "updateByKey" /\ Op(t)' = "updateByKey" /\ rows'[k] = NewRow(t, k)
          /\ pc'[t] = "notify" /\ cur'[t] = k /\ ref'[t] = born'[k] /\ ~Overtakes(t, k, FALSE)
        BY <1>0, <1>4 DEF Types, UpdateByKey, At, Goto, Op
    <2>2. rows'[k] # None
        BY <2>1, NewRowIsRow
    <2>3. ASSUME NEW u \in Threads, u # t
          PROVE  /\ call'[u] = call[u] /\ ref'[u] = ref[u] /\ ~HasTold(u, k)'
                 /\ Tells(u, k)' => Tells(u, k) /\ Op(u) # "insert" /\ ~Deletes(u)
        <3>1. call'[u] = call[u] /\ ref'[u] = ref[u] /\ pc'[u] = pc[u] /\ cur'[u] = cur[u]
            BY <1>0, <2>3 DEF Types, Solo
        <3>2. Tells(u, k) => Op(u) # "insert"
            BY <1>0, <1>1, <2>1, <2>3 DEF Overtakes, Untold, Tells
        <3>3. Tells(u, k) => ~Deletes(u)
            BY <1>0, <1>1 DEF Frame, At3, Unlocked, Deletes, Tells
        <3> QED BY <1>0, <1>1, <3>1, <3>2, <3>3 DEF Tells, HasTold
    <2>4. Tells(t, k)' /\ ~HasTold(t, k)' /\ ~Deletes(t)'
        BY <2>1 DEF Tells, HasTold, Deletes
    <2>5. \A u \in Threads : Tells(u, k)' => Op(u)' # "insert" /\ ~Deletes(u)'
        BY <2>1, <2>3, <2>4 DEF Op, Deletes
    <2>6. \A u \in Threads : Tells(u, k)' => born'[k] = ref'[u]
        BY <1>0, <1>1, <1>4, <2>1, <2>3 DEF Sure
    <2>7. \A u \in Threads : ~HasTold(u, k)'
        BY <2>3, <2>4
    <2> QED BY <1>0, <1>1, <1>4, <2>2, <2>4, <2>5, <2>6, <2>7 DEF Sure
<1> QED BY <1>2, <1>3, <1>4

LEMMA VisitStep ==
  ASSUME IInv, NEW t \in Threads, Visit(t), NEW j \in Keys \ doubt'
  PROVE  Sure(j)'
<1>0. /\ Types /\ (\A u \in Threads : Frame(u)) /\ Solo(t) /\ None \notin Threads
      /\ j \in Keys \ doubt /\ Sure(j)
    <2>1. Types /\ (\A u \in Threads : Frame(u)) /\ j \in Keys \ doubt
        BY DEF IInv, Visit
    <2> QED BY <2>1, TableAssumption, OthersStay DEF TableAssumption, IInv, Step
<1>1. PICK k \in todo[t] :
        /\ rows' = IF Deletes(t) \/ rows[k] = None THEN rows
                   ELSE [rows EXCEPT ![k] = NewRow(t, k)]
        /\ doubt' = IF Overtakes(t, k, Deletes(t)) THEN doubt \cup {k} ELSE doubt
        /\ UNCHANGED born
        /\ Goto(t, "notify")
        /\ cur' = [cur EXCEPT ![t] = k]
        /\ ref' = [ref EXCEPT ![t] = IF rows[k] = None THEN born[k] + 1 ELSE born[k]]
        /\ todo' = [todo EXCEPT ![t] = @ \ {k}]
    BY DEF Visit
<1>2. /\ k \in Keys /\ owner = t /\ owner' = t /\ view' = view /\ born' = born
      /\ call' = call /\ pc[t] = "loop" /\ pc'[t] = "notify" /\ cur'[t] = k
      /\ todo'[t] = todo[t] \ {k} /\ Op(t) \in Locked
    BY <1>0, <1>1 DEF Types, Visit, Goto, Frame
<1>3. CASE j # k
    <2>1. rows'[j] = rows[j]
        BY <1>0, <1>1, <1>2, <1>3 DEF Types
    <2>2. ~Tells(t, j) /\ ~HasTold(t, j) /\ ~Tells(t, j)' /\ ~HasTold(t, j)'
        BY <1>2, <1>3 DEF Tells, HasTold
    <2>3. j \in todo'[t] => rows[j] # None
        BY <1>0, <1>2 DEF Sure
    <2> QED BY <1>0, <1>2, <2>1, <2>2, <2>3, OtherKey
<1>4. CASE j = k
    <2>1. rows[k] # None /\ ref'[t] = born[k]
        BY <1>0, <1>1, <1>2, <1>4 DEF Sure, Types
    <2>2. ~Overtakes(t, k, Deletes(t))
        BY <1>1, <1>4
    <2>3. Op(t) # "insert" /\ Op(t)' = Op(t) /\ (Deletes(t)' <=> Deletes(t))
        BY <1>2 DEF Locked, Op, Deletes
    <2>4. /\ rows'[k] # None
          /\ Deletes(t) => rows'[k] = rows[k]
        BY <1>0, <1>1, <1>2, <2>1, NewRowIsRow DEF Types
    <2>5. ASSUME NEW u \in Threads, u # t
          PROVE  /\ call'[u] = call[u] /\ ref'[u] = ref[u] /\ ~HasTold(u, k)'
                 /\ Tells(u, k)' => /\ Tells(u, k) /\ ~Deletes(u) /\ ~Deletes(t)
                                    /\ Op(u) # "insert"
        <3>1. call'[u] = call[u] /\ ref'[u] = ref[u] /\ pc'[u] = pc[u] /\ cur'[u] = cur[u]
            BY <1>0, <2>5 DEF Types, Solo
        <3>2. Tells(u, k) => ~Deletes(t) /\ Op(u) # "insert"
            BY <1>2, <2>2, <2>5 DEF Overtakes, Untold, Tells
        <3>3. Tells(u, k) => ~Deletes(u)
            BY <1>0, <1>2, <2>5 DEF Frame, At3, Unlocked, Deletes, Tells
        <3> QED BY <1>2, <2>5, <3>1, <3>2, <3>3 DEF Tells, HasTold
    <2>6. Tells(t, k)' /\ ~HasTold(t, k)'
        BY <1>2 DEF Tells, HasTold
    <2>7. \A u \in Threads : Tells(u, k)' => Op(u)' # "insert" /\ born'[k] = ref'[u]
        BY <1>0, <1>2, <1>4, <2>1, <2>3, <2>5 DEF Op, Sure
    <2>8. \A u \in Threads : Tells(u, k)' /\ Deletes(u)' =>
            \A v \in Threads \ {u} : ~Tells(v, k)'
        BY <2>3, <2>5 DEF Deletes, Op
    <2>9. \A u \in Threads : ~HasTold(u, k)' /\ (owner' = u => k \notin todo'[u])
        BY <1>2, <2>5, <2>6
    <2> QED BY <1>4, <2>4, <2>6, <2>7, <2>8, <2>9 DEF Sure
<1> QED BY <1>3, <1>4

LEMMA EraseStep ==
  ASSUME IInv, NEW t \in Threads, Erase(t), NEW j \in Keys \ doubt'
  PROVE  Sure(j)'
<1>0. /\ Types /\ (\A u \in Threads : Frame(u)) /\ Solo(t) /\ None \notin Threads
      /\ j \in Keys \ doubt /\ Sure(j)
    <2>1. Types /\ (\A u \in Threads : Frame(u)) /\ j \in Keys \ doubt
        BY DEF IInv, Erase
    <2> QED BY <2>1, TableAssumption, OthersStay DEF TableAssumption, IInv, Step
<1>1. /\ owner = t /\ owner' = t /\ view' = view /\ born' = born /\ call' = call
      /\ cur' = cur /\ ref' = ref /\ todo' = todo /\ pc[t] = "erase" /\ pc'[t] = "loop"
      /\ Deletes(t) /\ cur[t] \in Keys /\ cur[t] \notin todo[t]
    BY <1>0 DEF Types, Erase, Goto, Frame, At3, frame
<1>2. CASE j # cur[t]
    <2>1. rows'[j] = rows[j]
        BY <1>0, <1>1, <1>2 DEF Types, Erase
    <2>2. ~Tells(t, j) /\ ~HasTold(t, j) /\ ~Tells(t, j)' /\ ~HasTold(t, j)'
        BY <1>1, <1>2 DEF Tells, HasTold
    <2>3. j \in todo'[t] => rows[j] # None
        BY <1>0, <1>1 DEF Sure
    <2> QED BY <1>0, <1>1, <2>1, <2>2, <2>3, OtherKey
<1>3. CASE j = cur[t]
    <2>1. HasTold(t, j)
        BY <1>1, <1>3 DEF HasTold
    <2>2. rows'[j] = None /\ view'[j] = None
        BY <1>0, <1>1, <1>3, <2>1 DEF Types, Erase, Sure
    <2>3. \A u \in Threads : ~Tells(u, j)' /\ ~HasTold(u, j)'
        BY <1>0, <1>1, <2>1 DEF Sure, Types, Solo, Tells, HasTold
    <2>4. \A u \in Threads : owner' = u => j \notin todo'[u]
        BY <1>1, <1>3
    <2> QED BY <2>2, <2>3, <2>4 DEF Sure
<1> QED BY <1>2, <1>3

LEMMA DropStep ==
  ASSUME IInv, NEW t \in Threads, Drop(t), NEW j \in Keys \ doubt'
  PROVE  Sure(j)'
<1>0. Types /\ Frame(t) /\ Solo(t) /\ None \notin Threads /\ j \in Keys \ doubt
    <2>1. Types /\ (\A u \in Threads : Frame(u)) /\ j \in Keys \ doubt
        BY DEF IInv, Drop
    <2> QED BY <2>1, TableAssumption, OthersStay DEF TableAssumption, IInv, Step
<1>1. rows[j] = None /\ rows'[j] = None /\ born' = born /\ view' = view
    BY <1>0 DEF Drop, Present
<1>2. pc[t] = "enter" /\ pc'[t] = "idle" /\ todo'[t] = {}
    BY <1>0 DEF Types, Drop, Return, Goto
<1> QED BY <1>0, <1>1, <1>2, OtherKey DEF Tells, HasTold

LEMMA NotifyStep ==
  ASSUME IInv, NEW t \in Threads, Notify(t), NEW j \in Keys \ doubt'
  PROVE  Sure(j)'
<1>0. /\ Types /\ (\A u \in Threads : Frame(u)) /\ Solo(t)
      /\ None \notin Threads /\ None \notin Keys
      /\ j \in Keys \ doubt /\ Sure(j)
    <2>1. Types /\ (\A u \in Threads : Frame(u)) /\ j \in Keys \ doubt
        BY DEF IInv, Notify, history
    <2> QED BY <2>1, TableAssumption, OthersStay DEF TableAssumption, IInv, Step
<1> PICK k \in Keys : k = cur[t]
    BY <1>0 DEF Notify, Frame, At3
<1>1. /\ owner' = owner /\ rows' = rows /\ born' = born /\ pc[t] = "notify"
      /\ pc'[t] # "notify" /\ Op(t) \in IF owner = t THEN Locked ELSE Unlocked
    BY <1>0 DEF Types, Notify, AfterNotify, Return, Goto, data, Frame, At3
<1>2. \/ /\ cur' = cur /\ call' = call /\ ref' = ref /\ todo' = todo
      \/ owner # t /\ cur'[t] = None /\ todo'[t] = {}
    BY <1>0 DEF Types, Notify, AfterNotify, Return, frame
<1>3. owner' = t /\ j \in todo'[t] => rows[j] # None
    BY <1>0, <1>1, <1>2 DEF Sure
<1>4. CASE j # k
    <2>1. view'[j] = view[j]
        <3>1. PICK r : view' = view \/ view' = [view EXCEPT ![k] = r]
            BY DEF Notify
        <3> QED BY <1>0, <1>4, <3>1 DEF Types
    <2>2. ~Tells(t, j) /\ ~HasTold(t, j) /\ ~Tells(t, j)' /\ ~HasTold(t, j)'
        BY <1>0, <1>1, <1>2, <1>4 DEF Tells, HasTold
    <2> QED BY <1>0, <1>1, <1>3, <2>1, <2>2, OtherKey
<1>5. CASE j = k
    <2>0. Tells(t, k)
        BY <1>1 DEF Tells
    <2>1. ~Gone(t)
        BY <1>0, <1>5, <2>0 DEF Gone, Sure
    <2>2. view'[k] = IF Deletes(t) THEN None ELSE rows[k]
        <3>1. view' = [view EXCEPT ![k] = IF Deletes(t) THEN None ELSE Told(t)]
            BY <2>1 DEF Notify
        <3>2. Told(t) = rows[k]
            BY <1>0, <1>5, <2>0 DEF Told, Sure
        <3> QED BY <1>0, <3>1, <3>2 DEF Types
    <2>3. ~Tells(t, k)'
        BY <1>1 DEF Tells
    <2>4. ASSUME NEW u \in Threads, u # t
          PROVE  /\ call'[u] = call[u] /\ ref'[u] = ref[u] /\ ~HasTold(u, k)'
                 /\ Tells(u, k)' => Tells(u, k) /\ ~Deletes(u) /\ ~Deletes(t)
        <3>1. /\ call'[u] = call[u] /\ ref'[u] = ref[u]
              /\ (Tells(u, k)' <=> Tells(u, k)) /\ (HasTold(u, k)' <=> HasTold(u, k))
            BY <1>0, <1>1, <2>4 DEF Types, Solo, Tells, HasTold, Deletes, Op
        <3>2. ~HasTold(u, k) /\ (Tells(u, k) => ~Deletes(u) /\ ~Deletes(t))
            BY <1>0, <1>5, <2>0, <2>4 DEF Sure
        <3> QED BY <3>1, <3>2
    <2>5. \A u \in Threads : Tells(u, k)' /\ Op(u)' = "insert" => rows'[k] = NewRow(u, k)'
        BY <1>0, <1>1, <1>5, <2>3, <2>4 DEF Sure, Op, NewRow
    <2>6. \A u \in Threads : Tells(u, k)' /\ Op(u)' # "insert" =>
            rows'[k] # None /\ born'[k] = ref'[u]
        BY <1>0, <1>1, <1>5, <2>3, <2>4 DEF Sure, Op
    <2>7. \A u \in Threads : ~(Tells(u, k)' /\ Deletes(u)')
        BY <2>3, <2>4 DEF Deletes, Op
    <2>8. \A u \in Threads : owner' = u /\ k \in todo'[u] => rows'[k] # None
        BY <1>0, <1>1, <1>3, <1>5 DEF Sure, Types, Solo
    <2>9. CASE Deletes(t)
        <3>1. owner = t
            BY <1>1, <2>9 DEF Deletes, Unlocked
        <3>2. pc'[t] \in {"read", "erase"} /\ Deletes(t)'
            BY <1>0, <1>1, <1>2, <2>9, <3>1
               DEF Types, Notify, AfterNotify, Goto, Deletes, Op
        <3>3. HasTold(t, k)'
            BY <1>1, <1>2, <3>1, <3>2 DEF HasTold
        <3>4. rows'[k] # None /\ born'[k] = ref'[t] /\ view'[k] = None
            BY <1>0, <1>1, <1>2, <1>5, <2>0, <2>2, <2>9, <3>1 DEF Sure, Deletes
        <3>5. \A u \in Threads : HasTold(u, k)' => u = t
            BY <2>4
        <3>6. \A u \in Threads : ~Tells(u, k)'
            BY <2>3, <2>4, <2>9
        <3> QED BY <1>5, <2>8, <3>3, <3>4, <3>5, <3>6 DEF Sure
    <2>10. CASE ~Deletes(t)
        <3>1. view'[k] = rows'[k]
            BY <1>1, <2>2, <2>10
        <3>2. ~HasTold(t, k)'
            BY <1>1, <1>2, <2>10 DEF HasTold, Deletes, Op
        <3>3. \A u \in Threads : ~HasTold(u, k)'
            BY <2>4, <3>2
        <3> QED BY <1>5, <2>5, <2>6, <2>7, <2>8, <3>1, <3>3 DEF Sure
    <2> QED BY <2>9, <2>10
<1> QED BY <1>4, <1>5

-------------------------------------------------------------------------------
LEMMA StepIInv ==
  ASSUME IInv, NEW t \in Threads, Step(t)
  PROVE  IInv'
<1>1. Types' /\ \A u \in Threads : Frame(u)'
    BY TypesHold, FrameHolds DEF IInv
<1>2. ASSUME NEW k \in Keys \ doubt' PROVE Sure(k)'
    BY SilentStep, InsertStep, UpdateByKeyStep, VisitStep, NotifyStep, EraseStep, DropStep
       DEF Step
<1> QED BY <1>1, <1>2 DEF IInv

LEMMA StutterIInv == IInv /\ UNCHANGED vars => IInv'
<1> SUFFICES ASSUME IInv, UNCHANGED vars PROVE IInv'
    OBVIOUS
<1>1. /\ rows' = rows /\ born' = born /\ view' = view /\ owner' = owner /\ call' = call
      /\ pc' = pc /\ cur' = cur /\ ref' = ref /\ todo' = todo
      /\ doubt' = doubt /\ crashed' = crashed
    BY DEF vars, data, frame, history
<1>2. Types' /\ \A u \in Threads : Frame(u)'
    BY <1>1 DEF IInv, Types, Frame, Op, Deletes
<1>3. ASSUME NEW k \in Keys \ doubt' PROVE Sure(k)'
    BY <1>1, QuietKeepsSure DEF IInv, Quiet, Tells, HasTold, Deletes, Op, Sure
<1> QED BY <1>2, <1>3 DEF IInv

THEOREM Invariant == Spec => []IInv
<1>1. IInv /\ [Next]_vars => IInv'
    BY StepIInv, StutterIInv DEF Next, End
<1> QED BY InitIInv, <1>1, PTL DEF Spec

(* The observers' copy is the table, but for the keys in doubt and those   *)
(* that a thread is about to tell them of (HashMapTable.hpp:142-308).      *)
THEOREM CopyFollows == Spec => []ViewFollowsTable
<1>1. IInv => ViewFollowsTable
    <2> SUFFICES ASSUME IInv, NEW k \in Keys \ doubt
                 PROVE  Telling(k) \/ view[k] = rows[k]
        BY DEF ViewFollowsTable
    <2>1. Sure(k)
        BY DEF IInv
    <2> QED BY <2>1 DEF Sure, Telling, Tells, HasTold
<1> QED BY <1>1, Invariant, PTL

(* The program ends abnormally only through a row that was erased while a  *)
(* thread was to tell it, or through a scan that rows have come or gone    *)
(* under (HashMapTable.hpp:46-80, :161-204).                               *)
THEOREM CrashesExplained == Spec => CrashExplained
<1> DEFINE Why == crashed' # crashed =>
             \E t \in Threads : \/ pc[t] = "scan" /\ t \in disturbed
                                \/ pc[t] \in {"notify", "erase"} /\ cur[t] \in doubt
<1>1. IInv /\ [Next]_vars => [Why]_vars
    <2> SUFFICES ASSUME IInv, ~crashed, NEW t \in Threads, Step(t), crashed' # crashed
                 PROVE  Why
        BY DEF Next, End, vars
    <2>0. Types /\ Frame(t) /\ (cur[t] \in Keys \ doubt => Sure(cur[t]))
        BY DEF IInv
    <2>1. CASE Notify(t)
        <3>1. Gone(t) /\ pc[t] = "notify" /\ cur[t] \in Keys
            BY <2>0, <2>1 DEF Notify, Frame, At3
        <3>2. cur[t] \in doubt
            BY <2>0, <3>1 DEF Gone, Sure, Tells
        <3> QED BY <3>1, <3>2
    <2>2. CASE Erase(t)
        <3>1. Gone(t) /\ pc[t] = "erase" /\ cur[t] \in Keys /\ owner = t /\ Deletes(t)
            BY <2>0, <2>2 DEF Types, Erase, Frame, At3
        <3>2. cur[t] \in doubt
            BY <2>0, <3>1 DEF Gone, Sure, HasTold
        <3> QED BY <3>1, <3>2
    <2>3. CASE Advance(t)
        BY <2>0, <2>3 DEF Types, Advance
    <2>4. CASE ~Notify(t) /\ ~Erase(t) /\ ~Advance(t)
        BY <2>4 DEF Step, Begin, Insert, UpdateByKey, GetByKey, Lock, Visit, Unlock,
                    Reenter, Select, Drop
    <2> QED BY <2>1, <2>2, <2>3, <2>4
<1> QED BY <1>1, Invariant, PTL DEF Spec, CrashExplained

-------------------------------------------------------------------------------
(* What the observers know of a key that is not in doubt when they are to  *)
(* be told of it: nothing if it is an insert, and then nobody else is to   *)
(* tell them; the row, or what it was, if it is anything else.             *)
Knows(k) ==
  /\ \A t \in Threads : Tells(t, k) => (view[k] = None <=> Op(t) = "insert")
  /\ \A t, u \in Threads : Tells(t, k) /\ Tells(u, k) /\ Op(t) = "insert" => t = u

KInv == IInv /\ \A k \in Keys \ doubt : Knows(k)

(* A step of a thread that leaves the copy as it is and has not come to    *)
(* tell of k.                                                              *)
LEMMA SameKnowledge ==
  ASSUME Types, NEW t \in Threads, Solo(t), NEW k \in Keys, Knows(k), view'[k] = view[k],
         Tells(t, k)' => Tells(t, k) /\ Op(t)' = Op(t)
  PROVE  Knows(k)'
<1>1. \A u \in Threads : Tells(u, k)' => Tells(u, k) /\ Op(u)' = Op(u)
    <2> SUFFICES ASSUME NEW u \in Threads, u # t, Tells(u, k)'
                 PROVE  Tells(u, k) /\ Op(u)' = Op(u)
        OBVIOUS
    <2>1. pc'[u] = pc[u] /\ cur'[u] = cur[u] /\ call'[u] = call[u]
        BY DEF Types, Solo
    <2> QED BY <2>1 DEF Tells, Op
<1> QED BY <1>1 DEF Knows

(* Who has modified a row tells what the observers do not yet know.        *)
LEMMA Modified ==
  ASSUME IInv, NEW t \in Threads, Solo(t), NEW k \in Keys \ doubt, Knows(k),
         pc[t] \in {"enter", "loop"}, view' = view,
         Op(t)' = Op(t), Op(t) # "insert", rows[k] # None, ~Overtakes(t, k, Deletes(t)),
         owner \in {None, t}
  PROVE  Knows(k)'
<1>0. Types /\ Sure(k) /\ None \notin Threads
    BY TableAssumption DEF IInv, TableAssumption
<1>1. \A u \in Threads : ~HasTold(u, k) /\ (Tells(u, k) => u # t /\ owner # u /\ Op(u) # "insert")
    <2>1. ASSUME NEW u \in Threads PROVE ~HasTold(u, k)
        BY <1>0 DEF HasTold
    <2>2. ASSUME NEW u \in Threads, Tells(u, k) PROVE u # t /\ owner # u /\ Op(u) # "insert"
        BY <1>0, <2>2 DEF Tells, Overtakes, Untold
    <2> QED BY <2>1, <2>2
<1>2. view[k] # None
    BY <1>0, <1>1 DEF Sure, Knows
<1>3. \A u \in Threads : Tells(u, k)' => Op(u)' # "insert"
    <2> SUFFICES ASSUME NEW u \in Threads, u # t, Tells(u, k)' PROVE Op(u)' # "insert"
        OBVIOUS
    <2>1. pc'[u] = pc[u] /\ cur'[u] = cur[u] /\ call'[u] = call[u]
        BY <1>0 DEF Types, Solo
    <2> QED BY <1>1, <2>1 DEF Tells, Op
<1> QED BY <1>2, <1>3 DEF Knows

LEMMA KnowsStep ==
  ASSUME KInv, NEW t \in Threads, Step(t), NEW j \in Keys \ doubt'
  PROVE  Knows(j)'
<1>0. /\ IInv /\ Types /\ (\A u \in Threads : Frame(u)) /\ Solo(t)
      /\ None \notin Threads /\ None \notin Keys
    BY TableAssumption, OthersStay DEF KInv, IInv, TableAssumption
<1>1. j \in Keys \ doubt
    BY DEF Step, Begin, Insert, UpdateByKey, GetByKey, Lock, Visit, Unlock, Notify, Reenter,
           Erase, Select, Advance, Drop, history
<1>2. Sure(j) /\ Knows(j)
    BY <1>0, <1>1 DEF IInv, KInv
<1>3. CASE \/ Begin(t) \/ GetByKey(t) \/ Lock(t) \/ Unlock(t) \/ Reenter(t) \/ Erase(t)
           \/ Select(t) \/ Advance(t) \/ Drop(t)
    <2>1. view' = view
        BY <1>3 DEF Begin, GetByKey, Lock, Unlock, Reenter, Erase, Select, Advance, Drop
    <2>2. ~Tells(t, j)'
        BY <1>0, <1>3 DEF Types, Tells, Begin, GetByKey, Lock, Unlock, Reenter, AfterNotify,
                          Erase, Select, Advance, Drop, Return, Goto
    <2> QED BY <1>0, <1>1, <1>2, <2>1, <2>2, SameKnowledge
<1>4. CASE Insert(t)
    <2>1. PICK k \in Keys : k = KeyOf(t)
        BY <1>0, <1>4, KeyOfIsKey DEF Insert, Frame
    <2>2. /\ view' = view /\ Op(t)' = Op(t) /\ Op(t) = "insert" /\ owner = None
          /\ pc[t] = "enter" /\ pc'[t] = "notify" /\ cur'[t] = k
        BY <1>0, <1>4, <2>1 DEF Types, Insert, At, Goto, Op
    <2>3. CASE j # k
        BY <1>0, <1>1, <1>2, <2>2, <2>3, SameKnowledge DEF Tells
    <2>4. CASE j = k
        <3>1. rows[j] = None
            BY <1>1, <1>4, <2>1, <2>4 DEF Insert
        <3>2. \A u \in Threads : ~Tells(u, j) /\ ~HasTold(u, j)
            BY <1>0, <1>1, <1>2, <3>1, NewRowIsRow DEF Sure
        <3>3. view[j] = None
            BY <1>2, <3>1, <3>2 DEF Sure
        <3>4. \A u \in Threads : Tells(u, j)' => u = t
            BY <1>0, <3>2 DEF Types, Solo, Tells
        <3> QED BY <2>2, <3>3, <3>4 DEF Knows
    <2> QED BY <2>3, <2>4
<1>5. CASE UpdateByKey(t)
    <2>1. PICK k \in Keys : k = KeyOf(t)
        BY <1>0, <1>5, KeyOfIsKey DEF UpdateByKey, Frame
    <2>2. view' = view /\ owner = None /\ pc[t] = "enter"
        BY <1>5 DEF UpdateByKey
    <2>3. CASE rows[k] = None
        <3>1. ~Tells(t, j)'
            BY <1>0, <1>5, <2>1, <2>3 DEF Types, UpdateByKey, Return, Goto, Tells
        <3> QED BY <1>0, <1>1, <1>2, <2>2, <3>1, SameKnowledge
    <2>4. CASE rows[k] # None
        <3>1. cur'[t] = k /\ Op(t)' = Op(t) /\ (j = k => Op(t) = "updateByKey" /\ ~Overtakes(t, j, FALSE))
            BY <1>0, <1>1, <1>5, <2>1, <2>4 DEF Types, UpdateByKey, At, Goto, Op
        <3>2. CASE j # k
            BY <1>0, <1>1, <1>2, <2>2, <3>1, <3>2, SameKnowledge DEF Tells
        <3>3. CASE j = k
            <4>1. ~Deletes(t) /\ Op(t) # "insert"
                BY <3>1, <3>3 DEF Deletes
            <4>2. ~Overtakes(t, j, Deletes(t))
                BY <3>1, <3>3, <4>1 DEF Overtakes
            <4> QED BY <1>0, <1>1, <1>2, <2>2, <2>4, <3>1, <3>3, <4>1, <4>2, Modified
        <3> QED BY <3>2, <3>3
    <2> QED BY <2>3, <2>4
<1>6. CASE Visit(t)
    <2>1. PICK k \in todo[t] :
             /\ doubt' = IF Overtakes(t, k, Deletes(t)) THEN doubt \cup {k} ELSE doubt
             /\ cur' = [cur EXCEPT ![t] = k]
        BY <1>6 DEF Visit
    <2>2. view' = view /\ Op(t)' = Op(t) /\ pc[t] = "loop" /\ owner = t /\ Op(t) # "insert"
        BY <1>0, <1>6 DEF Visit, Op, Frame, Locked
    <2>3. CASE j # k
        BY <1>0, <1>1, <1>2, <2>1, <2>2, <2>3, SameKnowledge DEF Types, Tells
    <2>4. CASE j = k
        <3>1. rows[j] # None /\ ~Overtakes(t, j, Deletes(t))
            BY <1>1, <1>2, <2>1, <2>2, <2>4 DEF Sure
        <3> QED BY <1>0, <1>1, <1>2, <2>2, <3>1, Modified
    <2> QED BY <2>3, <2>4
<1>7. CASE Notify(t)
    <2>1. PICK k \in Keys : k = cur[t]
        BY <1>0, <1>7 DEF Notify, Frame, At3
    <2>2. ~Tells(t, j)' /\ pc[t] = "notify" /\ rows' = rows
        BY <1>0, <1>7 DEF Types, Notify, AfterNotify, Return, Goto, Tells, data
    <2>3. CASE j # k
        <3>1. PICK r : view' = view \/ view' = [view EXCEPT ![k] = r]
            BY <1>7, <2>1 DEF Notify
        <3>2. view'[j] = view[j]
            BY <1>0, <2>3, <3>1 DEF Types
        <3> QED BY <1>0, <1>1, <1>2, <2>2, <3>2, SameKnowledge
    <2>4. CASE j = k
        <3>1. Tells(t, j) /\ ~Gone(t)
            BY <1>2, <2>1, <2>2, <2>4 DEF Tells, Gone, Sure
        <3>2. view'[j] = IF Deletes(t) THEN None ELSE Told(t)
            BY <1>0, <1>7, <2>1, <2>4, <3>1 DEF Types, Notify
        <3>3. ASSUME NEW u \in Threads, Tells(u, j)'
              PROVE  /\ u # t /\ Tells(u, j) /\ Op(u)' = Op(u) /\ Op(u) # "insert"
                     /\ Op(t) # "insert" /\ ~Deletes(t)
            <4>1. u # t
                BY <2>2, <3>3
            <4>2. Tells(u, j) /\ Op(u)' = Op(u)
                BY <1>0, <3>3, <4>1 DEF Types, Solo, Tells, Op
            <4> QED BY <1>2, <3>1, <4>1, <4>2 DEF Knows, Sure
        <3>4. ASSUME Op(t) # "insert", ~Deletes(t) PROVE view'[j] # None
            BY <1>2, <2>1, <2>4, <3>1, <3>2, <3>4 DEF Told, Sure
        <3> QED BY <3>3, <3>4 DEF Knows
    <2> QED BY <2>3, <2>4
<1> QED BY <1>3, <1>4, <1>5, <1>6, <1>7 DEF Step

(* For a key that is not in doubt the observers are told of an insert only *)
(* if they do not know its row, and of an update or a deletion only if     *)
(* they do (HashMapTable.hpp:142-308).                                     *)
THEOREM ToldAsItHappens == Spec => ToldInOrder
<1>1. Init => KInv
    BY InitIInv DEF Init, KInv, Knows, Tells
<1>2. KInv /\ [Next]_vars => KInv'
    <2>1. ASSUME KInv, NEW t \in Threads, Step(t) PROVE KInv'
        BY <2>1, StepIInv, KnowsStep DEF KInv
    <2>2. ASSUME KInv, UNCHANGED vars PROVE KInv'
        <3>1. view' = view /\ pc' = pc /\ cur' = cur /\ call' = call /\ doubt' = doubt
            BY <2>2 DEF vars, frame, history
        <3>2. IInv'
            BY <2>2, StutterIInv DEF KInv
        <3> QED BY <2>2, <3>1, <3>2 DEF KInv, Knows, Tells, Op
    <2> QED BY <2>1, <2>2 DEF Next, End
<1> DEFINE InOrder == \A t \in Threads :
             Notify(t) /\ cur[t] \notin doubt => (view[cur[t]] = None <=> Op(t) = "insert")
<1>3. KInv => InOrder
    <2> SUFFICES ASSUME KInv, NEW t \in Threads, Notify(t), cur[t] \notin doubt
                 PROVE  view[cur[t]] = None <=> Op(t) = "insert"
        OBVIOUS
    <2>1. pc[t] = "notify" /\ cur[t] \in Keys
        BY DEF Notify, KInv, IInv, Frame, At3
    <2> QED BY <2>1 DEF KInv, Knows, Tells
<1>4. KInv /\ [Next]_vars => [InOrder]_vars
    BY <1>3
<1> QED BY <1>1, <1>2, <1>4, PTL DEF Spec, ToldInOrder

-------------------------------------------------------------------------------
(* A row is under its own key.                                             *)
Filed == \A k \in Present : rows[k].data[1] = k

LEMMA RowsFiled ==
  ASSUME Types, Filed, NEW t \in Threads, Frame(t), Step(t)
  PROVE  Filed'
<1>1. \A k \in Keys : NewRow(t, k).data[1] = k /\ Copy(NewRow(t, k)).data[1] = k
    BY DEF NewRow, Copy, Tuple
<1>2. CASE Insert(t)
    BY <1>1, <1>2, KeyOfIsKey DEF Types, Filed, Present, Insert, data, Frame
<1>3. CASE UpdateByKey(t)
    BY <1>1, <1>3, KeyOfIsKey DEF Types, Filed, Present, UpdateByKey, data, Frame
<1>4. CASE Visit(t)
    BY <1>1, <1>4 DEF Types, Filed, Present, Visit
<1>5. CASE Erase(t) \/ Drop(t)
    BY <1>5 DEF Types, Filed, Present, Erase, Drop
<1>6. CASE \/ Begin(t) \/ GetByKey(t) \/ Lock(t) \/ Unlock(t) \/ Notify(t)
           \/ Reenter(t) \/ Select(t) \/ Advance(t)
    BY <1>6 DEF Filed, Present, Begin, GetByKey, Lock, Unlock, Notify, Reenter, Select,
                Advance, data
<1> QED BY <1>2, <1>3, <1>4, <1>5, <1>6 DEF Step

LEMMA TypeOKStep ==
  ASSUME IInv, TypeOK, NEW t \in Threads, Step(t)
  PROVE  TypeOK'
<1>1. Types /\ Types' /\ Frame(t) /\ Solo(t) /\ Filed /\ Filed'
    BY TypesHold, OthersStay, RowsFiled DEF IInv, TypeOK, Filed
<1>2. calls' \in [Threads -> 0 .. MaxCalls]
    <2>1. CASE Begin(t)
        BY <2>1, TableAssumption DEF TableAssumption, TypeOK, Begin
    <2>2. CASE ~Begin(t)
        BY <2>2 DEF TypeOK, Step, Insert, At, UpdateByKey, GetByKey, Return, Lock, Visit, Unlock,
                    Notify, AfterNotify, Reenter, Erase, Select, Advance, Drop, frame
    <2> QED BY <2>1, <2>2
<1>3. view' \in [Keys -> Rows \cup {None}]
    <2>1. CASE Notify(t)
        <3>1. cur[t] \in Keys /\ NewRow(t, cur[t]) \in Rows /\ Told(t) \in Rows \cup {None}
            BY <1>1, <2>1, NewRowIsRow DEF Notify, Frame, At3, Told, Types
        <3> QED BY <2>1, <3>1 DEF TypeOK, Notify
    <2>2. CASE ~Notify(t)
        BY <2>2 DEF TypeOK, Step, Begin, Insert, UpdateByKey, GetByKey, Lock, Visit, Unlock,
                    Reenter, Erase, Select, Advance, Drop
    <2> QED BY <2>1, <2>2
<1>4. doubt' \subseteq Keys
    <2>1. CASE Insert(t) \/ UpdateByKey(t)
        BY <1>1, <2>1, KeyOfIsKey DEF TypeOK, Insert, UpdateByKey, history, Frame
    <2>2. CASE Visit(t)
        BY <1>1, <2>2 DEF TypeOK, Visit, Types
    <2>3. CASE Drop(t)
        BY <2>3 DEF TypeOK, Drop, Present
    <2>4. CASE ~Insert(t) /\ ~UpdateByKey(t) /\ ~Visit(t) /\ ~Drop(t)
        BY <2>4 DEF TypeOK, Step, Begin, GetByKey, Lock, Unlock, Notify, Reenter, Erase, Select,
                    Advance, history
    <2> QED BY <2>1, <2>2, <2>3, <2>4
<1>5. disturbed' \subseteq Threads /\ reenters' \in BOOLEAN
    BY DEF TypeOK, Step, Disturb, Scans, Begin, Insert, UpdateByKey, GetByKey, Lock, Visit, Unlock,
           Notify, Reenter, Erase, Select, Advance, Drop, history
<1> QED BY <1>1, <1>2, <1>3, <1>4, <1>5 DEF TypeOK, Types, Filed

(* The types, and that each row is filed under its own key: an update      *)
(* writes its row under the key that it was found at.                      *)
THEOREM TypeCorrect == Spec => []TypeOK
<1>1. Init => TypeOK
    <2> SUFFICES ASSUME Init PROVE TypeOK
        OBVIOUS
    <2>1. Types
        BY InitIInv DEF IInv
    <2>2. \A k \in Keys : rows[k].data[1] = k
        BY DEF Init, Tuple
    <2>3. calls \in [Threads -> 0 .. MaxCalls] /\ view \in [Keys -> Rows \cup {None}]
        BY <2>1, TableAssumption DEF TableAssumption, Init, Types
    <2>4. reenters \in BOOLEAN /\ doubt \subseteq Keys /\ disturbed \subseteq Threads
        BY DEF Init
    <2> QED BY <2>1, <2>2, <2>3, <2>4 DEF TypeOK, Types, Present
<1>2. IInv /\ TypeOK /\ [Next]_vars => TypeOK'
    <2> SUFFICES ASSUME IInv, TypeOK, [Next]_vars PROVE TypeOK'
        OBVIOUS
    <2>1. CASE UNCHANGED vars
        BY <2>1 DEF TypeOK, Present, vars, data, frame, history
    <2>2. CASE \E t \in Threads : Step(t)
        BY <2>2, TypeOKStep
    <2> QED BY <2>1, <2>2 DEF Next, End
<1> QED BY <1>1, <1>2, Invariant, PTL DEF Spec
===============================================================================
