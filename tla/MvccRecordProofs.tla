--------------------------- MODULE MvccRecordProofs ---------------------------
(***************************************************************************)
(* The theorems about MvccRecord, for any number of transactions, records  *)
(* and calls, any programs, and any order in which main collects.          *)
(***************************************************************************)
EXTENDS MvccRecord, TLAPS

-------------------------------------------------------------------------------
(* Typing.  To type the calls a thread makes one must know that it is      *)
(* executing one (its counter is past the last call exactly when it is     *)
(* done) and that `expected` is set where it is used.                      *)

ControlOK ==
  \A t \in Txns :
    /\ pc[t] = "done" <=> opno[t] = MaxOps + 1
    /\ pc[t] \notin {"load", "done"} => expected[t] \in Snapshots /\ Kind(t) # "read"
    /\ pc[t] \in {"cas", "link"} => Kind(t) # "delete"

TypeInv == TypeOK /\ ControlOK

(* The current call of a thread that is not done is one of its program.    *)
LEMMA CurrentCall ==
  ASSUME TypeInv, NEW t \in Txns, pc[t] # "done"
  PROVE  /\ opno[t] \in 1 .. MaxOps
         /\ prog[t][opno[t]] \in Calls
         /\ Kind(t) \in Kinds
         /\ Rec(t) \in Records
         /\ Mine(t) \in Cells
<1>1. opno[t] \in 1 .. MaxOps
  BY BoundAssumption DEF TypeInv, TypeOK, ControlOK
<1>2. prog[t] \in [1 .. MaxOps -> Calls]
  BY DEF TypeInv, TypeOK
<1>3. prog[t][opno[t]] \in Calls
  BY <1>1, <1>2
<1>4. QED
  BY <1>1, <1>3 DEF Calls, Kind, Rec, Mine, Cells

LEMMA CellsAreSnapshots == Cells \subseteq Snapshots
  BY DEF Snapshots

LEMMA InitialTyped == Initial \in [Records -> Snapshots]
  BY DEF Initial, Snapshots

(* Return and Goto keep the control state of the other threads, and the    *)
(* counter of the thread itself within bounds.                             *)
LEMMA GotoTyped ==
  ASSUME TypeInv, NEW t \in Txns, NEW l \in Labels, Goto(t, l)
  PROVE  opno' \in [Txns -> 1 .. MaxOps + 1] /\ pc' \in [Txns -> Labels]
  BY DEF Goto, TypeInv, TypeOK

LEMMA ReturnTyped ==
  ASSUME TypeInv, NEW t \in Txns, pc[t] # "done", Return(t)
  PROVE  /\ opno' \in [Txns -> 1 .. MaxOps + 1]
         /\ pc' \in [Txns -> Labels]
         /\ pc'[t] \in {"load", "done"}
         /\ pc'[t] = "done" <=> opno'[t] = MaxOps + 1
         /\ \A u \in Txns \ {t} : opno'[u] = opno[u] /\ pc'[u] = pc[u]
<1>1. opno[t] \in 1 .. MaxOps
  BY CurrentCall
<1>2. opno[t] + 1 \in 1 .. MaxOps + 1
  BY <1>1, BoundAssumption
<1>3. QED
  BY <1>1, <1>2, BoundAssumption DEF Return, TypeInv, TypeOK, Labels

LEMMA TypeInvInit == Init => TypeInv
<1> SUFFICES ASSUME Init PROVE TypeInv
  OBVIOUS
<1>1. TypeOK
  <2>1. head \in [Records -> Snapshots]
    BY InitialTyped DEF Init
  <2>2. opno \in [Txns -> 1 .. MaxOps + 1] /\ pc \in [Txns -> Labels]
    BY BoundAssumption DEF Init, Labels
  <2>3. value \in [Snapshots -> SUBSET Snapshots]
    BY DEF Init
  <2>4. QED
    BY <2>1, <2>2, <2>3, ProgramsAssumption DEF Init, TypeOK
<1>2. ControlOK
  <2>1. \A t \in Txns : pc[t] = "load" /\ opno[t] = 1
    BY DEF Init
  <2>2. 1 # MaxOps + 1
    BY BoundAssumption
  <2>3. QED
    BY <2>1, <2>2 DEF ControlOK
<1>3. QED
  BY <1>1, <1>2 DEF TypeInv

LEMMA TypeInvStep == TypeInv /\ [Next]_vars => TypeInv'
<1> SUFFICES ASSUME TypeInv, [Next]_vars PROVE TypeInv'
  OBVIOUS
<1>1. ASSUME NEW t \in Txns, Read(t) PROVE TypeInv'
  <2>1. opno' \in [Txns -> 1 .. MaxOps + 1] /\ pc' \in [Txns -> Labels]
    BY <1>1, ReturnTyped DEF Read
  <2>2. head[Rec(t)] \in Snapshots
    BY <1>1, CurrentCall DEF Read, TypeInv, TypeOK
  <2>3. TypeOK'
    BY <1>1, <2>1, <2>2 DEF Read, TypeInv, TypeOK
  <2>4. ControlOK'
    BY <1>1, ReturnTyped DEF Read, TypeInv, TypeOK, ControlOK, Kind
  <2>5. QED
    BY <2>3, <2>4 DEF TypeInv
<1>2. ASSUME NEW t \in Txns, Load(t) PROVE TypeInv'
  <2>1. head[Rec(t)] \in Snapshots /\ Mine(t) \in Snapshots
    BY <1>2, CurrentCall, CellsAreSnapshots DEF Load, TypeInv, TypeOK
  <2>2. value' \in [Snapshots -> SUBSET Snapshots]
    BY <1>2, <2>1 DEF Load, TypeInv, TypeOK
  <2>3. TypeOK'
    BY <1>2, <2>1, <2>2 DEF Load, Goto, TypeInv, TypeOK, Labels
  <2>4. ControlOK'
    BY <1>2, <2>1 DEF Load, Goto, TypeInv, TypeOK, ControlOK, Kind
  <2>5. QED
    BY <2>3, <2>4 DEF TypeInv
<1>3. ASSUME NEW t \in Txns, ReadEnd(t) PROVE TypeInv'
  <2>1. expected[t] \in Snapshots /\ Mine(t) \in Snapshots
    BY <1>3, CurrentCall, CellsAreSnapshots DEF ReadEnd, TypeInv, ControlOK
  <2>2. value[expected[t]] \cup {Mine(t)} \in SUBSET Snapshots
    BY <2>1 DEF TypeInv, TypeOK
  <2>3. value' \in [Snapshots -> SUBSET Snapshots]
    BY <1>3, <2>2 DEF ReadEnd, TypeInv, TypeOK
  <2>4. TypeOK'
    BY <1>3, <2>1, <2>3 DEF ReadEnd, Goto, TypeInv, TypeOK, Labels
  <2>5. ControlOK'
    BY <1>3, <2>1 DEF ReadEnd, Goto, TypeInv, TypeOK, ControlOK, Kind
  <2>6. QED
    BY <2>4, <2>5 DEF TypeInv
<1>4. ASSUME NEW t \in Txns, Goto(t, "load") \/ Return(t), pc[t] \in {"check", "cas"},
             UNCHANGED <<head, older, endv, value, status, prog, expected, seenEnd>>
      PROVE  TypeInv'
  <2>1. CASE Goto(t, "load")
    <3>1. TypeOK'
      BY <1>4, <2>1 DEF Goto, TypeInv, TypeOK, Labels
    <3>2. ControlOK'
      BY <1>4, <2>1 DEF Goto, TypeInv, TypeOK, ControlOK, Kind
    <3>3. QED
      BY <3>1, <3>2 DEF TypeInv
  <2>2. CASE Return(t)
    <3>1. TypeOK'
      BY <1>4, <2>2, ReturnTyped DEF TypeInv, TypeOK
    <3>2. ControlOK'
      BY <1>4, <2>2, ReturnTyped DEF TypeInv, TypeOK, ControlOK, Kind
    <3>3. QED
      BY <3>1, <3>2 DEF TypeInv
  <2>3. QED
    BY <1>4, <2>1, <2>2
<1>5. ASSUME NEW t \in Txns, Check(t) PROVE TypeInv'
  <2>1. CASE Fail(t)
    BY <1>4, <1>5, <2>1 DEF Check, Fail
  <2>2. CASE Goto(t, "stamp")
    <3>1. TypeOK'
      BY <1>5, <2>2 DEF Check, Goto, TypeInv, TypeOK, Labels
    <3>2. ControlOK'
      BY <1>5, <2>2 DEF Check, Goto, TypeInv, TypeOK, ControlOK, Kind
    <3>3. QED
      BY <3>1, <3>2 DEF TypeInv
  <2>3. QED
    BY <1>5, <2>1, <2>2 DEF Check
<1>6. ASSUME NEW t \in Txns, Stamp(t) PROVE TypeInv'
  <2>1. endv' \in [Snapshots -> Txns \cup {INF}]
    BY <1>6 DEF Stamp, TypeInv, TypeOK
  <2>2. CASE Kind(t) = "delete"
    <3>1. TypeOK'
      BY <1>6, <2>1, <2>2, ReturnTyped DEF Stamp, TypeInv, TypeOK
    <3>2. ControlOK'
      <4>1. /\ Return(t) /\ pc[t] # "done"
            /\ expected' = expected /\ prog' = prog
        BY <1>6, <2>2 DEF Stamp
      <4>2. /\ pc'[t] \in {"load", "done"} /\ (pc'[t] = "done" <=> opno'[t] = MaxOps + 1)
            /\ \A u \in Txns \ {t} : opno'[u] = opno[u] /\ pc'[u] = pc[u]
        BY <4>1, ReturnTyped
      <4>3. QED
        BY <4>1, <4>2 DEF TypeInv, ControlOK, Kind
    <3>3. QED
      BY <3>1, <3>2 DEF TypeInv
  <2>3. CASE Kind(t) # "delete"
    <3>1. TypeOK'
      BY <1>6, <2>1, <2>3 DEF Stamp, Goto, TypeInv, TypeOK, Labels
    <3>2. ControlOK'
      BY <1>6, <2>3 DEF Stamp, Goto, TypeInv, TypeOK, ControlOK, Kind
    <3>3. QED
      BY <3>1, <3>2 DEF TypeInv
  <2>4. QED
    BY <2>2, <2>3
<1>7. ASSUME NEW t \in Txns, Install(t) PROVE TypeInv'
  <2>1. Mine(t) \in Snapshots
    BY <1>7, CurrentCall, CellsAreSnapshots DEF Install
  <2>2. TypeOK'
    BY <1>7, <2>1 DEF Install, Goto, TypeInv, TypeOK, Labels
  <2>3. ControlOK'
    BY <1>7 DEF Install, Goto, TypeInv, TypeOK, ControlOK, Kind
  <2>4. QED
    BY <2>2, <2>3 DEF TypeInv
<1>8. ASSUME NEW t \in Txns, LoseRace(t) PROVE TypeInv'
  BY <1>4, <1>8 DEF LoseRace, Fail
<1>9. ASSUME NEW t \in Txns, LinkOlder(t) PROVE TypeInv'
  <2>1. expected[t] \in Snapshots
    BY <1>9 DEF LinkOlder, TypeInv, ControlOK
  <2>2. TypeOK'
    BY <1>9, <2>1, ReturnTyped DEF LinkOlder, TypeInv, TypeOK
  <2>3. ControlOK'
    BY <1>9, ReturnTyped DEF LinkOlder, TypeInv, TypeOK, ControlOK, Kind
  <2>4. QED
    BY <2>2, <2>3 DEF TypeInv
<1>10. ASSUME NEW t \in Everyone, Collect(t) PROVE TypeInv'
  BY <1>10 DEF Collect, TypeInv, TypeOK, ControlOK, Kind
<1>11. CASE UNCHANGED vars
  BY <1>11 DEF vars, TypeInv, TypeOK, ControlOK, Kind
<1>12. QED
  BY <1>1, <1>2, <1>3, <1>5, <1>6, <1>7, <1>8, <1>9, <1>10, <1>11 DEF Next, Step

(* The shared fields and the locals of the calls always have their types.  *)
THEOREM TypeCorrect == Spec => []TypeOK
<1>1. Init => TypeInv
  BY TypeInvInit
<1>2. TypeInv /\ [Next]_vars => TypeInv'
  BY TypeInvStep
<1>3. TypeInv => TypeOK
  BY DEF TypeInv
<1>4. QED
  BY <1>1, <1>2, <1>3, PTL DEF Spec

-------------------------------------------------------------------------------
(* The inductive invariant.  The descent of versions is fixed by `older`   *)
(* for the calls that have returned and by the local `expected` of the     *)
(* calls between their compare-and-swap and their link, so the invariant   *)
(* says what a call may rely on at each of its accesses.                   *)

(* Only a call that has returned has linked its snapshot.                  *)
LinksOK == \A t \in Txns, n \in 1 .. MaxOps : older[<<t, n>>] # Null => n < opno[t]

(* The first version of a record has no older one.                         *)
BirthOK == \A r \in Records : older[Initial[r]] = Null

(* A call works on an installed snapshot of its own record.                *)
ExpectedOK == \A t \in Txns : pc[t] \notin {"load", "done"} =>
                expected[t] \in Installed /\ Home(expected[t]) = Rec(t)

HeadOK == \A r \in Records : head[r] \in Installed /\ Home(head[r]) = r

PredOK == \A s \in Installed : Pred(s) # Null =>
            Pred(s) \in Installed /\ Home(Pred(s)) = Home(s)

Chain == HeadOK /\ PredOK /\ SingleLine

(* Nobody ends a snapshot that only its maker knows.                       *)
EndInstalled == \A s \in Snapshots : endv[s] # INF => s \in Installed

(* A call that is about to replace a snapshot has ended it.                *)
CasEnded == \A t \in Txns : pc[t] \in {"cas", "link"} => endv[expected[t]] # INF

Ends == EndInstalled /\ CasEnded /\ SupersededEnded /\ HeadEndExplained

(* The value of `desired`, once it is computed.                            *)
DesiredOK ==
  \A t \in Txns :
    /\ pc[t] \in {"check", "stamp", "cas"}
       /\ Kind(t) \in {"update", "try_update", "try_update_until"}
         => value[Mine(t)] = value[expected[t]] \cup {Mine(t)}
    /\ pc[t] \in {"readEnd", "check", "stamp", "cas"} /\ Kind(t) = "overwrite"
         => value[Mine(t)] = {Mine(t)}

Values == DesiredOK /\ NoLostUpdate

Links == LinksOK /\ BirthOK /\ ExpectedOK

IInv == TypeInv /\ Links /\ Chain /\ Ends /\ Values

-------------------------------------------------------------------------------
(* How the descent of versions changes: by Install alone.                  *)

(* A snapshot is a cell of a call or the first version of a record.        *)
LEMMA SnapshotCases ==
  ASSUME NEW s \in Snapshots
  PROVE  \/ \E t \in Txns, n \in 1 .. MaxOps : s = <<t, n>> /\ s \in Cells
         \/ \E r \in Records : s = Initial[r] /\ s \notin Cells /\ s[1] = Loader /\ s[2] = r
  BY NamesAssumption DEF Snapshots, Cells, Initial

LEMMA PredOfCell ==
  ASSUME NEW t \in Txns, NEW n \in 1 .. MaxOps
  PROVE  Pred(<<t, n>>) = IF older[<<t, n>>] # Null THEN older[<<t, n>>]
                          ELSE IF opno[t] = n /\ pc[t] = "link" THEN expected[t]
                          ELSE Null
  BY DEF Pred, Version, Mine

LEMMA PredOfInitial ==
  ASSUME BirthOK, NEW r \in Records
  PROVE  Pred(Initial[r]) = Null
  BY NamesAssumption DEF BirthOK, Pred, Version, Initial

(* A step that links nothing and installs nothing changes no descent.      *)
LEMMA QuietPred ==
  ASSUME TypeInv, older' = older, prog' = prog,
         \A t \in Txns : /\ pc'[t] = "link" <=> pc[t] = "link"
                         /\ pc[t] = "link" => opno'[t] = opno[t] /\ expected'[t] = expected[t]
  PROVE  /\ \A s \in Snapshots : Pred(s)' = Pred(s) /\ Home(s)' = Home(s)
         /\ Installed' = Installed
<1>1. ASSUME NEW s \in Snapshots PROVE Pred(s)' = Pred(s)
  BY SnapshotCases, NamesAssumption DEF Pred, Version, Mine
<1>2. ASSUME NEW s \in Snapshots PROVE Home(s)' = Home(s)
  BY DEF Home
<1>3. QED
  BY <1>1, <1>2 DEF Installed

(* The cell of a call that has not installed it yet.                       *)
LEMMA MineFresh ==
  ASSUME TypeInv, LinksOK, NEW t \in Txns, pc[t] \notin {"link", "done"}
  PROVE  /\ Mine(t) \in Cells /\ Mine(t) \in Snapshots
         /\ older[Mine(t)] = Null
         /\ Mine(t) \notin Installed
         /\ Home(Mine(t)) = Rec(t)
<1>1. opno[t] \in 1 .. MaxOps /\ Mine(t) \in Cells /\ Mine(t) \in Snapshots
  BY CurrentCall, CellsAreSnapshots
<1>2. older[Mine(t)] = Null
  BY <1>1 DEF LinksOK, Mine
<1>3. Pred(Mine(t)) = Null
  BY <1>1, <1>2, PredOfCell DEF Mine
<1>4. Home(Mine(t)) = Rec(t)
  BY <1>1 DEF Home, Mine, Rec
<1>5. QED
  BY <1>1, <1>2, <1>3, <1>4 DEF Installed

(* Linking a snapshot records the descent it has already.                  *)
LEMMA LinkPred ==
  ASSUME TypeInv, Links, NEW t \in Txns, LinkOlder(t)
  PROVE  /\ \A s \in Snapshots : Pred(s)' = Pred(s) /\ Home(s)' = Home(s)
         /\ Installed' = Installed
<1>1. /\ pc[t] = "link"
      /\ opno[t] \in 1 .. MaxOps
      /\ Mine(t) \in Snapshots
      /\ expected[t] \in Snapshots
  BY CurrentCall, CellsAreSnapshots DEF LinkOlder, TypeInv, ControlOK
<1>2. older[Mine(t)] = Null
  BY <1>1 DEF Links, LinksOK, Mine
<1>3. /\ older' = [older EXCEPT ![Mine(t)] = expected[t]]
      /\ expected' = expected /\ prog' = prog
      /\ pc'[t] \in {"load", "done"}
      /\ \A u \in Txns \ {t} : opno'[u] = opno[u] /\ pc'[u] = pc[u]
  BY <1>1, ReturnTyped DEF LinkOlder
<1>4. ASSUME NEW s \in Snapshots PROVE Pred(s)' = Pred(s)
  <2>1. CASE s = Mine(t)
    <3>1. Pred(s) = expected[t]
      BY <1>1, <1>2, <2>1 DEF Pred, Version, Mine
    <3>2. older'[s] = expected[t] /\ expected[t] # Null
      BY <1>1, <1>3, <2>1, NamesAssumption DEF TypeInv, TypeOK
    <3>3. Pred(s)' = expected[t]
      BY <3>2 DEF Pred
    <3>4. QED
      BY <3>1, <3>3
  <2>2. CASE s # Mine(t)
    <3>1. older'[s] = older[s]
      BY <1>1, <1>3, <2>2 DEF TypeInv, TypeOK
    <3>2. CASE Version(s) = t
      <4>1. Pred(s) = IF older[s] # Null THEN older[s] ELSE Null
        BY <2>2, <3>2 DEF Pred
      <4>2. Pred(s)' = IF older'[s] # Null THEN older'[s] ELSE Null
        BY <1>3, <3>2 DEF Pred, Version
      <4>3. QED
        BY <3>1, <4>1, <4>2
    <3>3. CASE Version(s) # t
      BY <1>3, <3>1, <3>3 DEF Pred, Version, Mine
    <3>4. QED
      BY <3>2, <3>3
  <2>3. QED
    BY <2>1, <2>2
<1>5. ASSUME NEW s \in Snapshots PROVE Home(s)' = Home(s)
  BY <1>3 DEF Home
<1>6. QED
  BY <1>4, <1>5 DEF Installed

(* Installing a snapshot makes it the successor of the head, and changes   *)
(* no other descent.                                                       *)
LEMMA InstallPred ==
  ASSUME TypeInv, Links, NEW t \in Txns, Install(t)
  PROVE  /\ expected[t] = head[Rec(t)] /\ expected[t] # Null
         /\ Rec(t) \in Records
         /\ head' = [head EXCEPT ![Rec(t)] = Mine(t)]
         /\ Mine(t) \in Cells /\ Mine(t) \in Snapshots /\ Mine(t) \notin Installed
         /\ \A s \in Snapshots : Pred(s)' = IF s = Mine(t) THEN expected[t] ELSE Pred(s)
         /\ \A s \in Snapshots : Home(s)' = Home(s)
         /\ Home(Mine(t)) = Rec(t)
         /\ Installed' = Installed \cup {Mine(t)}
<1>1. pc[t] = "cas" /\ expected[t] = head[Rec(t)]
  BY DEF Install
<1>2. expected[t] \in Snapshots /\ expected[t] # Null
  BY <1>1, NamesAssumption DEF TypeInv, ControlOK
<1>3. /\ Rec(t) \in Records
      /\ Mine(t) \in Cells /\ Mine(t) \in Snapshots /\ Mine(t) \notin Installed
      /\ older[Mine(t)] = Null
      /\ Home(Mine(t)) = Rec(t)
  BY <1>1, CurrentCall, MineFresh DEF Links
<1>4. /\ older' = older /\ prog' = prog /\ opno' = opno /\ expected' = expected
      /\ head' = [head EXCEPT ![Rec(t)] = Mine(t)]
      /\ pc' = [pc EXCEPT ![t] = "link"]
  BY DEF Install, Goto
<1>5. pc'[t] = "link" /\ \A u \in Txns \ {t} : pc'[u] = pc[u]
  BY <1>4 DEF TypeInv, TypeOK
<1>6. ASSUME NEW s \in Snapshots, s = Mine(t) PROVE Pred(s)' = expected[t]
  BY <1>3, <1>4, <1>5, <1>6 DEF Pred, Version, Mine
<1>7. ASSUME NEW s \in Snapshots, s # Mine(t) PROVE Pred(s)' = Pred(s)
  BY <1>4, <1>5, <1>7 DEF Pred, Version, Mine
<1>8. ASSUME NEW s \in Snapshots PROVE Home(s)' = Home(s)
  BY <1>4 DEF Home
<1>9. Installed' = Installed \cup {Mine(t)}
  BY <1>2, <1>3, <1>6, <1>7 DEF Installed
<1>10. QED
  BY <1>1, <1>2, <1>3, <1>4, <1>6, <1>7, <1>8, <1>9

(* What every step but Install leaves as it is.                            *)
QuietDescent ==
  /\ head' = head
  /\ \A s \in Snapshots : Pred(s)' = Pred(s) /\ Home(s)' = Home(s)
  /\ Installed' = Installed

LEMMA Descent ==
  ASSUME TypeInv, Links, [Next]_vars
  PROVE  QuietDescent \/ \E t \in Txns : Install(t)
<1> DEFINE Still == /\ head' = head /\ older' = older /\ prog' = prog
                    /\ \A u \in Txns : /\ pc'[u] = "link" <=> pc[u] = "link"
                                       /\ pc[u] = "link" => opno'[u] = opno[u] /\ expected'[u] = expected[u]
<1>1. Still => QuietDescent
  BY QuietPred DEF QuietDescent
<1>2. ASSUME NEW t \in Txns, NEW l \in Labels \ {"link"}, pc[t] # "link", Goto(t, l)
      PROVE  \A u \in Txns : /\ pc'[u] = "link" <=> pc[u] = "link"
                             /\ opno'[u] = opno[u]
  BY <1>2 DEF Goto, TypeInv, TypeOK
<1>3. ASSUME NEW t \in Txns, pc[t] \notin {"link", "done"}, Return(t)
      PROVE  \A u \in Txns : /\ pc'[u] = "link" <=> pc[u] = "link"
                             /\ pc[u] = "link" => opno'[u] = opno[u]
  BY <1>3, ReturnTyped
<1>4. ASSUME NEW t \in Txns, Read(t) PROVE QuietDescent
  <2>1. expected' = [expected EXCEPT ![t] = head[Rec(t)]] /\ pc[t] = "load"
    BY <1>4 DEF Read
  <2>2. \A u \in Txns : pc[u] = "link" => expected'[u] = expected[u]
    BY <2>1 DEF TypeInv, TypeOK
  <2>3. QED
    BY <1>1, <1>3, <1>4, <2>2 DEF Read
<1>5. ASSUME NEW t \in Txns, Load(t) PROVE QuietDescent
  <2>1. expected' = [expected EXCEPT ![t] = head[Rec(t)]] /\ pc[t] = "load"
    BY <1>5 DEF Load
  <2>2. \A u \in Txns : pc[u] = "link" => expected'[u] = expected[u]
    BY <2>1 DEF TypeInv, TypeOK
  <2>3. "readEnd" \in Labels \ {"link"}
    BY DEF Labels
  <2>4. QED
    BY <1>1, <1>2, <1>5, <2>2, <2>3 DEF Load
<1>6. ASSUME NEW t \in Txns, ReadEnd(t) PROVE QuietDescent
  <2>1. "check" \in Labels \ {"link"}
    BY DEF Labels
  <2>2. QED
    BY <1>1, <1>2, <1>6, <2>1 DEF ReadEnd
<1>7. ASSUME NEW t \in Txns, Check(t) PROVE QuietDescent
  <2>1. "load" \in Labels \ {"link"} /\ "stamp" \in Labels \ {"link"}
    BY DEF Labels
  <2>2. Goto(t, "load") \/ Goto(t, "stamp") \/ Return(t)
    BY <1>7 DEF Check, Fail
  <2>3. QED
    BY <1>1, <1>2, <1>3, <1>7, <2>1, <2>2 DEF Check
<1>8. ASSUME NEW t \in Txns, Stamp(t) PROVE QuietDescent
  <2>1. "cas" \in Labels \ {"link"}
    BY DEF Labels
  <2>2. QED
    BY <1>1, <1>2, <1>3, <1>8, <2>1 DEF Stamp
<1>9. ASSUME NEW t \in Txns, LoseRace(t) PROVE QuietDescent
  <2>1. "load" \in Labels \ {"link"}
    BY DEF Labels
  <2>2. QED
    BY <1>1, <1>2, <1>3, <1>9, <2>1 DEF LoseRace, Fail
<1>10. ASSUME NEW t \in Txns, LinkOlder(t) PROVE QuietDescent
  BY <1>10, LinkPred DEF LinkOlder, QuietDescent
<1>11. ASSUME NEW t \in Everyone, Collect(t) PROVE QuietDescent
  BY <1>1, <1>11 DEF Collect
<1>12. CASE UNCHANGED vars
  BY <1>1, <1>12 DEF vars
<1>13. QED
  BY <1>4, <1>5, <1>6, <1>7, <1>8, <1>9, <1>10, <1>11, <1>12 DEF Next, Step

-------------------------------------------------------------------------------
(* The conjuncts of the invariant, one lemma each.                         *)

LEMMA ChainStep ==
  ASSUME TypeInv, Links, Chain, [Next]_vars
  PROVE  Chain'
<1>1. CASE QuietDescent
  <2>1. Installed \subseteq Snapshots /\ head \in [Records -> Snapshots]
    BY DEF Installed, TypeInv, TypeOK
  <2>2. HeadOK'
    BY <1>1, <2>1 DEF QuietDescent, Chain, HeadOK
  <2>3. PredOK'
    <3>1. ASSUME NEW s \in Installed, Pred(s) # Null
          PROVE  Pred(s) \in Installed /\ Home(Pred(s))' = Home(s)'
      BY <1>1, <2>1, <3>1 DEF QuietDescent, Chain, PredOK
    <3>2. QED
      BY <1>1, <2>1, <3>1 DEF QuietDescent, PredOK
  <2>4. SingleLine'
    BY <1>1, <2>1 DEF QuietDescent, Chain, SingleLine
  <2>5. QED
    BY <2>2, <2>3, <2>4 DEF Chain
<1>2. ASSUME NEW t \in Txns, Install(t) PROVE Chain'
  <2> DEFINE m == Mine(t)
             r == Rec(t)
  <2>0. m = <<t, opno[t]>> /\ opno' = opno
    BY <1>2 DEF Mine, Install, Goto
  <2>1. /\ expected[t] = head[r] /\ expected[t] # Null /\ r \in Records
        /\ head' = [head EXCEPT ![r] = m]
        /\ m \in Snapshots /\ m \notin Installed /\ Home(m) = r
        /\ \A s \in Snapshots : Pred(s)' = IF s = m THEN expected[t] ELSE Pred(s)
        /\ \A s \in Snapshots : Home(s)' = Home(s)
        /\ Installed' = Installed \cup {m}
    BY <1>2, InstallPred
  <2>2. /\ head'[r] = m
        /\ \A q \in Records \ {r} : head'[q] = head[q]
        /\ Installed \subseteq Snapshots
    BY <2>1 DEF TypeInv, TypeOK, Installed
  <2>3. /\ head[r] \in Installed /\ Home(head[r]) = r
        /\ \A q \in Records : head[q] \in Installed /\ Home(head[q]) = q
    BY <2>1 DEF Chain, HeadOK
  <2> HIDE DEF m, r
  <2>4. HeadOK'
    <3> SUFFICES ASSUME NEW q \in Records
                 PROVE  head'[q] \in Installed' /\ Home(head[q])' = q
      BY DEF HeadOK
    <3>1. CASE q = r
      <4>1. \A s \in Snapshots : s = m => Home(s)' = r
        BY <2>1
      <4>2. head'[q] \in Snapshots /\ head'[q] = m
        BY <2>1, <2>2, <3>1
      <4>3. Home(head[q])' = r
        BY <2>1, <4>2 DEF Home, Cells
      <4>4. QED
        BY <2>1, <3>1, <4>2, <4>3
    <3>2. CASE q # r
      <4>1. head'[q] = head[q] /\ head[q] \in Snapshots
        BY <2>2, <2>3, <3>2
      <4>2. Home(head[q])' = q
        BY <2>1, <2>3, <4>1 DEF Home, Cells
      <4>3. QED
        BY <2>1, <2>3, <4>1, <4>2
    <3>3. QED
      BY <3>1, <3>2
  <2>5. PredOK'
    <3> SUFFICES ASSUME NEW s \in Installed', NEW p \in Snapshots, p = Pred(s)'
                 PROVE  p \in Installed' /\ Home(p)' = Home(s)'
      <4>1. \A s \in Installed' : Pred(s)' # Null => Pred(s)' \in Snapshots
        BY <2>1, <2>2, <2>3 DEF Chain, PredOK
      <4>2. QED
        BY <4>1 DEF PredOK, Home, Cells
    <3>1. CASE s = m
      <4>1. p = head[r]
        BY <2>1, <3>1
      <4>2. QED
        BY <2>1, <2>3, <3>1, <4>1
    <3>2. CASE s # m
      <4>1. s \in Installed /\ p = Pred(s)
        BY <2>1, <2>2, <3>2
      <4>2. p # Null
        BY NamesAssumption
      <4>3. QED
        BY <2>1, <2>2, <4>1, <4>2 DEF Chain, PredOK
    <3>3. QED
      BY <3>1, <3>2
  <2>6. \A s, u \in Installed' : Pred(s)' # Null /\ Pred(s)' = Pred(u)' => s = u
    BY <2>1, <2>2 DEF Chain, SingleLine
  <2>7. \A s \in Installed', q \in Records : Pred(s)' # head'[q]
    <3> SUFFICES ASSUME NEW s \in Installed', NEW q \in Records
                 PROVE  Pred(s)' # head'[q]
      OBVIOUS
    <3>1. CASE s = m
      <4>1. Pred(s)' = head[r]
        BY <2>1, <3>1
      <4>2. head'[q] # head[r]
        BY <2>1, <2>2, <2>3
      <4>3. QED
        BY <4>1, <4>2
    <3>2. CASE s # m
      <4>1. s \in Installed /\ Pred(s)' = Pred(s)
        BY <2>1, <2>2, <3>2
      <4>2. Pred(s) # m
        BY <2>1, <4>1, NamesAssumption DEF Chain, PredOK
      <4>3. QED
        BY <2>2, <4>1, <4>2 DEF Chain, SingleLine
    <3>3. QED
      BY <3>1, <3>2
  <2>8. ASSUME NEW s \in Installed', NEW q \in Records, q = Home(s)', s # head'[q]
        PROVE  \E u \in Installed' : Pred(u)' = s /\ Home(u)' = q
    <3>1. s \in Installed /\ Home(s) = q
      BY <2>1, <2>2, <2>8
    <3>2. CASE s = head[q]
      <4>1. q = r
        BY <2>2, <2>8, <3>2
      <4>2. PICK u \in Snapshots : u = m
        BY <2>1
      <4>3. u \in Installed' /\ Pred(u)' = s
        BY <2>1, <3>2, <4>1, <4>2
      <4>4. Home(u)' = q
        BY <2>1, <4>1, <4>2
      <4>5. QED
        BY <4>3, <4>4
    <3>3. CASE s # head[q]
      <4>1. PICK u \in Installed : Pred(u) = s /\ Home(u) = Home(s)
        BY <3>1, <3>3 DEF Chain, SingleLine
      <4>2. u # m /\ u \in Installed'
        BY <2>1
      <4>3. Pred(u)' = s /\ Home(u)' = q
        BY <2>1, <2>2, <3>1, <4>1, <4>2
      <4>4. QED
        BY <4>2, <4>3
    <3>4. QED
      BY <3>2, <3>3
  <2>9. \A s \in Installed' : Home(s)' \in Records
    <3>1. \A s \in Installed : Home(s) \in Records
      <4>1. ASSUME NEW s \in Cells PROVE Home(s) \in Records
        <5>1. PICK u \in Txns, n \in 1 .. MaxOps : s = <<u, n>>
          BY DEF Cells
        <5>2. prog[u][n] \in Calls
          BY DEF TypeInv, TypeOK
        <5>3. QED
          BY <5>1, <5>2 DEF Home, Calls
      <4>2. \A x \in Records : Home(Initial[x]) = x
        BY NamesAssumption DEF Home, Initial, Cells
      <4>3. QED
        BY <2>2, <4>1, <4>2 DEF Snapshots
    <3>2. QED
      BY <2>1, <2>2, <3>1
  <2>10. SingleLine'
    BY <2>6, <2>7, <2>8, <2>9 DEF SingleLine
  <2>11. QED
    BY <2>4, <2>5, <2>10 DEF Chain
<1>3. QED
  BY <1>1, <1>2, Descent

(* Installed snapshots stay installed, in their record.                    *)
LEMMA DescentGrows ==
  ASSUME TypeInv, Links, [Next]_vars
  PROVE  /\ Installed \subseteq Installed'
         /\ \A s \in Snapshots : Home(s)' = Home(s)
<1>1. CASE QuietDescent
  BY <1>1 DEF QuietDescent
<1>2. ASSUME NEW t \in Txns, Install(t)
      PROVE  Installed \subseteq Installed' /\ \A s \in Snapshots : Home(s)' = Home(s)
  BY <1>2, InstallPred
<1>3. QED
  BY <1>1, <1>2, Descent

(* What the steps of a thread do to the control state of the threads.      *)
LEMMA ThreadStep ==
  ASSUME TypeInv, NEW t \in Txns, Step(t)
  PROVE  /\ pc[t] # "done"
         /\ prog' = prog
         /\ \A u \in Txns \ {t} : /\ pc'[u] = pc[u] /\ opno'[u] = opno[u]
                                  /\ expected'[u] = expected[u]
         /\ \/ opno'[t] = opno[t]
            \/ opno'[t] = opno[t] + 1 /\ pc'[t] \in {"load", "done"}
<1>1. ASSUME NEW l \in Labels, Goto(t, l)
      PROVE  opno' = opno /\ \A u \in Txns \ {t} : pc'[u] = pc[u]
  BY <1>1 DEF Goto, TypeInv, TypeOK
<1>2. ASSUME pc[t] # "done", Return(t)
      PROVE  /\ opno'[t] = opno[t] + 1 /\ pc'[t] \in {"load", "done"}
             /\ \A u \in Txns \ {t} : opno'[u] = opno[u] /\ pc'[u] = pc[u]
  <2>1. opno'[t] = opno[t] + 1
    BY <1>2 DEF Return, TypeInv, TypeOK
  <2>2. QED
    BY <1>2, <2>1, ReturnTyped
<1>3. pc[t] # "done" /\ prog' = prog
  BY DEF Step, Read, Load, ReadEnd, Check, Stamp, Install, LoseRace, LinkOlder
<1>4. \A u \in Txns \ {t} : expected'[u] = expected[u]
  BY DEF Step, Read, Load, ReadEnd, Check, Stamp, Install, LoseRace, LinkOlder, TypeInv, TypeOK
<1>5. Return(t) \/ \E l \in Labels : Goto(t, l)
  BY DEF Step, Read, Load, ReadEnd, Check, Stamp, Install, LoseRace, LinkOlder, Fail, Labels
<1>6. QED
  BY <1>1, <1>2, <1>3, <1>4, <1>5

LEMMA LinksStep ==
  ASSUME TypeInv, Links, HeadOK, [Next]_vars
  PROVE  Links'
<1>1. ASSUME NEW t \in Txns, Step(t) PROVE Links'
  <2>1. LinksOK'
    <3>1. CASE older' = older
      BY <1>1, <3>1, ThreadStep DEF Links, LinksOK, TypeInv, TypeOK
    <3>2. CASE LinkOlder(t)
      <4>1. /\ older' = [older EXCEPT ![Mine(t)] = expected[t]]
            /\ opno[t] \in 1 .. MaxOps /\ opno' = [opno EXCEPT ![t] = @ + 1]
        BY <3>2, CurrentCall DEF LinkOlder, Return
      <4>2. ASSUME NEW u \in Txns, NEW n \in 1 .. MaxOps, older'[<<u, n>>] # Null
            PROVE  older[<<u, n>>] # Null \/ (u = t /\ n = opno[t])
        <5>1. <<u, n>> \in Snapshots
          BY CellsAreSnapshots DEF Cells
        <5>2. <<u, n>> # Mine(t) => older'[<<u, n>>] = older[<<u, n>>]
          BY <4>1, <5>1 DEF TypeInv, TypeOK
        <5>3. QED
          BY <4>2, <5>2 DEF Mine
      <4>3. QED
        BY <4>1, <4>2 DEF Links, LinksOK, TypeInv, TypeOK
    <3>3. QED
      BY <1>1, <3>1, <3>2 DEF Step, Read, Load, ReadEnd, Check, Stamp, Install, LoseRace
  <2>2. BirthOK'
    <3>1. CASE older' = older
      BY <3>1 DEF Links, BirthOK
    <3>2. CASE LinkOlder(t)
      <4>1. \A r \in Records : Initial[r] # Mine(t) /\ Initial[r] \in Snapshots
        BY NamesAssumption DEF Initial, Mine, Snapshots
      <4>2. QED
        BY <3>2, <4>1 DEF LinkOlder, Links, BirthOK, TypeInv, TypeOK
    <3>3. QED
      BY <1>1, <3>1, <3>2 DEF Step, Read, Load, ReadEnd, Check, Stamp, Install, LoseRace
  <2>3. ExpectedOK'
    <3> SUFFICES ASSUME NEW u \in Txns, pc'[u] \notin {"load", "done"}
                 PROVE  /\ expected'[u] \in Installed'
                        /\ Home(expected[u])' = prog'[u][opno'[u]].rec
      BY DEF ExpectedOK, Rec
    <3>1. CASE u # t \/ (expected'[t] = expected[t] /\ pc[t] # "load")
      <4>1. /\ pc[u] \notin {"load", "done"} /\ opno'[u] = opno[u] /\ prog' = prog
            /\ expected'[u] = expected[u]
        BY <1>1, <3>1, ThreadStep
      <4>2. expected[u] \in Installed /\ Home(expected[u]) = Rec(u) /\ expected[u] \in Snapshots
        BY <4>1 DEF Links, ExpectedOK, Installed
      <4>3. expected'[u] \in Installed'
        BY <4>1, <4>2, DescentGrows
      <4>4. Home(expected[u])' = Home(expected[u])
        BY <4>1 DEF Home
      <4>5. QED
        BY <4>1, <4>2, <4>3, <4>4 DEF Rec
    <3>2. CASE u = t /\ Load(t)
      <4>1. /\ expected'[t] = head[Rec(t)] /\ Rec(t) \in Records
            /\ opno' = opno /\ prog' = prog
        BY <3>2, CurrentCall DEF Load, Goto, TypeInv, TypeOK
      <4>2. head[Rec(t)] \in Installed /\ Home(head[Rec(t)]) = Rec(t)
        BY <4>1 DEF HeadOK
      <4>3. Home(expected[t])' = Home(head[Rec(t)])
        BY <4>1 DEF Home
      <4>4. QED
        BY <3>2, <4>1, <4>2, <4>3, DescentGrows DEF Rec
    <3>3. ~Read(t) \/ u # t
      BY ReturnTyped DEF Read
    <3>4. Read(t) \/ Load(t) \/ (expected'[t] = expected[t] /\ pc[t] # "load")
      BY <1>1 DEF Step, ReadEnd, Check, Stamp, Install, LoseRace, LinkOlder
    <3>5. QED
      BY <3>1, <3>2, <3>3, <3>4
  <2>4. QED
    BY <2>1, <2>2, <2>3 DEF Links
<1>2. CASE UNCHANGED <<head, older, prog, opno, pc, expected>>
  <2>1. QuietDescent
    BY <1>2, QuietPred DEF QuietDescent
  <2>2. QED
    BY <1>2, <2>1 DEF QuietDescent, Links, LinksOK, BirthOK, ExpectedOK, Rec, Home
<1>3. QED
  BY <1>1, <1>2 DEF Next, Collect, vars

(* The stores of end_version: only Stamp makes one, and it never reopens.  *)
LEMMA EndsGrow ==
  ASSUME TypeInv, [Next]_vars
  PROVE  \/ endv' = endv
         \/ \E t \in Txns : /\ Stamp(t)
                            /\ endv' = [endv EXCEPT ![expected[t]] = t]
                            /\ \A s \in Snapshots : endv[s] # INF => endv'[s] # INF
<1>1. ASSUME NEW t \in Txns, Stamp(t)
      PROVE  /\ endv' = [endv EXCEPT ![expected[t]] = t]
             /\ \A s \in Snapshots : endv[s] # INF => endv'[s] # INF
  BY <1>1, NamesAssumption DEF Stamp, TypeInv, TypeOK, Everyone
<1>2. CASE UNCHANGED vars
  BY <1>2 DEF vars
<1>3. QED
  BY <1>1, <1>2 DEF Next, Step, Read, Load, ReadEnd, Check, Install, LoseRace, LinkOlder, Collect

LEMMA EndInstalledStep ==
  ASSUME TypeInv, Links, EndInstalled, [Next]_vars
  PROVE  EndInstalled'
<1>1. CASE endv' = endv
  BY <1>1, DescentGrows DEF EndInstalled
<1>2. ASSUME NEW t \in Txns, Stamp(t), endv' = [endv EXCEPT ![expected[t]] = t]
      PROVE  EndInstalled'
  <2>1. expected[t] \in Installed
    BY <1>2 DEF Stamp, Links, ExpectedOK
  <2>2. \A s \in Snapshots \ {expected[t]} : endv'[s] = endv[s]
    BY <1>2 DEF TypeInv, TypeOK
  <2>3. QED
    BY <2>1, <2>2, DescentGrows DEF EndInstalled
<1>3. QED
  BY <1>1, <1>2, EndsGrow

LEMMA CasEndedStep ==
  ASSUME TypeInv, Links, CasEnded, [Next]_vars
  PROVE  CasEnded'
<1> SUFFICES ASSUME NEW u \in Txns, pc'[u] \in {"cas", "link"}
             PROVE  endv'[expected'[u]] # INF
  BY DEF CasEnded
<1>1. CASE pc[u] \in {"cas", "link"} /\ expected'[u] = expected[u]
  <2>1. expected[u] \in Snapshots /\ endv[expected[u]] # INF
    BY <1>1 DEF CasEnded, TypeInv, ControlOK
  <2>2. QED
    BY <1>1, <2>1, EndsGrow
<1>2. CASE Stamp(u)
  <2>1. expected[u] \in Snapshots
    BY <1>2 DEF Stamp, TypeInv, ControlOK
  <2>2. endv'[expected'[u]] = u
    BY <1>2, <2>1 DEF Stamp, TypeInv, TypeOK
  <2>3. QED
    BY <2>2, NamesAssumption DEF Everyone
<1>3. ASSUME NEW t \in Txns, Step(t), u # t
      PROVE  pc[u] \in {"cas", "link"} /\ expected'[u] = expected[u]
  BY <1>3, ThreadStep
<1>4. ASSUME Step(u) PROVE Stamp(u) \/ (pc[u] \in {"cas", "link"} /\ expected'[u] = expected[u])
  <2>1. ASSUME NEW l \in {"load", "readEnd", "check", "stamp"}, Goto(u, l) PROVE FALSE
    BY <2>1 DEF Goto, TypeInv, TypeOK
  <2>2. ASSUME Return(u) PROVE FALSE
    BY <1>4, <2>2, ReturnTyped, ThreadStep
  <2>3. QED
    BY <1>4, <2>1, <2>2 DEF Step, Read, Load, ReadEnd, Check, Install, LoseRace, LinkOlder, Fail
<1>5. CASE UNCHANGED <<pc, expected>>
  BY <1>1, <1>5
<1>6. QED
  BY <1>1, <1>2, <1>3, <1>4, <1>5 DEF Next, Collect, vars

LEMMA SupersededEndedStep ==
  ASSUME TypeInv, Links, Chain, Ends, [Next]_vars
  PROVE  SupersededEnded'
<1>1. CASE QuietDescent
  <2> SUFFICES ASSUME NEW s \in Installed, Pred(s) # Null
               PROVE  endv'[Pred(s)] # INF
    BY <1>1 DEF QuietDescent, SupersededEnded, Installed
  <2>1. Pred(s) \in Snapshots /\ endv[Pred(s)] # INF
    BY DEF Chain, PredOK, Ends, SupersededEnded, Installed
  <2>2. QED
    BY <2>1, EndsGrow
<1>2. ASSUME NEW t \in Txns, Install(t) PROVE SupersededEnded'
  <2>1. endv' = endv /\ endv[expected[t]] # INF
    BY <1>2 DEF Install, Ends, CasEnded
  <2>2. /\ Installed' = Installed \cup {Mine(t)} /\ Installed \subseteq Snapshots
        /\ \A s \in Snapshots : Pred(s)' = IF s = Mine(t) THEN expected[t] ELSE Pred(s)
        /\ Mine(t) \in Snapshots
    BY <1>2, InstallPred DEF Installed
  <2>3. QED
    BY <2>1, <2>2 DEF Ends, SupersededEnded
<1>3. QED
  BY <1>1, <1>2, Descent

(* The transaction that has ended a head has its reason, before and after  *)
(* every step.                                                             *)
LEMMA HeadEndExplainedStep ==
  ASSUME TypeInv, Links, Chain, Ends, [Next]_vars
  PROVE  HeadEndExplained'
<1> DEFINE Deleted(t, r) == \E n \in 1 .. MaxOps : n < opno[t] /\ prog[t][n] = [kind |-> "delete", rec |-> r]
           Explained(t, r) == (pc[t] = "cas" /\ expected[t] = head[r]) \/ Deleted(t, r)
<1> SUFFICES ASSUME NEW r \in Records, NEW t \in Txns, endv'[head'[r]] = t
             PROVE  Explained(t, r)'
  <2>1. head' \in [Records -> Snapshots] /\ endv' \in [Snapshots -> Txns \cup {INF}]
    BY TypeInvStep DEF TypeInv, TypeOK
  <2>2. QED
    BY <2>1 DEF HeadEndExplained
<1>1. head[r] \in Installed /\ head[r] \in Snapshots /\ Home(head[r]) = r
  BY DEF Chain, HeadOK, Installed
<1>2. ASSUME NEW u \in Txns, Step(u), Deleted(t, r) PROVE Deleted(t, r)'
  <2>1. prog' = prog /\ opno'[t] \in {opno[t], opno[t] + 1}
    BY <1>2, ThreadStep
  <2>2. QED
    BY <1>2, <2>1 DEF TypeInv, TypeOK
<1>3. ASSUME endv[head[r]] = t PROVE Explained(t, r)
  BY <1>3, NamesAssumption DEF Ends, HeadEndExplained, Everyone
<1>4. ASSUME NEW u \in Txns, Stamp(u) PROVE Explained(t, r)'
  <2>1. /\ expected[u] \in Snapshots /\ Home(expected[u]) = Rec(u)
        /\ endv' = [endv EXCEPT ![expected[u]] = u] /\ head' = head
        /\ prog' = prog /\ expected' = expected
    BY <1>4 DEF Stamp, Links, ExpectedOK, Installed
  <2>2. CASE expected[u] = head[r]
    <3>1. t = u /\ r = Rec(u)
      BY <1>1, <2>1, <2>2 DEF TypeInv, TypeOK
    <3>2. CASE Kind(u) = "delete"
      <4>1. opno[u] \in 1 .. MaxOps /\ prog[u][opno[u]] \in Calls /\ opno'[u] = opno[u] + 1
        BY <1>4, <3>2, CurrentCall DEF Stamp, Return, TypeInv, TypeOK
      <4>2. prog[u][opno[u]] = [kind |-> "delete", rec |-> r]
        BY <3>1, <3>2, <4>1 DEF Kind, Rec, Calls
      <4>3. opno[u] < opno'[u]
        BY <4>1
      <4>4. QED
        BY <2>1, <3>1, <4>1, <4>2, <4>3
    <3>3. CASE Kind(u) # "delete"
      BY <1>4, <2>1, <2>2, <3>1, <3>3 DEF Stamp, Goto, TypeInv, TypeOK
    <3>4. QED
      BY <3>2, <3>3
  <2>3. CASE expected[u] # head[r]
    <3>1. endv[head[r]] = t
      BY <1>1, <2>1, <2>3 DEF TypeInv, TypeOK
    <3>2. CASE Deleted(t, r)
      BY <1>2, <1>4, <3>2 DEF Step
    <3>3. CASE pc[t] = "cas" /\ expected[t] = head[r]
      <4>1. t # u
        BY <2>3, <3>3
      <4>2. pc'[t] = pc[t]
        BY <1>4, <4>1, ThreadStep DEF Step
      <4>3. QED
        BY <2>1, <3>3, <4>2
    <3>4. QED
      BY <1>3, <3>1, <3>2, <3>3
  <2>4. QED
    BY <2>2, <2>3
<1>5. ASSUME NEW u \in Txns, Install(u) PROVE Explained(t, r)'
  <2>1. /\ head' = [head EXCEPT ![Rec(u)] = Mine(u)] /\ endv' = endv
        /\ Mine(u) \in Snapshots /\ Mine(u) \notin Installed
        /\ expected[u] = head[Rec(u)] /\ Rec(u) \in Records
    BY <1>5, InstallPred DEF Install
  <2>2. r # Rec(u)
    <3>1. endv[Mine(u)] = INF
      BY <2>1 DEF Ends, EndInstalled
    <3>2. QED
      BY <2>1, <3>1, NamesAssumption DEF TypeInv, TypeOK, Everyone
  <2>3. head'[r] = head[r] /\ endv[head[r]] = t
    BY <2>1, <2>2 DEF TypeInv, TypeOK
  <2>4. CASE Deleted(t, r)
    BY <1>2, <1>5, <2>4 DEF Step
  <2>5. CASE pc[t] = "cas" /\ expected[t] = head[r]
    <3>1. t # u
      BY <1>1, <2>1, <2>2, <2>5 DEF Chain, HeadOK
    <3>2. pc'[t] = pc[t] /\ expected'[t] = expected[t]
      BY <1>5, <3>1, ThreadStep DEF Step
    <3>3. QED
      BY <2>3, <2>5, <3>2
  <2>6. QED
    BY <1>3, <2>3, <2>4, <2>5
<1>6. ASSUME NEW u \in Txns, Step(u), head' = head, endv' = endv PROVE Explained(t, r)'
  <2>1. endv[head[r]] = t
    BY <1>6
  <2>2. CASE Deleted(t, r)
    BY <1>2, <1>6, <2>2
  <2>3. CASE pc[t] = "cas" /\ expected[t] = head[r]
    <3>1. t # u
      <4>1. ASSUME t = u PROVE head[Rec(u)] = expected[u]
        BY <1>1, <2>3, <4>1 DEF Links, ExpectedOK
      <4>2. ASSUME t = u PROVE Install(u) \/ LoseRace(u)
        BY <1>6, <2>3, <4>2 DEF Step, Read, Load, ReadEnd, Check, Stamp, LinkOlder
      <4>3. ASSUME Install(u) PROVE head'[Rec(u)] # head[Rec(u)]
        <5>1. head' = [head EXCEPT ![Rec(u)] = Mine(u)] /\ Rec(u) \in Records /\ Mine(u) \notin Installed
          BY <4>3, InstallPred
        <5>2. head[Rec(u)] \in Installed
          BY <5>1 DEF Chain, HeadOK
        <5>3. QED
          BY <5>1, <5>2 DEF TypeInv, TypeOK
      <4>4. QED
        BY <1>6, <4>1, <4>2, <4>3 DEF LoseRace
    <3>2. pc'[t] = pc[t] /\ expected'[t] = expected[t]
      BY <1>6, <3>1, ThreadStep
    <3>3. QED
      BY <1>6, <2>3, <3>2
  <2>4. QED
    BY <1>3, <2>1, <2>2, <2>3
<1>7. CASE UNCHANGED <<head, endv, prog, opno, pc, expected>>
  BY <1>3, <1>7
<1>8. ASSUME NEW u \in Txns, Step(u) PROVE Stamp(u) \/ Install(u) \/ (head' = head /\ endv' = endv)
  BY <1>8 DEF Step, Read, Load, ReadEnd, Check, LoseRace, LinkOlder
<1>9. QED
  BY <1>4, <1>5, <1>6, <1>7, <1>8 DEF Next, Collect, vars

(* A value is written only while its snapshot is private.                  *)
LEMMA ValueStable ==
  ASSUME TypeInv, Links, [Next]_vars
  PROVE  /\ \A s \in Installed : value'[s] = value[s]
         /\ \/ value' = value
            \/ \E t \in Txns : /\ Load(t) \/ ReadEnd(t)
                               /\ \A s \in Snapshots \ {Mine(t)} : value'[s] = value[s]
<1>1. ASSUME NEW t \in Txns, Load(t) \/ ReadEnd(t)
      PROVE  /\ \A s \in Snapshots \ {Mine(t)} : value'[s] = value[s]
             /\ Mine(t) \notin Installed
  <2>1. pc[t] \notin {"link", "done"}
    BY <1>1 DEF Load, ReadEnd
  <2>2. Mine(t) \notin Installed
    BY <2>1, MineFresh DEF Links
  <2>3. \A s \in Snapshots \ {Mine(t)} : value'[s] = value[s]
    BY <1>1 DEF Load, ReadEnd, TypeInv, TypeOK
  <2>4. QED
    BY <2>2, <2>3
<1>2. value' = value \/ \E t \in Txns : Load(t) \/ ReadEnd(t)
  BY DEF Next, Step, Read, Check, Stamp, Install, LoseRace, LinkOlder, Collect, vars
<1>3. QED
  BY <1>1, <1>2 DEF Installed

LEMMA DesiredOKStep ==
  ASSUME TypeInv, Links, Chain, DesiredOK, [Next]_vars
  PROVE  DesiredOK'
<1> DEFINE Updates == {"update", "try_update", "try_update_until"}
           Good(u) == /\ pc[u] \in {"check", "stamp", "cas"} /\ Kind(u) \in Updates
                           => value[Mine(u)] = value[expected[u]] \cup {Mine(u)}
                      /\ pc[u] \in {"readEnd", "check", "stamp", "cas"} /\ Kind(u) = "overwrite"
                           => value[Mine(u)] = {Mine(u)}
<1> SUFFICES ASSUME NEW u \in Txns, pc'[u] \in {"readEnd", "check", "stamp", "cas"}
             PROVE  Good(u)'
  BY DEF DesiredOK
<1>1. Good(u)
  BY DEF DesiredOK
(* Nothing that concerns u changes, except perhaps the label.              *)
<1>2. ASSUME pc[u] \notin {"load", "link", "done"}, opno'[u] = opno[u], expected'[u] = expected[u],
             prog' = prog, value'[Mine(u)] = value[Mine(u)],
             pc[u] = "readEnd" => pc'[u] = "readEnd"
      PROVE  Good(u)'
  <2>1. expected[u] \in Installed
    BY <1>2 DEF Links, ExpectedOK
  <2>2. value'[expected[u]] = value[expected[u]]
    BY <2>1, ValueStable
  <2>3. pc[u] \in {"readEnd", "check", "stamp", "cas"}
    BY <1>2 DEF TypeInv, TypeOK, Labels
  <2>4. pc'[u] \in {"check", "stamp", "cas"} => pc[u] \in {"check", "stamp", "cas"}
    BY <1>2, <2>3
  <2>5. QED
    BY <1>1, <1>2, <2>2, <2>3, <2>4 DEF Kind, Mine
<1>3. ASSUME NEW t \in Txns, Step(t), t # u PROVE Good(u)'
  <2>1. /\ pc'[u] = pc[u] /\ opno'[u] = opno[u] /\ expected'[u] = expected[u] /\ prog' = prog
    BY <1>3, ThreadStep
  <2>2. Mine(u) \in Snapshots /\ Mine(u) # Mine(t)
    BY <1>3, <2>1, MineFresh DEF Links, Mine
  <2>3. value' = value \/ \A s \in Snapshots \ {Mine(t)} : value'[s] = value[s]
    BY <1>3 DEF Step, Read, Load, ReadEnd, Check, Stamp, Install, LoseRace, LinkOlder, TypeInv, TypeOK
  <2>4. value'[Mine(u)] = value[Mine(u)]
    BY <2>2, <2>3
  <2>5. QED
    BY <1>2, <2>1, <2>4
<1>4. CASE Load(u)
  <2>1. opno' = opno /\ prog' = prog /\ pc'[u] = "readEnd" /\ Mine(u) \in Snapshots
    BY <1>4, MineFresh DEF Load, Goto, TypeInv, TypeOK, Links
  <2>2. Kind(u) = "overwrite" => value'[Mine(u)] = {Mine(u)}
    BY <1>4, <2>1 DEF Load, TypeInv, TypeOK
  <2>3. QED
    BY <2>1, <2>2 DEF Kind, Mine
<1>5. CASE ReadEnd(u)
  <2>1. /\ opno' = opno /\ prog' = prog /\ expected' = expected
        /\ pc[u] = "readEnd" /\ pc'[u] = "check" /\ Mine(u) \in Snapshots
    BY <1>5, MineFresh DEF ReadEnd, Goto, TypeInv, TypeOK, Links
  <2>2. value'[expected[u]] = value[expected[u]]
    BY <2>1, ValueStable DEF Links, ExpectedOK
  <2>3. Kind(u) \in Updates => value'[Mine(u)] = value[expected[u]] \cup {Mine(u)}
    BY <1>5, <2>1 DEF ReadEnd, TypeInv, TypeOK
  <2>4. Kind(u) = "overwrite" => value'[Mine(u)] = {Mine(u)}
    BY <1>1, <1>5, <2>1 DEF ReadEnd
  <2>5. QED
    BY <2>1, <2>2, <2>3, <2>4 DEF Kind, Mine
<1>6. ASSUME Check(u) \/ Stamp(u) \/ LoseRace(u) \/ Install(u) \/ Read(u) \/ LinkOlder(u)
      PROVE  Good(u)'
  <2>1. ~Return(u)
    BY <1>6, ReturnTyped DEF Check, Stamp, LoseRace, Install, Read, LinkOlder
  <2>2. Goto(u, "stamp") \/ Goto(u, "cas")
    BY <1>6, <2>1 DEF Check, Stamp, LoseRace, Install, Read, LinkOlder, Fail, Goto, TypeInv, TypeOK
  <2>3. /\ pc[u] \in {"check", "stamp", "cas"} /\ opno' = opno /\ expected' = expected
        /\ prog' = prog /\ value' = value
    BY <1>6, <2>1, <2>2 DEF Check, Stamp, LoseRace, Install, Read, LinkOlder, Goto
  <2>4. QED
    BY <1>2, <2>3
<1>7. CASE UNCHANGED <<prog, opno, pc, expected, value>>
  BY <1>1, <1>7 DEF Kind, Mine
<1>8. QED
  BY <1>3, <1>4, <1>5, <1>6, <1>7 DEF Next, Step, Collect, vars

(* The calls on record r of which none is an overwrite.                    *)
LEMMA NoLostUpdateStep ==
  ASSUME TypeInv, Links, Chain, Values, [Next]_vars
  PROVE  NoLostUpdate'
<1> DEFINE Overwritten(r) == \E t \in Txns, n \in 1 .. MaxOps : prog[t][n] = [kind |-> "overwrite", rec |-> r]
           Effects(r) == {s \in Installed : Home(s) = r}
<1>0. prog' = prog
  BY DEF Next, Step, Read, Load, ReadEnd, Check, Stamp, Install, LoseRace, LinkOlder, Collect, vars
<1> SUFFICES ASSUME NEW r \in Records, ~Overwritten(r)
             PROVE  value'[head'[r]] = Effects(r)'
  BY <1>0 DEF NoLostUpdate
<1>1. /\ value[head[r]] = Effects(r)
      /\ head[r] \in Installed
      /\ value'[head[r]] = value[head[r]]
  BY ValueStable DEF Values, NoLostUpdate, Chain, HeadOK
<1>2. CASE QuietDescent
  BY <1>1, <1>2 DEF QuietDescent, Installed
<1>3. ASSUME NEW t \in Txns, Install(t) PROVE value'[head'[r]] = Effects(r)'
  <2>1. /\ expected[t] = head[Rec(t)] /\ Rec(t) \in Records
        /\ head' = [head EXCEPT ![Rec(t)] = Mine(t)]
        /\ Mine(t) \in Snapshots /\ Home(Mine(t)) = Rec(t)
        /\ Installed' = Installed \cup {Mine(t)}
        /\ \A s \in Snapshots : Home(s)' = Home(s)
        /\ value' = value
    BY <1>3, InstallPred DEF Install
  <2>2. CASE r # Rec(t)
    BY <1>1, <2>1, <2>2 DEF TypeInv, TypeOK, Installed
  <2>3. CASE r = Rec(t)
    <3>1. Kind(t) # "overwrite"
      <4>1. pc[t] = "cas" /\ opno[t] \in 1 .. MaxOps /\ prog[t][opno[t]] \in Calls
        BY <1>3, CurrentCall DEF Install
      <4>2. Kind(t) = "overwrite" => prog[t][opno[t]] = [kind |-> "overwrite", rec |-> r]
        BY <2>3, <4>1 DEF Kind, Rec, Calls
      <4>3. QED
        BY <4>1, <4>2
    <3>2. pc[t] = "cas" /\ Kind(t) \in {"update", "try_update", "try_update_until"}
      BY <1>3, <3>1, CurrentCall DEF Install, Kinds, TypeInv, ControlOK
    <3>3. value[Mine(t)] = value[head[r]] \cup {Mine(t)}
      BY <2>1, <2>3, <3>2 DEF Values, DesiredOK
    <3>4. head'[r] = Mine(t)
      BY <2>1, <2>3 DEF TypeInv, TypeOK
    <3>5. Effects(r)' = Effects(r) \cup {Mine(t)}
      BY <2>1, <2>3 DEF Installed
    <3>6. QED
      BY <1>1, <2>1, <3>3, <3>4, <3>5
  <2>4. QED
    BY <2>2, <2>3
<1>4. QED
  BY <1>2, <1>3, Descent

LEMMA IInvInit == Init => IInv
<1> SUFFICES ASSUME Init PROVE IInv
  OBVIOUS
<1>1. TypeInv
  BY TypeInvInit
<1>2. \A s \in Snapshots : older[s] = Null /\ endv[s] = INF
  BY DEF Init
<1>3. \A t \in Txns : pc[t] = "load" /\ opno[t] = 1
  BY DEF Init
<1>4. \A s \in Snapshots : Pred(s) = Null
  BY <1>2, <1>3 DEF Pred, Version
<1>5. \A r \in Records : head[r] = Initial[r] /\ Initial[r] \in Snapshots /\ Initial[r] \notin Cells
                         /\ Home(Initial[r]) = r
  BY NamesAssumption DEF Init, Initial, Snapshots, Cells, Home
<1>6. Installed = {Initial[r] : r \in Records}
  BY <1>4, <1>5 DEF Installed, Snapshots
<1>7. Links
  <2>1. LinksOK
    BY <1>2, CellsAreSnapshots DEF LinksOK, Cells
  <2>2. BirthOK
    BY <1>2, <1>5 DEF BirthOK
  <2>3. ExpectedOK
    BY <1>3 DEF ExpectedOK
  <2>4. QED
    BY <2>1, <2>2, <2>3 DEF Links
<1>8. Chain
  BY <1>4, <1>5, <1>6, NamesAssumption DEF Chain, HeadOK, PredOK, SingleLine
<1>9. Ends
  BY <1>2, <1>3, <1>4, <1>5, <1>6 DEF Ends, EndInstalled, CasEnded, SupersededEnded, HeadEndExplained
<1>10. Values
  <2>1. DesiredOK
    BY <1>3 DEF DesiredOK
  <2>2. \A r \in Records : value[head[r]] = {Initial[r]}
    BY <1>5 DEF Init
  <2>3. \A r \in Records : {s \in Installed : Home(s) = r} = {Initial[r]}
    BY <1>5, <1>6
  <2>4. QED
    BY <2>1, <2>2, <2>3 DEF Values, NoLostUpdate
<1>11. QED
  BY <1>1, <1>7, <1>8, <1>9, <1>10 DEF IInv

LEMMA IInvStep == IInv /\ [Next]_vars => IInv'
<1> SUFFICES ASSUME IInv, [Next]_vars PROVE IInv'
  OBVIOUS
<1>1. TypeInv'
  BY TypeInvStep DEF IInv
<1>2. Links' /\ Chain'
  BY LinksStep, ChainStep DEF IInv, Chain
<1>3. Ends'
  BY EndInstalledStep, CasEndedStep, SupersededEndedStep, HeadEndExplainedStep DEF IInv, Ends
<1>4. Values'
  BY DesiredOKStep, NoLostUpdateStep DEF IInv, Values
<1>5. QED
  BY <1>1, <1>2, <1>3, <1>4 DEF IInv

LEMMA IInvHolds == Spec => []IInv
  BY IInvInit, IInvStep, PTL DEF Spec

-------------------------------------------------------------------------------
(* The versions of every record form one line of descent, whatever the     *)
(* interleaving of loads, stores and compare-and-swaps.                    *)
THEOREM OneLineOfDescent == Spec => []SingleLine
<1>1. IInv => SingleLine
  BY DEF IInv, Chain
<1>2. QED
  BY <1>1, IInvHolds, PTL

(* No update of a record that is only updated is ever lost.                *)
THEOREM UpdatesAreKept == Spec => []NoLostUpdate
<1>1. IInv => NoLostUpdate
  BY DEF IInv, Values
<1>2. QED
  BY <1>1, IInvHolds, PTL

(* A superseded snapshot has been ended.                                   *)
THEOREM SupersededAreEnded == Spec => []SupersededEnded
<1>1. IInv => SupersededEnded
  BY DEF IInv, Ends
<1>2. QED
  BY <1>1, IInvHolds, PTL

(* A head is ended by a deletion, or by the call about to replace it.      *)
THEOREM HeadEndsAreExplained == Spec => []HeadEndExplained
<1>1. IInv => HeadEndExplained
  BY DEF IInv, Ends
<1>2. QED
  BY <1>1, IInvHolds, PTL

(* Only a deletion closes a cycle of transactions that wait: a call that   *)
(* waits has found the end of a head that nobody is about to replace, so a *)
(* deleteMV() has stored it (mvcc.hpp:334), and where no call waits it is  *)
(* main alone that does, for the thread it joins next.                     *)
THEOREM DeadlocksNeedDelete == Spec => []DeadlockNeedsDelete
<1>1. IInv => DeadlockNeedsDelete
  <2> SUFFICES ASSUME IInv, Deadlock,
                      ~\E t \in Txns, n \in 1 .. MaxOps : n < opno[t] /\ prog[t][n].kind = "delete"
               PROVE  FALSE
    BY DEF DeadlockNeedsDelete
  <2>1. PICK S \in SUBSET Everyone \ {{}} :
          \A t \in S : status[t] = "Active" /\ WaitedFor(t) \cap S # {}
    BY DEF Deadlock
  <2>2. ASSUME NEW t \in S, t \in Txns, pc[t] # "done" PROVE FALSE
    <3> DEFINE h == head[Rec(t)]  w == endv[h]
    <3>1. /\ w # INF
          /\ \A v \in Txns : ~(pc[v] = "cas" /\ expected[v] = h)
      BY <2>1, <2>2 DEF WaitedFor
    <3>2. Rec(t) \in Records /\ h \in Snapshots /\ w \in Txns
      BY <2>2, <3>1, CurrentCall DEF IInv, TypeInv, TypeOK
    <3>3. \E n \in 1 .. MaxOps : n < opno[w] /\ prog[w][n] = [kind |-> "delete", rec |-> Rec(t)]
      BY <3>1, <3>2 DEF IInv, Ends, HeadEndExplained
    <3>4. QED
      BY <3>2, <3>3
  <2>3. \A t \in S : \E u \in S : <<u, t>> \in JoinedBefore
    BY <2>1, <2>2 DEF WaitedFor
  <2>4. QED
    BY <2>3, JoinAssumption
<1>2. QED
  BY <1>1, IInvHolds, PTL

(* What a reader of an installed snapshot sees of it is stable: its value  *)
(* is final, its link is set once and to its predecessor, and its end is   *)
(* never taken back.                                                       *)
THEOREM SnapshotsStayStable == Spec => SnapshotsAreStable
<1> DEFINE Stable == \A s \in Installed :
                       /\ value'[s] = value[s]
                       /\ older'[s] # older[s] => older[s] = Null /\ older'[s] = Pred(s)
                       /\ endv[s] # INF => endv'[s] # INF
<1>1. IInv /\ [Next]_vars => Stable
  <2> SUFFICES ASSUME IInv, [Next]_vars, NEW s \in Installed
               PROVE  /\ value'[s] = value[s]
                      /\ older'[s] # older[s] => older[s] = Null /\ older'[s] = Pred(s)
                      /\ endv[s] # INF => endv'[s] # INF
    OBVIOUS
  <2>1. value'[s] = value[s]
    BY ValueStable DEF IInv
  <2>2. endv[s] # INF => endv'[s] # INF
    BY EndsGrow DEF IInv, Installed
  <2>3. ASSUME NEW t \in Txns, LinkOlder(t), older'[s] # older[s]
        PROVE  older[s] = Null /\ older'[s] = Pred(s)
    <3>1. /\ pc[t] = "link" /\ opno[t] \in 1 .. MaxOps /\ Mine(t) \in Snapshots
          /\ older' = [older EXCEPT ![Mine(t)] = expected[t]]
      BY <2>3, CurrentCall, CellsAreSnapshots DEF LinkOlder, IInv
    <3>2. s = Mine(t) /\ older'[s] = expected[t]
      BY <2>3, <3>1 DEF IInv, TypeInv, TypeOK, Installed
    <3>3. older[s] = Null
      BY <3>1, <3>2 DEF IInv, Links, LinksOK, Mine
    <3>4. Pred(s) = expected[t]
      BY <3>1, <3>2, <3>3 DEF Pred, Version, Mine
    <3>5. QED
      BY <3>2, <3>3, <3>4
  <2>4. older' = older \/ \E t \in Txns : LinkOlder(t)
    BY DEF Next, Step, Read, Load, ReadEnd, Check, Stamp, Install, LoseRace, Collect, vars
  <2>5. QED
    BY <2>1, <2>2, <2>3, <2>4
<1>2. IInv /\ [Next]_vars => [Stable]_vars
  BY <1>1
<1>3. QED
  BY <1>2, IInvHolds, PTL DEF Spec, SnapshotsAreStable

-------------------------------------------------------------------------------
(* The six accesses of a call amount to one atomic installation on top of  *)
(* the newest version: the step of Install maps to Order!Install, and      *)
(* every other step to a stutter.                                          *)
LEMMA OrderInit == Init => Order!Init
<1> SUFFICES ASSUME Init PROVE Order!Init
  OBVIOUS
<1>1. \A s \in Snapshots : Pred(s) = Null
  BY DEF Init, Pred, Version
<1>2. \A s \in Snapshots : s \in Cells <=> s \notin {Initial[r] : r \in Records}
  BY NamesAssumption DEF Initial, Snapshots, Cells
<1>3. \A s \in Snapshots : s \in Installed <=> s \in {Initial[r] : r \in Records}
  BY <1>1, <1>2 DEF Installed
<1>4. head = [r \in Records |-> Initial[r]]
  BY DEF Init, Initial
<1>5. \A s \in Snapshots : (IF s \in Installed THEN value[s] ELSE {})
                           = (IF s \in {Initial[r] : r \in Records} THEN {s} ELSE {})
  BY <1>2, <1>3 DEF Init
<1>6. QED
  BY <1>1, <1>4, <1>5 DEF Order!Init, Order!FirstVersions

LEMMA OrderStep == IInv /\ [Next]_vars => [Order!Next]_(Order!vars)
<1> SUFFICES ASSUME IInv, [Next]_vars PROVE [Order!Next]_(Order!vars)
  OBVIOUS
<1> DEFINE pred == [s \in Snapshots |-> Pred(s)]
           val == [s \in Snapshots |-> IF s \in Installed THEN value[s] ELSE {}]
<1>1. \A s \in Installed : value'[s] = value[s]
  BY ValueStable DEF IInv
<1>2. CASE QuietDescent
  <2>1. head' = head /\ pred' = pred
    BY <1>2 DEF QuietDescent
  <2>2. val' = val
    BY <1>1, <1>2 DEF QuietDescent
  <2>3. QED
    BY <2>1, <2>2 DEF Order!vars
<1>3. ASSUME NEW t \in Txns, Install(t) PROVE Order!Next
  <2>0. PICK m \in Snapshots, r \in Records : m = Mine(t) /\ r = Rec(t)
    BY <1>3, InstallPred DEF IInv
  <2>1. /\ expected[t] = head[r] /\ r \in Records
        /\ head' = [head EXCEPT ![r] = m]
        /\ m \in Snapshots /\ m \notin Installed /\ m \in Cells
        /\ \A s \in Snapshots : Pred(s)' = IF s = m THEN expected[t] ELSE Pred(s)
        /\ Installed' = Installed \cup {m}
        /\ head[r] \in Installed /\ head[r] \in Snapshots
        /\ value' = value
    BY <1>3, <2>0, InstallPred DEF Install, IInv, Chain, HeadOK, Installed
  <2>2. value[m] = value[head[r]] \cup {m} \/ value[m] = {m}
    <3>1. pc[t] = "cas" /\ Kind(t) \in {"overwrite", "update", "try_update", "try_update_until"}
      BY <1>3, CurrentCall DEF Install, Kinds, IInv, TypeInv, ControlOK
    <3>2. QED
      BY <2>0, <2>1, <3>1 DEF IInv, Values, DesiredOK
  <2>3. m \in Snapshots \ Order!Installed
    <3>1. Pred(m) = Null /\ m \notin {Initial[q] : q \in Records}
      BY <2>1, NamesAssumption DEF Installed, Initial, Cells
    <3>2. QED
      BY <2>1, <3>1 DEF Order!Installed, Order!FirstVersions
  <2>4. pred' = [pred EXCEPT ![m] = head[r]]
    BY <2>1
  <2>5. val' = [val EXCEPT ![m] = value[m]]
    BY <2>1
  <2>6. val[head[r]] = value[head[r]]
    BY <2>1
  <2>7. Order!Install(r, m)
    BY <2>1, <2>2, <2>3, <2>4, <2>5, <2>6 DEF Order!Install
  <2>8. QED
    BY <2>7 DEF Order!Next
<1>4. QED
  BY <1>2, <1>3, Descent DEF IInv

(* mvcc11::mvcc implements the atomic versions of VersionOrder.            *)
THEOREM RecordImplementsOrder == Spec => ImplementsVersionOrder
  BY OrderInit, OrderStep, IInvHolds, PTL DEF Spec, Order!Spec, ImplementsVersionOrder
===============================================================================
