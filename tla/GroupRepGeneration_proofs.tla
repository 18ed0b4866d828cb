---------------------- MODULE GroupRepGeneration_proofs ----------------------
(***************************************************************************)
(* Proofs about the multi-threaded generation of group representations,    *)
(* for any number of workers, elements and levels.                         *)
(***************************************************************************)
EXTENDS GroupRepGeneration, TLAPS

\* The striped loops of the workers leave no element of the group out.
LEMMA StripesCover == \A e \in Elements : \E w \in Workers : e \in Stripe(w)
BY GroupSizeAssumption, WorkersAssumption DEF Elements, Workers, Stripe

\* A level's length, its parents and their lengths are numbers, and adding
\* the factors of correct parents gives a correct matrix.
LEMMA LevelFacts ==
    ASSUME NEW i \in Levels
    PROVE  /\ BuildList[i] \in Nat
           /\ BuildList[i] \in Lengths
           /\ BuildList[i] \notin Built
           /\ Len(BuildList) \in Nat
           /\ \A j \in Levels : BuildList[i] = BuildList[j] => i = j
BY BuildListAssumption DEF Levels, Lengths

\* A parent of level i is an initial representation or an earlier level.
LEMMA ParentFacts ==
    ASSUME NEW i \in Levels
    PROVE  LET n == BuildList[i]
           IN  /\ LeftParent(n) \in Built \/ \E j \in Levels : j < i /\ LeftParent(n) = BuildList[j]
               /\ RightParent(n) \in Built \/ \E j \in Levels : j < i /\ RightParent(n) = BuildList[j]
               /\ LeftParent(n) + RightParent(n) = n
<1> DEFINE n == BuildList[i]
           prior == Built \cup {BuildList[j] : j \in 1 .. i - 1}
<1>1. /\ LeftParent(n) \in prior
      /\ RightParent(n) \in prior
      /\ LeftParent(n) + RightParent(n) = n
  BY BuildListAssumption
<1>2. \A m \in prior : m \in Built \/ \E j \in Levels : j < i /\ m = BuildList[j]
  BY BuildListAssumption DEF Levels
<1> QED BY <1>1, <1>2

LEMMA CorrectIsData ==
    ASSUME NEW n \in Nat
    PROVE  Correct(n) \in Data /\ Correct(n) # Null /\ Correct(n) # Moved
BY NullAssumption, MovedAssumption DEF Correct, Data

\* A worker generating a level combines two correct parents.
LEMMA CombinedCorrect ==
    ASSUME PublishedInv, NEW i \in Levels, i <= NumPublished + 1,
           NumPublished \in Nat, NEW e \in Elements
    PROVE  Combined(representations, BuildList[i], e) = BuildList[i]
<1> DEFINE n == BuildList[i]
           l == LeftParent(n)
           r == RightParent(n)
<1>1. \A j \in Levels : j < i => representations[BuildList[j]] = Correct(BuildList[j])
  BY LevelFacts DEF PublishedInv, Levels
<1>2. \A m : m \in Built => representations[m] = Correct(m) /\ m \in Nat
  BY BuildListAssumption DEF PublishedInv
<1>3. \A j \in Levels : BuildList[j] \in Nat
  BY LevelFacts
<1>4. /\ l \in Built \/ \E j \in Levels : j < i /\ l = BuildList[j]
      /\ r \in Built \/ \E j \in Levels : j < i /\ r = BuildList[j]
      /\ l + r = n
  BY ParentFacts
<1>5. /\ representations[l] = Correct(l) /\ l \in Nat
      /\ representations[r] = Correct(r) /\ r \in Nat
  <2> HIDE DEF l, r, n
  <2> QED BY <1>1, <1>2, <1>3, <1>4
<1>6. Correct(l)[e] = l /\ Correct(r)[e] = r
  BY DEF Correct
<1> QED BY <1>4, <1>5, <1>6, CorrectIsData DEF Combined

LEMMA InitInv == Init => IInv
<1> SUFFICES ASSUME Init PROVE IInv OBVIOUS
<1> USE GroupSizeAssumption, WorkersAssumption
<1>0. Len(BuildList) \in Nat /\ NumPublished = 0
  BY BuildListAssumption DEF Init, NumPublished
<1>1. representations \in [Lengths -> Data \cup {Null}]
  <2>1. Lengths \subseteq Nat
    <3>1. Built \subseteq Nat
      BY BuildListAssumption
    <3>2. \A i \in Levels : BuildList[i] \in Nat
      BY LevelFacts
    <3> QED BY <3>1, <3>2 DEF Lengths
  <2>2. \A n \in Lengths : InitialRepresentations[n] \in Data \cup {Null}
    BY <2>1, CorrectIsData DEF InitialRepresentations
  <2>3. InitialRepresentations = [n \in Lengths |-> InitialRepresentations[n]]
    BY DEF InitialRepresentations
  <2>4. representations = InitialRepresentations
    BY DEF Init
  <2> HIDE DEF InitialRepresentations
  <2> QED BY <2>2, <2>3, <2>4
<1>2. rep_raw_data \in [Levels -> Data \cup {Moved}]
  BY DEF Init, Blank, Data
<1>3. TypeOK
  BY <1>0, <1>1, <1>2 DEF TypeOK, Init, Workers
<1>4. PublishedInv
  BY <1>0, LevelFacts, MovedAssumption DEF PublishedInv, Init, InitialRepresentations, Lengths, Levels, Blank, Data
<1>5. MainInv
  BY DEF MainInv, Init
<1>6. WorkerInv
  BY <1>0 DEF WorkerInv, Init
<1>7. RawDataInv
  BY <1>0 DEF RawDataInv, Generated, Init, Levels
<1> QED BY <1>3, <1>4, <1>5, <1>6, <1>7 DEF IInv

\* Every step keeps the invariant: one step of the proof per action.
LEMMA NextInv == IInv /\ [Next]_vars => IInv'
<1> SUFFICES ASSUME IInv, [Next]_vars PROVE IInv'
  OBVIOUS
<1> USE GroupSizeAssumption, WorkersAssumption
<1>0. /\ TypeOK /\ PublishedInv /\ MainInv /\ WorkerInv /\ RawDataInv
      /\ Len(BuildList) \in Nat
  BY BuildListAssumption DEF IInv
<1>1. ASSUME NEW w \in Workers, WorkerLevel(w) PROVE IInv'
  <2>1. TypeOK'
    BY <1>0, <1>1 DEF TypeOK, WorkerLevel, Goto, mainVars
  <2>2. PublishedInv' /\ MainInv'
    BY <1>0, <1>1 DEF PublishedInv, MainInv, NumPublished, WorkerLevel, Goto, mainVars
  <2>3. WorkerInv'
    BY <1>0, <1>1 DEF TypeOK, WorkerInv, NumPublished, WorkerLevel, Goto, mainVars
  <2>4. RawDataInv'
    BY <1>0, <1>1 DEF TypeOK, RawDataInv, Generated, NumPublished, WorkerLevel, Goto, mainVars
  <2> QED BY <2>1, <2>2, <2>3, <2>4 DEF IInv
<1>2. ASSUME NEW w \in Workers, WorkerCheck(w) PROVE IInv'
  <2>1. TypeOK'
    BY <1>0, <1>2 DEF TypeOK, WorkerCheck, Goto, mainVars, Stripe
  <2>2. PublishedInv' /\ MainInv'
    BY <1>0, <1>2 DEF PublishedInv, MainInv, NumPublished, WorkerCheck, Goto, mainVars
  <2>3. WorkerInv'
    BY <1>0, <1>2 DEF TypeOK, WorkerInv, NumPublished, WorkerCheck, Goto, mainVars
  <2>4. RawDataInv'
    BY <1>0, <1>2 DEF TypeOK, RawDataInv, Generated, NumPublished, WorkerCheck, Goto, mainVars
  <2> QED BY <2>1, <2>2, <2>3, <2>4 DEF IInv
<1>3. ASSUME NEW w \in Workers, WorkerWait(w) PROVE IInv'
  <2>1. TypeOK'
    BY <1>0, <1>3 DEF TypeOK, WorkerWait, Goto, mainVars
  <2>2. PublishedInv' /\ MainInv'
    BY <1>0, <1>3 DEF PublishedInv, MainInv, NumPublished, WorkerWait, Goto, mainVars
  <2>3. WorkerInv'
    BY <1>0, <1>3 DEF TypeOK, WorkerInv, NumPublished, WorkerWait, Goto, mainVars
  <2>4. RawDataInv'
    BY <1>0, <1>3 DEF TypeOK, RawDataInv, Generated, NumPublished, WorkerWait, Goto, mainVars
  <2> QED BY <2>1, <2>2, <2>3, <2>4 DEF IInv
<1>4. ASSUME NEW w \in Workers, WorkerLoad(w) PROVE IInv'
  <2>1. TypeOK'
    BY <1>0, <1>4 DEF TypeOK, WorkerLoad, Goto, mainVars
  <2>2. PublishedInv' /\ MainInv'
    BY <1>0, <1>4 DEF PublishedInv, MainInv, NumPublished, WorkerLoad, Goto, mainVars
  <2>3. WorkerInv'
    BY <1>0, <1>4 DEF TypeOK, WorkerInv, NumPublished, WorkerLoad, Goto, mainVars
  <2>4. RawDataInv'
    BY <1>0, <1>4 DEF TypeOK, RawDataInv, Generated, NumPublished, WorkerLoad, Goto, mainVars
  <2> QED BY <2>1, <2>2, <2>3, <2>4 DEF IInv
<1>5. ASSUME NEW w \in Workers, WorkerElement(w) PROVE IInv'
  <2> DEFINE i == local_index[w] + 1
  <2>1. PICK e \in Elements : IsNext(w, e) /\ WriteElement(i, e) /\ todo' = [todo EXCEPT ![w] = @ \ {e}]
    BY <1>5 DEF WorkerElement
  <2>2. /\ wpc[w] = "elements"
        /\ UNCHANGED <<representations, global_index, last_generated, wpc, local_index,
                       local_global, mpc, g_idx, cursor, l_idx>>
    BY <1>5 DEF WorkerElement, mainVars
  <2>3. /\ NumPublished \in Nat /\ NumPublished <= local_index[w]
        /\ local_index[w] < Len(BuildList) /\ local_index[w] <= NumPublished
        /\ local_index[w] \in Nat
        /\ i \in Levels /\ i > NumPublished /\ i <= NumPublished + 1
    BY <1>0, <2>2 DEF TypeOK, MainInv, WorkerInv, NumPublished, Levels
  <2>4. /\ rep_raw_data[i] \in Data /\ rep_raw_data[i] # Moved
    BY <1>0, <2>3 DEF TypeOK, PublishedInv
  <2>5. Combined(representations, BuildList[i], e) = BuildList[i] /\ BuildList[i] \in Nat
    BY <1>0, <2>3, CombinedCorrect, LevelFacts
  <2>6. rep_raw_data' = [rep_raw_data EXCEPT ![i] = [rep_raw_data[i] EXCEPT ![e] = BuildList[i]]]
    BY <2>1, <2>4, <2>5 DEF WriteElement
  <2>7. [rep_raw_data[i] EXCEPT ![e] = BuildList[i]] \in Data
    BY <2>4, <2>5 DEF Data
  <2>8. TypeOK'
    BY <1>0, <2>1, <2>2, <2>6, <2>7 DEF TypeOK
  <2>9. NumPublished' = NumPublished
    BY <2>2 DEF NumPublished
  <2>10. PublishedInv'
    <3>1. \A j \in Levels : (rep_raw_data'[j] = Moved) = (rep_raw_data[j] = Moved)
      BY <1>0, <2>4, <2>6, <2>7, MovedAssumption DEF TypeOK
    <3> QED BY <3>1, <1>0, <2>2, <2>9 DEF PublishedInv
  <2>11. MainInv'
    BY <1>0, <2>2 DEF MainInv
  <2>12. WorkerInv'
    BY <1>0, <2>1, <2>2, <2>9 DEF WorkerInv, TypeOK
  <2>13. RawDataInv'
    <3> SUFFICES ASSUME NEW v \in Workers, NEW j \in Levels, j > NumPublished,
                        NEW d \in Generated(v, j)'
                 PROVE  rep_raw_data'[j][d] = BuildList[j]
      BY <2>9 DEF RawDataInv
    <3>1. CASE j = i /\ d = e
      BY <3>1, <1>0, <2>4, <2>6, <2>3 DEF TypeOK, Data
    <3>2. CASE ~(j = i /\ d = e)
      <4>1. d \in Generated(v, j)
        BY <3>2, <1>0, <2>1, <2>2, <2>3 DEF Generated, TypeOK
      <4>2. rep_raw_data[j][d] = BuildList[j]
        BY <4>1, <1>0 DEF RawDataInv
      <4> QED BY <4>2, <3>2, <1>0, <2>6, <2>4, <2>3 DEF TypeOK, Data
    <3> QED BY <3>1, <3>2
  <2> QED BY <2>8, <2>10, <2>11, <2>12, <2>13 DEF IInv
<1>6. ASSUME NEW w \in Workers, WorkerSignal(w) PROVE IInv'
  <2>1. /\ local_index[w] < Len(BuildList) /\ local_index[w] \in Nat
        /\ local_index' = [local_index EXCEPT ![w] = @ + 1]
        /\ last_generated' = [last_generated EXCEPT ![w] = @ + 1]
        /\ last_generated[w] = local_index[w]
    <3>1. local_index[w] < Len(BuildList) /\ wpc[w] = "elements" /\ NumPublished <= local_index[w]
      BY <1>0, <1>6 DEF WorkerSignal, Goto, WorkerInv
    <3>2. mpc \notin {"join", "done"}
      BY <3>1, <1>0 DEF MainInv, TypeOK, NumPublished
    <3> QED BY <3>1, <3>2, <1>0, <1>6 DEF TypeOK, WorkerSignal, MainInv
  <2>2. /\ wpc[w] = "elements" /\ wpc' = [wpc EXCEPT ![w] = "notify"] /\ todo[w] = {}
        /\ UNCHANGED <<representations, rep_raw_data, global_index, local_global,
                       todo, mpc, g_idx, cursor, l_idx>>
    BY <1>6 DEF WorkerSignal, Goto, mainVars
  <2>3. TypeOK'
    BY <1>0, <2>1, <2>2 DEF TypeOK
  <2>4. PublishedInv'
    BY <1>0, <2>2 DEF PublishedInv, NumPublished
  <2>5. MainInv'
    <3>1. \A v \in Workers : local_index[v] <= local_index'[v] /\ local_index'[v] \in Nat /\ local_index[v] \in Nat
      BY <1>0, <2>1 DEF TypeOK
    <3>2. l_idx \in Nat /\ g_idx \in Nat
      BY <1>0 DEF TypeOK
    <3> HIDE <1>0
    <3>3. MainInv
      BY <1>0
    <3>4. mpc \notin {"join", "done"} => last_generated' = local_index'
      BY <2>1, <3>3 DEF MainInv
    <3> QED BY <2>2, <3>1, <3>2, <3>3, <3>4 DEF MainInv
  <2>6. WorkerInv'
    BY <1>0, <2>1, <2>2 DEF WorkerInv, TypeOK, NumPublished
  <2>7. RawDataInv'
    BY <1>0, <2>1, <2>2 DEF RawDataInv, Generated, NumPublished, TypeOK, Levels
  <2> QED BY <2>3, <2>4, <2>5, <2>6, <2>7 DEF IInv
<1>7. ASSUME NEW w \in Workers, WorkerNotify(w) PROVE IInv'
  <2>1. TypeOK'
    BY <1>0, <1>7 DEF TypeOK, WorkerNotify, Goto
  <2>2. PublishedInv'
    BY <1>0, <1>7 DEF PublishedInv, NumPublished, WorkerNotify, Goto
  <2>3. MainInv'
    BY <1>0, <1>7 DEF TypeOK, MainInv, WorkerNotify, Goto
  <2>4. WorkerInv'
    BY <1>0, <1>7 DEF TypeOK, WorkerInv, MainInv, NumPublished, WorkerNotify, Goto
  <2>5. RawDataInv'
    BY <1>0, <1>7 DEF TypeOK, RawDataInv, Generated, NumPublished, WorkerNotify, Goto
  <2> QED BY <2>1, <2>2, <2>3, <2>4, <2>5 DEF IInv
<1>8. ASSUME Launch PROVE IInv'
  <2>1. TypeOK'
    <3>1. CASE cursor < NumWorkers
      <4>1. /\ cursor \in Workers /\ cursor + 1 \in 0 .. NumWorkers
            /\ 0 \in 0 .. Len(BuildList)
        BY <3>1, <1>0 DEF TypeOK, Workers
      <4>2. /\ wpc' = [wpc EXCEPT ![cursor] = "level"] /\ cursor' = cursor + 1 /\ mpc' = mpc
            /\ last_generated' = last_generated
            /\ UNCHANGED <<representations, rep_raw_data, global_index, local_index,
                           local_global, todo, g_idx, l_idx>>
        BY <3>1, <1>8 DEF Launch, Goto
      <4> QED BY <4>1, <4>2, <1>0 DEF TypeOK
    <3>2. CASE ~(cursor < NumWorkers)
      BY <3>2, <1>0, <1>8 DEF TypeOK, Launch
    <3> QED BY <3>1, <3>2
  <2>2. PublishedInv'
    BY <1>0, <1>8 DEF PublishedInv, NumPublished, Launch, Goto, Workers
  <2>3. MainInv'
    BY <1>0, <1>8 DEF TypeOK, MainInv, Launch, Goto, Workers
  <2>4. WorkerInv'
    BY <1>0, <1>8 DEF TypeOK, WorkerInv, MainInv, NumPublished, Launch, Goto, Workers
  <2>5. RawDataInv'
    BY <1>0, <1>8 DEF TypeOK, RawDataInv, Generated, NumPublished, Launch, Goto, Workers
  <2> QED BY <2>1, <2>2, <2>3, <2>4, <2>5 DEF IInv
<1>9. ASSUME NextLevel PROVE IInv'
  <2>1. TypeOK'
    BY <1>0, <1>9 DEF TypeOK, NextLevel, workerVars
  <2>2. PublishedInv'
    BY <1>0, <1>9 DEF PublishedInv, NumPublished, NextLevel, workerVars
  <2>3. MainInv'
    BY <1>0, <1>9 DEF TypeOK, MainInv, NextLevel, workerVars, Workers
  <2>4. WorkerInv'
    BY <1>0, <1>9 DEF TypeOK, WorkerInv, MainInv, NumPublished, NextLevel, workerVars
  <2>5. RawDataInv'
    BY <1>0, <1>9 DEF TypeOK, RawDataInv, Generated, NumPublished, NextLevel, workerVars
  <2> QED BY <2>1, <2>2, <2>3, <2>4, <2>5 DEF IInv
<1>10. ASSUME LoadCounter PROVE IInv'
  <2>1. TypeOK'
    <3>1. cursor < NumWorkers => cursor \in Workers
      BY <1>0 DEF TypeOK, Workers
    <3>2. CASE cursor < NumWorkers
      BY <3>1, <3>2, <1>0, <1>10 DEF TypeOK, LoadCounter, workerVars
    <3>3. CASE ~(cursor < NumWorkers)
      BY <3>3, <1>0, <1>10 DEF TypeOK, MainInv, LoadCounter, workerVars, Workers
    <3> QED BY <3>2, <3>3
  <2>2. PublishedInv'
    BY <1>0, <1>10 DEF PublishedInv, NumPublished, LoadCounter, workerVars, Workers
  <2>3. MainInv'
    BY <1>0, <1>10 DEF TypeOK, MainInv, LoadCounter, workerVars, Workers
  <2>4. WorkerInv'
    BY <1>0, <1>10 DEF TypeOK, WorkerInv, MainInv, NumPublished, LoadCounter, workerVars, Workers
  <2>5. RawDataInv'
    BY <1>0, <1>10 DEF TypeOK, RawDataInv, Generated, NumPublished, LoadCounter, workerVars, Workers
  <2> QED BY <2>1, <2>2, <2>3, <2>4, <2>5 DEF IInv
<1>11. ASSUME WaitCounter PROVE IInv'
  <2>1. TypeOK'
    <3>1. cursor < NumWorkers => cursor \in Workers
      BY <1>0 DEF TypeOK, Workers
    <3>2. CASE cursor < NumWorkers
      BY <3>1, <3>2, <1>0, <1>11 DEF TypeOK, WaitCounter, workerVars
    <3>3. CASE ~(cursor < NumWorkers)
      BY <3>3, <1>0, <1>11 DEF TypeOK, MainInv, WaitCounter, workerVars, Workers
    <3> QED BY <3>2, <3>3
  <2>2. PublishedInv'
    BY <1>0, <1>11 DEF PublishedInv, NumPublished, WaitCounter, workerVars, Workers
  <2>3. MainInv'
    BY <1>0, <1>11 DEF TypeOK, MainInv, WaitCounter, workerVars, Workers
  <2>4. WorkerInv'
    BY <1>0, <1>11 DEF TypeOK, WorkerInv, MainInv, NumPublished, WaitCounter, workerVars, Workers
  <2>5. RawDataInv'
    BY <1>0, <1>11 DEF TypeOK, RawDataInv, Generated, NumPublished, WaitCounter, workerVars, Workers
  <2> QED BY <2>1, <2>2, <2>3, <2>4, <2>5 DEF IInv
<1>12. ASSUME Publish PROVE IInv'
  <2> DEFINE i == g_idx + 1
  <2>1. /\ g_idx \in Nat /\ i \in Levels /\ NumPublished = g_idx /\ NumPublished' = i
        /\ \A w \in Workers : local_index[w] \in Nat /\ i <= local_index[w]
        /\ UNCHANGED <<global_index, last_generated, wpc, local_index, local_global,
                       todo, g_idx, cursor, l_idx>>
        /\ mpc = "publish" /\ mpc' = "add"
    BY <1>0, <1>12 DEF TypeOK, MainInv, NumPublished, Levels, Publish, workerVars
  <2>2. rep_raw_data[i] \in Data
    BY <1>0, <2>1 DEF TypeOK, PublishedInv
  <2>3. \A e \in Elements : rep_raw_data[i][e] = BuildList[i]
    BY <1>0, <2>1, StripesCover DEF RawDataInv, Generated
  <2>4. rep_raw_data[i] = Correct(BuildList[i])
    BY <2>2, <2>3 DEF Data, Correct
  <2>5. /\ representations' = [representations EXCEPT ![BuildList[i]] = Correct(BuildList[i])]
        /\ rep_raw_data' = [rep_raw_data EXCEPT ![i] = Moved]
    BY <2>4, <1>12 DEF Publish
  <2>6. TypeOK'
    BY <1>0, <2>1, <2>2, <2>4, <2>5 DEF TypeOK
  <2>7. PublishedInv'
    BY <1>0, <2>1, <2>5, LevelFacts DEF PublishedInv, TypeOK, Levels
  <2>8. MainInv'
    BY <1>0, <2>1 DEF MainInv
  <2>9. WorkerInv'
    BY <1>0, <2>1 DEF WorkerInv
  <2>10. RawDataInv'
    BY <1>0, <2>1, <2>5 DEF RawDataInv, Generated, TypeOK, Levels
  <2> QED BY <2>6, <2>7, <2>8, <2>9, <2>10 DEF IInv
<1>13. ASSUME AddGlobal PROVE IInv'
  <2>1. TypeOK'
    BY <1>0, <1>13 DEF TypeOK, AddGlobal, workerVars, MainInv
  <2>2. PublishedInv'
    BY <1>0, <1>13 DEF PublishedInv, NumPublished, AddGlobal, workerVars
  <2>3. MainInv'
    BY <1>0, <1>13 DEF TypeOK, MainInv, AddGlobal, workerVars
  <2>4. WorkerInv'
    BY <1>0, <1>13 DEF TypeOK, WorkerInv, MainInv, NumPublished, AddGlobal, workerVars
  <2>5. RawDataInv'
    BY <1>0, <1>13 DEF TypeOK, RawDataInv, Generated, NumPublished, AddGlobal, workerVars
  <2> QED BY <2>1, <2>2, <2>3, <2>4, <2>5 DEF IInv
<1>14. ASSUME NotifyGlobal PROVE IInv'
  <2>1. TypeOK'
    BY <1>0, <1>14 DEF TypeOK, NotifyGlobal, MainInv
  <2>2. PublishedInv'
    BY <1>0, <1>14 DEF PublishedInv, NumPublished, NotifyGlobal, MainInv
  <2>3. MainInv'
    BY <1>0, <1>14 DEF TypeOK, MainInv, NotifyGlobal
  <2>4. WorkerInv'
    BY <1>0, <1>14 DEF TypeOK, WorkerInv, MainInv, NumPublished, NotifyGlobal
  <2>5. RawDataInv'
    BY <1>0, <1>14 DEF TypeOK, RawDataInv, Generated, NumPublished, NotifyGlobal, MainInv
  <2> QED BY <2>1, <2>2, <2>3, <2>4, <2>5 DEF IInv
<1>15. ASSUME Join PROVE IInv'
  <2>1. TypeOK'
    <3>1. CASE cursor < NumWorkers
      <4>1. /\ cursor \in Workers /\ cursor + 1 \in 0 .. NumWorkers
            /\ 0 \in 0 .. Len(BuildList)
        BY <3>1, <1>0 DEF TypeOK, Workers
      <4>2. /\ wpc' = [wpc EXCEPT ![cursor] = "joined"] /\ cursor' = cursor + 1 /\ mpc' = mpc
            /\ last_generated' = [last_generated EXCEPT ![cursor] = 0]
            /\ UNCHANGED <<representations, rep_raw_data, global_index, local_index,
                           local_global, todo, g_idx, l_idx>>
        BY <3>1, <1>15 DEF Join, Goto
      <4> QED BY <4>1, <4>2, <1>0 DEF TypeOK
    <3>2. CASE ~(cursor < NumWorkers)
      BY <3>2, <1>0, <1>15 DEF TypeOK, Join
    <3> QED BY <3>1, <3>2
  <2>2. PublishedInv'
    BY <1>0, <1>15 DEF PublishedInv, NumPublished, Join, Goto, Workers
  <2>3. MainInv'
    BY <1>0, <1>15 DEF TypeOK, MainInv, Join, Goto, Workers
  <2>4. WorkerInv'
    BY <1>0, <1>15 DEF TypeOK, WorkerInv, MainInv, NumPublished, Join, Goto, Workers
  <2>5. RawDataInv'
    BY <1>0, <1>15 DEF TypeOK, RawDataInv, Generated, NumPublished, Join, Goto, Workers
  <2> QED BY <2>1, <2>2, <2>3, <2>4, <2>5 DEF IInv
<1>16. ASSUME UNCHANGED vars PROVE IInv'
  BY <1>0, <1>16 DEF IInv, TypeOK, PublishedInv, MainInv, WorkerInv, RawDataInv, Generated,
                    NumPublished, vars, workerVars, mainVars
<1> QED
  BY <1>1, <1>2, <1>3, <1>4, <1>5, <1>6, <1>7, <1>8, <1>9, <1>10, <1>11, <1>12,
     <1>13, <1>14, <1>15, <1>16 DEF Next, WorkerStep, MainStep, Terminated

-----------------------------------------------------------------------------

THEOREM Invariance == Spec => []IInv
<1>1. Init => IInv
  BY InitInv
<1>2. IInv /\ [Next]_vars => IInv'
  BY NextInv
<1> QED BY <1>1, <1>2, PTL DEF Spec

\* Whatever the number of threads, elements and levels, every variable of the
\* protocol stays in its type; in particular no counter passes the last level.
THEOREM TypeCorrect == Spec => []TypeOK
<1>1. IInv => TypeOK
  BY DEF IInv
<1> QED BY <1>1, Invariance, PTL

\* A worker that generates a level finds both parents published (the promise
\* in the comment of GroupRepGenerationWorker::execute).
THEOREM ParentsArePublished == Spec => []ParentsPublished
<1>1. IInv => ParentsPublished
  <2> SUFFICES ASSUME IInv, NEW w \in Workers, wpc[w] = "elements"
               PROVE  LET n == BuildList[local_index[w] + 1]
                      IN  /\ representations[LeftParent(n)] # Null
                          /\ representations[RightParent(n)] # Null
    BY DEF ParentsPublished
  <2> DEFINE i == local_index[w] + 1
             n == BuildList[i]
  <2>1. Len(BuildList) \in Nat
    BY BuildListAssumption
  <2>2. i \in Levels /\ i <= NumPublished + 1 /\ NumPublished \in Nat
    BY <2>1 DEF IInv, TypeOK, MainInv, WorkerInv, NumPublished, Levels
  <2>3. \A m : m \in Built => representations[m] # Null
    BY BuildListAssumption, CorrectIsData DEF IInv, PublishedInv
  <2>4. \A j \in Levels : j < i => representations[BuildList[j]] # Null
    BY <2>2, LevelFacts, CorrectIsData DEF IInv, PublishedInv, Levels
  <2>5. /\ LeftParent(n) \in Built \/ \E j \in Levels : j < i /\ LeftParent(n) = BuildList[j]
        /\ RightParent(n) \in Built \/ \E j \in Levels : j < i /\ RightParent(n) = BuildList[j]
    BY <2>2, ParentFacts
  <2> QED BY <2>3, <2>4, <2>5
<1> QED BY <1>1, Invariance, PTL

\* What main publishes is complete and right, although the workers' writes are
\* ordered with its move by the counters alone.
THEOREM PublishedIsComplete == Spec => []PublishedComplete
<1>1. IInv => PublishedComplete
  BY LevelFacts DEF IInv, PublishedInv, PublishedComplete, Lengths
<1> QED BY <1>1, Invariance, PTL

\* Main never moves raw data out from under a worker that still writes it.
THEOREM NoWriteIsLost == Spec => []NoWriteAfterMove
<1>1. IInv => NoWriteAfterMove
  <2> SUFFICES ASSUME IInv, NEW w \in Workers, wpc[w] = "elements"
               PROVE  /\ rep_raw_data[local_index[w] + 1] # Moved
                      /\ mpc = "publish" => local_index[w] > g_idx
    BY DEF NoWriteAfterMove
  <2>1. Len(BuildList) \in Nat
    BY BuildListAssumption
  <2>2. local_index[w] + 1 \in Levels /\ NumPublished < local_index[w] + 1 /\ NumPublished \in Nat
    BY <2>1 DEF IInv, TypeOK, WorkerInv, NumPublished, Levels
  <2> QED BY <2>2 DEF IInv, PublishedInv, MainInv, Levels
<1> QED BY <1>1, Invariance, PTL

-----------------------------------------------------------------------------

\* Only main's move of a level's data changes what is published.
LEMMA OnlyPublish ==
    ASSUME IInv, [Next]_vars
    PROVE  Publish \/ UNCHANGED <<representations, NumPublished>>
<1>1. ASSUME NEW w \in Workers, WorkerStep(w), ~WorkerNotify(w)
      PROVE  UNCHANGED <<representations, NumPublished>>
  BY <1>1 DEF WorkerStep, WorkerLevel, WorkerCheck, WorkerWait, WorkerLoad, WorkerElement,
              WorkerSignal, NumPublished, mainVars
<1>2. ASSUME NEW w \in Workers, WorkerNotify(w)
      PROVE  UNCHANGED <<representations, NumPublished>>
  BY <1>2 DEF WorkerNotify, NumPublished
<1>3. ASSUME AddGlobal \/ NotifyGlobal
      PROVE  UNCHANGED <<representations, NumPublished>>
  <2>1. mpc = "notify" => global_index = g_idx + 1
    BY DEF IInv, MainInv
  <2> QED BY <1>3, <2>1 DEF AddGlobal, NotifyGlobal, NumPublished
<1>4. ASSUME Launch \/ NextLevel \/ LoadCounter \/ WaitCounter \/ Join
      PROVE  UNCHANGED <<representations, NumPublished>>
  BY <1>4 DEF Launch, NextLevel, LoadCounter, WaitCounter, Join, NumPublished
<1>5. ASSUME UNCHANGED vars
      PROVE  UNCHANGED <<representations, NumPublished>>
  BY <1>5 DEF vars, mainVars, NumPublished
<1> QED BY <1>1, <1>2, <1>3, <1>4, <1>5 DEF Next, MainStep, Terminated

\* What main's move does, given that every worker is past the level.
LEMMA PublishStep ==
    ASSUME IInv, Publish
    PROVE  LET i == NumPublished + 1
           IN  /\ i \in Levels /\ NumPublished' = i /\ NumPublished = g_idx
               /\ representations[BuildList[i]] = Null
               /\ representations' = [representations EXCEPT ![BuildList[i]] = Correct(BuildList[i])]
<1> DEFINE i == g_idx + 1
<1>1. /\ g_idx \in Nat /\ i \in Levels /\ NumPublished = g_idx /\ NumPublished' = i
      /\ \A w \in Workers : local_index[w] \in Nat /\ i <= local_index[w]
  BY BuildListAssumption DEF IInv, TypeOK, MainInv, NumPublished, Levels, Publish
<1>2. rep_raw_data[i] \in Data /\ representations[BuildList[i]] = Null
  BY <1>1 DEF IInv, TypeOK, PublishedInv
<1>3. \A e \in Elements : rep_raw_data[i][e] = BuildList[i]
  BY <1>1, StripesCover DEF IInv, RawDataInv, Generated
<1>4. rep_raw_data[i] = Correct(BuildList[i])
  BY <1>2, <1>3 DEF Data, Correct
<1> QED BY <1>1, <1>2, <1>4 DEF Publish

\* A reference to a representation, kept by a caller without any lock, always
\* refers to the same complete matrix list.
THEOREM ReferencesStayValid == Spec => PublishedForGood
<1>1. IInv /\ [Next]_vars =>
        [\A n \in Lengths : representations[n] # Null => representations'[n] = representations[n]]_vars
  <2> SUFFICES ASSUME IInv, [Next]_vars, NEW n \in Lengths, representations[n] # Null
               PROVE  representations'[n] = representations[n]
    OBVIOUS
  <2>1. CASE Publish
    BY <2>1, PublishStep DEF IInv, TypeOK
  <2>2. CASE UNCHANGED <<representations, NumPublished>>
    BY <2>2
  <2> QED BY <2>1, <2>2, OnlyPublish
<1> QED BY <1>1, Invariance, PTL DEF Spec, PublishedForGood

\* The multi-threaded builder publishes exactly what the single-threaded one
\* builds, in the same order.
THEOREM RefinesSequential == Spec => ImplementsSequential
<1>1. Init => Sequential!Init
  <2>1. Sequential!InitialRepresentations = InitialRepresentations
    BY DEF Sequential!InitialRepresentations, InitialRepresentations, Sequential!Lengths, Lengths,
           Sequential!Levels, Levels, Sequential!Correct, Correct, Sequential!Elements, Elements
  <2> QED BY <2>1 DEF Init, Sequential!Init, NumPublished
<1>2. IInv /\ [Next]_vars => [Sequential!Build]_Sequential!vars
  <2> SUFFICES ASSUME IInv, [Next]_vars PROVE [Sequential!Build]_Sequential!vars
    OBVIOUS
  <2>1. CASE Publish
    <3> DEFINE i == NumPublished + 1
               n == BuildList[i]
    <3>1. /\ i \in Levels /\ NumPublished' = i /\ NumPublished \in Nat
          /\ NumPublished < Len(BuildList) /\ representations[n] = Null
          /\ representations' = [representations EXCEPT ![n] = Correct(n)]
      BY <2>1, PublishStep, BuildListAssumption DEF IInv, TypeOK, Levels
    <3>2. \A m : m \in Built => representations[m] # Null
      BY BuildListAssumption, CorrectIsData DEF IInv, PublishedInv
    <3>3. \A j \in Levels : j < i => representations[BuildList[j]] # Null
      BY <3>1, LevelFacts, CorrectIsData DEF IInv, PublishedInv, Levels
    <3>4. representations[LeftParent(n)] # Null /\ representations[RightParent(n)] # Null
      BY <3>1, <3>2, <3>3, ParentFacts
    <3>5. \A e \in Elements : Combined(representations, n, e) = n
      BY <3>1, CombinedCorrect DEF IInv
    <3>6. [e \in Elements |-> Combined(representations, n, e)] = Correct(n)
      BY <3>5 DEF Correct
    <3>7. Sequential!Build
      <4>1. [e \in Sequential!Elements |-> Sequential!Combined(representations, n, e)] = Correct(n)
        BY <3>6 DEF Sequential!Elements, Elements, Sequential!Combined, Combined,
                    Sequential!LeftParent, LeftParent, Sequential!RightParent, RightParent,
                    Sequential!IsPowerOfTwo, IsPowerOfTwo, Sequential!BitFloor, BitFloor
      <4>2. /\ Sequential!LeftParent(n) = LeftParent(n)
            /\ Sequential!RightParent(n) = RightParent(n)
        BY DEF Sequential!LeftParent, LeftParent, Sequential!RightParent, RightParent,
               Sequential!IsPowerOfTwo, IsPowerOfTwo, Sequential!BitFloor, BitFloor
      <4> QED BY <3>1, <3>4, <4>1, <4>2 DEF Sequential!Build
    <3> QED BY <3>7
  <2>2. CASE UNCHANGED <<representations, NumPublished>>
    BY <2>2 DEF Sequential!vars
  <2> QED BY <2>1, <2>2, OnlyPublish
<1> QED BY <1>1, <1>2, Invariance, PTL DEF Spec, ImplementsSequential, Sequential!Spec
=============================================================================
