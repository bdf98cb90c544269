--------------------------- MODULE Editor_proofs ---------------------------
(* Proofs about the VS Code side.  TestRuns, for any number of requests,   *)
(* folders and sessions: its variables keep their types, and only sessions *)
(* of folders that runTests came to too late report to an ended test run.  *)
(* LanguageClients, for any number of callers and folders: while nobody    *)
(* holds clientsMutex, the servers that run are those of the clients in    *)
(* the map.  TestItems, for any number of folders, versions and events:    *)
(* when nothing is going on the items shown are found by their ids, and    *)
(* the tests shown are those of the files, for each named reason if not.   *)
EXTENDS TestRuns, LanguageClients, TestItems, SequenceTheorems, FiniteSetTheorems,
        WellFoundedInduction, TLAPS

-----------------------------------------------------------------------------
(* TestRuns.                                                               *)


(* The folders still to come to are counted by what is left of the bound. *)
RunIdsSuffice ==
  /\ IsFiniteSet(LeftToStart)
  /\ runIdCounter + Cardinality(LeftToStart) <= MaxRunId

TInv == trTypeOK /\ RunIdsSuffice

(* A run id that still stands for an ended run was given out too late. *)
EndedIsLate == \A i \in RunIds : testRuns[i] \in ended => i \in late

WInv == EndedIsLate /\ NothingAfterEnd

-----------------------------------------------------------------------------
LEMMA LeftIsFinite == IsFiniteSet(LeftToStart)
<1>1. IsFiniteSet(Runs \X WorkspaceFolders)
  BY FS_Product, TestRunsAssumption
<1>2. LeftToStart \subseteq Runs \X WorkspaceFolders
  BY DEF LeftToStart
<1>. QED BY <1>1, <1>2, FS_Subset

LEMMA LeftIsFiniteNext == IsFiniteSet(LeftToStart')
<1>1. IsFiniteSet(Runs \X WorkspaceFolders)
  BY FS_Product, TestRunsAssumption
<1>2. LeftToStart' \subseteq Runs \X WorkspaceFolders
  BY DEF LeftToStart
<1>. QED BY <1>1, <1>2, FS_Subset

(* A turn of the loop takes one folder off, so there is a run id for it. *)
LEMMA TurnTakesOne ==
  ASSUME TInv, NEW r \in Runs, StartNext(r)
  PROVE  /\ runIdCounter + 1 \in RunIds
         /\ runIdCounter' + Cardinality(LeftToStart') <= MaxRunId
<1>1. PICK f \in toStart[r] : toStart' = [toStart EXCEPT ![r] = @ \ {f}]
  BY DEF StartNext
<1>2. <<r, f>> \in LeftToStart
  BY <1>1 DEF LeftToStart, TInv, trTypeOK
<1>3. LeftToStart' = LeftToStart \ {<<r, f>>}
  BY <1>1 DEF LeftToStart, TInv, trTypeOK
<1>4. Cardinality(LeftToStart') = Cardinality(LeftToStart) - 1
  BY <1>2, <1>3, LeftIsFinite, FS_RemoveElement
<1>5. Cardinality(LeftToStart) \in Nat /\ Cardinality(LeftToStart') \in Nat
  BY LeftIsFinite, LeftIsFiniteNext, FS_CardinalityType
<1>6. runIdCounter' = runIdCounter + 1
  BY DEF StartNext
<1>. QED BY <1>4, <1>5, <1>6, TestRunsAssumption
         DEF TInv, trTypeOK, RunIdsSuffice, RunIds

-----------------------------------------------------------------------------
LEMMA TypesInit == trInit => TInv
<1>. SUFFICES ASSUME trInit PROVE TInv
  OBVIOUS
<1>1. trTypeOK
  BY TestRunsAssumption DEF trInit, trTypeOK, RunIds
<1>2. LeftToStart = {}
  BY DEF trInit, LeftToStart
<1>3. RunIdsSuffice
  BY <1>2, FS_EmptySet, TestRunsAssumption DEF RunIdsSuffice, trInit
<1>. QED BY <1>1, <1>3 DEF TInv

LEMMA SameLeft ==
  ASSUME TInv, UNCHANGED <<toStart, runIdCounter>>
  PROVE  RunIdsSuffice'
BY DEF TInv, RunIdsSuffice, LeftToStart

LEMMA TypesStep == TInv /\ [trNext]_trVars => TInv'
<1>. SUFFICES ASSUME TInv, [trNext]_trVars PROVE TInv'
  OBVIOUS
<1>. USE DEF TInv, testRunVars, sessionVars, historyVars
<1>1. CASE UNCHANGED trVars
  <2>1. trTypeOK'
    BY <1>1 DEF trVars, trTypeOK
  <2>. QED BY <2>1, <1>1, SameLeft DEF trVars
<1>2. ASSUME NEW r \in Runs, runTests(r) PROVE TInv'
  <2>1. trTypeOK'
    BY <1>2 DEF runTests, trTypeOK
  <2>2. RunIdsSuffice'
    BY <1>2, LeftIsFiniteNext DEF runTests, RunIdsSuffice
  <2>. QED BY <2>1, <2>2
<1>3. ASSUME NEW r \in Runs, StartNext(r) PROVE TInv'
  <2>1. runIdCounter + 1 \in RunIds
    BY <1>3, TurnTakesOne
  <2>2. trTypeOK'
    BY <1>3, <2>1, TestRunsAssumption DEF StartNext, trTypeOK, RunIds
  <2>3. RunIdsSuffice'
    BY <1>3, TurnTakesOne, LeftIsFiniteNext DEF RunIdsSuffice
  <2>. QED BY <2>2, <2>3
<1>4. ASSUME NEW r \in Runs, NEW i \in RunIds,
             StartReturns(r, i) \/ StartThrows(r, i) \/ SessionStarts(r, i)
      PROVE  TInv'
  <2>1. trTypeOK'
    BY <1>4 DEF StartReturns, StartThrows, SessionStarts, Starting, trTypeOK
  <2>. QED BY <2>1, <1>4, SameLeft DEF StartReturns, StartThrows, SessionStarts
<1>5. ASSUME NEW r \in Runs, Cancel(r) PROVE TInv'
  <2>1. trTypeOK'
    BY <1>5, TestRunsAssumption DEF Cancel, trTypeOK
  <2>. QED BY <2>1, <1>5, SameLeft DEF Cancel
<1>6. ASSUME NEW r \in Runs, CancelVisits(r) PROVE TInv'
  <2>1. cancelAt[r] + 1 \in 0 .. MaxRunId + 1
    BY <1>6, TestRunsAssumption DEF CancelVisits, RunIds
  <2>2. cancelAt' \in [Runs -> 0 .. MaxRunId + 1]
    BY <1>6, <2>1 DEF CancelVisits, trTypeOK
  <2>3. stopped' \subseteq RunIds
    BY <1>6 DEF CancelVisits, trTypeOK
  <2>4. trTypeOK'
    BY <1>6, <2>2, <2>3 DEF CancelVisits, trTypeOK
  <2>. QED BY <2>4, <1>6, SameLeft DEF CancelVisits
<1>7. ASSUME NEW i \in RunIds, SessionReports(i) PROVE TInv'
  <2>1. trTypeOK'
    BY <1>7 DEF SessionReports, trTypeOK
  <2>. QED BY <2>1, <1>7, SameLeft DEF SessionReports
<1>8. ASSUME NEW i \in RunIds, RobotExits(i) PROVE TInv'
  <2>1. trTypeOK'
    BY <1>8 DEF RobotExits, TestRunExited, trTypeOK
  <2>. QED BY <2>1, <1>8, SameLeft DEF RobotExits
<1>9. ASSUME NEW i \in RunIds, SessionTerminates(i) PROVE TInv'
  <2>1. trTypeOK'
    BY <1>9 DEF SessionTerminates, TestRunExited, trTypeOK
  <2>. QED BY <2>1, <1>9, SameLeft DEF SessionTerminates
<1>. QED BY <1>1, <1>2, <1>3, <1>4, <1>5, <1>6, <1>7, <1>8, <1>9
         DEF trNext, RunTestsStep

(* The variables of the test runs keep their types: the bound on the       *)
(* folders of all requests is a bound on the run ids that runTests gives.  *)
THEOREM TypeCorrect == trSpec => []trTypeOK
<1>1. trInit => TInv
  BY TypesInit
<1>2. TInv /\ [trNext]_trVars => TInv'
  BY TypesStep
<1>3. TInv => trTypeOK
  BY DEF TInv
<1>. QED BY <1>1, <1>2, <1>3, PTL DEF trSpec

-----------------------------------------------------------------------------
(* The end of a run is where nothing stands for it any more. *)
LEMMA ExitKeeps ==
  ASSUME TInv, WInv, NEW i \in RunIds, TestRunExited(i), UNCHANGED late
  PROVE  WInv'
<1>. USE DEF TInv, trTypeOK, WInv, EndedIsLate, NothingAfterEnd
<1>1. CASE testRuns[i] # NoRun /\ \A j \in RunIds : testRuns'[j] # testRuns[i]
  <2>1. ended' = ended \cup {testRuns[i]}
    BY <1>1 DEF TestRunExited
  <2>2. EndedIsLate'
    BY <1>1, <2>1, TestRunsAssumption DEF TestRunExited
  <2>3. NothingAfterEnd'
    BY <1>1 DEF TestRunExited
  <2>. QED BY <2>2, <2>3
<1>2. CASE ~(testRuns[i] # NoRun /\ \A j \in RunIds : testRuns'[j] # testRuns[i])
  <2>1. ended' = ended /\ wasted' = wasted
    BY <1>2 DEF TestRunExited
  <2>2. \A j \in RunIds : testRuns'[j] \in {testRuns[j], NoRun}
    BY DEF TestRunExited
  <2>. QED BY <2>1, <2>2, TestRunsAssumption
<1>. QED BY <1>1, <1>2

LEMMA WasteStep == TInv /\ WInv /\ [trNext]_trVars => WInv'
<1>. SUFFICES ASSUME TInv, WInv, [trNext]_trVars PROVE WInv'
  OBVIOUS
<1>. USE DEF testRunVars, sessionVars, historyVars
<1>1. CASE UNCHANGED trVars
  BY <1>1 DEF trVars, WInv, EndedIsLate, NothingAfterEnd
<1>2. ASSUME NEW r \in Runs,
             \/ runTests(r) \/ Cancel(r) \/ CancelVisits(r)
             \/ \E i \in RunIds :
                  StartReturns(r, i) \/ StartThrows(r, i) \/ SessionStarts(r, i)
      PROVE  WInv'
  <2>1. UNCHANGED <<testRuns, ended, late, wasted>>
    BY <1>2 DEF runTests, Cancel, CancelVisits, StartReturns, StartThrows,
                SessionStarts
  <2>. QED BY <2>1 DEF WInv, EndedIsLate, NothingAfterEnd
<1>3. ASSUME NEW r \in Runs, StartNext(r) PROVE WInv'
  <2>1. /\ testRuns' = [testRuns EXCEPT ![runIdCounter + 1] = r]
        /\ late' = IF r \in ended THEN late \cup {runIdCounter + 1} ELSE late
        /\ ended' = ended /\ wasted' = wasted
    BY <1>3 DEF StartNext
  <2>. QED BY <2>1 DEF TInv, trTypeOK, WInv, EndedIsLate, NothingAfterEnd
<1>4. ASSUME NEW i \in RunIds, SessionReports(i) PROVE WInv'
  BY <1>4 DEF SessionReports, WInv, EndedIsLate, NothingAfterEnd
<1>5. ASSUME NEW i \in RunIds, RobotExits(i) PROVE WInv'
  BY <1>5, ExitKeeps DEF RobotExits
<1>6. ASSUME NEW i \in RunIds, SessionTerminates(i) PROVE WInv'
  <2>1. CASE i \in debugSessions
    BY <1>6, <2>1, ExitKeeps DEF SessionTerminates
  <2>2. CASE i \notin debugSessions
    BY <1>6, <2>2 DEF SessionTerminates, WInv, EndedIsLate, NothingAfterEnd
  <2>. QED BY <2>1, <2>2
<1>. QED BY <1>1, <1>2, <1>3, <1>4, <1>5, <1>6 DEF trNext, RunTestsStep

(* Only the sessions of folders that runTests came to after their run had  *)
(* ended report to it, or end it again: robotExited and the end of the     *)
(* session, in either order and for any number of folders, end it once.    *)
THEOREM LateOnesAlone == trSpec => []NothingAfterEnd
<1>1. trInit => TInv /\ WInv
  <2>1. trInit => WInv
    BY TestRunsAssumption
       DEF trInit, WInv, EndedIsLate, NothingAfterEnd
  <2>. QED BY <2>1, TypesInit
<1>2. (TInv /\ WInv) /\ [trNext]_trVars => (TInv /\ WInv)'
  BY TypesStep, WasteStep
<1>3. WInv => NothingAfterEnd
  BY DEF WInv
<1>. QED BY <1>1, <1>2, <1>3, PTL DEF trSpec

-----------------------------------------------------------------------------
(* LanguageClients.                                                        *)


Waits == {"get", "refresh", "dispose"}
Works == {"start", "stop", "stopAll"}

TypesOK ==
  /\ clients \in [ClientFolders -> Clients \cup {NoClient}]
  /\ server \in [Clients -> {"none", "up", "down"}]
  /\ made \in 0 .. MaxClients
  /\ clientsMutex \in Seq(Callers)
  /\ call \in [Callers -> {"none", "reopen", "done"} \cup Waits \cup Works]
  /\ folder \in [Callers -> ClientFolders]
  /\ toStop \subseteq Clients
  /\ toReopen \in [Callers -> SUBSET ClientFolders]

Queued(p) == \E i \in 1 .. Len(clientsMutex) : clientsMutex[i] = p

(* A caller is queued once; the one at the head may work, the others wait. *)
MutexInv ==
  /\ \A i, j \in 1 .. Len(clientsMutex) :
       clientsMutex[i] = clientsMutex[j] => i = j
  /\ \A p \in Callers : Queued(p) => call[p] \in Waits \cup Works
  /\ \A p \in Callers : call[p] \in Works => Holds(p)

Up == {c \in Clients : server[c] = "up"}
SomeoneStarts == \E p \in Callers : call[p] = "start"
Stopping == \E p \in Callers : call[p] \in {"stop", "stopAll"}

(* While a client is being started its server is not yet in the map, and   *)
(* while the clients are being stopped some of the map run no more.        *)
ServersInv ==
  /\ \A c \in Up : c <= made
  /\ Known \subseteq 1 .. made
  /\ \A c \in Up : c \in unstopped \/ c \in Known \/ (SomeoneStarts /\ c = made)
  /\ \A c \in Known : c \in Up \/ stale \/ Stopping
  /\ \A f, g \in ClientFolders : clients[f] = clients[g] => f = g \/ clients[f] = NoClient
  /\ \A p \in Callers : call[p] = "start" =>
       made \in Up /\ made \notin Known /\ clients[folder[p]] = NoClient
  /\ Stopping => \A c \in Up : c \in unstopped \/ c \in toStop

CInv == TypesOK /\ MutexInv /\ ServersInv

-----------------------------------------------------------------------------
(* clientsMutex *)

LEMMA AppendElements ==
  ASSUME NEW S, NEW s \in Seq(S), NEW e \in S
  PROVE  /\ Append(s, e) \in Seq(S)
         /\ Len(Append(s, e)) = Len(s) + 1
         /\ \A i \in 1 .. Len(s) : Append(s, e)[i] = s[i]
         /\ Append(s, e)[Len(s) + 1] = e
OBVIOUS

LEMMA TailElements ==
  ASSUME NEW S, NEW s \in Seq(S), s # <<>>
  PROVE  /\ Tail(s) \in Seq(S)
         /\ Head(s) = s[1] /\ Head(s) \in S
         /\ Len(s) >= 1
         /\ Len(Tail(s)) = Len(s) - 1
         /\ \A i \in 1 .. Len(s) - 1 : Tail(s)[i] = s[i + 1]
OBVIOUS

(* Whoever works does it alone: nobody else holds the mutex. *)
LEMMA WorksAlone ==
  ASSUME CInv, NEW p \in Callers, Holds(p), NEW q \in Callers, call[q] \in Works
  PROVE  q = p
BY DEF CInv, MutexInv, Holds

LEMMA HolderIsQueued ==
  ASSUME CInv, NEW p \in Callers, Holds(p)
  PROVE  Queued(p)
<1>1. clientsMutex[1] = p /\ 1 \in 1 .. Len(clientsMutex)
  BY TailElements DEF CInv, TypesOK, Holds
<1>. QED BY <1>1 DEF Queued

(* dispatch queues a caller that was not queued. *)
LEMMA DispatchKeeps ==
  ASSUME CInv, NEW p \in Callers, call[p] \notin Waits \cup Works,
         NEW w \in Waits, call' = [call EXCEPT ![p] = w],
         clientsMutex' = Append(clientsMutex, p)
  PROVE  clientsMutex' \in Seq(Callers) /\ MutexInv'
<1>. USE DEF CInv, TypesOK, MutexInv
<1>0. Len(clientsMutex) \in Nat
  OBVIOUS
<1>1. /\ clientsMutex' \in Seq(Callers)
      /\ Len(clientsMutex') = Len(clientsMutex) + 1
      /\ \A i \in 1 .. Len(clientsMutex) : clientsMutex'[i] = clientsMutex[i]
      /\ clientsMutex'[Len(clientsMutex) + 1] = p
  BY AppendElements
<1>2. \A i \in 1 .. Len(clientsMutex) : clientsMutex[i] # p
  BY DEF Queued
<1>3. \A i, j \in 1 .. Len(clientsMutex') :
        clientsMutex'[i] = clientsMutex'[j] => i = j
  BY <1>0, <1>1, <1>2
<1>4. \A q \in Callers : Queued(q)' => q = p \/ Queued(q)
  BY <1>0, <1>1 DEF Queued
<1>5. \A q \in Callers : Queued(q)' => call'[q] \in Waits \cup Works
  BY <1>4
<1>6. ASSUME NEW q \in Callers, call'[q] \in Works PROVE Holds(q)'
  <2>1. call[q] \in Works
    BY <1>6 DEF Waits, Works
  <2>2. clientsMutex # <<>> /\ Head(clientsMutex) = q
    BY <2>1 DEF Holds
  <2>3. Len(clientsMutex) >= 1 /\ clientsMutex[1] = q
    BY <2>2, TailElements
  <2>4. clientsMutex' # <<>> /\ Head(clientsMutex') = clientsMutex'[1]
    BY <1>0, <1>1, TailElements
  <2>. QED BY <1>0, <1>1, <2>3, <2>4 DEF Holds
<1>. QED BY <1>1, <1>3, <1>5, <1>6

(* The holder leaves the queue, and works no more. *)
LEMMA ReleaseKeeps ==
  ASSUME CInv, NEW p \in Callers, Holds(p), NEW c \in {"reopen", "done"},
         call' = [call EXCEPT ![p] = c], clientsMutex' = Tail(clientsMutex)
  PROVE  /\ clientsMutex' \in Seq(Callers)
         /\ MutexInv'
         /\ \A q \in Callers : call'[q] \notin Works
<1>. USE DEF CInv, TypesOK, MutexInv
<1>0. Len(clientsMutex) \in Nat
  OBVIOUS
<1>1. clientsMutex # <<>> /\ Head(clientsMutex) = p
  BY DEF Holds
<1>2. /\ clientsMutex' \in Seq(Callers)
      /\ clientsMutex[1] = p
      /\ Len(clientsMutex) >= 1
      /\ Len(clientsMutex') = Len(clientsMutex) - 1
      /\ \A i \in 1 .. Len(clientsMutex) - 1 : clientsMutex'[i] = clientsMutex[i + 1]
  BY <1>1, TailElements
<1>3. \A i, j \in 1 .. Len(clientsMutex') :
        clientsMutex'[i] = clientsMutex'[j] => i = j
  <2>. SUFFICES ASSUME NEW i \in 1 .. Len(clientsMutex'), NEW j \in 1 .. Len(clientsMutex'),
                       clientsMutex'[i] = clientsMutex'[j]
                PROVE  i = j
    OBVIOUS
  <2>1. i + 1 \in 1 .. Len(clientsMutex) /\ j + 1 \in 1 .. Len(clientsMutex)
    BY <1>0, <1>2
  <2>2. clientsMutex[i + 1] = clientsMutex[j + 1]
    BY <1>0, <1>2
  <2>. QED BY <2>1, <2>2
<1>4. \A q \in Callers : Queued(q)' => q # p /\ Queued(q)
  <2>. SUFFICES ASSUME NEW q \in Callers, NEW i \in 1 .. Len(clientsMutex'),
                       clientsMutex'[i] = q
                PROVE  q # p /\ Queued(q)
    BY DEF Queued
  <2>1. i + 1 \in 1 .. Len(clientsMutex) /\ i + 1 # 1 /\ 1 \in 1 .. Len(clientsMutex)
    BY <1>0, <1>2
  <2>2. clientsMutex[i + 1] = q
    BY <1>0, <1>2
  <2>. QED BY <1>2, <2>1, <2>2 DEF Queued
<1>5. \A q \in Callers : Queued(q)' => call'[q] \in Waits \cup Works
  BY <1>4
<1>6. \A q \in Callers : call'[q] \notin Works
  <2>. SUFFICES ASSUME NEW q \in Callers PROVE call'[q] \notin Works
    OBVIOUS
  <2>1. CASE q = p
    BY <2>1 DEF Works
  <2>2. CASE q # p
    BY <2>2, WorksAlone
  <2>. QED BY <2>1, <2>2
<1>. QED BY <1>2, <1>3, <1>5, <1>6

(* The holder goes on. *)
LEMMA HolderKeeps ==
  ASSUME CInv, NEW p \in Callers, Holds(p), NEW w \in Waits \cup Works,
         call' = [call EXCEPT ![p] = w], clientsMutex' = clientsMutex
  PROVE  MutexInv'
<1>. USE DEF CInv, TypesOK, MutexInv
<1>1. Holds(p)'
  BY DEF Holds
<1>2. \A q \in Callers : Holds(q)' <=> Holds(q)
  BY DEF Holds
<1>3. \A q \in Callers : Queued(q)' <=> Queued(q)
  BY DEF Queued
<1>. QED BY <1>1, <1>2, <1>3

-----------------------------------------------------------------------------
(* The steps *)

LEMMA ClientsInit == lcInit => CInv
<1>. SUFFICES ASSUME lcInit PROVE CInv
  OBVIOUS
<1>1. TypesOK
  BY ClientsAssumption DEF lcInit, TypesOK, NoClient
<1>2. MutexInv
  BY DEF lcInit, MutexInv, Queued, Works
<1>3. ServersInv
  BY DEF lcInit, ServersInv, Up, Known, SomeoneStarts, Stopping, NoClient
<1>. QED BY <1>1, <1>2, <1>3 DEF CInv

LEMMA DispatchStep ==
  ASSUME CInv, NEW p \in Callers,
         Reopens(p) \/ \E what \in Waits : Calls(p, what)
  PROVE  CInv'
<1>1. PICK what \in Waits : call' = [call EXCEPT ![p] = what]
  BY DEF Reopens, Calls, callers, Waits
<1>2. /\ call[p] \in {"none", "reopen"}
      /\ clientsMutex' = Append(clientsMutex, p)
      /\ UNCHANGED <<clients, server, made, toStop, unstopped, stale>>
      /\ folder' = folder \/ \E f \in toReopen[p] : folder' = [folder EXCEPT ![p] = f]
      /\ toReopen' = toReopen \/ \E f \in toReopen[p] : toReopen' = [toReopen EXCEPT ![p] = @ \ {f}]
  BY DEF Reopens, Calls
<1>3. clientsMutex' \in Seq(Callers) /\ MutexInv'
  BY <1>1, <1>2, DispatchKeeps DEF Waits, Works
<1>4. TypesOK'
  BY <1>1, <1>2, <1>3 DEF CInv, TypesOK
<1>5. \A q \in Callers : call'[q] \in Works => call'[q] = call[q] /\ folder'[q] = folder[q]
  BY <1>1, <1>2 DEF CInv, TypesOK, Waits, Works
<1>6. (SomeoneStarts' <=> SomeoneStarts) /\ (Stopping' <=> Stopping)
  BY <1>1, <1>2 DEF CInv, TypesOK, SomeoneStarts, Stopping, Waits
<1>7. Up' = Up /\ Known' = Known
  BY <1>2 DEF Up, Known
<1>8. ServersInv'
  BY <1>2, <1>5, <1>6, <1>7 DEF CInv, ServersInv, Works
<1>. QED BY <1>3, <1>4, <1>8 DEF CInv

(* The steps of the holder of the mutex that let it go. *)
LEMMA ReleaseStep ==
  ASSUME CInv, NEW p \in Callers, Holds(p),
         \/ Returns(p)
         \/ Cleared(p)
  PROVE  /\ clientsMutex' \in Seq(Callers)
         /\ MutexInv'
         /\ call' \in [Callers -> {"none", "reopen", "done"} \cup Waits \cup Works]
         /\ ~SomeoneStarts' /\ ~Stopping'
         /\ \A q \in Callers : call'[q] # "start"
<1>1. PICK c \in {"reopen", "done"} : call' = [call EXCEPT ![p] = c]
  BY DEF Returns, Cleared
<1>2. clientsMutex' = Tail(clientsMutex)
  BY DEF Returns, Cleared
<1>3. /\ clientsMutex' \in Seq(Callers)
      /\ MutexInv'
      /\ \A q \in Callers : call'[q] \notin Works
  BY <1>1, <1>2, ReleaseKeeps
<1>. QED BY <1>1, <1>3 DEF SomeoneStarts, Stopping, Works, CInv, TypesOK

LEMMA FoundStep ==
  ASSUME CInv, NEW p \in Callers, FindsClient(p) \/ NoPython(p)
  PROVE  CInv'
<1>1. /\ Holds(p) /\ call[p] = "get" /\ Returns(p)
      /\ UNCHANGED <<clients, server, made, folder, toStop, toReopen, unstopped, stale>>
  BY DEF FindsClient, NoPython, Returns
<1>2. ~SomeoneStarts /\ ~Stopping
  BY <1>1, WorksAlone DEF SomeoneStarts, Stopping, Works
<1>3. TypesOK'
  BY <1>1, ReleaseStep DEF CInv, TypesOK
<1>4. Up' = Up /\ Known' = Known
  BY <1>1 DEF Up, Known
<1>5. ServersInv'
  BY <1>1, <1>2, <1>4, ReleaseStep DEF CInv, ServersInv
<1>. QED BY <1>1, <1>3, <1>5, ReleaseStep DEF CInv

LEMMA StartStep ==
  ASSUME CInv, NEW p \in Callers, StartsClient(p)
  PROVE  CInv'
<1>1. /\ Holds(p) /\ call[p] = "get" /\ clients[folder[p]] = NoClient
      /\ made < MaxClients /\ made' = made + 1
      /\ server' = [server EXCEPT ![made + 1] = "up"]
      /\ call' = [call EXCEPT ![p] = "start"]
      /\ UNCHANGED <<clients, clientsMutex, folder, toStop, toReopen, unstopped, stale>>
  BY DEF StartsClient
<1>2. \A q \in Callers : q # p => call[q] \notin Works
  BY <1>1, WorksAlone
<1>3. ~SomeoneStarts /\ ~Stopping /\ SomeoneStarts' /\ ~Stopping'
  BY <1>1, <1>2 DEF SomeoneStarts, Stopping, Works, CInv, TypesOK
<1>4. made + 1 \in Clients
  BY <1>1, ClientsAssumption DEF CInv, TypesOK, Clients
<1>5. TypesOK'
  BY <1>1, <1>4, ClientsAssumption DEF CInv, TypesOK, Works, Clients
<1>6. MutexInv'
  BY <1>1, HolderKeeps DEF Works
<1>7. Up' = Up \cup {made + 1} /\ Known' = Known
  BY <1>1, <1>4 DEF Up, Known, CInv, TypesOK
<1>8. made \in Nat /\ Up \subseteq Nat
  BY ClientsAssumption DEF CInv, TypesOK, Up, Clients
<1>9. \A q \in Callers : call'[q] = "start" => q = p
  BY <1>1, <1>2 DEF Works, CInv, TypesOK
<1>10. made' \in Up' /\ made' \notin Known' /\ Known' \subseteq 1 .. made'
  BY <1>1, <1>7, <1>8 DEF CInv, ServersInv
<1>11. \A c \in Up' : c <= made'
  BY <1>1, <1>7, <1>8 DEF CInv, ServersInv
<1>12. \A c \in Up' : c \in unstopped' \/ c \in Known' \/ c = made'
  BY <1>1, <1>3, <1>7 DEF CInv, ServersInv
<1>13. \A c \in Known' : c \in Up' \/ stale'
  BY <1>1, <1>3, <1>7 DEF CInv, ServersInv
<1>14. \A q \in Callers : call'[q] = "start" => clients'[folder'[q]] = NoClient
  BY <1>1, <1>9
<1>15. \A f, g \in ClientFolders :
         clients'[f] = clients'[g] => f = g \/ clients'[f] = NoClient
  BY <1>1 DEF CInv, ServersInv
<1>16. ServersInv'
  BY <1>3, <1>10, <1>11, <1>12, <1>13, <1>14, <1>15 DEF ServersInv
<1>. QED BY <1>5, <1>6, <1>16 DEF CInv

LEMMA ReadyStep ==
  ASSUME CInv, NEW p \in Callers, Ready(p)
  PROVE  CInv'
<1>1. /\ Holds(p) /\ call[p] = "start" /\ Returns(p)
      /\ clients' = [clients EXCEPT ![folder[p]] = made]
      /\ UNCHANGED <<server, made, folder, toStop, toReopen, unstopped, stale>>
  BY DEF Ready, Returns
<1>2. made \in Up /\ made \notin Known /\ clients[folder[p]] = NoClient
  BY <1>1 DEF CInv, ServersInv
<1>3. made \in Clients /\ made # NoClient /\ made \in 1 .. made
  BY <1>2 DEF Up, Clients, NoClient
<1>4. folder[p] \in ClientFolders
  BY DEF CInv, TypesOK
<1>5. Up' = Up /\ Known' = Known \cup {made}
  BY <1>1, <1>2, <1>3, <1>4 DEF Up, Known, CInv, TypesOK
<1>6. ~Stopping
  BY <1>1, WorksAlone DEF Stopping, Works
<1>7. TypesOK'
  BY <1>1, <1>3, <1>4, ReleaseStep DEF CInv, TypesOK
<1>8. \A f \in ClientFolders : clients[f] # made
  BY <1>2, <1>3 DEF Known
<1>9. \A f, g \in ClientFolders :
        clients'[f] = clients'[g] => f = g \/ clients'[f] = NoClient
  BY <1>1, <1>4, <1>8 DEF CInv, ServersInv, TypesOK
<1>10. ServersInv'
  BY <1>1, <1>2, <1>3, <1>5, <1>6, <1>9, ReleaseStep DEF CInv, ServersInv
<1>. QED BY <1>1, <1>7, <1>10, ReleaseStep DEF CInv

LEMMA NotReadyStep ==
  ASSUME CInv, NEW p \in Callers, NotReady(p)
  PROVE  CInv'
<1>1. /\ Holds(p) /\ call[p] = "start" /\ Returns(p)
      /\ server' = [server EXCEPT ![made] = "down"]
      /\ UNCHANGED <<clients, made, folder, toStop, toReopen, unstopped, stale>>
  BY DEF NotReady, Returns
<1>2. made \in Up /\ made \notin Known
  BY <1>1 DEF CInv, ServersInv
<1>3. Up' = Up \ {made} /\ Known' = Known
  BY <1>1, <1>2 DEF Up, Known, CInv, TypesOK
<1>4. ~Stopping
  BY <1>1, WorksAlone DEF Stopping, Works
<1>5. TypesOK'
  BY <1>1, ReleaseStep DEF CInv, TypesOK
<1>6. ServersInv'
  BY <1>1, <1>2, <1>3, <1>4, ReleaseStep DEF CInv, ServersInv
<1>. QED BY <1>1, <1>5, <1>6, ReleaseStep DEF CInv

LEMMA StopStep ==
  ASSUME CInv, NEW p \in Callers, StopsClients(p)
  PROVE  CInv'
<1>1. /\ Holds(p) /\ call[p] \in {"refresh", "dispose"}
      /\ toStop' = Known
      /\ UNCHANGED <<clients, server, made, clientsMutex, folder, toReopen, unstopped, stale>>
  BY DEF StopsClients
<1>2. PICK w \in {"stop", "stopAll"} : call' = [call EXCEPT ![p] = w]
  BY DEF StopsClients
<1>3. \A q \in Callers : call[q] \notin Works
  BY <1>1, WorksAlone DEF Works
<1>4. ~SomeoneStarts /\ ~Stopping /\ ~SomeoneStarts' /\ Stopping'
  BY <1>1, <1>2, <1>3 DEF SomeoneStarts, Stopping, Works, CInv, TypesOK
<1>5. Up' = Up /\ Known' = Known /\ Known \subseteq Clients
  BY <1>1 DEF Up, Known, CInv, TypesOK
<1>6. TypesOK'
  BY <1>1, <1>2, <1>5 DEF CInv, TypesOK, Works
<1>7. MutexInv'
  BY <1>1, <1>2, HolderKeeps DEF Works
<1>8. ServersInv'
  BY <1>1, <1>4, <1>5 DEF CInv, ServersInv, SomeoneStarts
<1>. QED BY <1>6, <1>7, <1>8 DEF CInv

LEMMA StoppedStep ==
  ASSUME CInv, NEW p \in Callers, Stopped(p) \/ StopFails(p)
  PROVE  CInv'
<1>1. /\ Holds(p) /\ call[p] \in {"stop", "stopAll"}
      /\ UNCHANGED <<clients, made, clientsMutex, call, folder, toReopen, stale>>
  BY DEF Stopped, StopFails, callers
<1>2. PICK c \in toStop :
        /\ toStop' = toStop \ {c}
        /\ \/ server' = [server EXCEPT ![c] = "down"] /\ unstopped' = unstopped
           \/ server' = server /\ unstopped' = unstopped \cup {c}
  BY DEF Stopped, StopFails
<1>3. Stopping /\ Stopping' /\ (SomeoneStarts' <=> SomeoneStarts)
  BY <1>1 DEF SomeoneStarts, Stopping
<1>4. ~SomeoneStarts
  BY <1>1, WorksAlone DEF SomeoneStarts, Works
<1>5. TypesOK'
  BY <1>1, <1>2 DEF CInv, TypesOK
<1>6. MutexInv'
  BY <1>1 DEF CInv, MutexInv, Queued, Holds
<1>7. Known' = Known /\ Up' \subseteq Up /\ \A d \in Up' : d = c => d \in unstopped'
  BY <1>1, <1>2 DEF Up, Known, CInv, TypesOK
<1>8. \A q \in Callers : call'[q] # "start"
  BY <1>3, <1>4 DEF SomeoneStarts
<1>9. ServersInv'
  BY <1>1, <1>2, <1>3, <1>4, <1>7, <1>8 DEF CInv, ServersInv
<1>. QED BY <1>5, <1>6, <1>9 DEF CInv

LEMMA StopAllFailsStep ==
  ASSUME CInv, NEW p \in Callers, StopAllFails(p)
  PROVE  CInv'
<1>1. /\ Holds(p) /\ call[p] = "stopAll" /\ Returns(p)
      /\ toStop' = {} /\ stale' = TRUE
      /\ UNCHANGED <<clients, made, folder, toReopen>>
  BY DEF StopAllFails, Returns
<1>2. PICK c \in toStop :
        /\ unstopped' = unstopped \cup {c}
        /\ server' = [d \in Clients |-> IF d \in toStop \ {c} THEN "down" ELSE server[d]]
  BY DEF StopAllFails
<1>3. Stopping /\ ~SomeoneStarts
  BY <1>1, WorksAlone DEF SomeoneStarts, Stopping, Works
<1>4. TypesOK'
  BY <1>1, <1>2, ReleaseStep DEF CInv, TypesOK
<1>5. Known' = Known /\ Up' \subseteq Up /\ Up' \cap toStop \subseteq {c}
  BY <1>1, <1>2 DEF Up, Known, CInv, TypesOK
<1>6. Up' \subseteq unstopped'
  BY <1>2, <1>3, <1>5 DEF CInv, ServersInv
<1>7. ServersInv'
  BY <1>1, <1>5, <1>6, ReleaseStep DEF CInv, ServersInv
<1>. QED BY <1>1, <1>4, <1>7, ReleaseStep DEF CInv

LEMMA ClearStep ==
  ASSUME CInv, NEW p \in Callers, Cleared(p) \/ AllStopped(p)
  PROVE  CInv'
<1>1. /\ Holds(p) /\ call[p] \in {"stop", "stopAll"} /\ toStop = {}
      /\ clients' = [f \in ClientFolders |-> NoClient]
      /\ Returns(p) \/ Cleared(p)
      /\ UNCHANGED <<server, made, folder, toStop, unstopped>>
  BY DEF Cleared, AllStopped, Returns
<1>2. toReopen' \in [Callers -> SUBSET ClientFolders]
  BY DEF Cleared, AllStopped, Returns, CInv, TypesOK
<1>3. Stopping /\ ~SomeoneStarts
  BY <1>1, WorksAlone DEF SomeoneStarts, Stopping, Works
<1>4. TypesOK'
  BY <1>1, <1>2, ReleaseStep DEF CInv, TypesOK
<1>5. Known' = {} /\ Up' = Up
  BY <1>1 DEF Up, Known
<1>6. Up \subseteq unstopped'
  BY <1>1, <1>3 DEF CInv, ServersInv
<1>7. \A f \in ClientFolders : clients'[f] = NoClient
  BY <1>1
<1>8. ServersInv'
  BY <1>1, <1>5, <1>6, <1>7, ReleaseStep DEF CInv, ServersInv
<1>. QED BY <1>1, <1>4, <1>8, ReleaseStep DEF CInv

LEMMA ClientsStep == CInv /\ [lcNext]_lcVars => CInv'
<1>. SUFFICES ASSUME CInv, [lcNext]_lcVars PROVE CInv'
  OBVIOUS
<1>1. CASE UNCHANGED lcVars
  BY <1>1 DEF lcVars, callers, CInv, TypesOK, MutexInv, ServersInv, Queued,
              Holds, Up, Known, SomeoneStarts, Stopping
<1>2. CASE lcNext
  BY <1>2, DispatchStep, FoundStep, StartStep, ReadyStep, NotReadyStep,
     StopStep, StoppedStep, StopAllFailsStep, ClearStep
     DEF lcNext, Waits
<1>. QED BY <1>1, <1>2

(* clientsMutex keeps the servers and the map together: whenever nobody    *)
(* holds it, every server that runs is the client of one folder, unless    *)
(* stopping it has failed, and every client in the map has a server that   *)
(* runs, unless stopAllClients has failed.                                 *)
THEOREM NoServerIsForgotten == lcSpec => []ServersAreKnown
<1>1. lcInit => CInv
  BY ClientsInit
<1>2. CInv /\ [lcNext]_lcVars => CInv'
  BY ClientsStep
<1>3. CInv => ServersAreKnown
  <2>. SUFFICES ASSUME CInv, clientsMutex = <<>>
                PROVE  LET up == {c \in Clients : server[c] = "up"}
                       IN  /\ up \ unstopped \subseteq Known
                           /\ Known \subseteq up \/ stale
                           /\ \A f, g \in ClientFolders :
                                clients[f] = clients[g] => f = g \/ clients[f] = NoClient
    BY DEF ServersAreKnown
  <2>1. ~SomeoneStarts /\ ~Stopping
    BY DEF CInv, MutexInv, Holds, SomeoneStarts, Stopping, Works
  <2>. QED BY <2>1 DEF CInv, ServersInv, Up
<1>. QED BY <1>1, <1>2, <1>3, PTL DEF lcSpec

(* clientsMutex lets one caller at a time start, stop or look for a client. *)
THEOREM OneCallerWorks ==
  lcSpec => [](\A p, q \in Callers : call[p] \in Works /\ call[q] \in Works => p = q)
<1>1. CInv => \A p, q \in Callers : call[p] \in Works /\ call[q] \in Works => p = q
  BY DEF CInv, MutexInv, Holds
<1>. QED BY <1>1, ClientsInit, ClientsStep, PTL DEF lcSpec

-----------------------------------------------------------------------------
(* TestItems.                                                              *)


(* A set of numbers has a least one. *)
LEMMA SomeLeast ==
  ASSUME NEW T, T \subseteq Nat, T # {}
  PROVE  \E x \in T : \A y \in T : x <= y
<1>. DEFINE smaller == {ss \in Nat \X Nat : ss[1] < ss[2]}
<1>1. OpToRel(<, Nat) = smaller
  BY DEF OpToRel
<1>2. \A x, y \in Nat : <<y, x>> \notin smaller => x <= y
  OBVIOUS
<1>. HIDE DEF smaller
<1>3. IsWellFoundedOn(smaller, Nat)
  BY <1>1, NatLessThanWellFounded
<1>4. \E x \in T : \A y \in T : ~ (<<y, x>> \in smaller)
  BY <1>3, WFMin, Zenon
<1>. QED BY <1>2, <1>4

(* Induction on a set of numbers. *)
LEMMA NumbersFromZero ==
  ASSUME NEW T, 0 \in T, \A n \in Nat : n \in T => n + 1 \in T
  PROVE  Nat \subseteq T
<1>2. SUFFICES ASSUME Nat \ T # {} PROVE FALSE
  OBVIOUS
<1>3. PICK x \in Nat \ T : \A y \in Nat \ T : x <= y
  BY <1>2, SomeLeast
<1>4. x # 0 /\ x - 1 \in Nat
  BY <1>3
<1>6. x - 1 \in T
  BY <1>3, <1>4
<1>7. (x - 1) + 1 \in T
  BY <1>4, <1>6
<1>. QED BY <1>3, <1>7

-----------------------------------------------------------------------------
(* Only: the ids in a set.                                                 *)
Step(ids, S, k, i) == IF ids[i] \in S THEN Append(k[i - 1], ids[i]) ELSE k[i - 1]
Keeps(k, ids, S, n) == k = [i \in 0 .. n |-> IF i = 0 THEN <<>> ELSE Step(ids, S, k, i)]

LEMMA KeptExists ==
  ASSUME NEW ids, NEW S, NEW n \in Nat
  PROVE  \E k : Keeps(k, ids, S, n)
<1>. DEFINE T == {m \in Nat : \E k : Keeps(k, ids, S, m)}
<1>1. 0 \in T
  <2>1. Keeps([i \in 0 .. 0 |-> <<>>], ids, S, 0)
    BY DEF Keeps
  <2>. QED BY <2>1
<1>2. ASSUME NEW m \in Nat, m \in T PROVE m + 1 \in T
  <2>1. PICK k : Keeps(k, ids, S, m)
    BY <1>2
  <2>. DEFINE k2 == [i \in 0 .. m + 1 |-> IF i = 0 THEN <<>> ELSE Step(ids, S, k, i)]
  <2>2. \A i \in 0 .. m : k2[i] = k[i]
    BY <2>1 DEF Keeps
  <2>3. \A i \in 0 .. m + 1 : i # 0 => Step(ids, S, k2, i) = Step(ids, S, k, i)
    <3>. SUFFICES ASSUME NEW i \in 0 .. m + 1, i # 0 PROVE Step(ids, S, k2, i) = Step(ids, S, k, i)
      OBVIOUS
    <3>1. i - 1 \in 0 .. m
      OBVIOUS
    <3>2. k2[i - 1] = k[i - 1]
      BY <2>2, <3>1
    <3>. HIDE DEF k2
    <3>. QED BY <3>2 DEF Step
  <2>4. Keeps(k2, ids, S, m + 1)
    BY <2>3 DEF Keeps
  <2>. QED BY <2>4
<1>. HIDE DEF T
<1>3. Nat \subseteq T
  BY <1>1, <1>2, NumbersFromZero
<1>. QED BY <1>3 DEF T

LEMMA OnlyIsKept ==
  ASSUME NEW ids \in Seq(Versions), NEW S
  PROVE  \E k : Keeps(k, ids, S, Len(ids)) /\ Only(ids, S) = k[Len(ids)]
<1>. DEFINE Is(k) == k = [i \in 0 .. Len(ids) |-> IF i = 0 THEN <<>> ELSE IF ids[i] \in S THEN Append(k[i - 1], ids[i]) ELSE k[i - 1]]
            kept == CHOOSE k : Is(k)
<1>1. \E k : Is(k)
  <2>1. Len(ids) \in Nat
    OBVIOUS
  <2>2. PICK k : Keeps(k, ids, S, Len(ids))
    BY <2>1, KeptExists
  <2>3. Is(k)
    BY <2>2 DEF Keeps, Step
  <2>. QED BY <2>3
<1>2. Is(kept)
  BY <1>1
<1>3. Only(ids, S) = kept[Len(ids)]
  BY DEF Only
<1>. QED BY <1>2, <1>3 DEF Keeps, Step

LEMMA ToSetEmpty == <<>> \in Seq(Versions) /\ ToSet(<<>>) = {}
BY DEF ToSet

LEMMA ToSetAppend ==
  ASSUME NEW q \in Seq(Versions), NEW v \in Versions
  PROVE  Append(q, v) \in Seq(Versions) /\ ToSet(Append(q, v)) = ToSet(q) \union {v}
<1>1. /\ Append(q, v) \in Seq(Versions) /\ DOMAIN Append(q, v) = 1 .. Len(q) + 1
      /\ Append(q, v)[Len(q) + 1] = v /\ \A i \in 1 .. Len(q) : Append(q, v)[i] = q[i]
  OBVIOUS
<1>2. DOMAIN q = 1 .. Len(q) /\ Len(q) \in Nat
  OBVIOUS
<1>. QED BY <1>1, <1>2 DEF ToSet

(* What the first i steps keep. *)
Kept(ids, S, i) == {ids[j] : j \in 1 .. i} \intersect S

LEMMA OnlyHas ==
  ASSUME NEW ids \in Seq(Versions), NEW S
  PROVE  Only(ids, S) \in Seq(Versions) /\ ToSet(Only(ids, S)) = ToSet(ids) \intersect S
<1>1. PICK k : Keeps(k, ids, S, Len(ids)) /\ Only(ids, S) = k[Len(ids)]
  BY OnlyIsKept
<1>. DEFINE T == {i \in Nat : i <= Len(ids) => k[i] \in Seq(Versions) /\ ToSet(k[i]) = Kept(ids, S, i)}
<1>2. 0 \in T
  <2>1. k[0] = <<>>
    BY <1>1 DEF Keeps
  <2>2. Kept(ids, S, 0) = {}
    BY DEF Kept
  <2>. QED BY <2>1, <2>2, ToSetEmpty
<1>3. ASSUME NEW i \in Nat, i \in T PROVE i + 1 \in T
  <2>. SUFFICES ASSUME i + 1 <= Len(ids)
                PROVE  k[i + 1] \in Seq(Versions) /\ ToSet(k[i + 1]) = Kept(ids, S, i + 1)
    OBVIOUS
  <2>1. k[i] \in Seq(Versions) /\ ToSet(k[i]) = Kept(ids, S, i)
    BY <1>3
  <2>2. k[i + 1] = IF ids[i + 1] \in S THEN Append(k[i], ids[i + 1]) ELSE k[i]
    <3>1. i + 1 \in 0 .. Len(ids) /\ i + 1 # 0 /\ (i + 1) - 1 = i
      OBVIOUS
    <3>2. k[i + 1] = Step(ids, S, k, i + 1)
      BY <1>1, <3>1 DEF Keeps
    <3>. QED BY <3>1, <3>2 DEF Step
  <2>3. ids[i + 1] \in Versions
    OBVIOUS
  <2>4. Kept(ids, S, i + 1) = Kept(ids, S, i) \union ({ids[i + 1]} \intersect S)
    BY DEF Kept
  <2>5. ToSet(Append(k[i], ids[i + 1])) = ToSet(k[i]) \union {ids[i + 1]}
    BY <2>1, <2>3, ToSetAppend
  <2>6. CASE ids[i + 1] \in S
    BY <2>1, <2>2, <2>3, <2>4, <2>5, <2>6, ToSetAppend
  <2>7. CASE ids[i + 1] \notin S
    BY <2>1, <2>2, <2>4, <2>7
  <2>. QED BY <2>6, <2>7
<1>. HIDE DEF T
<1>4. Len(ids) \in T
  BY <1>2, <1>3, NumbersFromZero
<1>5. Only(ids, S) \in Seq(Versions) /\ ToSet(Only(ids, S)) = Kept(ids, S, Len(ids))
  BY <1>1, <1>4 DEF T
<1>. QED BY <1>5 DEF Kept, ToSet
-----------------------------------------------------------------------------
(* Types, and what the queues and a refresh under way are known to have.   *)
Refreshes == [what : {"all", "file"}, folder : 0 .. NFolders]
Answers == Versions \union {NotFetched, Unknown}
Shown == Versions \union {Hidden}
TurnSteps == {"fetch", "fetched", "suite"}
FileSteps == {"file", "document", "read"}
Turns == [step : {"idle", "next"} \union TurnSteps \union FileSteps, todo : SUBSET Folders,
          added : SUBSET Folders, old : SUBSET Folders, answer : Int, found : Versions]

tiTypeOK ==
  /\ namesake \in BOOLEAN /\ folders \subseteq Folders
  /\ disk \in [Folders -> Versions] /\ editor \in [Folders -> Versions]
  /\ robotTestItems \in [Folders -> Answers]
  /\ rootShown \in [Folders -> BOOLEAN] /\ testsShown \in [Folders -> Shown]
  /\ testItems \in [Folders -> Seq(Versions)]
  /\ refreshes \in Seq(Refreshes) /\ at \in Turns
  /\ fileEvents \in Seq(Folders) /\ handling \in BOOLEAN /\ eventCount \in Nat
  /\ outdated \subseteq Folders /\ readded \subseteq Folders /\ discarded \subseteq Folders
  /\ missed \subseteq Folders /\ thrown \in BOOLEAN

(* At most one refresh is that of the handler of a changed file.           *)
OfHandler(r) == r.what = "all" /\ r.folder # 0
QueuesOK ==
  /\ at.step # "idle" => refreshes # <<>>
  /\ handling => fileEvents # <<>>
  /\ \A i \in 1 .. Len(refreshes) : OfHandler(refreshes[i]) =>
       handling /\ \A j \in 1 .. Len(refreshes) : OfHandler(refreshes[j]) => j = i

(* A refresh has the folder whose turn it is, or the item of the document. *)
TurnOK ==
  /\ at.step \in TurnSteps => at.todo # {}
  /\ at.step \in {"fetched", "suite"} => at.answer \in Versions \union {Unknown}
  /\ at.step \in FileSteps => at.answer \in Folders /\ testsShown[at.answer] # Hidden
  /\ at.step = "file" => robotTestItems[at.answer] \in Versions \ {0}

BaseInv == tiTypeOK /\ QueuesOK /\ TurnOK

LEMMA NumbersDiffer ==
  /\ 0 \in Versions /\ 1 \in Versions /\ Versions \subseteq Nat /\ Folders \subseteq Nat \ {0} /\ Folders \subseteq 0 .. NFolders
  /\ Hidden \in Int /\ NotFetched \in Int /\ Unknown \in Int /\ NotFetched # Unknown
  /\ Hidden \notin Versions /\ NotFetched \notin Versions /\ Unknown \notin Versions
BY TestItemsAssumption DEF Versions, Hidden, Unknown, NotFetched, Folders

LEMMA TurnIsToDo ==
  ASSUME at.todo \subseteq Folders, at.todo # {}
  PROVE  Turn \in at.todo
<1>1. at.todo \subseteq Nat
  BY NumbersDiffer
<1>2. \E x \in at.todo : \A y \in at.todo : x <= y
  BY <1>1, SomeLeast
<1>. QED BY <1>2 DEF Turn

LEMMA DocumentRefreshIs ==
  ASSUME tiTypeOK, NEW f \in Folders
  PROVE  \/ DocumentRefresh(f) = <<RefreshAll>> /\ testItems[f] = <<>>
         \/ DocumentRefresh(f) = <<RefreshFile(f)>> /\ testItems[f] # <<>> /\ Head(testItems[f]) = 0
         \/ DocumentRefresh(f) = <<>> /\ testItems[f] # <<>> /\ Head(testItems[f]) # 0
BY DEF DocumentRefresh

LEMMA RefreshTypes ==
  /\ RefreshAll \in Refreshes /\ ~OfHandler(RefreshAll)
  /\ \A f \in Folders : /\ RefreshFile(f) \in Refreshes /\ ~OfHandler(RefreshFile(f))
                        /\ [RefreshAll EXCEPT !.folder = f] \in Refreshes
BY NumbersDiffer, TestItemsAssumption DEF RefreshAll, RefreshFile, Refreshes, OfHandler

(* The queue of refreshes when one is added to it. *)
LEMMA OneMore ==
  ASSUME BaseInv, NEW r \in Refreshes, refreshes' = Append(refreshes, r),
         at'.step = at.step, ~OfHandler(r), handling' = handling, fileEvents' = fileEvents \/ fileEvents' # <<>>
  PROVE  refreshes' \in Seq(Refreshes) /\ QueuesOK'
<1>0. refreshes \in Seq(Refreshes)
  BY DEF BaseInv, tiTypeOK
<1>1. /\ refreshes' \in Seq(Refreshes) /\ Len(refreshes') = Len(refreshes) + 1
      /\ refreshes'[Len(refreshes) + 1] = r
      /\ \A i \in 1 .. Len(refreshes) : refreshes'[i] = refreshes[i]
  BY <1>0
<1>5. refreshes' # <<>>
  BY <1>0
<1>2. Len(refreshes) \in Nat
  BY DEF BaseInv, tiTypeOK
<1>3. \A i \in 1 .. Len(refreshes') : OfHandler(refreshes'[i]) => i \in 1 .. Len(refreshes) /\ OfHandler(refreshes[i])
  BY <1>1, <1>2
<1>. QED BY <1>1, <1>3, <1>5 DEF BaseInv, QueuesOK

LEMMA SameQueue ==
  ASSUME BaseInv, UNCHANGED <<refreshes, handling>>, at'.step # "idle" => refreshes # <<>>,
         fileEvents' = fileEvents \/ fileEvents' # <<>>
  PROVE  refreshes' \in Seq(Refreshes) /\ QueuesOK'
BY DEF BaseInv, tiTypeOK, QueuesOK

LEMMA LeavesTypes ==
  ASSUME BaseInv, Leaves, refreshes # <<>>
  PROVE  /\ refreshes' \in Seq(Refreshes) /\ at' \in Turns /\ fileEvents' \in Seq(Folders)
         /\ handling' \in BOOLEAN /\ QueuesOK' /\ at'.step = "idle" /\ at'.todo = {}
<1>1. /\ refreshes' \in Seq(Refreshes) /\ Len(refreshes') = Len(refreshes) - 1 /\ refreshes' = Tail(refreshes)
      /\ \A i \in 1 .. Len(refreshes') : refreshes'[i] = refreshes[i + 1] /\ i + 1 \in 1 .. Len(refreshes)
      /\ Current = refreshes[1] /\ 1 \in 1 .. Len(refreshes) /\ Len(refreshes') \in Nat
  BY DEF BaseInv, tiTypeOK, Leaves, Current
<1>2. at' \in Turns /\ at'.step = "idle" /\ at'.todo = {}
  BY NumbersDiffer DEF Leaves, Idle, Turns
<1>3. CASE OfHandler(Current)
  <2>1. fileEvents' = Tail(fileEvents) /\ handling' = FALSE /\ fileEvents # <<>>
    BY <1>1, <1>3 DEF Leaves, OfHandler, BaseInv, QueuesOK
  <2>2. fileEvents' \in Seq(Folders)
    BY <2>1 DEF BaseInv, tiTypeOK
  <2>3. \A i \in 1 .. Len(refreshes') : ~OfHandler(refreshes'[i])
    <3>. SUFFICES ASSUME NEW i \in 1 .. Len(refreshes'), OfHandler(refreshes[i + 1]) PROVE FALSE
      BY <1>1
    <3>1. i + 1 = 1
      BY <1>1, <1>3 DEF BaseInv, QueuesOK
    <3>. QED BY <3>1, <1>1
  <2>. QED BY <1>1, <1>2, <2>1, <2>2, <2>3 DEF QueuesOK
<1>4. CASE ~OfHandler(Current)
  <2>1. UNCHANGED <<fileEvents, handling>>
    BY <1>4 DEF Leaves, OfHandler, fileHandlers
  <2>2. \A i, j \in 1 .. Len(refreshes') :
          OfHandler(refreshes'[i]) => handling /\ (OfHandler(refreshes'[j]) => j = i)
    <3>. SUFFICES ASSUME NEW i \in 1 .. Len(refreshes'), NEW j \in 1 .. Len(refreshes'), OfHandler(refreshes[i + 1])
                  PROVE  handling /\ (OfHandler(refreshes[j + 1]) => j = i)
      BY <1>1
    <3>1. i + 1 \in 1 .. Len(refreshes) /\ j + 1 \in 1 .. Len(refreshes)
      BY <1>1
    <3>2. handling /\ (OfHandler(refreshes[j + 1]) => j + 1 = i + 1)
      BY <3>1 DEF BaseInv, QueuesOK
    <3>. QED BY <1>1, <3>2
  <2>. QED BY <1>1, <1>2, <2>1, <2>2 DEF QueuesOK, BaseInv, tiTypeOK
<1>. QED BY <1>3, <1>4

-----------------------------------------------------------------------------
(* Every step keeps them.                                                  *)
LEMMA DocumentAsks ==
  ASSUME BaseInv, NEW f \in Folders, refreshes' = refreshes \o DocumentRefresh(f)
  PROVE  \/ refreshes' = Append(refreshes, RefreshAll)
         \/ refreshes' = Append(refreshes, RefreshFile(f))
         \/ refreshes' = refreshes /\ testItems[f] # <<>> /\ Head(testItems[f]) # 0
<1>1. \A r \in Refreshes : refreshes \o <<r>> = Append(refreshes, r)
  BY DEF BaseInv, tiTypeOK
<1>2. refreshes \o <<>> = refreshes
  BY DEF BaseInv, tiTypeOK
<1>. QED BY <1>1, <1>2, DocumentRefreshIs, RefreshTypes DEF BaseInv

LEMMA InputsBase ==
  ASSUME BaseInv, NEW f \in Folders, OpenOrEdit(f) \/ Save(f) \/ CloseDocument(f) \/ FileChanges(f)
  PROVE  BaseInv'
<1>1. UNCHANGED <<namesake, folders, tree, at, robotTestItems, readded, handling, outdated, thrown>>
  BY DEF OpenOrEdit, Save, CloseDocument, FileChanges, gaps, fileHandlers
<1>2. /\ disk' \in [Folders -> Versions] /\ editor' \in [Folders -> Versions]
      /\ eventCount' \in Nat /\ missed' \subseteq Folders /\ discarded' \subseteq Folders
  <2>. /\ disk \in [Folders -> Versions] /\ editor \in [Folders -> Versions]
       /\ 0 \in Versions /\ editor[f] \in Versions /\ disk[f] \in Versions /\ eventCount \in Nat
       /\ missed \subseteq Folders /\ discarded \subseteq Folders
    BY NumbersDiffer DEF BaseInv, tiTypeOK
  <2>1. CASE OpenOrEdit(f)
    <3>1. disk' = disk /\ \E v \in Versions : editor' = [editor EXCEPT ![f] = v]
      BY <2>1 DEF OpenOrEdit
    <3>2. eventCount' \in Nat /\ missed' \subseteq Folders /\ discarded' = discarded
      BY <2>1 DEF OpenOrEdit, Event
    <3>. QED BY <3>1, <3>2
  <2>2. CASE Save(f)
    BY <2>2 DEF Save, Event
  <2>3. CASE CloseDocument(f)
    BY <2>3 DEF CloseDocument
  <2>4. CASE FileChanges(f)
    BY <2>4 DEF FileChanges, Event, gaps
  <2>. QED BY <2>1, <2>2, <2>3, <2>4
<1>3. fileEvents' \in Seq(Folders) /\ (fileEvents' = fileEvents \/ fileEvents' # <<>>)
  <2>1. fileEvents' = fileEvents \/ fileEvents' = Append(fileEvents, f)
    BY DEF OpenOrEdit, Save, CloseDocument, FileChanges, fileHandlers
  <2>2. Append(fileEvents, f) \in Seq(Folders) /\ Append(fileEvents, f) # <<>>
    <3>1. fileEvents \in Seq(Folders)
      BY DEF BaseInv, tiTypeOK
    <3>2. Append(fileEvents, f) \in Seq(Folders) /\ Len(Append(fileEvents, f)) = Len(fileEvents) + 1 /\ Len(fileEvents) \in Nat
      BY <3>1
    <3>. QED BY <3>2
  <2>. QED BY <2>1, <2>2 DEF BaseInv, tiTypeOK
<1>4. refreshes' \in Seq(Refreshes) /\ QueuesOK'
  <2>1. refreshes' = refreshes \/ \E r \in Refreshes : ~OfHandler(r) /\ refreshes' = Append(refreshes, r)
    <3>1. refreshes' = refreshes \/ refreshes' = refreshes \o DocumentRefresh(f)
      BY DEF OpenOrEdit, Save, CloseDocument, FileChanges
    <3>. QED BY <3>1, DocumentAsks, RefreshTypes
  <2>2. at'.step # "idle" => refreshes # <<>>
    BY <1>1 DEF BaseInv, QueuesOK
  <2>. QED BY <1>1, <1>3, <2>1, <2>2, OneMore, SameQueue
<1>5. TurnOK'
  BY <1>1 DEF BaseInv, TurnOK, tree
<1>. QED BY <1>1, <1>2, <1>3, <1>4, <1>5 DEF BaseInv, tiTypeOK, tree

LEMMA ConfigurationBase ==
  ASSUME BaseInv, ConfigurationChanges
  PROVE  BaseInv'
<1>1. /\ UNCHANGED <<content, robotTestItems, tree, at, fileHandlers, gaps>> /\ eventCount' \in Nat
      /\ refreshes' = Append(refreshes, RefreshAll)
  BY DEF ConfigurationChanges, Event, BaseInv, tiTypeOK
<1>2. refreshes' \in Seq(Refreshes) /\ QueuesOK'
  BY <1>1, OneMore, RefreshTypes DEF fileHandlers
<1>3. TurnOK'
  BY <1>1 DEF BaseInv, TurnOK, tree
<1>. QED BY <1>1, <1>2, <1>3 DEF BaseInv, tiTypeOK, tree, content, gaps, fileHandlers

LEMMA AddFolderBase ==
  ASSUME BaseInv, NEW f \in Folders, AddFolder(f)
  PROVE  BaseInv'
<1>1. /\ UNCHANGED <<namesake, disk, editor, robotTestItems, tree, at, fileHandlers, outdated, discarded, missed, thrown>>
      /\ eventCount' \in Nat /\ refreshes' = Append(refreshes, RefreshAll)
      /\ folders' \subseteq Folders /\ readded' \subseteq Folders
  BY DEF AddFolder, Event, BaseInv, tiTypeOK
<1>2. refreshes' \in Seq(Refreshes) /\ QueuesOK'
  BY <1>1, OneMore, RefreshTypes DEF fileHandlers
<1>3. TurnOK'
  BY <1>1 DEF BaseInv, TurnOK, tree
<1>. QED BY <1>1, <1>2, <1>3 DEF BaseInv, tiTypeOK, tree, fileHandlers

LEMMA RemoveFolderBase ==
  ASSUME BaseInv, NEW f \in Folders, RemoveFolder(f)
  PROVE  BaseInv'
<1>1. /\ UNCHANGED <<namesake, disk, editor, rootShown, testsShown, fileHandlers, gaps>>
      /\ eventCount' \in Nat /\ refreshes' = Append(refreshes, RefreshAll)
      /\ folders' \subseteq Folders
      /\ robotTestItems' = [robotTestItems EXCEPT ![f] = NotFetched]
      /\ at' = [at EXCEPT !.old = @ \cup {f}] /\ at.step # "file"
  BY DEF RemoveFolder, Event, Awaiting, BaseInv, tiTypeOK
<1>2. \A g \in Folders : Only(testItems[g], Versions \ ShownItems(g)) \in Seq(Versions)
  BY OnlyHas DEF BaseInv, tiTypeOK
<1>3. testItems' \in [Folders -> Seq(Versions)]
  BY <1>2 DEF RemoveFolder, BaseInv, tiTypeOK
<1>4. /\ at' \in Turns /\ at'.step = at.step /\ at'.answer = at.answer /\ at'.todo = at.todo
      /\ robotTestItems' \in [Folders -> Answers]
  BY <1>1 DEF BaseInv, tiTypeOK, Turns, Answers
<1>5. refreshes' \in Seq(Refreshes) /\ QueuesOK'
  BY <1>1, <1>4, OneMore, RefreshTypes DEF fileHandlers
<1>6. TurnOK'
  BY <1>1, <1>4 DEF BaseInv, TurnOK
<1>. QED BY <1>1, <1>3, <1>4, <1>5, <1>6 DEF BaseInv, tiTypeOK, fileHandlers, gaps

LEMMA CollectBase ==
  ASSUME BaseInv, NEW f \in Folders, Collect(f)
  PROVE  BaseInv'
<1>1. /\ UNCHANGED <<content, robotTestItems, rootShown, testsShown, refreshes, at, fileHandlers, eventCount, gaps>>
      /\ testItems' = [testItems EXCEPT ![f] = Only(@, ShownItems(f))]
  BY DEF Collect
<1>2. Only(testItems[f], ShownItems(f)) \in Seq(Versions)
  BY OnlyHas DEF BaseInv, tiTypeOK
<1>3. testItems' \in [Folders -> Seq(Versions)]
  BY <1>1, <1>2 DEF BaseInv, tiTypeOK
<1>4. QueuesOK' /\ TurnOK'
  BY <1>1 DEF BaseInv, QueuesOK, TurnOK, fileHandlers
<1>. QED BY <1>1, <1>3, <1>4 DEF BaseInv, tiTypeOK, content, fileHandlers, gaps

LEMMA RefreshFromUriBase ==
  ASSUME BaseInv, refreshFromUri
  PROVE  BaseInv'
<1>. DEFINE f == Head(fileEvents)
            r == [RefreshAll EXCEPT !.folder = f]
<1>1. /\ UNCHANGED <<content, tree, at, eventCount, readded, discarded, missed, thrown>>
      /\ fileEvents # <<>> /\ handling = FALSE /\ at.step # "file"
  BY DEF refreshFromUri, Awaiting, BaseInv, tiTypeOK
<1>2. f \in Folders /\ Tail(fileEvents) \in Seq(Folders) /\ refreshes \in Seq(Refreshes)
  BY <1>1 DEF BaseInv, tiTypeOK
<1>. HIDE DEF f
<1>3. CASE f \in folders
  <2>1. /\ robotTestItems' = [robotTestItems EXCEPT ![f] = NotFetched] /\ refreshes' = Append(refreshes, r)
        /\ handling' = TRUE /\ fileEvents' = fileEvents /\ outdated' \subseteq Folders
    BY <1>2, <1>3 DEF refreshFromUri, f, BaseInv, tiTypeOK
  <2>2. robotTestItems' \in [Folders -> Answers]
    BY <2>1 DEF BaseInv, tiTypeOK, Answers
  <2>3. r \in Refreshes
    BY <1>2, RefreshTypes
  <2>. HIDE DEF r
  <2>4. /\ refreshes' \in Seq(Refreshes) /\ Len(refreshes') = Len(refreshes) + 1 /\ Len(refreshes) \in Nat
        /\ refreshes'[Len(refreshes) + 1] = r
        /\ \A i \in 1 .. Len(refreshes) : refreshes'[i] = refreshes[i]
    BY <1>2, <2>1, <2>3
  <2>5. refreshes' # <<>>
    BY <1>2, <2>1, <2>3
  <2>6. \A i \in 1 .. Len(refreshes) : ~OfHandler(refreshes[i])
    BY <1>1 DEF BaseInv, QueuesOK
  <2>7. \A i \in 1 .. Len(refreshes') : OfHandler(refreshes'[i]) => i = Len(refreshes) + 1
    BY <2>4, <2>6
  <2>8. QueuesOK'
    BY <1>1, <2>1, <2>5, <2>7 DEF QueuesOK
  <2>9. TurnOK'
    BY <1>1 DEF BaseInv, TurnOK, tree
  <2>. QED BY <1>1, <1>2, <2>1, <2>2, <2>4, <2>8, <2>9 DEF BaseInv, tiTypeOK, tree, content
<1>4. CASE f \notin folders
  <2>1. fileEvents' = Tail(fileEvents) /\ UNCHANGED <<robotTestItems, refreshes, handling, outdated>>
    BY <1>4 DEF refreshFromUri, f
  <2>2. QueuesOK' /\ TurnOK'
    BY <1>1, <2>1 DEF BaseInv, QueuesOK, TurnOK, tree
  <2>. QED BY <1>1, <1>2, <2>1, <2>2 DEF BaseInv, tiTypeOK, tree, content
<1>. QED BY <1>3, <1>4

(* A step of a refresh that goes on: the queues stay. *)
LEMMA GoesOn ==
  ASSUME BaseInv, at.step # "idle", UNCHANGED <<refreshes, fileHandlers>>
  PROVE  QueuesOK'
BY DEF BaseInv, QueuesOK, fileHandlers

LEMMA BeginBase ==
  ASSUME BaseInv, Begin
  PROVE  BaseInv'
<1>1. UNCHANGED <<content, robotTestItems, tree, eventCount, gaps>> /\ refreshes # <<>> /\ at.step = "idle"
  BY DEF Begin
<1>. DEFINE f == Current.folder
<1>2. 0 \in Versions /\ 0 \in Int /\ folders \subseteq Folders
  BY NumbersDiffer DEF BaseInv, tiTypeOK
<1>3. CASE Current.what = "all"
  <2>1. at' = [Idle EXCEPT !.step = "next", !.todo = folders] /\ UNCHANGED <<refreshes, fileHandlers>>
    BY <1>3 DEF Begin
  <2>2. at' \in Turns /\ at'.step = "next"
    BY <1>2, <2>1 DEF Turns, Idle
  <2>3. QueuesOK' /\ TurnOK'
    BY <1>1, <2>1, <2>2 DEF BaseInv, QueuesOK, TurnOK, fileHandlers, TurnSteps, FileSteps
  <2>. QED BY <1>1, <2>1, <2>2, <2>3 DEF BaseInv, tiTypeOK, tree, content, gaps, fileHandlers
<1>4. CASE Current.what # "all" /\ testsShown[f] # Hidden /\ f \in RootFolder(f) /\ robotTestItems[f] # 0
  <2>1. at' = [Idle EXCEPT !.step = "file", !.answer = f] /\ UNCHANGED <<refreshes, fileHandlers>>
    BY <1>4 DEF Begin
  <2>2. f \in Folders /\ robotTestItems[f] \in Versions \ {0} /\ f \in Int
    <3>. HIDE DEF f
    <3>1. f \in Folders /\ robotTestItems[f] \in Versions \ {0}
      BY <1>4 DEF RootFolder, HasRoot
    <3>. QED BY <3>1, NumbersDiffer
  <2>3. at' \in Turns /\ at'.step = "file" /\ at'.answer = f
    BY <1>2, <2>1, <2>2 DEF Turns, Idle, FileSteps
  <2>4. QueuesOK' /\ TurnOK'
    BY <1>1, <1>4, <2>1, <2>2, <2>3 DEF BaseInv, QueuesOK, TurnOK, fileHandlers, tree, TurnSteps, FileSteps
  <2>. QED BY <1>1, <2>1, <2>3, <2>4 DEF BaseInv, tiTypeOK, tree, content, gaps, fileHandlers
<1>5. CASE Current.what # "all" /\ ~(testsShown[f] # Hidden /\ f \in RootFolder(f) /\ robotTestItems[f] # 0)
  <2>1. Leaves
    BY <1>5 DEF Begin
  <2>2. TurnOK'
    BY <1>1, <2>1, LeavesTypes DEF TurnOK, TurnSteps, FileSteps
  <2>. QED BY <1>1, <2>1, <2>2, LeavesTypes DEF BaseInv, tiTypeOK, tree, content, gaps
<1>. QED BY <1>3, <1>4, <1>5

LEMMA AskingBase ==
  ASSUME BaseInv, NextFolder \/ getTestsFromWorkspace \/ SkipFolder \/ AskDocument \/ getTestsFromDocument
  PROVE  BaseInv'
<1>. USE DEF TurnSteps, FileSteps
<1>1. /\ UNCHANGED <<content, robotTestItems, tree, refreshes, fileHandlers, eventCount, readded, thrown>>
      /\ at.step # "idle"
  BY DEF NextFolder, getTestsFromWorkspace, SkipFolder, AskDocument, getTestsFromDocument, gaps
<1>2. /\ at \in Turns /\ robotTestItems \in [Folders -> Answers] /\ disk \in [Folders -> Versions]
      /\ editor \in [Folders -> Versions] /\ Answers \subseteq Int /\ Versions \subseteq Int /\ 0 \in Versions
      /\ outdated \subseteq Folders /\ discarded \subseteq Folders /\ missed \subseteq Folders
  BY NumbersDiffer DEF BaseInv, tiTypeOK, Answers
<1>3. at.todo # {} => Turn \in Folders
  BY <1>2, TurnIsToDo DEF Turns
<1>4. at' \in Turns /\ TurnOK' /\ outdated' \subseteq Folders /\ discarded' \subseteq Folders /\ missed' \subseteq Folders
  <2>1. CASE NextFolder
    <3>1. robotTestItems[Turn] \in Answers /\ at.todo # {}
      BY <1>2, <1>3, <2>1 DEF NextFolder
    <3>2. /\ outdated' = outdated /\ discarded' = discarded /\ missed' = missed
          /\ \/ at' = [at EXCEPT !.step = "fetch"]
             \/ at' = [at EXCEPT !.step = "suite", !.answer = robotTestItems[Turn]] /\ robotTestItems[Turn] # NotFetched
      BY <2>1 DEF NextFolder, gaps
    <3>. QED BY <1>2, <3>1, <3>2 DEF Turns, TurnOK, Answers
  <2>2. CASE getTestsFromWorkspace
    <3>1. at.todo # {}
      BY <2>2 DEF getTestsFromWorkspace, BaseInv, TurnOK
    <3>2. PICK answer \in {disk[Turn], Unknown} : at' = [at EXCEPT !.step = "fetched", !.answer = answer]
      BY <2>2 DEF getTestsFromWorkspace, SuiteOf
    <3>3. answer \in Versions \union {Unknown} /\ answer \in Int
      BY <1>2, <1>3, <3>1, NumbersDiffer
    <3>4. discarded' = discarded /\ missed' = missed /\ outdated' \subseteq Folders
      BY <1>2, <2>2 DEF getTestsFromWorkspace
    <3>. QED BY <1>2, <3>1, <3>2, <3>3, <3>4 DEF Turns, TurnOK
  <2>3. CASE SkipFolder
    <3>1. at' = [at EXCEPT !.step = "next", !.todo = @ \ {Turn}, !.answer = 0, !.found = 0]
      BY <2>3 DEF SkipFolder, NextTurn
    <3>2. outdated' = outdated /\ discarded' = discarded /\ missed' = missed
      BY <2>3 DEF SkipFolder, gaps
    <3>. QED BY <1>2, <3>1, <3>2 DEF Turns, TurnOK
  <2>4. CASE AskDocument
    <3>1. at' = [at EXCEPT !.step = "document"] /\ at.step = "file"
      BY <2>4 DEF AskDocument
    <3>2. outdated' = outdated /\ discarded' = discarded /\ missed' = missed
      BY <2>4 DEF AskDocument, gaps
    <3>. QED BY <1>1, <1>2, <3>1, <3>2 DEF Turns, TurnOK, BaseInv, tree
  <2>5. CASE getTestsFromDocument
    <3>1. at' = [at EXCEPT !.step = "read", !.found = TextOf(at.answer)] /\ at.step = "document"
      BY <2>5 DEF getTestsFromDocument
    <3>2. TextOf(at.answer) \in Versions
      BY <1>2, <3>1 DEF TextOf, BaseInv, TurnOK
    <3>3. outdated' = outdated /\ discarded' \subseteq Folders /\ missed' \subseteq Folders
      BY <1>2, <2>5 DEF getTestsFromDocument
    <3>. QED BY <1>1, <1>2, <3>1, <3>2, <3>3 DEF Turns, TurnOK, BaseInv, tree
  <2>. QED BY <2>1, <2>2, <2>3, <2>4, <2>5
<1>5. QueuesOK'
  BY <1>1, GoesOn
<1>. QED BY <1>1, <1>4, <1>5 DEF BaseInv, tiTypeOK, tree, content, fileHandlers

LEMMA StoreBase ==
  ASSUME BaseInv, StoreAnswer
  PROVE  BaseInv'
<1>1. /\ UNCHANGED <<content, tree, refreshes, fileHandlers, eventCount, gaps>> /\ at.step = "fetched"
      /\ at' = [at EXCEPT !.step = "suite"]
      /\ robotTestItems' = IF Turn \in at.old THEN robotTestItems ELSE [robotTestItems EXCEPT ![Turn] = at.answer]
  BY DEF StoreAnswer
<1>2. at.answer \in Versions \union {Unknown} /\ at.todo # {}
  BY <1>1 DEF BaseInv, TurnOK, TurnSteps
<1>3. robotTestItems' \in [Folders -> Answers] /\ at' \in Turns /\ at'.step = "suite" /\ at'.answer = at.answer /\ at'.todo = at.todo
  BY <1>1, <1>2 DEF BaseInv, tiTypeOK, Answers, Turns, TurnSteps
<1>4. QueuesOK' /\ TurnOK'
  BY <1>1, <1>2, <1>3, GoesOn DEF TurnOK, TurnSteps, FileSteps
<1>. QED BY <1>1, <1>3, <1>4 DEF BaseInv, tiTypeOK, tree, content, fileHandlers, gaps

LEMMA RejectedBase ==
  ASSUME BaseInv, Rejected
  PROVE  BaseInv'
<1>1. /\ UNCHANGED <<content, robotTestItems, tree, eventCount, outdated, readded, discarded, missed>>
      /\ Leaves /\ thrown' = TRUE /\ at.step # "idle"
  BY DEF Rejected
<1>2. refreshes # <<>>
  BY <1>1 DEF BaseInv, QueuesOK
<1>3. TurnOK'
  BY <1>1, <1>2, LeavesTypes DEF TurnOK, TurnSteps, FileSteps
<1>. QED BY <1>1, <1>2, <1>3, LeavesTypes DEF BaseInv, tiTypeOK, tree, content

LEMMA FinishBase ==
  ASSUME BaseInv, Finish
  PROVE  BaseInv'
<1>1. /\ UNCHANGED <<content, robotTestItems, testItems, eventCount, outdated, discarded, missed>>
      /\ Leaves /\ thrown' = FALSE /\ at.step # "idle" /\ readded' \subseteq readded
  BY DEF Finish
<1>2. rootShown' \in [Folders -> BOOLEAN] /\ testsShown' \in [Folders -> Shown]
  BY DEF Finish, BaseInv, tiTypeOK, Shown
<1>3. refreshes # <<>>
  BY <1>1 DEF BaseInv, QueuesOK
<1>4. TurnOK'
  BY <1>1, <1>3, LeavesTypes DEF TurnOK, TurnSteps, FileSteps
<1>. QED BY <1>1, <1>2, <1>3, <1>4, LeavesTypes DEF BaseInv, tiTypeOK, content

-----------------------------------------------------------------------------
(* Showing items                                                           *)
(* What is below a root after its refresh, for the suite of g or for none. *)
LEMMA Below ==
  ASSUME NEW f, NEW g, NEW items \in [Folders -> Seq(Versions)], NEW versions \in [Folders -> Shown],
         testItems' = BelowRoot(f, g, items), testsShown' = HideSiblings(f, g, versions)
  PROVE  /\ testItems' \in [Folders -> Seq(Versions)] /\ testsShown' \in [Folders -> Shown]
         /\ \A h \in Folders : testsShown'[h] = Hidden \/ (testsShown'[h] = versions[h] /\ testItems'[h] = items[h])
<1>1. \A h \in Folders : Without(items[h], 0) \in Seq(Versions)
  BY OnlyHas DEF Without
<1>. QED BY <1>1 DEF BelowRoot, HideSiblings, Shown

(* What a suite has after its tests are those of version v. *)
LEMMA TestsItemsHas ==
  ASSUME NEW g, testItems[g] \in Seq(Versions), testsShown[g] \in Versions, NEW v \in Versions
  PROVE  /\ TestsItems(g, v) \in Seq(Versions)
         /\ {0, testsShown[g]} \subseteq ToSet(testItems[g]) => {0, v} \subseteq ToSet(TestsItems(g, v))
<1>. DEFINE old == IF testsShown[g] \in {0, v} THEN testItems[g] ELSE Without(testItems[g], testsShown[g])
<1>1. /\ old \in Seq(Versions)
      /\ \A w \in ToSet(testItems[g]) : w \in {0, v} => w \in ToSet(old)
  <2>1. /\ Without(testItems[g], testsShown[g]) \in Seq(Versions)
        /\ ToSet(Without(testItems[g], testsShown[g])) = ToSet(testItems[g]) \intersect (Versions \ {testsShown[g]})
    BY OnlyHas DEF Without
  <2>. QED BY <2>1, NumbersDiffer
<1>2. TestsItems(g, v) = IF v \in {0, testsShown[g]} THEN old ELSE With(old, v)
  BY DEF TestsItems
<1>. HIDE DEF old
<1>3. With(old, v) \in Seq(Versions) /\ ToSet(With(old, v)) = ToSet(old) \union {v}
  BY <1>1, ToSetAppend DEF With
<1>. HIDE DEF With
<1>4. CASE v \in {0, testsShown[g]}
  BY <1>1, <1>2, <1>4
<1>5. CASE v \notin {0, testsShown[g]}
  BY <1>1, <1>2, <1>3, <1>5
<1>. QED BY <1>4, <1>5

(* The tests of g are shown: its suite has v, the others stay or are hidden. *)
ShowsAt(g, v) ==
  /\ testItems' \in [Folders -> Seq(Versions)] /\ testsShown' \in [Folders -> Shown]
  /\ \A h \in Folders \ {g} : testsShown'[h] = Hidden \/ (testsShown'[h] = testsShown[h] /\ testItems'[h] = testItems[h])
  /\ testsShown'[g] = Hidden \/ (testsShown'[g] = v /\ testItems'[g] = TestsItems(g, v))
  /\ ~namesake => /\ \A h \in Folders \ {g} : testsShown'[h] = testsShown[h]
                  /\ testsShown'[g] = v

LEMMA ShowsTests ==
  ASSUME tiTypeOK, NEW g \in Folders, NEW v \in Versions, testsShown[g] # Hidden, ShowTests(g, v)
  PROVE  /\ ShowsAt(g, v)
         /\ \/ Current.what = "all" /\ at' = NextTurn(at) /\ UNCHANGED <<refreshes, fileHandlers>>
            \/ Current.what # "all" /\ Leaves
<1>. DEFINE items == [testItems EXCEPT ![g] = TestsItems(g, v)]
            versions == [testsShown EXCEPT ![g] = v]
<1>1. testsShown[g] \in Versions /\ testItems[g] \in Seq(Versions) /\ v \in Shown
  BY DEF tiTypeOK, Shown
<1>2. TestsItems(g, v) \in Seq(Versions)
  BY <1>1, TestsItemsHas
<1>3. items \in [Folders -> Seq(Versions)] /\ versions \in [Folders -> Shown]
  BY <1>1, <1>2 DEF tiTypeOK
<1>4. /\ items[g] = TestsItems(g, v) /\ versions[g] = v
      /\ \A h \in Folders \ {g} : items[h] = testItems[h] /\ versions[h] = testsShown[h]
  BY DEF tiTypeOK
<1>5. CASE Current.what = "all"
  <2>1. testItems' = BelowRoot(g, g, items) /\ testsShown' = HideSiblings(g, g, versions)
    BY <1>5 DEF ShowTests
  <2>. HIDE DEF items, versions
  <2>2. /\ testItems' \in [Folders -> Seq(Versions)] /\ testsShown' \in [Folders -> Shown]
        /\ \A h \in Folders : testsShown'[h] = Hidden \/ (testsShown'[h] = versions[h] /\ testItems'[h] = items[h])
    BY <1>3, <2>1, Below
  <2>3. ~namesake => \A h \in Folders : testsShown'[h] = versions[h]
    BY <1>3, <2>1 DEF HideSiblings, Siblings, SameRoot
  <2>4. ShowsAt(g, v)
    BY <1>4, <2>2, <2>3 DEF ShowsAt
  <2>5. at' = NextTurn(at) /\ UNCHANGED <<refreshes, fileHandlers>>
    BY <1>5 DEF ShowTests
  <2>. QED BY <1>5, <2>4, <2>5
<1>6. CASE Current.what # "all"
  <2>1. testItems' = items /\ testsShown' = versions /\ Leaves
    BY <1>6 DEF ShowTests
  <2>. HIDE DEF items, versions
  <2>2. ShowsAt(g, v)
    BY <1>3, <1>4, <2>1 DEF ShowsAt
  <2>. QED BY <1>6, <2>1, <2>2
<1>. QED BY <1>5, <1>6

LEMMA ShowTestsBase ==
  ASSUME BaseInv, at.step \in FileSteps, NEW v \in Versions, ShowTests(at.answer, v),
         UNCHANGED <<content, robotTestItems, rootShown, eventCount, outdated, readded, thrown>>,
         missed' \subseteq Folders, discarded' \subseteq Folders
  PROVE  BaseInv'
<1>1. at.answer \in Folders /\ testsShown[at.answer] # Hidden /\ at.step # "idle"
  BY DEF BaseInv, TurnOK, FileSteps
<1>2. refreshes # <<>>
  BY <1>1 DEF BaseInv, QueuesOK
<1>3. /\ ShowsAt(at.answer, v)
      /\ \/ Current.what = "all" /\ at' = NextTurn(at) /\ UNCHANGED <<refreshes, fileHandlers>>
         \/ Current.what # "all" /\ Leaves
  BY <1>1, ShowsTests DEF BaseInv
<1>4. /\ at' \in Turns /\ at'.step \in {"next", "idle"} /\ QueuesOK'
      /\ refreshes' \in Seq(Refreshes) /\ fileEvents' \in Seq(Folders) /\ handling' \in BOOLEAN
  <2>1. CASE at' = NextTurn(at) /\ UNCHANGED <<refreshes, fileHandlers>>
    <3>1. at' \in Turns /\ at'.step = "next"
      <4>1. at \in Turns /\ 0 \in Versions /\ 0 \in Int
        BY NumbersDiffer DEF BaseInv, tiTypeOK
      <4>. QED BY <2>1, <4>1 DEF NextTurn, Turns
    <3>2. QueuesOK'
      BY <1>1, <2>1, GoesOn
    <3>. QED BY <2>1, <3>1, <3>2 DEF BaseInv, tiTypeOK, fileHandlers
  <2>2. CASE Leaves
    BY <1>2, <2>2, LeavesTypes
  <2>. QED BY <1>3, <2>1, <2>2
<1>5. TurnOK'
  BY <1>4 DEF TurnOK, TurnSteps, FileSteps
<1>. QED BY <1>3, <1>4, <1>5 DEF BaseInv, tiTypeOK, content, ShowsAt

(* The three steps that show tests, and with which version. *)
LEMMA ShowsWhat ==
  ASSUME BaseInv, ShowAnswer \/ ShowFound \/ FoundNothing
  PROVE  /\ at.step \in FileSteps /\ at.answer \in Folders /\ testsShown[at.answer] # Hidden /\ refreshes # <<>>
         /\ UNCHANGED <<content, robotTestItems, rootShown, eventCount, outdated, readded, thrown>>
         /\ missed' \subseteq Folders /\ discarded' \subseteq Folders
         /\ \/ /\ ShowTests(at.answer, robotTestItems[at.answer]) /\ robotTestItems[at.answer] \in Versions
               /\ at.step = "file" /\ editor[at.answer] = 0
               /\ missed' = missed \ {at.answer} /\ discarded' = discarded \ {at.answer}
            \/ /\ ShowTests(at.answer, at.found) /\ at.found \in Versions
               /\ at.step = "read" /\ UNCHANGED <<missed, discarded>>
            \/ /\ ShowTests(at.answer, 0) /\ at.step = "document"
               /\ missed' = missed \cup {at.answer} /\ discarded' = discarded
<1>1. at.step \in FileSteps
  BY DEF ShowAnswer, ShowFound, FoundNothing, FileSteps
<1>2. at.answer \in Folders /\ testsShown[at.answer] # Hidden /\ at.found \in Versions /\ refreshes # <<>>
  BY <1>1 DEF BaseInv, TurnOK, tiTypeOK, Turns, QueuesOK, FileSteps
<1>3. at.step = "file" => robotTestItems[at.answer] \in Versions
  BY DEF BaseInv, TurnOK
<1>4. missed \subseteq Folders /\ discarded \subseteq Folders
  BY DEF BaseInv, tiTypeOK
<1>. QED BY <1>1, <1>2, <1>3, <1>4 DEF ShowAnswer, ShowFound, FoundNothing, gaps

LEMMA ShowsBase ==
  ASSUME BaseInv, ShowAnswer \/ ShowFound \/ FoundNothing
  PROVE  BaseInv'
<1>1. \E v \in Versions : ShowTests(at.answer, v)
  BY ShowsWhat, NumbersDiffer
<1>. QED BY <1>1, ShowsWhat, ShowTestsBase

(* What showing the root of a folder does. *)
ShowsRoot(turn, f) ==
  \/ RootFolder(f) = {} /\ at' = NextTurn(turn) /\ UNCHANGED <<testItems, testsShown>>
  \/ /\ RootFolder(f) # {} /\ \A g \in RootFolder(f) : robotTestItems[g] = 0
     /\ at' = NextTurn(turn)
     /\ testItems' \in [Folders -> Seq(Versions)] /\ testsShown' \in [Folders -> Shown]
     /\ \A h \in Folders : testsShown'[h] = Hidden \/ (testsShown'[h] = testsShown[h] /\ testItems'[h] = testItems[h])
     /\ ~namesake => testsShown'[f] = Hidden /\ \A h \in Folders \ {f} : testsShown'[h] = testsShown[h]
  \/ \E g \in RootFolder(f) :
       /\ robotTestItems[g] # 0 /\ at' = [turn EXCEPT !.step = "file", !.answer = g]
       /\ testItems' \in [Folders -> Seq(Versions)] /\ testsShown' \in [Folders -> Shown]
       /\ \A h \in Folders \ {g} : testItems'[h] = testItems[h] /\ testsShown'[h] = testsShown[h]
       /\ IF testsShown[g] = Hidden
          THEN testItems'[g] = With(testItems[g], 0) /\ testsShown'[g] = 0
          ELSE testItems'[g] = testItems[g] /\ testsShown'[g] = testsShown[g]

LEMMA RootFolderIs ==
  ASSUME NEW f, NEW g \in RootFolder(f)
  PROVE  g \in Folders /\ g \in folders /\ SameRoot(f, g) /\ robotTestItems[g] \in Versions
BY DEF RootFolder, HasRoot

LEMMA RootWhat ==
  ASSUME BaseInv, ShowRoot
  PROVE  /\ Turn \in Folders /\ Turn \in at.todo /\ at.step = "suite" /\ at.answer \in Versions
         /\ UNCHANGED <<content, robotTestItems, refreshes, fileHandlers, eventCount, gaps>>
         /\ rootShown' = [h \in Folders |-> rootShown[h] \/ SameRoot(Turn, h)]
         /\ ShowsRoot([at EXCEPT !.added = @ \cup {Turn}], Turn)
<1>. DEFINE suites == {g \in RootFolder(Turn) : robotTestItems[g] # 0}
            turn == [at EXCEPT !.added = @ \cup {Turn}]
<1>1. at.step = "suite" /\ at.answer \in Versions
  BY DEF ShowRoot
<1>2. Turn \in at.todo /\ Turn \in Folders
  BY <1>1, TurnIsToDo DEF BaseInv, TurnOK, TurnSteps, tiTypeOK, Turns
<1>3. /\ UNCHANGED <<content, robotTestItems, refreshes, fileHandlers, eventCount, gaps>>
      /\ rootShown' = [h \in Folders |-> rootShown[h] \/ SameRoot(Turn, h)]
  BY DEF ShowRoot
<1>4. testItems \in [Folders -> Seq(Versions)] /\ testsShown \in [Folders -> Shown] /\ 0 \in Versions /\ 0 \in Shown
  BY NumbersDiffer DEF BaseInv, tiTypeOK, Shown
<1>5. CASE RootFolder(Turn) = {} /\ at' = NextTurn(turn) /\ UNCHANGED <<testItems, testsShown>>
  BY <1>1, <1>2, <1>3, <1>5 DEF ShowsRoot
<1>6. CASE /\ RootFolder(Turn) # {} /\ suites = {} /\ at' = NextTurn(turn) /\ testItems' = BelowRoot(Turn, 0, testItems)
           /\ testsShown' = HideSiblings(Turn, 0, testsShown)
  <2>1. /\ testItems' \in [Folders -> Seq(Versions)] /\ testsShown' \in [Folders -> Shown]
        /\ \A h \in Folders : testsShown'[h] = Hidden \/ (testsShown'[h] = testsShown[h] /\ testItems'[h] = testItems[h])
    BY <1>4, <1>6, Below
  <2>2. \A h \in Folders : testsShown'[h] = IF h \in Siblings(Turn, 0) THEN Hidden ELSE testsShown[h]
    BY <1>6 DEF HideSiblings
  <2>3. ~namesake => testsShown'[Turn] = Hidden /\ \A h \in Folders \ {Turn} : testsShown'[h] = testsShown[h]
    BY <1>2, <2>2, NumbersDiffer DEF Siblings, SameRoot
  <2>. QED BY <1>1, <1>2, <1>3, <1>6, <2>1, <2>3 DEF ShowsRoot
<1>7. ASSUME NEW g \in suites, at' = [turn EXCEPT !.step = "file", !.answer = g],
             IF testsShown[g] = Hidden
             THEN /\ testItems' = [testItems EXCEPT ![g] = With(@, 0)]
                  /\ testsShown' = [testsShown EXCEPT ![g] = 0]
             ELSE UNCHANGED <<testItems, testsShown>>
      PROVE  ShowsRoot(turn, Turn)
  <2>1. g \in RootFolder(Turn) /\ robotTestItems[g] # 0 /\ g \in Folders
    BY RootFolderIs
  <2>2. With(testItems[g], 0) \in Seq(Versions)
    BY <1>4, <2>1, ToSetAppend DEF With
  <2>. HIDE DEF turn
  <2>. QED BY <1>4, <1>7, <2>1, <2>2 DEF ShowsRoot
<1>. QED BY <1>1, <1>2, <1>3, <1>5, <1>6, <1>7 DEF ShowRoot

LEMMA ShowRootBase ==
  ASSUME BaseInv, ShowRoot
  PROVE  BaseInv'
<1>. DEFINE turn == [at EXCEPT !.added = @ \cup {Turn}]
<1>1. /\ Turn \in Folders /\ at.step = "suite" /\ ShowsRoot(turn, Turn)
      /\ UNCHANGED <<content, robotTestItems, refreshes, fileHandlers, eventCount, gaps>>
      /\ rootShown' \in [Folders -> BOOLEAN]
  BY RootWhat
<1>2. at \in Turns /\ 0 \in Versions /\ 0 \in Int /\ 0 # Hidden /\ Folders \subseteq Int
  BY NumbersDiffer DEF BaseInv, tiTypeOK
<1>3. turn \in Turns
  BY <1>1, <1>2 DEF Turns
<1>4. testItems' \in [Folders -> Seq(Versions)] /\ testsShown' \in [Folders -> Shown]
  BY <1>1 DEF ShowsRoot, BaseInv, tiTypeOK
<1>5. at' \in Turns /\ TurnOK'
  <2>1. CASE at' = NextTurn(turn)
    <3>. HIDE DEF turn
    <3>1. at' \in Turns /\ at'.step = "next"
      BY <1>2, <1>3, <2>1 DEF NextTurn, Turns
    <3>. QED BY <3>1 DEF TurnOK, TurnSteps, FileSteps
  <2>2. ASSUME NEW g \in RootFolder(Turn), robotTestItems[g] # 0, at' = [turn EXCEPT !.step = "file", !.answer = g],
               testsShown'[g] # Hidden
        PROVE  at' \in Turns /\ TurnOK'
    <3>. HIDE DEF turn
    <3>1. g \in Folders /\ robotTestItems[g] \in Versions
      BY RootFolderIs
    <3>2. at' \in Turns /\ at'.step = "file" /\ at'.answer = g
      BY <1>2, <1>3, <2>2, <3>1 DEF Turns, FileSteps
    <3>. QED BY <1>1, <2>2, <3>1, <3>2 DEF TurnOK, TurnSteps, FileSteps
  <2>. HIDE DEF turn
  <2>. QED BY <1>1, <1>2, <2>1, <2>2 DEF ShowsRoot
<1>6. QueuesOK'
  BY <1>1, GoesOn
<1>. QED BY <1>1, <1>4, <1>5, <1>6 DEF BaseInv, tiTypeOK, content, fileHandlers, gaps

LEMMA BaseStart == tiInit => BaseInv
<1>. SUFFICES ASSUME tiInit PROVE BaseInv
  OBVIOUS
<1>1. folders \subseteq Folders
  BY TestItemsAssumption DEF tiInit, Folders
<1>2. at \in Turns /\ at.step = "idle"
  BY NumbersDiffer DEF tiInit, Idle, Turns
<1>3. refreshes \in Seq(Refreshes) /\ QueuesOK
  BY <1>2, RefreshTypes DEF tiInit, QueuesOK
<1>4. TurnOK
  BY <1>2 DEF TurnOK, TurnSteps, FileSteps
<1>5. /\ disk \in [Folders -> Versions] /\ editor \in [Folders -> Versions]
      /\ robotTestItems \in [Folders -> Answers] /\ rootShown \in [Folders -> BOOLEAN]
      /\ testsShown \in [Folders -> Shown]
  BY NumbersDiffer DEF tiInit, Answers, Shown
<1>6. testItems \in [Folders -> Seq(Versions)] /\ fileEvents \in Seq(Folders)
  BY DEF tiInit
<1>7. tiTypeOK
  BY <1>1, <1>2, <1>3, <1>5, <1>6 DEF tiInit, tiTypeOK
<1>. QED BY <1>3, <1>4, <1>7 DEF BaseInv

LEMMA BaseStep == BaseInv /\ [tiNext]_tiVars => BaseInv'
<1>. SUFFICES ASSUME BaseInv, [tiNext]_tiVars PROVE BaseInv'
  OBVIOUS
<1>1. CASE Refreshing
  BY <1>1, BeginBase, AskingBase, RejectedBase, StoreBase, ShowRootBase, ShowsBase, FinishBase, RefreshFromUriBase
     DEF Refreshing
<1>2. ASSUME NEW f \in Folders,
             \/ OpenOrEdit(f) \/ Save(f) \/ CloseDocument(f) \/ FileChanges(f)
             \/ AddFolder(f) \/ RemoveFolder(f) \/ Collect(f)
      PROVE  BaseInv'
  BY <1>2, InputsBase, AddFolderBase, RemoveFolderBase, CollectBase
<1>3. CASE UNCHANGED tiVars
  BY <1>3 DEF tiVars, content, tree, fileHandlers, gaps, BaseInv, tiTypeOK, QueuesOK, TurnOK
<1>. QED BY <1>1, <1>2, <1>3, ConfigurationBase DEF tiNext

(* The variables of the tree of tests keep their types. *)
THEOREM TreeKeepsTypes == tiSpec => []tiTypeOK
<1>1. BaseInv => tiTypeOK
  BY DEF BaseInv
<1>. QED BY BaseStart, BaseStep, <1>1, PTL DEF tiSpec

-----------------------------------------------------------------------------
(* Items have their ids.                                                   *)
ShownHaveRoots == \A f \in Folders : testsShown[f] # Hidden => rootShown[f]

(* The items of a folder of the workspace have theirs, unless it came back *)
(* while they were shown.                                                  *)
HasIds(f) == ShownItems(f) \subseteq ToSet(testItems[f]) \/ f \in readded
ItemsHaveIds == ~namesake => \A f \in folders : HasIds(f)

ItemsInv == BaseInv /\ ShownHaveRoots /\ ItemsHaveIds

(* A step that leaves the tree alone. *)
LEMMA TreeStays ==
  ASSUME ItemsInv, UNCHANGED <<namesake, folders, tree>>, readded' = readded
  PROVE  ShownHaveRoots' /\ ItemsHaveIds'
BY DEF ItemsInv, ShownHaveRoots, ItemsHaveIds, HasIds, ShownItems, tree

LEMMA FoldersKeepIds ==
  ASSUME ItemsInv, NEW f \in Folders, AddFolder(f) \/ RemoveFolder(f)
  PROVE  ShownHaveRoots' /\ ItemsHaveIds'
<1>1. CASE AddFolder(f)
  <2>1. /\ UNCHANGED <<namesake, tree>> /\ folders' = folders \union {f}
        /\ readded' = IF rootShown[f] THEN readded \cup {f} ELSE readded
    BY <1>1 DEF AddFolder
  <2>2. ShownItems(f) = {} \/ f \in readded'
    BY <2>1 DEF ItemsInv, ShownHaveRoots, ShownItems
  <2>. QED BY <2>1, <2>2 DEF ItemsInv, ShownHaveRoots, ItemsHaveIds, HasIds, ShownItems, tree
<1>2. CASE RemoveFolder(f)
  <2>1. UNCHANGED <<namesake, rootShown, testsShown, readded>> /\ folders' = folders \ {f}
    BY <1>2 DEF RemoveFolder, gaps
  <2>2. ~namesake => \A g \in folders' : testItems'[g] = testItems[g]
    BY <1>2 DEF RemoveFolder, SameRoot, ItemsInv, BaseInv, tiTypeOK
  <2>. QED BY <2>1, <2>2 DEF ItemsInv, ShownHaveRoots, ItemsHaveIds, HasIds, ShownItems
<1>. QED BY <1>1, <1>2

LEMMA CollectKeepsIds ==
  ASSUME ItemsInv, NEW f \in Folders, Collect(f)
  PROVE  ShownHaveRoots' /\ ItemsHaveIds'
<1>1. /\ UNCHANGED <<namesake, folders, rootShown, testsShown, readded>>
      /\ testItems' = [testItems EXCEPT ![f] = Only(@, ShownItems(f))]
  BY DEF Collect, content, gaps
<1>2. ToSet(Only(testItems[f], ShownItems(f))) = ToSet(testItems[f]) \intersect ShownItems(f)
  BY OnlyHas DEF ItemsInv, BaseInv, tiTypeOK
<1>3. HasIds(f) => HasIds(f)'
  BY <1>1, <1>2 DEF HasIds, ShownItems, ItemsInv, BaseInv, tiTypeOK
<1>4. \A g \in Folders \ {f} : HasIds(g) => HasIds(g)'
  BY <1>1 DEF HasIds, ShownItems, ItemsInv, BaseInv, tiTypeOK
<1>. QED BY <1>1, <1>3, <1>4 DEF ItemsInv, ShownHaveRoots, ItemsHaveIds, BaseInv, tiTypeOK

LEMMA FinishKeepsIds ==
  ASSUME ItemsInv, Finish
  PROVE  ShownHaveRoots' /\ ItemsHaveIds'
<1>. DEFINE gone == {f \in Folders : \A g \in at.added : ~SameRoot(f, g)}
<1>1. /\ UNCHANGED <<namesake, folders, testItems>>
      /\ rootShown' = [f \in Folders |-> f \notin gone]
      /\ testsShown' = [f \in Folders |-> IF f \in gone THEN Hidden ELSE testsShown[f]]
      /\ readded' = readded \ gone
  BY DEF Finish, content
<1>. HIDE DEF gone
<1>2. \A f \in Folders : HasIds(f) => HasIds(f)'
  BY <1>1 DEF HasIds, ShownItems
<1>. QED BY <1>1, <1>2 DEF ItemsInv, BaseInv, tiTypeOK, ShownHaveRoots, ItemsHaveIds

LEMMA ShowsKeepIds ==
  ASSUME ItemsInv, ShowAnswer \/ ShowFound \/ FoundNothing
  PROVE  ShownHaveRoots' /\ ItemsHaveIds'
<1>1. PICK g \in Folders : g = at.answer
  BY ShowsWhat DEF ItemsInv
<1>2. PICK v \in Versions : ShowTests(g, v)
  BY <1>1, ShowsWhat, NumbersDiffer DEF ItemsInv
<1>3. testsShown[g] # Hidden /\ UNCHANGED <<namesake, folders, rootShown, readded>>
  BY <1>1, ShowsWhat DEF ItemsInv, content
<1>4. ShowsAt(g, v)
  BY <1>2, <1>3, ShowsTests DEF ItemsInv, BaseInv
<1>5. testsShown[g] \in Versions /\ testItems[g] \in Seq(Versions)
  BY <1>3 DEF ItemsInv, BaseInv, tiTypeOK, Shown
<1>6. {0, testsShown[g]} \subseteq ToSet(testItems[g]) => {0, v} \subseteq ToSet(TestsItems(g, v))
  BY <1>5, TestsItemsHas
<1>7. HasIds(g) => HasIds(g)'
  <2>1. ShownItems(g) = {0, testsShown[g]}
    BY <1>3 DEF ShownItems
  <2>2. CASE testsShown'[g] = Hidden
    BY <2>2 DEF HasIds, ShownItems
  <2>3. CASE testsShown'[g] = v /\ testItems'[g] = TestsItems(g, v)
    <3>1. ShownItems(g)' = {0, v}
      BY <2>3, NumbersDiffer DEF ShownItems
    <3>. QED BY <1>3, <1>6, <2>1, <2>3, <3>1 DEF HasIds
  <2>. QED BY <1>4, <2>2, <2>3 DEF ShowsAt
<1>8. ASSUME NEW h \in Folders \ {g}, HasIds(h) PROVE HasIds(h)'
  <2>1. CASE testsShown'[h] = Hidden
    BY <2>1 DEF HasIds, ShownItems
  <2>2. CASE testsShown'[h] = testsShown[h] /\ testItems'[h] = testItems[h]
    BY <1>3, <1>8, <2>2 DEF HasIds, ShownItems
  <2>. QED BY <1>4, <2>1, <2>2 DEF ShowsAt
<1>9. ShownHaveRoots'
  BY <1>3, <1>4 DEF ItemsInv, ShownHaveRoots, ShowsAt
<1>10. \A h \in Folders : HasIds(h) => HasIds(h)'
  BY <1>7, <1>8
<1>11. folders \subseteq Folders
  BY DEF ItemsInv, BaseInv, tiTypeOK
<1>. QED BY <1>3, <1>9, <1>10, <1>11 DEF ItemsInv, ItemsHaveIds

LEMMA ShowRootKeepsIds ==
  ASSUME ItemsInv, ShowRoot
  PROVE  ShownHaveRoots' /\ ItemsHaveIds'
<1>. DEFINE turn == [at EXCEPT !.added = @ \cup {Turn}]
<1>1. /\ UNCHANGED <<namesake, folders, readded>>
      /\ rootShown' = [h \in Folders |-> rootShown[h] \/ SameRoot(Turn, h)] /\ ShowsRoot(turn, Turn)
  BY RootWhat DEF ItemsInv, content, gaps
<1>. HIDE DEF turn
<1>2. \A f \in Folders : testsShown'[f] # Hidden => rootShown'[f]
  <2>1. \A f \in Folders : testsShown'[f] # Hidden => testsShown[f] # Hidden \/ f \in RootFolder(Turn)
    BY <1>1 DEF ShowsRoot
  <2>2. \A f \in RootFolder(Turn) : SameRoot(Turn, f)
    BY RootFolderIs
  <2>. QED BY <1>1, <2>1, <2>2 DEF ItemsInv, ShownHaveRoots, BaseInv, tiTypeOK
<1>3. ASSUME NEW f \in Folders, HasIds(f) PROVE HasIds(f)'
  <2>1. CASE testsShown'[f] = Hidden
    BY <2>1 DEF HasIds, ShownItems
  <2>2. CASE testsShown'[f] = testsShown[f] /\ testItems'[f] = testItems[f]
    BY <1>1, <1>3, <2>2 DEF HasIds, ShownItems
  <2>3. CASE testItems'[f] = With(testItems[f], 0) /\ testsShown'[f] = 0
    <3>1. 0 \in ToSet(With(testItems[f], 0))
      BY ToSetAppend, NumbersDiffer DEF With, ItemsInv, BaseInv, tiTypeOK
    <3>. QED BY <2>3, <3>1 DEF HasIds, ShownItems
  <2>. QED BY <1>1, <2>1, <2>2, <2>3 DEF ShowsRoot
<1>. QED BY <1>1, <1>2, <1>3 DEF ItemsInv, BaseInv, tiTypeOK, ShownHaveRoots, ItemsHaveIds

LEMMA ItemsStep == ItemsInv /\ [tiNext]_tiVars => ItemsInv'
<1>. SUFFICES ASSUME ItemsInv, [tiNext]_tiVars PROVE ShownHaveRoots' /\ ItemsHaveIds'
  BY BaseStep DEF ItemsInv
<1>1. CASE UNCHANGED <<namesake, folders, tree>> /\ readded' = readded
  BY <1>1, TreeStays
<1>2. CASE \/ Begin \/ NextFolder \/ getTestsFromWorkspace \/ Rejected \/ StoreAnswer \/ SkipFolder
           \/ AskDocument \/ getTestsFromDocument \/ refreshFromUri \/ ConfigurationChanges
  <2>1. UNCHANGED <<namesake, folders, tree>> /\ readded' = readded
    BY <1>2 DEF Begin, NextFolder, getTestsFromWorkspace, Rejected, StoreAnswer, SkipFolder, AskDocument,
                getTestsFromDocument, refreshFromUri, ConfigurationChanges, content, gaps
  <2>. QED BY <1>1, <2>1
<1>3. ASSUME NEW f \in Folders, OpenOrEdit(f) \/ Save(f) \/ CloseDocument(f) \/ FileChanges(f)
      PROVE  ShownHaveRoots' /\ ItemsHaveIds'
  <2>1. UNCHANGED <<namesake, folders, tree>> /\ readded' = readded
    BY <1>3 DEF OpenOrEdit, Save, CloseDocument, FileChanges, gaps
  <2>. QED BY <1>1, <2>1
<1>4. CASE UNCHANGED tiVars
  BY <1>1, <1>4 DEF tiVars, content, gaps
<1>. QED BY <1>2, <1>3, <1>4, FoldersKeepIds, CollectKeepsIds, FinishKeepsIds, ShowsKeepIds, ShowRootKeepsIds
     DEF tiNext, Refreshing

(* ItemsAreFound: every item that is shown is found by its id, whatever    *)
(* documents, files and folders come and go during the refreshes.          *)
THEOREM ShownItemsAreFound == tiSpec => []ItemsAreFound
<1>1. tiInit => ItemsInv
  BY BaseStart DEF tiInit, ItemsInv, ShownHaveRoots, ItemsHaveIds, HasIds, ShownItems, BaseInv, tiTypeOK
<1>2. ItemsInv => ItemsAreFound
  BY DEF ItemsInv, ItemsHaveIds, HasIds, ItemsAreFound
<1>. QED BY ItemsStep, <1>1, <1>2, PTL DEF tiSpec

-----------------------------------------------------------------------------
(* The tests shown are those of the files.                                 *)
(* The refreshes and the events that are still to come                     *)
Running == at.step # "idle" /\ Current.what = "all"
ToCome(i) == i > 1 \/ at.step = "idle"
AllToCome == \E i \in 1 .. Len(refreshes) : refreshes[i].what = "all" /\ ToCome(i)
FileToCome(f) == \E i \in 1 .. Len(refreshes) : refreshes[i] = RefreshFile(f) /\ ToCome(i)
EventToCome(f) == \E i \in 1 .. Len(fileEvents) : fileEvents[i] = f /\ (i > 1 \/ ~handling)

(* A refresh of everything, and where it is                                *)
AtTurn ==
  /\ at.step \in {"next"} \union TurnSteps => Current.what = "all"
  /\ at.todo \subseteq folders \union at.old
  /\ at.step # "idle" /\ at.old # {} => AllToCome
  /\ at.step # "idle" => \A f \in at.old : robotTestItems[f] = NotFetched
  /\ at.step \in {"fetch", "fetched"} => robotTestItems[Turn] = NotFetched
  /\ at.step = "suite" => Turn \in at.old \/ robotTestItems[Turn] = at.answer

AtFile ==
  at.step \in FileSteps =>
    /\ at.answer \in folders \union at.old
    /\ IF Current.what = "all" THEN at.answer = Turn /\ at.answer \in at.todo \intersect at.added
       ELSE at.todo = {}

(* A folder that is gone has no answer, and only a file that exists is open. *)
OutOf(f) == f \notin folders => robotTestItems[f] = NotFetched
OpenExists(f) == editor[f] # 0 => disk[f] # 0

(* A folder without an answer is asked for one, if no refresh was left.    *)
Lost == thrown /\ ~Running
ComesTo(f) == Running /\ f \in at.todo /\ (f = Turn => at.step \in {"next", "fetch", "fetched"})
AskedFor(f) == f \in folders /\ robotTestItems[f] = NotFetched => AllToCome \/ ComesTo(f) \/ Lost

(* An answer is that of the file, unless an event is to come that forgets it. *)
IsCurrent(f, v) == v \in Versions => v = disk[f] \/ f \in outdated \/ EventToCome(f)
AnswerIsCurrent(f) ==
  /\ IsCurrent(f, robotTestItems[f])
  /\ at.step = "fetched" /\ f = Turn /\ f \notin at.old => IsCurrent(f, at.answer)

(* The suite of an answer is shown, but while the refresh comes to it.     *)
ShownIfAnswered(f) ==
  robotTestItems[f] \in Versions =>
    /\ (testsShown[f] = Hidden <=> robotTestItems[f] = 0) \/ (at.step = "suite" /\ f = Turn)
    /\ Running /\ f \notin at.todo => f \in at.added

(* Tests that are shown, or are about to be, are those of the text.        *)
Reason(f) == f \in outdated \union discarded \union missed
ToBeShown(f) == AllToCome \/ EventToCome(f) \/ FileToCome(f)
UnderWay(f) == (Running /\ f \in at.todo) \/ (at.step \in FileSteps /\ at.answer = f)
TextIsShown(f) ==
  /\ f \in folders /\ robotTestItems[f] \in Versions \ {0} =>
       testsShown[f] = TextOf(f) \/ Reason(f) \/ ToBeShown(f) \/ UnderWay(f) \/ Lost
  /\ at.step = "read" /\ at.answer = f => at.found = TextOf(f) \/ Reason(f) \/ ToBeShown(f)

(* The items of a folder that is gone go, too.                             *)
GoneIsHidden(f) ==
  f \notin folders =>
    testsShown[f] = Hidden \/ AllToCome \/ (Running /\ f \notin at.added \union at.todo) \/ Lost

Parts(f) ==
  /\ OutOf(f) /\ OpenExists(f) /\ AskedFor(f) /\ AnswerIsCurrent(f)
  /\ ShownIfAnswered(f) /\ TextIsShown(f) /\ GoneIsHidden(f)
TreeOK == AtTurn /\ AtFile /\ \A f \in Folders : Parts(f)

(* Folders whose root suites have different names do not share any.        *)
CurrentInv == BaseInv /\ (~namesake => TreeOK)

-----------------------------------------------------------------------------
(* What is still to come stays so until it is there.                       *)
RefreshesStay == (AllToCome => AllToCome') /\ \A f \in Folders : FileToCome(f) => FileToCome(f)'
EventsStay == \A f \in Folders : EventToCome(f) => EventToCome(f)'

LEMMA RefreshAdded ==
  ASSUME BaseInv, NEW r \in Refreshes, refreshes' = Append(refreshes, r), at'.step = at.step
  PROVE  /\ RefreshesStay /\ Running' = Running /\ (at.step # "idle" => Current' = Current)
         /\ r.what = "all" => AllToCome'
         /\ \A f \in Folders : r = RefreshFile(f) => FileToCome(f)'
<1>1. refreshes \in Seq(Refreshes) /\ (at.step # "idle" => refreshes # <<>>)
  BY DEF BaseInv, tiTypeOK, QueuesOK
<1>2. /\ Len(refreshes) \in Nat /\ Len(refreshes') = Len(refreshes) + 1 /\ refreshes'[Len(refreshes) + 1] = r
      /\ \A i \in 1 .. Len(refreshes) : refreshes'[i] = refreshes[i]
  BY <1>1
<1>3. at.step # "idle" => Len(refreshes) >= 1 /\ Current' = Current
  BY <1>1, <1>2 DEF Current
<1>4. PICK n \in 1 .. Len(refreshes') : refreshes'[n] = r /\ (n > 1 \/ at'.step = "idle")
  BY <1>2, <1>3
<1>5. \A i \in 1 .. Len(refreshes) : i \in 1 .. Len(refreshes') /\ (ToCome(i) => ToCome(i)')
  BY <1>2 DEF ToCome
<1>6. RefreshesStay
  BY <1>2, <1>5 DEF RefreshesStay, AllToCome, FileToCome, RefreshFile
<1>7. Running' = Running
  BY <1>3 DEF Running
<1>8. r.what = "all" => AllToCome'
  BY <1>4 DEF AllToCome, ToCome
<1>9. \A f \in Folders : r = RefreshFile(f) => FileToCome(f)'
  BY <1>4 DEF FileToCome, RefreshFile, ToCome
<1>. QED BY <1>3, <1>6, <1>7, <1>8, <1>9

LEMMA RefreshesSame ==
  ASSUME refreshes' = refreshes, at'.step = "idle" <=> at.step = "idle"
  PROVE  RefreshesStay /\ Running' = Running /\ Current' = Current
BY DEF RefreshesStay, AllToCome, FileToCome, RefreshFile, ToCome, Running, Current

LEMMA RefreshesLeft ==
  ASSUME BaseInv, Leaves, refreshes # <<>>
  PROVE  /\ ~Running' /\ EventsStay /\ at'.step = "idle" /\ at'.todo = {}
         /\ at.step # "idle" => RefreshesStay
         /\ Current.what = "file" =>
              /\ AllToCome => AllToCome'
              /\ \A f \in Folders : f # Current.folder /\ FileToCome(f) => FileToCome(f)'
<1>1. /\ refreshes' = Tail(refreshes) /\ refreshes \in Seq(Refreshes) /\ Current = refreshes[1]
      /\ at'.step = "idle" /\ at'.todo = {} /\ fileEvents \in Seq(Folders)
  BY DEF Leaves, Current, Idle, BaseInv, tiTypeOK
<1>2. /\ Len(refreshes') = Len(refreshes) - 1 /\ Len(refreshes) \in Nat
      /\ \A i \in 1 .. Len(refreshes') : refreshes'[i] = refreshes[i + 1]
  BY <1>1
<1>3. \A i \in 1 .. Len(refreshes) : i > 1 =>
        i - 1 \in 1 .. Len(refreshes') /\ refreshes'[i - 1] = refreshes[i] /\ ToCome(i - 1)'
  BY <1>1, <1>2 DEF ToCome
<1>4. (\E i \in 1 .. Len(refreshes) : i > 1 /\ refreshes[i].what = "all") => AllToCome'
  BY <1>3 DEF AllToCome
<1>5. ASSUME NEW f \in Folders, \E i \in 1 .. Len(refreshes) : i > 1 /\ refreshes[i] = RefreshFile(f) PROVE FileToCome(f)'
  BY <1>3, <1>5 DEF FileToCome, RefreshFile
<1>6. at.step # "idle" => RefreshesStay
  BY <1>4, <1>5 DEF RefreshesStay, AllToCome, FileToCome, ToCome
<1>7. Current.what = "file" => (AllToCome => AllToCome')
  BY <1>1, <1>4 DEF AllToCome
<1>8. \A f \in Folders : f # Current.folder /\ FileToCome(f) => FileToCome(f)'
  BY <1>1, <1>5 DEF FileToCome, RefreshFile
<1>9. EventsStay
  <2>1. CASE OfHandler(Current)
    <3>1. handling /\ handling' = FALSE /\ fileEvents' = Tail(fileEvents)
      BY <1>1, <2>1 DEF Leaves, OfHandler, BaseInv, QueuesOK
    <3>2. ASSUME NEW f \in Folders, NEW i \in 1 .. Len(fileEvents), fileEvents[i] = f, i > 1
          PROVE  EventToCome(f)'
      <4>1. i - 1 \in 1 .. Len(fileEvents') /\ fileEvents'[i - 1] = fileEvents[i]
        BY <1>1, <3>1, <3>2
      <4>. QED BY <3>1, <3>2, <4>1 DEF EventToCome
    <3>. QED BY <3>1, <3>2 DEF EventsStay, EventToCome
  <2>2. CASE ~OfHandler(Current)
    BY <2>2 DEF Leaves, OfHandler, fileHandlers, EventsStay, EventToCome
  <2>. QED BY <2>1, <2>2
<1>. QED BY <1>1, <1>6, <1>7, <1>8, <1>9 DEF Running

LEMMA EventsSame ==
  ASSUME UNCHANGED fileHandlers
  PROVE  EventsStay
BY DEF fileHandlers, EventsStay, EventToCome

LEMMA EventAdded ==
  ASSUME BaseInv, NEW f \in Folders, fileEvents' = Append(fileEvents, f), handling' = handling
  PROVE  EventsStay /\ EventToCome(f)'
<1>1. fileEvents \in Seq(Folders) /\ (handling => fileEvents # <<>>)
  BY DEF BaseInv, tiTypeOK, QueuesOK
<1>2. /\ Len(fileEvents) \in Nat /\ Len(fileEvents') = Len(fileEvents) + 1 /\ fileEvents'[Len(fileEvents) + 1] = f
      /\ \A i \in 1 .. Len(fileEvents) : fileEvents'[i] = fileEvents[i]
      /\ handling => Len(fileEvents) >= 1
  BY <1>1
<1>. QED BY <1>2 DEF EventsStay, EventToCome

-----------------------------------------------------------------------------
(* Events: the refresh under way stays where it is.                        *)
(* What a folder's parts have without the texts, the answers and the tests *)
LEMMA Unmoved ==
  ASSUME CurrentInv, ~namesake, RefreshesStay, Running' = Running, at.step # "idle" => Current' = Current,
         UNCHANGED <<folders, robotTestItems, testsShown, at, thrown>>
  PROVE  /\ AtTurn' /\ AtFile'
         /\ \A f \in Folders : OutOf(f)' /\ AskedFor(f)' /\ ShownIfAnswered(f)' /\ GoneIsHidden(f)'
<1>1. TreeOK /\ Turn' = Turn
  BY DEF CurrentInv, Turn
<1>2. AtTurn'
  BY <1>1 DEF TreeOK, AtTurn, RefreshesStay, TurnSteps
<1>3. AtFile'
  BY <1>1 DEF TreeOK, AtFile, FileSteps
<1>. SUFFICES ASSUME NEW f \in Folders PROVE OutOf(f)' /\ AskedFor(f)' /\ ShownIfAnswered(f)' /\ GoneIsHidden(f)'
  BY <1>2, <1>3
<1>4. Parts(f)
  BY <1>1 DEF TreeOK
<1>5. AskedFor(f)'
  BY <1>1, <1>4 DEF Parts, AskedFor, ComesTo, Lost, RefreshesStay
<1>6. ShownIfAnswered(f)'
  BY <1>1, <1>4 DEF Parts, ShownIfAnswered
<1>7. GoneIsHidden(f)'
  BY <1>4 DEF Parts, GoneIsHidden, Lost, RefreshesStay
<1>. QED BY <1>4, <1>5, <1>6, <1>7 DEF Parts, OutOf

(* A folder whose text stays as it was, and one that is to be refreshed.   *)
LEMMA TextUnmoved ==
  ASSUME CurrentInv, ~namesake, RefreshesStay, EventsStay, Running' = Running,
         UNCHANGED <<folders, robotTestItems, testsShown, at, thrown>>, NEW f \in Folders,
         TextOf(f)' = TextOf(f), Reason(f) => Reason(f)'
  PROVE  TextIsShown(f)'
<1>1. TextIsShown(f)
  BY DEF CurrentInv, TreeOK, Parts
<1>2. ToBeShown(f) => ToBeShown(f)'
  BY DEF ToBeShown, RefreshesStay, EventsStay
<1>3. UnderWay(f)' = UnderWay(f) /\ Lost' = Lost
  BY DEF UnderWay, Lost, FileSteps
<1>. QED BY <1>1, <1>2, <1>3 DEF TextIsShown

LEMMA TextIsToCome ==
  ASSUME NEW f \in Folders, ToBeShown(f)' \/ Reason(f)'
  PROVE  TextIsShown(f)'
BY DEF TextIsShown

LEMMA AnswerUnmoved ==
  ASSUME CurrentInv, ~namesake, EventsStay, UNCHANGED <<robotTestItems, at>>, NEW f \in Folders,
         disk'[f] = disk[f], f \in outdated => f \in outdated'
  PROVE  AnswerIsCurrent(f)'
<1>1. AnswerIsCurrent(f) /\ Turn' = Turn
  BY DEF CurrentInv, TreeOK, Parts, Turn
<1>. QED BY <1>1 DEF AnswerIsCurrent, IsCurrent, EventsStay

LEMMA AnswerToCome ==
  ASSUME NEW f \in Folders, EventToCome(f)'
  PROVE  AnswerIsCurrent(f)'
BY DEF AnswerIsCurrent, IsCurrent

LEMMA InputsCurrent ==
  ASSUME CurrentInv, ~namesake, NEW f \in Folders,
         OpenOrEdit(f) \/ Save(f) \/ CloseDocument(f) \/ FileChanges(f)
  PROVE  TreeOK'
<1>1. /\ UNCHANGED <<namesake, folders, robotTestItems, tree, at, outdated, thrown, handling>>
      /\ missed \subseteq missed' /\ discarded \subseteq discarded'
  BY DEF OpenOrEdit, Save, CloseDocument, FileChanges, gaps, fileHandlers
<1>2. BaseInv /\ \A g \in Folders : Parts(g)
  BY DEF CurrentInv, TreeOK
<1>3. disk \in [Folders -> Versions] /\ editor \in [Folders -> Versions]
  BY <1>2 DEF BaseInv, tiTypeOK
<1>4. RefreshesStay /\ Running' = Running /\ (at.step # "idle" => Current' = Current)
  <2>1. CASE refreshes' = refreshes
    BY <1>1, <2>1, RefreshesSame
  <2>2. CASE refreshes' = refreshes \o DocumentRefresh(f)
    BY <1>1, <1>2, <2>1, <2>2, DocumentAsks, RefreshAdded, RefreshTypes
  <2>. QED BY <2>1, <2>2 DEF OpenOrEdit, Save, CloseDocument, FileChanges
<1>5. EventsStay
  <2>1. CASE UNCHANGED fileHandlers
    BY <2>1, EventsSame
  <2>2. CASE fileEvents' = Append(fileEvents, f)
    BY <1>1, <1>2, <2>2, EventAdded
  <2>. QED BY <1>1, <2>1, <2>2 DEF OpenOrEdit, Save, CloseDocument, FileChanges, fileHandlers
<1>6. AtTurn' /\ AtFile' /\ \A g \in Folders : OutOf(g)' /\ AskedFor(g)' /\ ShownIfAnswered(g)' /\ GoneIsHidden(g)'
  BY <1>1, <1>4, Unmoved DEF tree
<1>7. ASSUME NEW g \in Folders \ {f} PROVE Parts(g)'
  <2>1. disk'[g] = disk[g] /\ editor'[g] = editor[g]
    BY <1>3 DEF OpenOrEdit, Save, CloseDocument, FileChanges
  <2>2. OpenExists(g)'
    BY <1>2, <2>1 DEF Parts, OpenExists
  <2>3. TextOf(g)' = TextOf(g) /\ (Reason(g) => Reason(g)')
    BY <1>1, <2>1 DEF TextOf, Reason
  <2>. QED BY <1>1, <1>4, <1>5, <1>6, <2>1, <2>2, <2>3, TextUnmoved, AnswerUnmoved DEF Parts, tree
<1>8. ToBeShown(f)' \/ Reason(f)' \/ TextOf(f)' = TextOf(f)
  <2>1. CASE refreshes' = refreshes \o DocumentRefresh(f) /\ missed' = IF Misses(f) THEN missed \union {f} ELSE missed
    <3>1. CASE testItems[f] # <<>> /\ Head(testItems[f]) # 0
      BY <2>1, <3>1 DEF Misses, Reason
    <3>2. CASE refreshes' = Append(refreshes, RefreshAll)
      BY <1>1, <1>2, <3>2, RefreshAdded, RefreshTypes DEF ToBeShown, RefreshAll
    <3>3. CASE refreshes' = Append(refreshes, RefreshFile(f))
      BY <1>1, <1>2, <3>3, RefreshAdded, RefreshTypes DEF ToBeShown
    <3>. QED BY <1>2, <2>1, <3>1, <3>2, <3>3, DocumentAsks
  <2>2. CASE CloseDocument(f)
    BY <1>3, <2>2 DEF CloseDocument, TextOf, Reason
  <2>3. CASE FileChanges(f)
    BY <1>1, <1>2, <2>3, EventAdded DEF FileChanges, ToBeShown
  <2>. QED BY <2>1, <2>2, <2>3 DEF OpenOrEdit, Save
<1>9. TextIsShown(f)'
  <2>1. Reason(f) => Reason(f)'
    BY <1>1 DEF Reason
  <2>. QED BY <1>1, <1>4, <1>5, <1>8, <2>1, TextIsToCome, TextUnmoved DEF tree
<1>10. OpenExists(f)' /\ AnswerIsCurrent(f)'
  <2>1. CASE OpenOrEdit(f) \/ CloseDocument(f)
    <3>1. disk' = disk /\ (disk[f] # 0 \/ editor'[f] = 0)
      BY <1>2, <1>3, <2>1 DEF OpenOrEdit, CloseDocument, Parts, OpenExists
    <3>. QED BY <1>1, <1>5, <3>1, AnswerUnmoved DEF OpenExists
  <2>2. CASE Save(f) \/ FileChanges(f)
    <3>1. EventToCome(f)'
      BY <1>1, <1>2, <2>2, EventAdded DEF Save, FileChanges
    <3>2. OpenExists(f)'
      BY <1>3, <2>2 DEF Save, FileChanges, OpenExists
    <3>. QED BY <3>1, <3>2, AnswerToCome
  <2>. QED BY <2>1, <2>2
<1>. QED BY <1>6, <1>7, <1>9, <1>10 DEF TreeOK, Parts

LEMMA ConfigurationCurrent ==
  ASSUME CurrentInv, ~namesake, ConfigurationChanges
  PROVE  TreeOK'
<1>1. /\ UNCHANGED <<content, robotTestItems, tree, at, fileHandlers, gaps>>
      /\ refreshes' = Append(refreshes, RefreshAll)
  BY DEF ConfigurationChanges
<1>2. RefreshesStay /\ Running' = Running /\ (at.step # "idle" => Current' = Current) /\ EventsStay
  BY <1>1, RefreshAdded, RefreshTypes, EventsSame DEF CurrentInv
<1>3. AtTurn' /\ AtFile' /\ \A f \in Folders : OutOf(f)' /\ AskedFor(f)' /\ ShownIfAnswered(f)' /\ GoneIsHidden(f)'
  BY <1>1, <1>2, Unmoved DEF tree, content, gaps
<1>4. ASSUME NEW f \in Folders PROVE OpenExists(f)' /\ AnswerIsCurrent(f)' /\ TextIsShown(f)'
  <2>1. OpenExists(f)'
    BY <1>1 DEF CurrentInv, TreeOK, Parts, OpenExists, content
  <2>2. TextOf(f)' = TextOf(f) /\ Reason(f)' = Reason(f)
    BY <1>1 DEF TextOf, Reason, content, gaps
  <2>. QED BY <1>1, <1>2, <2>1, <2>2, AnswerUnmoved, TextUnmoved DEF content, gaps, tree
<1>. QED BY <1>3, <1>4 DEF TreeOK, Parts

(* When everything is to be refreshed, what is asked for and shown follows. *)
LEMMA AllFollows ==
  ASSUME AllToCome', NEW f \in Folders
  PROVE  AskedFor(f)' /\ TextIsShown(f)' /\ GoneIsHidden(f)'
BY DEF AskedFor, TextIsShown, ToBeShown, GoneIsHidden

LEMMA AddFolderCurrent ==
  ASSUME CurrentInv, ~namesake, NEW f \in Folders, AddFolder(f)
  PROVE  TreeOK'
<1>1. /\ UNCHANGED <<namesake, disk, editor, robotTestItems, tree, at, fileHandlers, outdated, thrown>>
      /\ refreshes' = Append(refreshes, RefreshAll) /\ folders \subseteq folders'
  BY DEF AddFolder
<1>2. /\ RefreshesStay /\ AllToCome' /\ Running' = Running /\ (at.step # "idle" => Current' = Current) /\ EventsStay
  BY <1>1, RefreshAdded, RefreshTypes, EventsSame DEF CurrentInv, RefreshAll
<1>3. TreeOK /\ Turn' = Turn
  BY <1>1 DEF CurrentInv, Turn
<1>4. AtTurn'
  BY <1>1, <1>2, <1>3 DEF TreeOK, AtTurn, TurnSteps
<1>5. AtFile'
  BY <1>1, <1>2, <1>3 DEF TreeOK, AtFile, FileSteps
<1>6. ASSUME NEW g \in Folders PROVE Parts(g)'
  <2>1. Parts(g)
    BY <1>3 DEF TreeOK
  <2>2. OutOf(g)' /\ OpenExists(g)' /\ AnswerIsCurrent(g)'
    BY <1>1, <1>2, <2>1, AnswerUnmoved DEF Parts, OutOf, OpenExists
  <2>3. ShownIfAnswered(g)'
    BY <1>1, <1>2, <1>3, <2>1 DEF Parts, ShownIfAnswered, tree
  <2>. QED BY <1>2, <2>2, <2>3, AllFollows DEF Parts
<1>. QED BY <1>4, <1>5, <1>6 DEF TreeOK

LEMMA RemoveFolderCurrent ==
  ASSUME CurrentInv, ~namesake, NEW f \in Folders, RemoveFolder(f)
  PROVE  TreeOK'
<1>1. /\ UNCHANGED <<namesake, disk, editor, testsShown, fileHandlers, outdated>>
      /\ refreshes' = Append(refreshes, RefreshAll) /\ folders' = folders \ {f}
      /\ robotTestItems' = [robotTestItems EXCEPT ![f] = NotFetched]
      /\ at' = [at EXCEPT !.old = @ \cup {f}] /\ at.step \notin {"next", "suite", "file"}
  BY DEF RemoveFolder, gaps, Event, Awaiting
<1>2. /\ at'.step = at.step /\ at'.todo = at.todo /\ at'.added = at.added /\ at'.answer = at.answer
      /\ at'.old = at.old \union {f} /\ robotTestItems'[f] = NotFetched
      /\ \A g \in Folders \ {f} : robotTestItems'[g] = robotTestItems[g]
      /\ at.todo \subseteq Folders /\ at.old \subseteq Folders
  BY <1>1 DEF CurrentInv, BaseInv, tiTypeOK, Turns
<1>3. /\ AllToCome' /\ Running' = Running /\ (at.step # "idle" => Current' = Current) /\ EventsStay
  BY <1>1, <1>2, RefreshAdded, RefreshTypes, EventsSame DEF CurrentInv, RefreshAll
<1>4. TreeOK /\ Turn' = Turn
  BY <1>2 DEF CurrentInv, Turn
<1>5. AtTurn'
  <2>1. at.step \in {"fetch", "fetched"} => Turn \in Folders
    BY <1>2, TurnIsToDo DEF CurrentInv, BaseInv, TurnOK, TurnSteps
  <2>. QED BY <1>1, <1>2, <1>3, <1>4, <2>1 DEF TreeOK, AtTurn, TurnSteps
<1>6. AtFile'
  BY <1>1, <1>2, <1>3, <1>4 DEF TreeOK, AtFile, FileSteps
<1>7. ASSUME NEW g \in Folders PROVE Parts(g)'
  <2>1. Parts(g) /\ (robotTestItems'[g] = NotFetched \/ (g # f /\ robotTestItems'[g] = robotTestItems[g]))
    BY <1>2, <1>4 DEF TreeOK
  <2>2. OutOf(g)' /\ OpenExists(g)'
    BY <1>1, <1>2, <2>1 DEF Parts, OutOf, OpenExists
  <2>3. ShownIfAnswered(g)'
    BY <1>1, <1>2, <1>3, <1>4, <2>1, NumbersDiffer DEF Parts, ShownIfAnswered
  <2>4. AnswerIsCurrent(g)'
    BY <1>1, <1>2, <1>3, <1>4, <2>1, NumbersDiffer DEF Parts, AnswerIsCurrent, IsCurrent, EventsStay
  <2>. QED BY <1>3, <2>2, <2>3, <2>4, AllFollows DEF Parts
<1>. QED BY <1>5, <1>6, <1>7 DEF TreeOK

(* The answer of a folder is forgotten, and everything is to be refreshed. *)
LEMMA RefreshFromUriCurrent ==
  ASSUME CurrentInv, ~namesake, refreshFromUri
  PROVE  TreeOK'
<1>1. /\ UNCHANGED <<content, tree, at, discarded, missed, thrown>>
      /\ fileEvents # <<>> /\ ~handling /\ at.step \notin {"next", "suite", "file"} /\ fileEvents \in Seq(Folders)
  BY DEF refreshFromUri, Awaiting, CurrentInv, BaseInv, tiTypeOK
<1>2. PICK f \in Folders : f = Head(fileEvents)
  BY <1>1
<1>3. BaseInv /\ TreeOK /\ Turn' = Turn
  BY <1>1 DEF CurrentInv, Turn
<1>4. CASE f \in folders
  <2>1. /\ robotTestItems' = [robotTestItems EXCEPT ![f] = NotFetched]
        /\ refreshes' = Append(refreshes, [RefreshAll EXCEPT !.folder = f])
        /\ handling' = TRUE /\ fileEvents' = fileEvents
        /\ outdated' = IF Answered(f) THEN outdated \cup {f} ELSE outdated
    BY <1>2, <1>4 DEF refreshFromUri
  <2>2. /\ AllToCome' /\ Running' = Running /\ (at.step # "idle" => Current' = Current)
    BY <1>1, <1>3, <2>1, RefreshAdded, RefreshTypes DEF RefreshAll
  <2>3. \A g \in Folders \ {f} : EventToCome(g) => EventToCome(g)'
    BY <1>1, <1>2, <2>1 DEF EventToCome
  <2>4. /\ robotTestItems'[f] = NotFetched /\ \A g \in Folders \ {f} : robotTestItems'[g] = robotTestItems[g]
        /\ at.todo \subseteq Folders /\ at.old \subseteq Folders
    BY <2>1, <1>3 DEF BaseInv, tiTypeOK, Turns
  <2>5. AtTurn'
    <3>1. at.step \in {"fetch", "fetched"} => Turn \in Folders
      BY <1>3, <2>4, TurnIsToDo DEF BaseInv, TurnOK, TurnSteps
    <3>. QED BY <1>1, <1>3, <2>2, <2>4, <3>1 DEF TreeOK, AtTurn, TurnSteps, content
  <2>6. AtFile'
    BY <1>1, <1>3, <2>2 DEF TreeOK, AtFile, FileSteps, content
  <2>7. ASSUME NEW g \in Folders PROVE Parts(g)'
    <3>1. Parts(g) /\ (robotTestItems'[g] = NotFetched \/ (g # f /\ robotTestItems'[g] = robotTestItems[g]))
      BY <1>3, <2>4 DEF TreeOK
    <3>2. OutOf(g)' /\ OpenExists(g)'
      BY <1>1, <3>1 DEF Parts, OutOf, OpenExists, content
    <3>3. ShownIfAnswered(g)'
      BY <1>1, <1>3, <2>2, <3>1, NumbersDiffer DEF Parts, ShownIfAnswered, tree
    <3>4. AnswerIsCurrent(g)'
      <4>1. CASE g = f
        BY <1>1, <1>3, <2>1, <2>4, <4>1, NumbersDiffer DEF AnswerIsCurrent, IsCurrent, Answered
      <4>2. CASE g # f
        BY <1>1, <1>3, <2>1, <2>3, <2>4, <3>1, <4>2 DEF Parts, AnswerIsCurrent, IsCurrent, content
      <4>. QED BY <4>1, <4>2
    <3>. QED BY <2>2, <3>2, <3>3, <3>4, AllFollows DEF Parts
  <2>. QED BY <2>5, <2>6, <2>7 DEF TreeOK
<1>5. CASE f \notin folders
  <2>1. fileEvents' = Tail(fileEvents) /\ UNCHANGED <<robotTestItems, refreshes, handling, outdated>>
    BY <1>2, <1>5 DEF refreshFromUri
  <2>2. RefreshesStay /\ Running' = Running /\ Current' = Current
    BY <1>1, <2>1, RefreshesSame
  <2>3. ASSUME NEW g \in Folders \ {f}, EventToCome(g) PROVE EventToCome(g)'
    <3>1. PICK i \in 1 .. Len(fileEvents) : fileEvents[i] = g /\ i > 1
      BY <1>1, <1>2, <2>3 DEF EventToCome
    <3>2. i - 1 \in 1 .. Len(fileEvents') /\ fileEvents'[i - 1] = g
      BY <1>1, <2>1, <3>1
    <3>. QED BY <1>1, <2>1, <3>2 DEF EventToCome
  <2>4. AtTurn' /\ AtFile' /\ \A g \in Folders : OutOf(g)' /\ AskedFor(g)' /\ ShownIfAnswered(g)' /\ GoneIsHidden(g)'
    BY <1>1, <2>1, <2>2, Unmoved DEF tree, content
  <2>5. ASSUME NEW g \in Folders PROVE OpenExists(g)' /\ AnswerIsCurrent(g)' /\ TextIsShown(g)'
    <3>1. Parts(g) /\ AtTurn /\ AtFile
      BY <1>3 DEF TreeOK
    <3>2. OpenExists(g)'
      BY <1>1, <3>1 DEF Parts, OpenExists, content
    <3>3. TextOf(g)' = TextOf(g) /\ Reason(g)' = Reason(g)
      BY <1>1, <2>1 DEF TextOf, Reason, content
    <3>4. CASE g # f
      <4>1. ToBeShown(g) => ToBeShown(g)'
        BY <2>2, <2>3, <3>4 DEF ToBeShown, RefreshesStay
      <4>2. TextIsShown(g)'
        BY <1>1, <2>1, <2>2, <3>1, <3>3, <4>1 DEF Parts, TextIsShown, UnderWay, Lost, FileSteps, content, tree
      <4>. QED BY <1>1, <1>3, <2>1, <2>3, <3>1, <3>2, <3>4, <4>2 DEF Parts, AnswerIsCurrent, IsCurrent, content
    <3>5. CASE g = f
      <4>1. robotTestItems[f] = NotFetched
        BY <1>5, <3>1, <3>5 DEF Parts, OutOf
      <4>2. at.step = "fetched" => Turn \in folders \union at.old
        BY <1>3, <3>1, TurnIsToDo DEF BaseInv, TurnOK, TurnSteps, tiTypeOK, Turns, AtTurn
      <4>3. AnswerIsCurrent(f)'
        BY <1>1, <1>3, <1>5, <2>1, <4>1, <4>2, NumbersDiffer DEF AnswerIsCurrent, IsCurrent, content
      <4>4. at.step = "read" /\ at.answer = f => AllToCome'
        BY <1>5, <2>2, <3>1 DEF AtFile, AtTurn, FileSteps, RefreshesStay
      <4>5. TextIsShown(f)'
        BY <1>1, <1>5, <4>4 DEF TextIsShown, ToBeShown, content
      <4>. QED BY <3>2, <3>5, <4>3, <4>5
    <3>. QED BY <3>4, <3>5
  <2>. QED BY <2>4, <2>5 DEF TreeOK, Parts
<1>. QED BY <1>4, <1>5

(* Steps that the tests shown do not depend on *)
LEMMA CurrentStays ==
  ASSUME CurrentInv, ~namesake, UNCHANGED <<content, robotTestItems, testsShown, refreshes, at, fileHandlers, gaps>>
  PROVE  TreeOK'
<1>1. RefreshesStay /\ Running' = Running /\ Current' = Current /\ EventsStay
  BY RefreshesSame, EventsSame
<1>2. AtTurn' /\ AtFile' /\ \A f \in Folders : OutOf(f)' /\ AskedFor(f)' /\ ShownIfAnswered(f)' /\ GoneIsHidden(f)'
  BY <1>1, Unmoved DEF content, gaps
<1>3. ASSUME NEW f \in Folders PROVE OpenExists(f)' /\ AnswerIsCurrent(f)' /\ TextIsShown(f)'
  <2>1. OpenExists(f)'
    BY DEF CurrentInv, TreeOK, Parts, OpenExists, content
  <2>2. TextOf(f)' = TextOf(f) /\ Reason(f)' = Reason(f)
    BY DEF TextOf, Reason, content, gaps
  <2>. QED BY <1>1, <2>1, <2>2, AnswerUnmoved, TextUnmoved DEF content, gaps
<1>. QED BY <1>2, <1>3 DEF TreeOK, Parts

-----------------------------------------------------------------------------
(* The steps of a refresh                                                  *)
LEMMA Onward ==
  ASSUME UNCHANGED <<refreshes, fileHandlers>>, at.step # "idle", at'.step # "idle"
  PROVE  RefreshesStay /\ EventsStay /\ Running' = Running /\ Current' = Current
BY RefreshesSame, EventsSame

LEMMA BeginCurrent ==
  ASSUME CurrentInv, ~namesake, Begin
  PROVE  TreeOK'
<1>1. UNCHANGED <<content, robotTestItems, tree, eventCount, gaps>> /\ refreshes # <<>> /\ at.step = "idle" /\ ~Running
  BY DEF Begin, Running
<1>2. BaseInv /\ TreeOK /\ refreshes \in Seq(Refreshes)
  BY DEF CurrentInv, BaseInv, tiTypeOK
<1>3. /\ Len(refreshes) \in Nat /\ Len(refreshes) >= 1 /\ Current = refreshes[1] /\ Current \in Refreshes
  BY <1>1, <1>2 DEF Current
<1>4. CASE Current.what = "all"
  <2>1. at' = [Idle EXCEPT !.step = "next", !.todo = folders] /\ UNCHANGED <<refreshes, fileHandlers>>
    BY <1>4 DEF Begin
  <2>2. /\ at'.step = "next" /\ at'.todo = folders /\ at'.added = {} /\ at'.old = {} /\ Current' = Current /\ Running'
        /\ EventsStay
    BY <1>4, <2>1, EventsSame DEF Idle, Current, Running
  <2>3. AtTurn' /\ AtFile'
    BY <1>1, <1>4, <2>2 DEF AtTurn, AtFile, TurnSteps, FileSteps, content
  <2>4. ASSUME NEW f \in Folders PROVE Parts(f)'
    <3>1. Parts(f)
      BY <1>2 DEF TreeOK
    <3>2. OutOf(f)' /\ OpenExists(f)'
      BY <1>1, <3>1 DEF Parts, OutOf, OpenExists, content
    <3>3. AskedFor(f)' /\ GoneIsHidden(f)'
      BY <1>1, <2>2 DEF AskedFor, ComesTo, GoneIsHidden, content
    <3>4. AnswerIsCurrent(f)'
      BY <1>1, <2>2, <3>1 DEF Parts, AnswerIsCurrent, IsCurrent, EventsStay, content, gaps
    <3>5. ShownIfAnswered(f)'
      BY <1>1, <2>2, <3>1, NumbersDiffer DEF Parts, ShownIfAnswered, OutOf, content, tree
    <3>6. TextIsShown(f)'
      BY <1>1, <2>2 DEF TextIsShown, UnderWay, content
    <3>. QED BY <3>2, <3>3, <3>4, <3>5, <3>6 DEF Parts
  <2>. QED BY <2>3, <2>4 DEF TreeOK
<1>5. CASE Current.what # "all"
  <2>1. PICK f \in 0 .. NFolders : f = Current.folder
    BY <1>3 DEF Refreshes
  <2>2. Current.what = "file"
    BY <1>3, <1>5 DEF Refreshes
  (* The document's suite is refreshed, or there is none to refresh. *)
  <2>3. \/ /\ at' = [Idle EXCEPT !.step = "file", !.answer = f] /\ UNCHANGED <<refreshes, fileHandlers>>
           /\ f \in folders
        \/ /\ Leaves
           /\ f \in Folders /\ f \in folders /\ robotTestItems[f] \in Versions => robotTestItems[f] = 0
    <3>1. ASSUME f \in Folders, f \in folders, robotTestItems[f] \in Versions, robotTestItems[f] # 0
          PROVE  testsShown[f] # Hidden /\ f \in RootFolder(f)
      <4>1. testsShown[f] # Hidden
        BY <1>1, <1>2, <3>1 DEF TreeOK, Parts, ShownIfAnswered
      <4>2. HasRoot(f, f) /\ \A h \in 1 .. f - 1 : ~HasRoot(f, h)
        BY <3>1 DEF HasRoot, SameRoot, Folders
      <4>. QED BY <3>1, <4>1, <4>2 DEF RootFolder
    <3>2. f \in RootFolder(f) => f \in folders
      BY RootFolderIs
    <3>. QED BY <1>5, <2>1, <3>1, <3>2 DEF Begin
  <2>4. ~Running' /\ (AllToCome => AllToCome') /\ EventsStay /\ at'.step \in {"idle", "file"} /\ at'.todo = {}
        /\ at'.old = {} /\ (at'.step = "file" => f \in folders /\ at'.answer = f /\ Current'.what # "all")
        /\ \A g \in Folders : g # f /\ FileToCome(g) => FileToCome(g)'
    <3>1. CASE at' = [Idle EXCEPT !.step = "file", !.answer = f] /\ UNCHANGED <<refreshes, fileHandlers>> /\ f \in folders
      <4>1. /\ at'.step = "file" /\ at'.answer = f /\ at'.todo = {} /\ at'.old = {} /\ Current' = Current
        BY <3>1 DEF Idle, Current
      <4>2. ASSUME NEW i \in 1 .. Len(refreshes), i = 1
            PROVE  refreshes[i].what # "all" /\ \A g \in Folders : g # f => refreshes[i] # RefreshFile(g)
        BY <1>3, <1>5, <2>1, <4>2 DEF RefreshFile
      <4>3. AllToCome => AllToCome'
        BY <3>1, <4>1, <4>2 DEF AllToCome, ToCome
      <4>4. \A g \in Folders : g # f /\ FileToCome(g) => FileToCome(g)'
        BY <3>1, <4>1, <4>2 DEF FileToCome, ToCome, RefreshFile
      <4>. QED BY <1>5, <3>1, <4>1, <4>3, <4>4, EventsSame DEF Running
    <3>2. CASE Leaves
      BY <1>1, <1>2, <2>1, <2>2, <3>2, RefreshesLeft DEF Leaves, Idle
    <3>. QED BY <2>3, <3>1, <3>2
  <2>5. AtTurn' /\ AtFile'
    BY <1>1, <2>4 DEF AtTurn, AtFile, TurnSteps, FileSteps, content
  <2>6. ASSUME NEW g \in Folders PROVE Parts(g)'
    <3>1. Parts(g)
      BY <1>2 DEF TreeOK
    <3>2. OutOf(g)' /\ OpenExists(g)'
      BY <1>1, <3>1 DEF Parts, OutOf, OpenExists, content
    <3>3. AskedFor(g)' /\ GoneIsHidden(g)'
      BY <1>1, <2>4, <3>1 DEF Parts, AskedFor, ComesTo, Lost, GoneIsHidden, content, tree, gaps
    <3>4. AnswerIsCurrent(g)'
      BY <1>1, <2>4, <3>1 DEF Parts, AnswerIsCurrent, IsCurrent, EventsStay, content, gaps
    <3>5. ShownIfAnswered(g)'
      BY <1>1, <2>4, <3>1 DEF Parts, ShownIfAnswered, content, tree
    <3>6. TextIsShown(g)'
      <4>1. CASE g = f
        BY <1>1, <2>3, <2>4, <4>1 DEF TextIsShown, UnderWay, FileSteps, content, Idle
      <4>2. CASE g # f
        <5>1. ToBeShown(g) => ToBeShown(g)'
          BY <2>4, <4>2 DEF ToBeShown, EventsStay
        <5>2. TextOf(g)' = TextOf(g) /\ Reason(g)' = Reason(g)
          BY <1>1 DEF TextOf, Reason, content, gaps
        <5>3. ~UnderWay(g) /\ (Lost => Lost')
          BY <1>1, <2>4 DEF UnderWay, Lost, FileSteps, gaps
        <5>. QED BY <1>1, <2>4, <3>1, <5>1, <5>2, <5>3 DEF Parts, TextIsShown, content, tree
      <4>. QED BY <4>1, <4>2
    <3>. QED BY <3>2, <3>3, <3>4, <3>5, <3>6 DEF Parts
  <2>. QED BY <2>5, <2>6 DEF TreeOK
<1>. QED BY <1>4, <1>5

LEMMA NextFolderCurrent ==
  ASSUME CurrentInv, ~namesake, NextFolder
  PROVE  TreeOK'
<1>1. /\ UNCHANGED <<content, robotTestItems, tree, refreshes, fileHandlers, gaps>> /\ at.step = "next"
      /\ BaseInv /\ TreeOK
  BY DEF NextFolder, CurrentInv
<1>2. /\ at'.todo = at.todo /\ at'.added = at.added /\ at'.old = at.old
      /\ \/ at'.step = "fetch" /\ robotTestItems[Turn] = NotFetched
         \/ at'.step = "suite" /\ robotTestItems[Turn] = at'.answer /\ robotTestItems[Turn] # NotFetched
  <2>1. \A f \in at.old : robotTestItems[f] = NotFetched
    BY <1>1 DEF TreeOK, AtTurn
  <2>. QED BY <1>1, <2>1 DEF NextFolder, BaseInv, tiTypeOK, Turns
<1>3. /\ RefreshesStay /\ EventsStay /\ Running' = Running /\ Current' = Current
      /\ Turn' = Turn
  BY <1>1, <1>2, Onward DEF Turn
<1>4. AtTurn' /\ AtFile'
  BY <1>1, <1>2, <1>3 DEF TreeOK, AtTurn, AtFile, TurnSteps, FileSteps, RefreshesStay, content
<1>5. ASSUME NEW f \in Folders PROVE Parts(f)'
  <2>1. Parts(f)
    BY <1>1 DEF TreeOK
  <2>2. OutOf(f)' /\ OpenExists(f)'
    BY <1>1, <2>1 DEF Parts, OutOf, OpenExists, content
  <2>3. AskedFor(f)'
    BY <1>1, <1>2, <1>3, <2>1 DEF Parts, AskedFor, ComesTo, Lost, RefreshesStay, content, gaps
  <2>4. AnswerIsCurrent(f)'
    BY <1>1, <1>2, <1>3, <2>1 DEF Parts, AnswerIsCurrent, IsCurrent, EventsStay, content, gaps
  <2>5. ShownIfAnswered(f)'
    BY <1>1, <1>2, <1>3, <2>1 DEF Parts, ShownIfAnswered, tree
  <2>6. TextIsShown(f)'
    <3>1. TextOf(f)' = TextOf(f) /\ Reason(f)' = Reason(f) /\ (ToBeShown(f) => ToBeShown(f)')
      BY <1>1, <1>3 DEF TextOf, Reason, ToBeShown, RefreshesStay, EventsStay, content, gaps
    <3>. QED BY <1>1, <1>2, <1>3, <2>1, <3>1 DEF Parts, TextIsShown, UnderWay, Lost, FileSteps, content, tree, gaps
  <2>7. GoneIsHidden(f)'
    BY <1>1, <1>2, <1>3, <2>1 DEF Parts, GoneIsHidden, Lost, RefreshesStay, content, tree, gaps
  <2>. QED BY <2>2, <2>3, <2>4, <2>5, <2>6, <2>7 DEF Parts
<1>. QED BY <1>4, <1>5 DEF TreeOK

(* Leaving a refresh with an exception *)
LEMMA RejectedCurrent ==
  ASSUME CurrentInv, ~namesake, Rejected
  PROVE  TreeOK'
<1>1. /\ UNCHANGED <<content, robotTestItems, tree, outdated, discarded, missed>> /\ at.step \in {"fetch", "document"}
      /\ Leaves /\ thrown' = TRUE /\ BaseInv /\ TreeOK
  BY DEF Rejected, CurrentInv
<1>2. EventsStay /\ ~Running' /\ at'.step = "idle" /\ at'.todo = {}
  BY <1>1, RefreshesLeft DEF BaseInv, QueuesOK
<1>3. AtTurn' /\ AtFile'
  BY <1>2 DEF AtTurn, AtFile, TurnSteps, FileSteps
<1>4. ASSUME NEW f \in Folders PROVE Parts(f)'
  <2>1. Parts(f)
    BY <1>1 DEF TreeOK
  <2>2. OutOf(f)' /\ OpenExists(f)' /\ AskedFor(f)' /\ GoneIsHidden(f)' /\ TextIsShown(f)'
    BY <1>1, <1>2, <2>1 DEF Parts, OutOf, OpenExists, AskedFor, GoneIsHidden, TextIsShown, Lost, content
  <2>3. AnswerIsCurrent(f)' /\ ShownIfAnswered(f)'
    BY <1>1, <1>2, <2>1 DEF Parts, AnswerIsCurrent, IsCurrent, ShownIfAnswered, EventsStay, content, tree
  <2>. QED BY <2>2, <2>3 DEF Parts
<1>. QED BY <1>3, <1>4 DEF TreeOK

(* The answer of the folder whose turn it is comes in.                     *)
LEMMA AnswerComes ==
  ASSUME CurrentInv, ~namesake, getTestsFromWorkspace
  PROVE  TreeOK'
<1>1. /\ UNCHANGED <<content, robotTestItems, tree, refreshes, fileHandlers, discarded, missed, thrown>>
      /\ at.step = "fetch" /\ BaseInv /\ TreeOK /\ robotTestItems[Turn] = NotFetched
      /\ outdated' = IF Turn \in at.old THEN outdated ELSE outdated \ {Turn}
  BY DEF getTestsFromWorkspace, CurrentInv, TreeOK, AtTurn
<1>2. /\ at'.todo = at.todo /\ at'.added = at.added /\ at'.old = at.old /\ at'.step = "fetched"
      /\ at'.answer \in {disk[Turn], Unknown}
  BY <1>1 DEF getTestsFromWorkspace, SuiteOf, BaseInv, tiTypeOK, Turns
<1>3. /\ RefreshesStay /\ EventsStay /\ Running' = Running /\ Current' = Current
      /\ Turn' = Turn
  BY <1>1, <1>2, Onward DEF Turn
<1>4. AtTurn' /\ AtFile'
  BY <1>1, <1>2, <1>3 DEF TreeOK, AtTurn, AtFile, TurnSteps, FileSteps, RefreshesStay, content
<1>5. ASSUME NEW f \in Folders PROVE Parts(f)'
  <2>1. Parts(f)
    BY <1>1 DEF TreeOK
  <2>2. OutOf(f)' /\ OpenExists(f)'
    BY <1>1, <2>1 DEF Parts, OutOf, OpenExists, content
  <2>3. AskedFor(f)'
    BY <1>1, <1>2, <1>3, <2>1 DEF Parts, AskedFor, ComesTo, Lost, RefreshesStay, content
  <2>4. AnswerIsCurrent(f)'
    <3>1. CASE f = Turn
      BY <1>1, <1>2, <1>3, <3>1, NumbersDiffer DEF AnswerIsCurrent, IsCurrent, content
    <3>2. CASE f # Turn
      BY <1>1, <1>2, <1>3, <2>1, <3>2 DEF Parts, AnswerIsCurrent, IsCurrent, EventsStay, content
    <3>. QED BY <3>1, <3>2
  <2>5. ShownIfAnswered(f)'
    BY <1>1, <1>2, <1>3, <2>1 DEF Parts, ShownIfAnswered, tree
  <2>6. TextIsShown(f)'
    <3>1. TextOf(f)' = TextOf(f) /\ (ToBeShown(f) => ToBeShown(f)') /\ (f # Turn => Reason(f)' = Reason(f))
      BY <1>1, <1>3 DEF TextOf, Reason, ToBeShown, RefreshesStay, EventsStay, content
    <3>2. UnderWay(f)' = UnderWay(f)
      BY <1>1, <1>2, <1>3 DEF UnderWay, FileSteps
    <3>. QED BY <1>1, <1>2, <1>3, <2>1, <3>1, <3>2, NumbersDiffer DEF Parts, TextIsShown, Lost, content, tree
  <2>7. GoneIsHidden(f)'
    BY <1>1, <1>2, <1>3, <2>1 DEF Parts, GoneIsHidden, Lost, RefreshesStay, content, tree
  <2>. QED BY <2>2, <2>3, <2>4, <2>5, <2>6, <2>7 DEF Parts
<1>. QED BY <1>4, <1>5 DEF TreeOK

LEMMA StoreCurrent ==
  ASSUME CurrentInv, ~namesake, StoreAnswer
  PROVE  TreeOK'
<1>1. /\ UNCHANGED <<content, tree, refreshes, fileHandlers, gaps>>
      /\ at.step = "fetched" /\ BaseInv /\ TreeOK /\ robotTestItems[Turn] = NotFetched
      /\ robotTestItems' = IF Turn \in at.old THEN robotTestItems ELSE [robotTestItems EXCEPT ![Turn] = at.answer]
  BY DEF StoreAnswer, CurrentInv, TreeOK, AtTurn
<1>2. /\ at'.todo = at.todo /\ at'.added = at.added /\ at'.old = at.old /\ at'.step = "suite" /\ at'.answer = at.answer
      /\ at.answer \in Versions \union {Unknown} /\ Turn \in at.todo /\ Turn \in Folders /\ Running
  <2>1. Turn \in at.todo /\ at.answer \in Versions \union {Unknown} /\ at.todo \subseteq Folders
    BY <1>1, TurnIsToDo DEF BaseInv, TurnOK, TurnSteps, tiTypeOK, Turns
  <2>2. Running
    BY <1>1 DEF TreeOK, AtTurn, TurnSteps, Running
  <2>. QED BY <1>1, <2>1, <2>2 DEF StoreAnswer, BaseInv, tiTypeOK, Turns
<1>3. /\ RefreshesStay /\ EventsStay /\ Running' = Running /\ Current' = Current
      /\ Turn' = Turn
  BY <1>1, <1>2, Onward DEF Turn
<1>4. /\ \A f \in Folders \ {Turn} : robotTestItems'[f] = robotTestItems[f]
      /\ Turn \in at.old => robotTestItems' = robotTestItems /\ AllToCome
      /\ Turn \notin at.old => robotTestItems'[Turn] = at.answer /\ Turn \in folders
  BY <1>1, <1>2 DEF TreeOK, AtTurn, BaseInv, tiTypeOK
<1>5. AtTurn' /\ AtFile'
  <2>1. \A f \in at.old : robotTestItems'[f] = NotFetched
    BY <1>1, <1>4 DEF TreeOK, AtTurn, BaseInv, tiTypeOK, Turns
  <2>. QED BY <1>1, <1>2, <1>3, <1>4, <2>1 DEF TreeOK, AtTurn, AtFile, TurnSteps, FileSteps, RefreshesStay, content
<1>6. ASSUME NEW f \in Folders PROVE Parts(f)'
  <2>1. Parts(f)
    BY <1>1 DEF TreeOK
  <2>2. OutOf(f)' /\ OpenExists(f)'
    BY <1>1, <1>4, <2>1 DEF Parts, OutOf, OpenExists, content
  <2>3. AskedFor(f)'
    BY <1>1, <1>2, <1>3, <1>4, <2>1, NumbersDiffer DEF Parts, AskedFor, ComesTo, Lost, RefreshesStay, content, gaps
  <2>4. AnswerIsCurrent(f)'
    BY <1>1, <1>2, <1>3, <1>4, <2>1 DEF Parts, AnswerIsCurrent, IsCurrent, EventsStay, content, gaps
  <2>5. ShownIfAnswered(f)'
    BY <1>1, <1>2, <1>3, <1>4, <2>1 DEF Parts, ShownIfAnswered, tree
  <2>6. TextIsShown(f)'
    <3>1. TextOf(f)' = TextOf(f) /\ (ToBeShown(f) => ToBeShown(f)') /\ Reason(f)' = Reason(f)
      BY <1>1, <1>3 DEF TextOf, Reason, ToBeShown, RefreshesStay, EventsStay, content, gaps
    <3>2. UnderWay(f)' = UnderWay(f) /\ (f = Turn => UnderWay(f))
      BY <1>1, <1>2, <1>3 DEF UnderWay, FileSteps
    <3>. QED BY <1>1, <1>2, <1>3, <1>4, <2>1, <3>1, <3>2 DEF Parts, TextIsShown, Lost, content, tree, gaps
  <2>7. GoneIsHidden(f)'
    BY <1>1, <1>2, <1>3, <2>1 DEF Parts, GoneIsHidden, Lost, RefreshesStay, content, tree, gaps
  <2>. QED BY <2>2, <2>3, <2>4, <2>5, <2>6, <2>7 DEF Parts
<1>. QED BY <1>5, <1>6 DEF TreeOK

(* The turn of a folder ends: the others have what they had.               *)
AfterTurn ==
  /\ at'.step = "next" /\ at'.todo = at.todo \ {Turn} /\ at'.old = at.old
  /\ at'.added \in {at.added, at.added \union {Turn}}

LEMMA NextTurnIs ==
  ASSUME NEW turn \in Turns, turn.todo = at.todo, turn.added \in {at.added, at.added \union {Turn}}, turn.old = at.old, at' = NextTurn(turn)
  PROVE  AfterTurn /\ at'.added = turn.added
BY DEF AfterTurn, NextTurn, Turns

LEMMA TurnEnds ==
  ASSUME CurrentInv, ~namesake, AfterTurn, Running, UNCHANGED <<content, robotTestItems, refreshes, fileHandlers, outdated, thrown>>
  PROVE  /\ AtTurn' /\ AtFile' /\ RefreshesStay /\ EventsStay /\ Running'
         /\ \A f \in Folders : OutOf(f)' /\ OpenExists(f)' /\ AnswerIsCurrent(f)'
         /\ \A f \in Folders \ {Turn} : AskedFor(f)'
         /\ \A f \in Folders \ {Turn} : testsShown'[f] = testsShown[f] =>
              /\ ShownIfAnswered(f)' /\ GoneIsHidden(f)'
              /\ (Reason(f) => Reason(f)') => TextIsShown(f)'
<1>1. RefreshesStay /\ EventsStay /\ Running' = Running /\ Current' = Current /\ BaseInv /\ TreeOK
  BY Onward DEF AfterTurn, Running, CurrentInv
<1>2. AtTurn' /\ AtFile'
  BY <1>1 DEF AfterTurn, TreeOK, AtTurn, AtFile, TurnSteps, FileSteps, RefreshesStay, content, Running
<1>3. ASSUME NEW f \in Folders PROVE OutOf(f)' /\ OpenExists(f)' /\ AnswerIsCurrent(f)'
  BY <1>1 DEF TreeOK, Parts, OutOf, OpenExists, AnswerIsCurrent, IsCurrent, EventsStay, content, AfterTurn
<1>4. ASSUME NEW f \in Folders \ {Turn} PROVE AskedFor(f)'
  BY <1>1 DEF TreeOK, Parts, AskedFor, ComesTo, Lost, RefreshesStay, content, AfterTurn
<1>5. ASSUME NEW f \in Folders \ {Turn}, testsShown'[f] = testsShown[f] PROVE ShownIfAnswered(f)' /\ GoneIsHidden(f)'
  <2>1. Parts(f)
    BY <1>1 DEF TreeOK
  <2>2. ShownIfAnswered(f)'
    BY <1>1, <1>5, <2>1 DEF Parts, ShownIfAnswered, AfterTurn
  <2>3. GoneIsHidden(f)'
    BY <1>1, <1>5, <2>1 DEF Parts, GoneIsHidden, Lost, RefreshesStay, content, AfterTurn
  <2>. QED BY <2>2, <2>3
<1>6. ASSUME NEW f \in Folders \ {Turn}, testsShown'[f] = testsShown[f], Reason(f) => Reason(f)' PROVE TextIsShown(f)'
  <2>1. TextOf(f)' = TextOf(f) /\ (ToBeShown(f) => ToBeShown(f)')
    BY <1>1 DEF TextOf, ToBeShown, RefreshesStay, EventsStay, content
  <2>2. UnderWay(f) => UnderWay(f)'
    BY <1>1 DEF TreeOK, AtFile, UnderWay, AfterTurn, Running
  <2>3. TextIsShown(f) /\ Lost' = Lost
    BY <1>1 DEF TreeOK, Parts, Lost
  <2>. QED BY <1>1, <1>6, <2>1, <2>2, <2>3 DEF TextIsShown, content, AfterTurn
<1>. QED BY <1>1, <1>2, <1>3, <1>4, <1>5, <1>6

LEMMA AtSuite ==
  ASSUME CurrentInv, ~namesake, at.step = "suite"
  PROVE  /\ Running /\ Turn \in at.todo /\ Turn \in Folders
         /\ Turn \in at.old => AllToCome /\ robotTestItems[Turn] = NotFetched
         /\ Turn \notin at.old => Turn \in folders /\ robotTestItems[Turn] = at.answer
<1>1. Turn \in at.todo /\ Turn \in Folders
  BY TurnIsToDo DEF CurrentInv, BaseInv, TurnOK, TurnSteps, tiTypeOK, Turns
<1>. QED BY <1>1 DEF CurrentInv, TreeOK, AtTurn, TurnSteps, Running

(* The folder whose turn it was has no suite, or is to be refreshed again. *)
LEMMA NoSuite ==
  ASSUME CurrentInv, ~namesake, AfterTurn, Running, Turn \in Folders,
         UNCHANGED <<content, robotTestItems, refreshes, fileHandlers, gaps>>,
         \A f \in Folders \ {Turn} : testsShown'[f] = testsShown[f],
         \/ AllToCome /\ robotTestItems[Turn] = NotFetched
         \/ Turn \in folders /\ robotTestItems[Turn] = Unknown
         \/ Turn \in folders /\ robotTestItems[Turn] = 0 /\ testsShown'[Turn] = Hidden /\ Turn \in at'.added
  PROVE  TreeOK'
<1>1. /\ AtTurn' /\ AtFile' /\ RefreshesStay /\ Running'
      /\ \A f \in Folders : OutOf(f)' /\ OpenExists(f)' /\ AnswerIsCurrent(f)'
      /\ \A f \in Folders \ {Turn} : AskedFor(f)'
      /\ \A f \in Folders \ {Turn} : testsShown'[f] = testsShown[f] =>
           /\ ShownIfAnswered(f)' /\ GoneIsHidden(f)'
           /\ (Reason(f) => Reason(f)') => TextIsShown(f)'
  BY TurnEnds DEF gaps
<1>2. ASSUME NEW f \in Folders \ {Turn} PROVE Parts(f)'
  <2>1. Reason(f)' = Reason(f)
    BY DEF Reason, gaps
  <2>. QED BY <1>1, <2>1 DEF Parts
<1>3. PICK t \in Folders : t = Turn
  OBVIOUS
<1>4. AskedFor(t)' /\ ShownIfAnswered(t)' /\ TextIsShown(t)' /\ GoneIsHidden(t)'
  BY <1>1, <1>3, NumbersDiffer
     DEF AskedFor, ShownIfAnswered, TextIsShown, ToBeShown, GoneIsHidden, RefreshesStay, content, AfterTurn
<1>5. Parts(t)'
  BY <1>1, <1>4 DEF Parts
<1>. QED BY <1>1, <1>2, <1>3, <1>5 DEF TreeOK

LEMMA SkipFolderCurrent ==
  ASSUME CurrentInv, ~namesake, SkipFolder
  PROVE  TreeOK'
<1>1. /\ UNCHANGED <<content, robotTestItems, tree, refreshes, fileHandlers, gaps>>
      /\ at.step = "suite" /\ at.answer = Unknown /\ at' = NextTurn(at)
  BY DEF SkipFolder
<1>2. AfterTurn
  BY <1>1, NextTurnIs DEF CurrentInv, BaseInv, tiTypeOK
<1>. QED BY <1>1, <1>2, AtSuite, NoSuite DEF tree

(* The suite of an answer gets its item. *)
LEMMA ShowRootCurrent ==
  ASSUME CurrentInv, ~namesake, ShowRoot
  PROVE  TreeOK'
<1>. DEFINE turn == [at EXCEPT !.added = @ \cup {Turn}]
<1>1. /\ UNCHANGED <<content, robotTestItems, refreshes, fileHandlers, eventCount, gaps>>
      /\ at.step = "suite" /\ at.answer \in Versions /\ ShowsRoot(turn, Turn) /\ BaseInv /\ TreeOK
  BY RootWhat DEF CurrentInv
<1>2. /\ turn \in Turns /\ turn.todo = at.todo /\ turn.added = at.added \union {Turn} /\ turn.old = at.old
  BY <1>1, AtSuite DEF BaseInv, tiTypeOK, Turns
<1>3. at.todo \subseteq Folders
  BY <1>1 DEF BaseInv, tiTypeOK, Turns
<1>. HIDE DEF turn
<1>4. PICK t \in Folders : t = Turn
  BY AtSuite, <1>1
<1>5. \A g \in RootFolder(t) : g = t /\ t \in folders /\ robotTestItems[t] \in Versions
  BY RootFolderIs DEF SameRoot
<1>6. t \in folders /\ robotTestItems[t] \in Versions => t \in RootFolder(t)
  BY DEF RootFolder, HasRoot, SameRoot, Folders
<1>7. CASE RootFolder(Turn) = {} /\ at' = NextTurn(turn) /\ UNCHANGED <<testItems, testsShown>>
  <2>1. AfterTurn
    BY <1>2, <1>7, NextTurnIs
  <2>2. AllToCome /\ robotTestItems[Turn] = NotFetched
    BY <1>1, <1>4, <1>6, <1>7, AtSuite
  <2>. QED BY <1>1, <1>7, <2>1, <2>2, AtSuite, NoSuite
<1>8. CASE /\ RootFolder(Turn) # {} /\ \A g \in RootFolder(Turn) : robotTestItems[g] = 0
           /\ at' = NextTurn(turn) /\ testsShown'[Turn] = Hidden
           /\ \A h \in Folders \ {Turn} : testsShown'[h] = testsShown[h]
  <2>1. AfterTurn /\ Turn \in at'.added
    BY <1>2, <1>8, NextTurnIs
  <2>2. Turn \in folders /\ robotTestItems[Turn] = 0
    BY <1>4, <1>5, <1>8
  <2>. QED BY <1>1, <1>8, <2>1, <2>2, AtSuite, NoSuite
<1>9. ASSUME NEW g \in RootFolder(Turn), robotTestItems[g] # 0, at' = [turn EXCEPT !.step = "file", !.answer = g],
             \A h \in Folders \ {g} : testsShown'[h] = testsShown[h], testsShown'[g] # Hidden
      PROVE  TreeOK'
  <2>1. g = t /\ t \in folders /\ robotTestItems[t] \in Versions \ {0}
    BY <1>4, <1>5, <1>9
  <2>2. /\ at'.step = "file" /\ at'.answer = t /\ at'.todo = at.todo /\ at'.added = at.added \union {t} /\ at'.old = at.old
    BY <1>2, <1>4, <1>9, <2>1 DEF Turns
  <2>3. /\ RefreshesStay /\ EventsStay /\ Running' = Running /\ Running /\ Current' = Current /\ Turn' = Turn /\ t \in at.todo
    BY <1>1, <1>4, <2>2, Onward, AtSuite DEF Turn
  <2>4. AtTurn' /\ AtFile'
    BY <1>1, <1>4, <2>1, <2>2, <2>3 DEF TreeOK, AtTurn, AtFile, TurnSteps, FileSteps, RefreshesStay, content
  <2>5. ASSUME NEW f \in Folders PROVE Parts(f)'
    <3>1. Parts(f) /\ (f # t => testsShown'[f] = testsShown[f])
      BY <1>1, <1>9, <2>1 DEF TreeOK
    <3>2. OutOf(f)' /\ OpenExists(f)' /\ AnswerIsCurrent(f)'
      BY <1>1, <2>2, <2>3, <3>1 DEF Parts, OutOf, OpenExists, AnswerIsCurrent, IsCurrent, EventsStay, content, gaps
    <3>3. AskedFor(f)'
      BY <1>1, <1>4, <2>1, <2>2, <2>3, <3>1, NumbersDiffer DEF Parts, AskedFor, ComesTo, Lost, RefreshesStay, content, gaps
    <3>4. ShownIfAnswered(f)'
      BY <1>1, <1>4, <1>9, <2>1, <2>2, <2>3, <3>1 DEF Parts, ShownIfAnswered
    <3>5. TextIsShown(f)'
      <4>1. TextOf(f)' = TextOf(f) /\ (ToBeShown(f) => ToBeShown(f)') /\ Reason(f)' = Reason(f)
        BY <1>1, <2>3 DEF TextOf, Reason, ToBeShown, RefreshesStay, EventsStay, content, gaps
      <4>2. (UnderWay(f) => UnderWay(f)') /\ (f = t => UnderWay(f)')
        BY <1>1, <2>2, <2>3 DEF UnderWay, FileSteps
      <4>. QED BY <1>1, <2>2, <2>3, <3>1, <4>1, <4>2 DEF Parts, TextIsShown, Lost, content, gaps
    <3>6. GoneIsHidden(f)'
      BY <1>1, <2>1, <2>2, <2>3, <3>1 DEF Parts, GoneIsHidden, Lost, RefreshesStay, content, gaps
    <3>. QED BY <3>2, <3>3, <3>4, <3>5, <3>6 DEF Parts
  <2>. QED BY <2>4, <2>5 DEF TreeOK
<1>10. ASSUME NEW g \in RootFolder(Turn),
              IF testsShown[g] = Hidden
              THEN testItems'[g] = With(testItems[g], 0) /\ testsShown'[g] = 0
              ELSE testItems'[g] = testItems[g] /\ testsShown'[g] = testsShown[g]
       PROVE  testsShown'[g] # Hidden
  BY <1>10, NumbersDiffer
<1>. QED BY <1>1, <1>7, <1>8, <1>9, <1>10 DEF ShowsRoot

(* The tests of a suite are shown. *)
LEMMA ShowsCurrent ==
  ASSUME CurrentInv, ~namesake, ShowAnswer \/ ShowFound \/ FoundNothing
  PROVE  TreeOK'
<1>1. /\ at.step \in FileSteps /\ refreshes # <<>> /\ BaseInv /\ TreeOK
      /\ UNCHANGED <<content, robotTestItems, rootShown, eventCount, outdated, readded, thrown>>
  BY ShowsWhat DEF CurrentInv
<1>2. PICK g \in Folders : g = at.answer /\ testsShown[g] # Hidden
  BY ShowsWhat DEF CurrentInv
<1>3. PICK v \in Versions :
        /\ ShowTests(g, v)
        /\ \/ v = robotTestItems[g] /\ editor[g] = 0
           \/ v = at.found /\ at.step = "read" /\ UNCHANGED <<missed, discarded>>
           \/ v = 0 /\ g \in missed'
  BY <1>2, ShowsWhat, NumbersDiffer DEF CurrentInv
<1>4. \A f \in Folders \ {g} : Reason(f)' = Reason(f)
  BY <1>1, <1>2, ShowsWhat DEF Reason, CurrentInv
<1>5. Parts(g)
  BY <1>1 DEF TreeOK
<1>6. g \in folders /\ robotTestItems[g] \in Versions \ {0} => v = TextOf(g) \/ Reason(g)' \/ ToBeShown(g)
  <2>1. CASE v = robotTestItems[g] /\ editor[g] = 0
    BY <1>1, <1>5, <2>1 DEF Parts, AnswerIsCurrent, IsCurrent, TextOf, Reason, ToBeShown
  <2>2. CASE v = at.found /\ at.step = "read" /\ UNCHANGED <<missed, discarded>>
    BY <1>1, <1>2, <1>5, <2>2 DEF Parts, TextIsShown, Reason
  <2>3. CASE g \in missed'
    BY <2>3 DEF Reason
  <2>. QED BY <1>3, <2>1, <2>2, <2>3
(* A folder that is gone meanwhile is refreshed again. *)
<1>7. /\ g \notin folders => AllToCome
      /\ robotTestItems[g] \in Versions => robotTestItems[g] # 0
  BY <1>1, <1>2, <1>5 DEF TreeOK, AtFile, AtTurn, Parts, ShownIfAnswered, FileSteps
<1>8. g \in folders /\ robotTestItems[g] = NotFetched => AllToCome \/ Lost
  BY <1>1, <1>2, <1>5 DEF TreeOK, AtFile, Parts, AskedFor, ComesTo, Running, FileSteps
<1>9. /\ testsShown'[g] = v /\ \A f \in Folders \ {g} : testsShown'[f] = testsShown[f]
      /\ \/ Current.what = "all" /\ at' = NextTurn(at) /\ UNCHANGED <<refreshes, fileHandlers>>
         \/ Current.what # "all" /\ Leaves
  BY <1>1, <1>2, <1>3, ShowsTests DEF BaseInv, ShowsAt
<1>10. TextOf(g)' = TextOf(g) /\ v # Hidden
  BY <1>1, NumbersDiffer DEF TextOf, content
<1>11. CASE Current.what = "all" /\ at' = NextTurn(at) /\ UNCHANGED <<refreshes, fileHandlers>>
  <2>1. Running /\ g = Turn /\ g \in at.added
    BY <1>1, <1>2, <1>11 DEF Running, FileSteps, TreeOK, AtFile
  <2>2. AfterTurn /\ at'.added = at.added
    BY <1>1, <1>11, NextTurnIs DEF BaseInv, tiTypeOK
  <2>3. /\ AtTurn' /\ AtFile' /\ RefreshesStay /\ EventsStay /\ Running'
        /\ \A f \in Folders : OutOf(f)' /\ OpenExists(f)' /\ AnswerIsCurrent(f)'
        /\ \A f \in Folders \ {Turn} : AskedFor(f)'
        /\ \A f \in Folders \ {Turn} : testsShown'[f] = testsShown[f] =>
             /\ ShownIfAnswered(f)' /\ GoneIsHidden(f)'
             /\ (Reason(f) => Reason(f)') => TextIsShown(f)'
    BY <1>1, <1>11, <2>1, <2>2, TurnEnds
  <2>4. ASSUME NEW f \in Folders \ {g} PROVE Parts(f)'
    BY <1>4, <1>9, <2>1, <2>3 DEF Parts
  <2>5. AskedFor(g)' /\ GoneIsHidden(g)'
    BY <1>1, <1>7, <1>8, <2>1, <2>3 DEF AskedFor, GoneIsHidden, RefreshesStay, content, Lost
  <2>6. ShownIfAnswered(g)'
    BY <1>1, <1>7, <1>9, <1>10, <2>1, <2>2 DEF ShownIfAnswered
  <2>7. TextIsShown(g)'
    BY <1>1, <1>6, <1>9, <1>10, <2>2, <2>3
       DEF TextIsShown, ToBeShown, RefreshesStay, EventsStay, content, AfterTurn
  <2>8. Parts(g)'
    BY <2>3, <2>5, <2>6, <2>7 DEF Parts
  <2>. QED BY <2>3, <2>4, <2>8 DEF TreeOK
<1>12. CASE Current.what # "all" /\ Leaves
  <2>1. RefreshesStay /\ EventsStay /\ ~Running' /\ at'.step = "idle" /\ at'.todo = {} /\ ~Running
    BY <1>1, <1>12, RefreshesLeft DEF FileSteps, Running
  <2>2. AtTurn' /\ AtFile'
    BY <2>1 DEF AtTurn, AtFile, TurnSteps, FileSteps
  <2>3. Lost' = Lost
    BY <1>1, <2>1 DEF Lost
  <2>4. ASSUME NEW f \in Folders PROVE Parts(f)'
    <3>1. Parts(f)
      BY <1>1 DEF TreeOK
    <3>2. OutOf(f)' /\ OpenExists(f)' /\ AnswerIsCurrent(f)'
      BY <1>1, <2>1, <3>1 DEF Parts, OutOf, OpenExists, AnswerIsCurrent, IsCurrent, EventsStay, content
    <3>3. AskedFor(f)'
      BY <1>1, <2>1, <2>3, <3>1 DEF Parts, AskedFor, ComesTo, RefreshesStay, content
    <3>4. ShownIfAnswered(f)'
      BY <1>1, <1>7, <1>9, <1>10, <2>1, <3>1 DEF Parts, ShownIfAnswered, FileSteps
    <3>5. GoneIsHidden(f)'
      BY <1>1, <1>7, <1>9, <2>1, <2>3, <3>1 DEF Parts, GoneIsHidden, RefreshesStay, content
    <3>6. TextIsShown(f)'
      <4>1. ToBeShown(f) => ToBeShown(f)'
        BY <2>1 DEF ToBeShown, RefreshesStay, EventsStay
      <4>2. CASE f = g
        BY <1>1, <1>6, <1>9, <1>10, <2>1, <4>1, <4>2 DEF TextIsShown, content
      <4>3. CASE f # g
        <5>1. TextOf(f)' = TextOf(f) /\ ~UnderWay(f)
          BY <1>1, <1>2, <2>1, <4>3 DEF TextOf, content, UnderWay
        <5>. QED BY <1>1, <1>4, <1>9, <2>1, <2>3, <3>1, <4>1, <4>3, <5>1 DEF Parts, TextIsShown, content
      <4>. QED BY <4>2, <4>3
    <3>. QED BY <3>2, <3>3, <3>4, <3>5, <3>6 DEF Parts
  <2>. QED BY <2>2, <2>4 DEF TreeOK
<1>. QED BY <1>9, <1>11, <1>12

(* A document that is open is asked for its tests. *)
LEMMA DocumentCurrent ==
  ASSUME CurrentInv, ~namesake, AskDocument \/ getTestsFromDocument
  PROVE  TreeOK'
<1>1. /\ UNCHANGED <<content, robotTestItems, tree, refreshes, fileHandlers, outdated, thrown>>
      /\ at.step \in {"file", "document"} /\ BaseInv /\ TreeOK
  BY DEF AskDocument, getTestsFromDocument, CurrentInv, gaps
<1>2. /\ at'.todo = at.todo /\ at'.added = at.added /\ at'.old = at.old /\ at'.answer = at.answer
      /\ \/ at'.step = "document" \/ (at'.step = "read" /\ at'.found = TextOf(at.answer))
      /\ \A f \in Folders : f # at.answer => Reason(f)' = Reason(f)
  <2>1. at \in Turns
    BY <1>1 DEF BaseInv, tiTypeOK
  <2>2. CASE AskDocument
    BY <2>1, <2>2 DEF AskDocument, Turns, Reason, gaps
  <2>3. CASE getTestsFromDocument
    <3>1. /\ at' = [at EXCEPT !.step = "read", !.found = TextOf(at.answer)] /\ missed' = missed \ {at.answer}
          /\ outdated' = outdated /\ discarded' \in {discarded, discarded \ {at.answer}}
      BY <2>3 DEF getTestsFromDocument
    <3>2. \A f \in Folders : f # at.answer => Reason(f)' = Reason(f)
      BY <3>1 DEF Reason
    <3>. QED BY <2>1, <3>1, <3>2 DEF Turns
  <2>. QED BY <2>2, <2>3
<1>3. RefreshesStay /\ EventsStay /\ Running' = Running /\ Current' = Current /\ Turn' = Turn
  BY <1>1, <1>2, Onward DEF Turn
<1>4. AtTurn' /\ AtFile'
  BY <1>1, <1>2, <1>3 DEF TreeOK, AtTurn, AtFile, TurnSteps, FileSteps, RefreshesStay, content
<1>5. ASSUME NEW f \in Folders PROVE Parts(f)'
  <2>1. Parts(f)
    BY <1>1 DEF TreeOK
  <2>2. OutOf(f)' /\ OpenExists(f)' /\ AnswerIsCurrent(f)'
    BY <1>1, <1>2, <1>3, <2>1 DEF Parts, OutOf, OpenExists, AnswerIsCurrent, IsCurrent, EventsStay, content
  <2>3. AskedFor(f)'
    BY <1>1, <1>2, <1>3, <2>1 DEF Parts, AskedFor, ComesTo, Lost, RefreshesStay, content
  <2>4. ShownIfAnswered(f)'
    BY <1>1, <1>2, <1>3, <2>1 DEF Parts, ShownIfAnswered, tree
  <2>5. GoneIsHidden(f)'
    BY <1>1, <1>2, <1>3, <2>1 DEF Parts, GoneIsHidden, Lost, RefreshesStay, content, tree
  <2>6. TextIsShown(f)'
    <3>1. TextOf(f)' = TextOf(f) /\ (ToBeShown(f) => ToBeShown(f)')
      BY <1>1, <1>3 DEF TextOf, ToBeShown, RefreshesStay, EventsStay, content
    <3>2. UnderWay(f)' = UnderWay(f) /\ (f = at.answer => UnderWay(f))
      BY <1>1, <1>2, <1>3 DEF UnderWay, FileSteps
    <3>. QED BY <1>1, <1>2, <1>3, <2>1, <3>1, <3>2 DEF Parts, TextIsShown, Lost, content, tree
  <2>. QED BY <2>2, <2>3, <2>4, <2>5, <2>6 DEF Parts
<1>. QED BY <1>4, <1>5 DEF TreeOK

(* Every folder had its turn. *)
LEMMA FinishCurrent ==
  ASSUME CurrentInv, ~namesake, Finish
  PROVE  TreeOK'
<1>1. /\ UNCHANGED <<content, robotTestItems, outdated, discarded, missed>>
      /\ at.step = "next" /\ at.todo = {} /\ Leaves /\ thrown' = FALSE /\ BaseInv /\ TreeOK
      /\ testsShown' = [f \in Folders |-> IF f \notin at.added THEN Hidden ELSE testsShown[f]]
  BY DEF Finish, CurrentInv, SameRoot, BaseInv, tiTypeOK, Turns
<1>2. /\ RefreshesStay /\ EventsStay /\ ~Running' /\ at'.step = "idle" /\ at'.todo = {}
  BY <1>1, RefreshesLeft DEF BaseInv, QueuesOK
<1>3. Running
  BY <1>1 DEF TreeOK, AtTurn, TurnSteps, Running
<1>4. AtTurn' /\ AtFile'
  BY <1>2 DEF AtTurn, AtFile, TurnSteps, FileSteps
<1>5. ASSUME NEW f \in Folders PROVE Parts(f)'
  <2>1. Parts(f) /\ ~Lost
    BY <1>1, <1>3 DEF TreeOK, Lost
  <2>2. testsShown'[f] = IF f \notin at.added THEN Hidden ELSE testsShown[f]
    BY <1>1
  <2>3. OutOf(f)' /\ OpenExists(f)' /\ AnswerIsCurrent(f)'
    BY <1>1, <1>2, <2>1 DEF Parts, OutOf, OpenExists, AnswerIsCurrent, IsCurrent, EventsStay, content
  <2>4. AskedFor(f)'
    BY <1>1, <1>2, <2>1 DEF Parts, AskedFor, ComesTo, RefreshesStay, content
  <2>5. ShownIfAnswered(f)'
    BY <1>1, <1>2, <1>3, <2>1, <2>2 DEF Parts, ShownIfAnswered
  <2>6. TextIsShown(f)'
    <3>1. TextOf(f)' = TextOf(f) /\ (ToBeShown(f) => ToBeShown(f)') /\ Reason(f)' = Reason(f) /\ ~UnderWay(f)
      BY <1>1, <1>2 DEF TextOf, Reason, ToBeShown, RefreshesStay, EventsStay, content, UnderWay, FileSteps
    <3>2. robotTestItems[f] \in Versions => f \in at.added
      BY <1>1, <1>3, <2>1 DEF Parts, ShownIfAnswered
    <3>. QED BY <1>1, <1>2, <2>1, <2>2, <3>1, <3>2 DEF Parts, TextIsShown, content
  <2>7. GoneIsHidden(f)'
    BY <1>1, <1>2, <2>1, <2>2 DEF Parts, GoneIsHidden, RefreshesStay, content
  <2>. QED BY <2>3, <2>4, <2>5, <2>6, <2>7 DEF Parts
<1>. QED BY <1>4, <1>5 DEF TreeOK

LEMMA CurrentStart == tiInit => CurrentInv
<1>. SUFFICES ASSUME tiInit PROVE TreeOK
  BY BaseStart DEF CurrentInv
<1>1. AllToCome /\ ~Running
  BY DEF tiInit, AllToCome, ToCome, Running, Idle, RefreshAll
<1>2. ASSUME NEW f \in Folders PROVE Parts(f)
  BY <1>1, NumbersDiffer
     DEF tiInit, Parts, OutOf, OpenExists, AskedFor, AnswerIsCurrent, IsCurrent, ShownIfAnswered, TextIsShown,
         ToBeShown, GoneIsHidden, Idle
<1>3. AtTurn /\ AtFile
  BY DEF tiInit, AtTurn, AtFile, Idle, TurnSteps, FileSteps
<1>. QED BY <1>2, <1>3 DEF TreeOK

LEMMA CurrentStep == CurrentInv /\ [tiNext]_tiVars => CurrentInv'
<1>. SUFFICES ASSUME CurrentInv, [tiNext]_tiVars PROVE CurrentInv'
  OBVIOUS
<1>1. BaseInv' /\ namesake' = namesake
  <2>1. BaseInv'
    BY BaseStep DEF CurrentInv
  <2>2. namesake' = namesake
    BY DEF tiNext, tiVars, Refreshing, content, ConfigurationChanges, OpenOrEdit, Save, CloseDocument, FileChanges,
           AddFolder, RemoveFolder, Collect, Begin, NextFolder, getTestsFromWorkspace, Rejected, StoreAnswer, ShowRoot,
           SkipFolder, ShowAnswer, AskDocument, getTestsFromDocument, ShowFound, FoundNothing, Finish, refreshFromUri
  <2>. QED BY <2>1, <2>2
<1>. SUFFICES ASSUME ~namesake PROVE TreeOK'
  BY <1>1 DEF CurrentInv
<1>2. CASE Refreshing
  BY <1>2, BeginCurrent, NextFolderCurrent, AnswerComes, RejectedCurrent, StoreCurrent, ShowRootCurrent,
     SkipFolderCurrent, ShowsCurrent, DocumentCurrent, FinishCurrent, RefreshFromUriCurrent DEF Refreshing
<1>3. ASSUME NEW f \in Folders, Collect(f) PROVE TreeOK'
  BY <1>3, CurrentStays DEF Collect
<1>4. CASE UNCHANGED tiVars
  BY <1>4, CurrentStays DEF tiVars, tree
<1>. QED BY <1>2, <1>3, <1>4, ConfigurationCurrent, InputsCurrent, AddFolderCurrent, RemoveFolderCurrent DEF tiNext

(* TreeIsCurrent: when nothing is going on, every folder shows the tests   *)
(* of its file, in the editor or else on disk, except for the reasons that *)
(* it names.                                                               *)
THEOREM TestsShownAreCurrent == tiSpec => []TreeIsCurrent
<1>1. CurrentInv => TreeIsCurrent
  <2>. SUFFICES ASSUME CurrentInv, Quiet, NEW f \in Folders, ~Excused(f)
                PROVE  testsShown[f] = Expected(f)
    BY DEF TreeIsCurrent
  <2>1. /\ at.step = "idle" /\ ~Running /\ ~AllToCome /\ ~FileToCome(f) /\ ~EventToCome(f)
    BY DEF Quiet, CurrentInv, BaseInv, QueuesOK, Running, AllToCome, FileToCome, EventToCome
  <2>2. /\ Parts(f) /\ ~thrown /\ robotTestItems[f] # Unknown /\ f \notin outdated /\ ~Reason(f)
        /\ robotTestItems[f] \in Answers
    BY DEF Excused, CurrentInv, TreeOK, Reason, BaseInv, tiTypeOK
  <2>3. CASE f \notin folders
    BY <2>1, <2>2, <2>3 DEF Parts, GoneIsHidden, Lost, Expected
  <2>4. CASE f \in folders
    <3>1. robotTestItems[f] \in Versions
      BY <2>1, <2>2, <2>4 DEF Parts, AskedFor, ComesTo, Lost, Answers
    <3>2. robotTestItems[f] = disk[f] /\ (testsShown[f] = Hidden <=> disk[f] = 0)
      BY <2>1, <2>2, <3>1 DEF Parts, AnswerIsCurrent, IsCurrent, ShownIfAnswered
    <3>3. disk[f] # 0 => testsShown[f] = TextOf(f)
      BY <2>1, <2>2, <2>4, <3>1, <3>2 DEF Parts, TextIsShown, ToBeShown, UnderWay, Lost, FileSteps
    <3>. QED BY <2>4, <3>2, <3>3 DEF Expected
  <2>. QED BY <2>3, <2>4
<1>. QED BY CurrentStart, CurrentStep, <1>1, PTL DEF tiSpec
=============================================================================
