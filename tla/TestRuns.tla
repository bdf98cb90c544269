------------------------------ MODULE TestRuns ------------------------------
(***************************************************************************)
(* Test runs in the editor: TestControllerManager.runTests starts one      *)
(* debug session per workspace folder of a request, one after the other,   *)
(* and ends the request's test run when the last of its sessions is gone.  *)
(* Session events and the cancellation of a request arrive in between.     *)
(*                                                                         *)
(* A session is known by the run id it was launched with.  That a session  *)
(* starts, finishes or is refused is decided by the editor and the robot   *)
(* process; some sessions hang until they are stopped.                     *)
(***************************************************************************)
EXTENDS Naturals, FiniteSets

CONSTANTS Runs,              \* the requests, each with the TestRun made for it
          NoRun,
          WorkspaceFolders,
          MaxRunId           \* bound: folders that all requests may come to

ASSUME TestRunsAssumption ==
  /\ MaxRunId \in Nat
  /\ NoRun \notin Runs
  /\ IsFiniteSet(Runs)
  /\ IsFiniteSet(WorkspaceFolders)

RunIds == 1 .. MaxRunId

VARIABLES
  testRuns,       \* testRuns: run id |-> its test run, NoRun if it has none
  runIdCounter,   \* the last run id given out
  toStart,        \* the folders of a request that runTests has not come to
  runTestsAt,     \* per request: not called, in its loop, awaiting
                  \* startDebugging, or left by an exception
  debugSessions,  \* debugSessions: started sessions whose end is not handled
  session,        \* per run id: the editor's debug session
  hanging,        \* sessions whose robot never finishes by itself
  stopped,        \* sessions that stopDebugging was called for
  cancelAt,       \* per request: the key the cancellation handler visits next
  ended,          \* test runs whose end() was called
  ownerOf,        \* history: the request a run id was given to
  late,           \* history: run ids given after their run had ended
  wasted          \* history: sessions that reported to, or ended, an ended run

testRunVars == <<testRuns, runIdCounter, toStart, runTestsAt>>
sessionVars == <<debugSessions, session, hanging, stopped>>
historyVars == <<ended, ownerOf, late, wasted>>
trVars == <<testRunVars, sessionVars, cancelAt, historyVars>>

trTypeOK ==
  /\ testRuns \in [RunIds -> Runs \cup {NoRun}]
  /\ runIdCounter \in 0 .. MaxRunId
  /\ toStart \in [Runs -> SUBSET WorkspaceFolders]
  /\ runTestsAt \in [Runs -> {"uncalled", "loop", "starting", "thrown"}]
  /\ debugSessions \subseteq RunIds
  /\ session \in [RunIds -> {"none", "live", "exited", "over", "refused"}]
  /\ hanging \subseteq RunIds
  /\ stopped \subseteq RunIds
  /\ cancelAt \in [Runs -> 0 .. MaxRunId + 1]
  /\ ended \subseteq Runs
  /\ ownerOf \in [RunIds -> Runs \cup {NoRun}]
  /\ late \subseteq RunIds
  /\ wasted \subseteq RunIds

trInit ==
  /\ testRuns = [i \in RunIds |-> NoRun]
  /\ runIdCounter = 0
  /\ toStart = [r \in Runs |-> {}]
  /\ runTestsAt = [r \in Runs |-> "uncalled"]
  /\ debugSessions = {}
  /\ session = [i \in RunIds |-> "none"]
  /\ hanging = {}
  /\ stopped = {}
  /\ cancelAt = [r \in Runs |-> 0]
  /\ ended = {}
  /\ ownerOf = [i \in RunIds |-> NoRun]
  /\ late = {}
  /\ wasted = {}

-----------------------------------------------------------------------------
(* runTests *)

LeftToStart == {p \in Runs \X WorkspaceFolders : p[2] \in toStart[p[1]]}

(* The request's items are sorted by folder; items without one are left    *)
(* out, so a request may come to no folder at all.                         *)
runTests(r) ==
  /\ runTestsAt[r] = "uncalled"
  /\ \E folders \in SUBSET WorkspaceFolders :
       toStart' = [toStart EXCEPT ![r] = folders]
  /\ runIdCounter + Cardinality(LeftToStart') <= MaxRunId
  /\ runTestsAt' = [runTestsAt EXCEPT ![r] = "loop"]
  /\ UNCHANGED <<testRuns, runIdCounter, sessionVars, cancelAt, historyVars>>

(* One turn of the loop: the run id is noted, then startDebugging awaited. *)
StartNext(r) ==
  /\ runTestsAt[r] = "loop"
  /\ LET runId == runIdCounter + 1
     IN  /\ \E f \in toStart[r] : toStart' = [toStart EXCEPT ![r] = @ \ {f}]
         /\ runIdCounter' = runId
         /\ testRuns' = [testRuns EXCEPT ![runId] = r]
         /\ ownerOf' = [ownerOf EXCEPT ![runId] = r]
         /\ late' = IF r \in ended THEN late \cup {runId} ELSE late
  /\ runTestsAt' = [runTestsAt EXCEPT ![r] = "starting"]
  /\ UNCHANGED <<sessionVars, cancelAt, ended, wasted>>

Starting(r, runId) ==
  /\ runTestsAt[r] = "starting"
  /\ ownerOf[runId] = r
  /\ \A i \in RunIds : ownerOf[i] = r => i <= runId

(* startDebugging has started the session, or was refused and gives false: *)
(* the loop does not look at what it gives.                                *)
StartReturns(r, runId) ==
  /\ Starting(r, runId)
  /\ session' = [session EXCEPT ![runId] = IF @ = "none" THEN "refused" ELSE @]
  /\ runTestsAt' = [runTestsAt EXCEPT ![r] = "loop"]
  /\ UNCHANGED <<testRuns, runIdCounter, toStart, debugSessions, hanging,
                 stopped, cancelAt, historyVars>>

(* startDebugging rejects, and runTests with it. *)
StartThrows(r, runId) ==
  /\ Starting(r, runId)
  /\ session[runId] = "none"
  /\ session' = [session EXCEPT ![runId] = "refused"]
  /\ runTestsAt' = [runTestsAt EXCEPT ![r] = "thrown"]
  /\ UNCHANGED <<testRuns, runIdCounter, toStart, debugSessions, hanging,
                 stopped, cancelAt, historyVars>>

-----------------------------------------------------------------------------
(* Session events *)

(* Mutant: the run ends with the first of its sessions. *)
TestRunExitedAtOnce(runId) ==
  LET run == testRuns[runId]
  IN  /\ testRuns' = [testRuns EXCEPT ![runId] = NoRun]
      /\ ended' = IF run # NoRun THEN ended \cup {run} ELSE ended
      /\ wasted' = IF run \in ended THEN wasted \cup {runId} ELSE wasted

(* The first call for a run id takes it out of the map; the run ends when  *)
(* no other run id of the map stands for it.                               *)
TestRunExited(runId) ==
  LET run == testRuns[runId]
      rest == [testRuns EXCEPT ![runId] = NoRun]
      ends == run # NoRun /\ \A i \in RunIds : rest[i] # run
  IN  /\ testRuns' = rest
      /\ ended' = IF ends THEN ended \cup {run} ELSE ended
      /\ wasted' = IF ends /\ run \in ended THEN wasted \cup {runId} ELSE wasted

(* onDidStartDebugSession *)
SessionStarts(r, runId) ==
  /\ Starting(r, runId)
  /\ session[runId] = "none"
  /\ session' = [session EXCEPT ![runId] = "live"]
  /\ hanging' \in {hanging, hanging \cup {runId}}
  /\ debugSessions' = IF testRuns[runId] # NoRun
                      THEN debugSessions \cup {runId} ELSE debugSessions
  /\ UNCHANGED <<testRunVars, stopped, cancelAt, historyVars>>

(* robotEnqueued, robotStarted, robotEnded and robotLog look the run up    *)
(* and report to it.                                                       *)
SessionReports(runId) ==
  /\ session[runId] = "live"
  /\ wasted' = IF testRuns[runId] \in ended THEN wasted \cup {runId} ELSE wasted
  /\ UNCHANGED <<testRunVars, sessionVars, cancelAt, ended, ownerOf, late>>

(* robotExited *)
RobotExits(runId) ==
  /\ session[runId] = "live"
  /\ runId \in hanging => runId \in stopped
  /\ session' = [session EXCEPT ![runId] = "exited"]
  /\ TestRunExited(runId)
  /\ UNCHANGED <<runIdCounter, toStart, runTestsAt, debugSessions, hanging,
                 stopped, cancelAt, ownerOf, late>>

(* Mutant: the end of the run is left to robotExited. *)
TerminatesUnhandled(runId) ==
  /\ session[runId] \in {"live", "exited"}
  /\ runId \in hanging => runId \in stopped
  /\ session' = [session EXCEPT ![runId] = "over"]
  /\ debugSessions' = debugSessions \ {runId}
  /\ UNCHANGED <<testRunVars, hanging, stopped, cancelAt, historyVars>>

(* onDidTerminateDebugSession, after robotExited or without it *)
SessionTerminates(runId) ==
  /\ session[runId] \in {"live", "exited"}
  /\ runId \in hanging => runId \in stopped
  /\ session' = [session EXCEPT ![runId] = "over"]
  /\ debugSessions' = debugSessions \ {runId}
  /\ IF runId \in debugSessions
     THEN TestRunExited(runId)
     ELSE UNCHANGED <<testRuns, ended, wasted>>
  /\ UNCHANGED <<runIdCounter, toStart, runTestsAt, hanging, stopped,
                 cancelAt, ownerOf, late>>

-----------------------------------------------------------------------------
(* Cancellation: the handler visits the run ids of ALL test runs in the    *)
(* order of the map, which changes while it awaits stopDebugging, and      *)
(* stops the session a run id has at that moment.                          *)

Cancel(r) ==
  /\ runTestsAt[r] # "uncalled"
  /\ cancelAt[r] = 0
  /\ cancelAt' = [cancelAt EXCEPT ![r] = 1]
  /\ UNCHANGED <<testRunVars, sessionVars, historyVars>>

(* The session that the visit before has stopped is awaited. *)
StopAwaited(r) == \E i \in stopped : i < cancelAt[r] /\ session[i] # "over"

CancelVisits(r) ==
  /\ cancelAt[r] \in RunIds
  /\ ~StopAwaited(r)
  /\ stopped' = IF testRuns[cancelAt[r]] # NoRun
                THEN stopped \cup (debugSessions \cap {cancelAt[r]})
                ELSE stopped
  /\ cancelAt' = [cancelAt EXCEPT ![r] = @ + 1]
  /\ UNCHANGED <<testRunVars, debugSessions, session, hanging, historyVars>>

-----------------------------------------------------------------------------
RunTestsStep(r) ==
  \/ StartNext(r)
  \/ \E i \in RunIds : \/ StartReturns(r, i)
                       \/ StartThrows(r, i)
                       \/ SessionStarts(r, i)

trNext ==
  \/ \E r \in Runs : runTests(r) \/ RunTestsStep(r) \/ Cancel(r) \/ CancelVisits(r)
  \/ \E i \in RunIds : SessionReports(i) \/ RobotExits(i) \/ SessionTerminates(i)

(* The event loop runs what is ready; a session that does not hang, or is  *)
(* stopped, terminates.                                                    *)
trFairness ==
  /\ \A r \in Runs : WF_trVars(RunTestsStep(r)) /\ WF_trVars(CancelVisits(r))
  /\ \A i \in RunIds : WF_trVars(SessionTerminates(i))

trSpec == trInit /\ [][trNext]_trVars /\ trFairness

-----------------------------------------------------------------------------
(* What an ended test run is still told is lost in the editor.  Only the   *)
(* sessions of folders that runTests came to after the run had ended, its  *)
(* earlier sessions being gone by then, report to an ended run.            *)
NothingAfterEnd == wasted \subseteq late

(* What keeps a test run open for ever: a request without a folder, a      *)
(* session that was refused, or one that hangs and is not stopped: because *)
(* nobody cancelled, or because the cancellation came by before the        *)
(* session was there.                                                      *)
NeverEnds(r) ==
  \/ toStart[r] = {} /\ \A i \in RunIds : ownerOf[i] # r
  \/ \E i \in RunIds :
       /\ ownerOf[i] = r
       /\ \/ session[i] = "refused"
          \/ /\ session[i] = "live"
             /\ i \in hanging \ stopped
             /\ cancelAt[r] = 0 \/ cancelAt[r] > i

(* Every test run is ended in the end, except for these reasons. *)
TestRunsEnd ==
  \A r \in Runs :
    <>[](runTestsAt[r] # "uncalled" => r \in ended \/ NeverEnds(r))
=============================================================================
