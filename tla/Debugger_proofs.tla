-------------------------- MODULE Debugger_proofs --------------------------
(* Theorems about Debugger, for every test data, every breakpoint table    *)
(* and any number of items and requests.                                   *)
EXTENDS Debugger, TLAPS, FiniteSetTheorems

(* The points of process_start_state at which a new item is on the stack.  *)
Scanning == {"check", "compare", "reset", "load", "points"}

(* TypeOK is inductive once the line and the frame of the item being       *)
(* started are known to be there.                                          *)
ScanHasItem ==
  pc \in Scanning \/ (pc = "send" /\ reason \in {"pause", "step", "breakpoint"})
    => line \in Lines /\ stack_frames # <<>>


(* An end_... callback that stopped has still its item to end.             *)
EndHasItem ==
  /\ ending => running # <<>> /\ pc \in {"send", "wait", "blocked", "pop"}
  /\ ending /\ pc = "send" => reason = "exception"
  /\ pc = "pop" => ending

TypeInv == TypeOK /\ ScanHasItem /\ EndHasItem

LEMMA HeadTailType ==
  ASSUME NEW S, NEW s \in Seq(S), s # <<>>
  PROVE  Head(s) \in S /\ Tail(s) \in Seq(S)
  OBVIOUS

LEMMA AppendType ==
  ASSUME NEW S, NEW s \in Seq(S), NEW e \in S
  PROVE  Append(s, e) \in Seq(S) /\ <<e>> \o s \in Seq(S) /\ <<e>> \o s # <<>>
  OBVIOUS

LEMMA InitType == Init => TypeInv
<1> SUFFICES ASSUME Init PROVE TypeInv
  OBVIOUS
<1> USE DEF Init
<1>1. state \in State /\ requested_state \in RequestedState /\ pc \in PCs /\ reason \in Reasons
  BY DEF State, RequestedState, PCs, Reasons
<1>2. stack_frames \in Seq(Frame) /\ points \in Seq(Point) /\ running \in Seq(Item)
      /\ events \in Seq({"stopped", "continued"})
  OBVIOUS
<1>3. hit_counts \in [Lines \X Types -> Nat]
  OBVIOUS
<1>4. started \in 0 .. MaxItems /\ requests \in 0 .. MaxRequests /\ cmp \in 1 .. 4
      /\ stop_stack_len \in Int /\ line \in Lines \cup {0}
  BY ConstantsAssumption
<1>5. ScanHasItem /\ EndHasItem
  BY DEF ScanHasItem, EndHasItem, Scanning
<1>6. reach \in SUBSET Nat /\ last \in {"none", "resume", "pause", "stop"} /\ view \in {"running", "stopped"}
  OBVIOUS
<1>7. breakpoints \in PointTables /\ exception_breakpoints \in FilterSets
       /\ stop_on_entry \in BOOLEAN /\ no_debug \in BOOLEAN /\ main_thread \in BOOLEAN
       /\ ending \in BOOLEAN
  OBVIOUS
<1> QED
  BY <1>1, <1>2, <1>3, <1>4, <1>5, <1>6, <1>7 DEF TypeInv, TypeOK

LEMMA ControlsBelowIsNat == TypeOK => ControlsBelow \in Nat
<1> SUFFICES ASSUME TypeOK PROVE ControlsBelow \in Nat
  OBVIOUS
<1>1. Len(stack_frames) \in Nat
  BY DEF TypeOK
<1>2. IsFiniteSet(2 .. Len(stack_frames))
  BY <1>1, FS_Interval
<1> QED
  BY <1>2, FS_Subset, FS_CardinalityType DEF ControlsBelow

LEMMA StepType ==
  ASSUME TypeInv, [Next]_vars
  PROVE  TypeInv'
<1> USE DEF TypeInv
<1>1. CASE set_main_thread
  BY <1>1 DEF TypeOK, ScanHasItem, EndHasItem, Scanning, PCs, State, set_main_thread, debugger, settings, robot, run, client, history
<1>2. CASE start
  BY <1>2 DEF TypeOK, ScanHasItem, EndHasItem, Scanning, PCs, State, start, debugger, settings, robot, run, client, history
<1>3. ASSUME NEW type \in {"KEYWORD", "CONTROL"}, start_not_run(type)
      PROVE TypeInv'
  BY <1>3, ConstantsAssumption DEF TypeOK, ScanHasItem, EndHasItem, Scanning, PCs, State, start_not_run, Starts, debugger, settings, robot, run, client, history, Types, Item
<1>4. ASSUME NEW type \in Types, NEW own \in BOOLEAN, NEW l \in Lines, start_item(type, own, l)
      PROVE TypeInv'
  <2>1. <<[type |-> type, sourced |-> Sourced(own)]>> \in Seq(Frame)
    BY DEF Frame, Sourced
  <2>2. stack_frames' \in Seq(Frame) /\ stack_frames' # <<>>
    BY <1>4, <2>1, AppendType DEF start_item, TypeOK
  <2>3. running' \in Seq(Item) /\ started' \in 0 .. MaxItems
    BY <1>4, AppendType, ConstantsAssumption DEF start_item, Starts, TypeOK, Item
  <2>4. pc = "idle" /\ ending' = FALSE /\ line' = l /\ cmp' = 1
    BY <1>4 DEF start_item, Starts
  <2>5. pc' \in {"send", "check", "idle"} /\ (pc' = "send" => reason' = "entry")
    BY <1>4, <2>4 DEF start_item
  <2>6. state' \in State /\ reason' \in Reasons /\ stop_on_entry' \in BOOLEAN
    BY <1>4 DEF start_item, TypeOK, State, Reasons
  <2>7. UNCHANGED <<requested_state, stop_stack_len, settings, hit_counts, main_thread,
                    points, events, client, history>>
    BY <1>4 DEF start_item
  <2>8. TypeOK'
    <3>1. /\ requested_state' \in RequestedState /\ stop_stack_len' \in Int
          /\ breakpoints' \in PointTables /\ exception_breakpoints' \in FilterSets
          /\ no_debug' \in BOOLEAN /\ main_thread' \in BOOLEAN
          /\ hit_counts' \in [Lines \X Types -> Nat]
      BY <2>7 DEF TypeOK, settings
    <3>2. /\ points' \in Seq(Point) /\ events' \in Seq({"stopped", "continued"})
          /\ view' \in {"running", "stopped"} /\ requests' \in 0 .. MaxRequests
          /\ last' \in {"none", "resume", "pause", "stop"} /\ reach' \in SUBSET Nat
      BY <2>7 DEF TypeOK, client, history
    <3>3. pc' \in PCs /\ line' \in Lines \cup {0}
      BY <2>4, <2>5 DEF PCs
    <3>4. ending' \in BOOLEAN
      BY <2>4
    <3>5. cmp' \in 1 .. 4
      BY <2>4
    <3> QED
      BY <2>2, <2>3, <2>6, <3>1, <3>2, <3>3, <3>4, <3>5 DEF TypeOK
  <2> QED
    BY <2>2, <2>4, <2>5, <2>8 DEF ScanHasItem, EndHasItem, Scanning
<1>5. CASE check_stopped
  BY <1>5 DEF TypeOK, ScanHasItem, EndHasItem, Scanning, PCs, State, check_stopped, debugger, settings, robot, run, client, history
<1>6. CASE compare_requested
  BY <1>6 DEF TypeOK, ScanHasItem, EndHasItem, Scanning, PCs, State, Reasons, compare_requested, debugger, settings, robot, run, client, history
<1>7. CASE send_stopped
  BY <1>7 DEF TypeOK, ScanHasItem, EndHasItem, Scanning, PCs, State, Reasons, send_stopped, send_event, AfterSend, debugger, settings, robot, run, client, history
<1>8. CASE reset_requested
  BY <1>8 DEF TypeOK, ScanHasItem, EndHasItem, Scanning, PCs, State, RequestedState, reset_requested, NothingRequested, debugger, settings, robot, run, client, history
<1>9. CASE load_points
  BY <1>9, ConstantsAssumption DEF TypeOK, ScanHasItem, EndHasItem, Scanning, PCs, State, load_points, debugger, settings, robot, run, client, history
<1>10. CASE visit_point
  <2>1. line \in Lines /\ stack_frames # <<>>
    BY <1>10 DEF ScanHasItem, EndHasItem, Scanning, visit_point
  <2>2. HitKey \in Lines \X Types
    <3>1. Head(stack_frames) \in Frame
      BY <2>1, HeadTailType DEF TypeOK
    <3> QED
      BY <2>1, <3>1 DEF HitKey, Frame
  <2>3. HitCount \in Nat
    BY <2>2 DEF HitCount, TypeOK
  <2>4. hit_counts' \in [Lines \X Types -> Nat]
    BY <1>10, <2>2, <2>3 DEF visit_point, TypeOK
  <2>5. points' \in Seq(Point)
    <3>1. points \in Seq(Point) /\ points # <<>>
      BY <1>10 DEF visit_point, TypeOK
    <3>2. points' = Tail(points) \/ points' = <<>>
      BY <1>10 DEF visit_point
    <3>3. Tail(points) \in Seq(Point) /\ <<>> \in Seq(Point)
      BY <3>1, HeadTailType
    <3> QED
      BY <3>2, <3>3
  <2> QED
    BY <1>10, <2>1, <2>4, <2>5 DEF TypeOK, ScanHasItem, EndHasItem, Scanning, PCs, State, Reasons, visit_point, debugger, settings, robot, run, client, history
<1>11. CASE points_visited
  BY <1>11 DEF TypeOK, ScanHasItem, EndHasItem, Scanning, PCs, State, points_visited, debugger, settings, robot, run, client, history
<1>12. CASE wait_for_running
  BY <1>12 DEF TypeOK, ScanHasItem, EndHasItem, Scanning, PCs, State, Return, wait_for_running, debugger, settings, robot, run, client, history
<1>13. ASSUME NEW status \in {"PASS", "FAIL"}, end_item(status)
       PROVE TypeInv'
  <2>1. stack_frames' \in Seq(Frame) /\ running' \in Seq(Item)
    BY <1>13, HeadTailType DEF TypeOK, end_item, PopFrame
  <2> QED
    BY <1>13, <2>1 DEF TypeOK, ScanHasItem, EndHasItem, Scanning, PCs, State, Reasons, end_item, settings, client, history
<1>14. CASE pop_frame
  <2>1. stack_frames' \in Seq(Frame) /\ running' \in Seq(Item)
    BY <1>14, HeadTailType DEF TypeOK, EndHasItem, pop_frame, PopFrame
  <2> QED
    BY <1>14, <2>1 DEF TypeOK, ScanHasItem, EndHasItem, Scanning, PCs, pop_frame, settings, client, history
<1>15. CASE run_over
  BY <1>15 DEF TypeOK, ScanHasItem, EndHasItem, Scanning, PCs, State, run_over, debugger, settings, robot, run, client, history
<1>16. CASE continue_thread
  BY <1>16 DEF TypeOK, ScanHasItem, EndHasItem, Scanning, PCs, State, continue_thread, Resume, NotifyAll, debugger, settings, robot, run, client, history
<1>17. CASE next
  <2>1. Len(stack_frames) \in Nat /\ Len(running) \in Nat
    BY DEF TypeOK
  <2>2. stop_stack_len' \in Int /\ reach' \in SUBSET Nat /\ requested_state' \in RequestedState
    <3>1. CASE TopIs({"TEST", "SUITE"})
      BY <1>17, <3>1 DEF TypeOK, next, RequestedState
    <3>2. CASE ~TopIs({"TEST", "SUITE"})
      BY <1>17, <2>1, <3>2 DEF next, RequestedState
    <3> QED
      BY <3>1, <3>2
  <2> QED
    BY <1>17, <2>2, ConstantsAssumption DEF TypeOK, ScanHasItem, EndHasItem, Scanning, PCs, State, next, Counted, Resume, NotifyAll, debugger, settings, robot, run, client, history
<1>18. CASE step_in
  BY <1>18, ConstantsAssumption DEF TypeOK, ScanHasItem, EndHasItem, Scanning, PCs, State, RequestedState, step_in, Counted, Resume, NotifyAll, debugger, settings, robot, run, client, history
<1>19. CASE step_out
  BY <1>19, ConstantsAssumption, ControlsBelowIsNat DEF TypeOK, ScanHasItem, EndHasItem, Scanning, PCs, State, RequestedState, step_out, Outside, Counted, Resume, NotifyAll, debugger, settings, robot, run, client, history
<1>20. CASE pause_thread
  BY <1>20, ConstantsAssumption DEF TypeOK, ScanHasItem, EndHasItem, Scanning, PCs, State, RequestedState, pause_thread, Counted, NotifyAll, debugger, settings, robot, run, client, history
<1>21. CASE stop
  <2>1. events' \in Seq({"stopped", "continued"})
    <3>1. events \in Seq({"stopped", "continued"})
      BY DEF TypeOK
    <3>2. events' = Append(events, "continued") \/ events' = events
      BY <1>21 DEF stop, send_event
    <3> QED
      BY <3>1, <3>2, AppendType
  <2> QED
    BY <1>21, <2>1, ConstantsAssumption DEF TypeOK, ScanHasItem, EndHasItem, Scanning, PCs, State, stop, Counted, NotifyAll, debugger, settings, robot, run, client, history
<1>22. CASE set_breakpoints
  BY <1>22, ConstantsAssumption DEF TypeOK, ScanHasItem, EndHasItem, Scanning, set_breakpoints, Counted, debugger, settings, robot, run, client, history
<1>23. CASE set_exception_breakpoints
  BY <1>23, ConstantsAssumption DEF TypeOK, ScanHasItem, EndHasItem, Scanning, set_exception_breakpoints, Counted, debugger, settings, robot, run, client, history
<1>24. CASE deliver
  BY <1>24 DEF TypeOK, ScanHasItem, EndHasItem, Scanning, deliver, debugger, settings, robot, run, client, history
<1>25. CASE UNCHANGED vars
  BY <1>25 DEF TypeOK, ScanHasItem, EndHasItem, vars, debugger, settings, robot, run, client, history
<1> QED
  BY <1>1, <1>2, <1>3, <1>4, <1>5, <1>6, <1>7, <1>8, <1>9, <1>10, <1>11, <1>12, <1>13,
     <1>14, <1>15, <1>16, <1>17, <1>18, <1>19, <1>20, <1>21, <1>22, <1>23, <1>24, <1>25
     DEF Next, RobotThread, Requests

(* The state of the debugger has its types in every behaviour.             *)
THEOREM TypeCorrect == Spec => []TypeOK
<1>1. TypeInv /\ [Next]_vars => TypeInv'
  BY StepType
<1>2. TypeInv => TypeOK
  BY DEF TypeInv
<1> QED
  BY InitType, <1>1, <1>2, PTL DEF Spec

-----------------------------------------------------------------------------
(* No lost wake-up: the robot thread goes to sleep with the state Paused,  *)
(* and every request that changes the state wakes it.                      *)

LEMMA StepSleeps ==
  ASSUME SleepsOnlyWhilePaused, TypeOK, [Next]_vars
  PROVE  SleepsOnlyWhilePaused'
<1> USE DEF SleepsOnlyWhilePaused
<1>1. CASE RobotThread
  <2>1. pc = "blocked" => UNCHANGED vars
    BY <1>1 DEF RobotThread, set_main_thread, start, start_not_run, start_item, Starts, check_stopped,
       compare_requested, send_stopped, reset_requested, load_points, visit_point, points_visited,
       wait_for_running, end_item, pop_frame, run_over
  <2>2. pc' = "blocked" => state' = "Paused"
    BY <1>1, <2>1 DEF RobotThread, set_main_thread, start, start_not_run, start_item, Starts, check_stopped,
       compare_requested, send_stopped, reset_requested, load_points, visit_point, points_visited,
       wait_for_running, end_item, pop_frame, run_over, AfterSend, Return, debugger, TypeOK, State
  <2> QED
    BY <2>2
<1>2. CASE Requests
  BY <1>2 DEF Requests, continue_thread, next, step_in, step_out, pause_thread, stop, set_breakpoints,
     set_exception_breakpoints, Resume, NotifyAll, debugger
<1>3. CASE deliver
  BY <1>3 DEF deliver, debugger
<1>4. CASE UNCHANGED vars
  BY <1>4 DEF vars, debugger
<1> QED
  BY <1>1, <1>2, <1>3, <1>4 DEF Next

(* A sleeping robot thread is one that is to stay paused: no request that  *)
(* resumes or stops it leaves it asleep.                                   *)
THEOREM NoLostWakeup == Spec => []SleepsOnlyWhilePaused
<1>1. Init => SleepsOnlyWhilePaused
  BY DEF Init, SleepsOnlyWhilePaused
<1>2. SleepsOnlyWhilePaused /\ TypeOK /\ [Next]_vars => SleepsOnlyWhilePaused'
  BY StepSleeps
<1> QED
  BY <1>1, <1>2, TypeCorrect, PTL DEF Spec

-----------------------------------------------------------------------------
(* The client knows of a sleeping thread.                                  *)

LEMMA StepTold ==
  ASSUME PausedIsTold, TypeInv, [Next]_vars
  PROVE  PausedIsTold'
<1> USE DEF PausedIsTold
<1> DEFINE E == {"stopped", "continued"}
<1>0. events \in Seq(E) /\ pc \in PCs
  BY DEF TypeInv, TypeOK
<1>1. ASSUME NEW e \in E, events' = Append(events, e) PROVE Told' <=> e = "stopped"
  BY <1>0, <1>1 DEF Told
<1>2. UNCHANGED <<events, view>> => Told' = Told
  BY DEF Told
<1>3. CASE RobotThread /\ pc # "send"
  <2>1. state' = "Paused" => UNCHANGED state \/ pc' = "send"
    BY <1>3 DEF RobotThread, set_main_thread, start, start_not_run, start_item, Starts, check_stopped,
       compare_requested, send_stopped, reset_requested, load_points, visit_point, points_visited,
       wait_for_running, end_item, pop_frame, run_over, debugger
  <2>2. UNCHANGED <<events, view, last>>
    BY <1>3 DEF RobotThread, set_main_thread, start, start_not_run, start_item, Starts, check_stopped,
       compare_requested, send_stopped, reset_requested, load_points, visit_point, points_visited,
       wait_for_running, end_item, pop_frame, run_over, client, history
  <2> QED
    BY <1>2, <1>3, <2>1, <2>2
<1>4. CASE RobotThread /\ pc = "send"
  <2>1. send_stopped
    BY <1>4 DEF RobotThread, set_main_thread, start, start_not_run, start_item, Starts, check_stopped,
       compare_requested, send_stopped, reset_requested, load_points, visit_point, points_visited,
       wait_for_running, end_item, pop_frame, run_over
  <2> QED
    BY <1>1, <2>1 DEF send_stopped, send_event
<1>5. CASE Requests
  <2>1. CASE continue_thread \/ next \/ step_in \/ step_out \/ stop
    BY <2>1 DEF continue_thread, next, step_in, step_out, stop, Resume
  <2>2. CASE pause_thread
    BY <2>2 DEF pause_thread
  <2>3. CASE set_breakpoints \/ set_exception_breakpoints
    BY <1>2, <2>3 DEF set_breakpoints, set_exception_breakpoints, debugger, history
  <2> QED
    BY <1>5, <2>1, <2>2, <2>3 DEF Requests
<1>6. CASE deliver
  <2>1. Told => Told'
    <3>1. events # <<>> /\ events' = Tail(events)
      BY <1>6 DEF deliver
    <3>2. CASE Tail(events) = <<>>
      <4>1. Len(events) = 1 /\ Head(events) = events[1]
        <5>1. Len(events) \in Nat /\ Len(events) # 0 /\ Len(Tail(events)) = Len(events) - 1
          BY <1>0, <3>1
        <5>2. Len(Tail(events)) = 0
          BY <3>2
        <5> QED
          BY <1>0, <3>1, <5>1, <5>2
      <4>2. view' = IF Head(events) = "stopped" THEN "stopped" ELSE "running"
        BY <1>6 DEF deliver
      <4> QED
        BY <3>1, <3>2, <4>1, <4>2 DEF Told
    <3>3. CASE Tail(events) # <<>>
      <4>1. /\ Len(events) \in Nat /\ Len(events) >= 2
            /\ Len(events') = Len(events) - 1
            /\ \A i \in 1 .. Len(events) - 1 : events'[i] = events[i + 1]
        BY <1>0, <3>1, <3>3
      <4>2. events'[Len(events')] = events[Len(events)]
        BY <4>1
      <4> QED
        BY <3>1, <3>3, <4>2 DEF Told
    <3> QED
      BY <3>2, <3>3
  <2> QED
    BY <1>6, <2>1 DEF deliver, debugger, history
<1>7. CASE UNCHANGED vars
  BY <1>2, <1>7 DEF vars, debugger, client, history
<1> QED
  BY <1>3, <1>4, <1>5, <1>6, <1>7 DEF Next

(* A client that has received every event shows a sleeping thread as       *)
(* stopped, unless the last thing it asked of the thread was to pause.     *)
THEOREM ClientIsTold == Spec => []ClientKnows
<1>1. Init => PausedIsTold
  BY DEF Init, PausedIsTold
<1>2. PausedIsTold /\ TypeInv /\ [Next]_vars => PausedIsTold'
  BY StepTold
<1>3. TypeInv /\ [Next]_vars => TypeInv'
  BY StepType
<1>4. PausedIsTold /\ SleepsOnlyWhilePaused => ClientKnows
  BY DEF PausedIsTold, SleepsOnlyWhilePaused, ClientKnows, Told
<1> QED
  BY InitType, <1>1, <1>2, <1>3, <1>4, NoLostWakeup, PTL DEF Spec

-----------------------------------------------------------------------------
(* A terminate request that finds the thread asleep is final.              *)

LEMMA StepEntry ==
  ASSUME EntryIsOver, TypeInv, [Next]_vars
  PROVE  EntryIsOver'
<1> USE DEF EntryIsOver, debug
<1>0. started \in Nat
  BY ConstantsAssumption DEF TypeInv, TypeOK
<1>1. ASSUME NEW type \in Types, NEW own \in BOOLEAN, NEW l \in Lines, start_item(type, own, l)
      PROVE EntryIsOver'
  <2>1. started' = started + 1 /\ UNCHANGED no_debug
    BY <1>1 DEF start_item, Starts, settings
  <2>2. pc' # "idle" => debug
    BY <1>1 DEF start_item, StopsOnEntry
  <2>3. debug => ~stop_on_entry'
    <3>1. CASE started = 0
      <4>1. type = "SUITE"
        BY <1>1, <3>1 DEF start_item, Starts
      <4> QED
        BY <1>1, <4>1 DEF start_item, StopsOnEntry, TypeInv, TypeOK
    <3>2. CASE started > 0
      BY <1>1, <3>2 DEF start_item, StopsOnEntry
    <3> QED
      BY <1>0, <3>1, <3>2
  <2> QED
    BY <1>0, <2>1, <2>2, <2>3
<1>2. ASSUME NEW type \in {"KEYWORD", "CONTROL"}, start_not_run(type)
      PROVE EntryIsOver'
  <2>1. started > 0 /\ started' = started + 1 /\ UNCHANGED <<pc, no_debug, stop_on_entry>>
    BY <1>0, <1>2 DEF start_not_run, Starts, settings
  <2> QED
    BY <1>0, <2>1
<1>3. ASSUME NEW status \in {"PASS", "FAIL"}, end_item(status)
      PROVE EntryIsOver'
  BY <1>0, <1>3 DEF end_item, StopsOnFailure, settings
<1>4. CASE pop_frame
  BY <1>0, <1>4 DEF pop_frame, settings
<1>5. CASE \/ set_main_thread \/ start \/ check_stopped \/ compare_requested \/ send_stopped
           \/ reset_requested \/ load_points \/ visit_point \/ points_visited
           \/ wait_for_running \/ run_over
  <2>1. UNCHANGED <<running, started, no_debug, stop_on_entry>>
    BY <1>5 DEF set_main_thread, start, check_stopped, compare_requested, send_stopped, reset_requested,
       load_points, visit_point, points_visited, wait_for_running, run_over, settings, run
  <2>2. pc \in {"boot", "start", "idle", "done"} => pc' \in {"boot", "start", "idle", "done"}
    BY <1>5 DEF set_main_thread, start, check_stopped, compare_requested, send_stopped, reset_requested,
       load_points, visit_point, points_visited, wait_for_running, run_over
  <2> QED
    BY <2>1, <2>2
<1>6. CASE Requests
  BY <1>6 DEF Requests, continue_thread, next, step_in, step_out, pause_thread, stop, set_breakpoints,
     set_exception_breakpoints, Resume, NotifyAll, settings, run
<1>7. CASE deliver \/ UNCHANGED vars
  BY <1>7 DEF deliver, vars, settings, run
<1> QED
  BY <1>1, <1>2, <1>3, <1>4, <1>5, <1>6, <1>7 DEF Next, RobotThread

LEMMA StepStopped ==
  ASSUME StoppedStays, EntryIsOver, SleepsOnlyWhilePaused, TypeInv, [Next]_vars
  PROVE  StoppedStays'
<1> USE DEF StoppedStays, TerminateIsFinal
<1>0. started \in Nat /\ pc \in PCs
  BY ConstantsAssumption DEF TypeInv, TypeOK
<1>1. ASSUME RobotThread, last = "stop" PROVE StoppedStays'
  <2> USE <1>1
  <2>1. pc \in {"idle", "check", "wait", "pop", "send"}
    BY <1>0 DEF RobotThread, set_main_thread, start, start_not_run, start_item, Starts, check_stopped,
       compare_requested, send_stopped, reset_requested, load_points, visit_point, points_visited,
       wait_for_running, end_item, pop_frame, run_over
  <2>2. ASSUME NEW type \in Types, NEW own \in BOOLEAN, NEW l \in Lines, start_item(type, own, l)
        PROVE StoppedStays'
    <3>1. ~StopsOnEntry(type)
      BY DEF EntryIsOver, StopsOnEntry
    <3>2. pc = "idle" /\ started' = started + 1
      BY <2>2 DEF start_item, Starts
    <3> QED
      BY <1>0, <2>2, <3>1, <3>2 DEF start_item, settings, debug
  <2>3. ASSUME NEW type \in {"KEYWORD", "CONTROL"}, start_not_run(type)
        PROVE StoppedStays'
    BY <1>0, <2>3 DEF start_not_run, Starts, settings, debug, debugger
  <2>4. CASE check_stopped
    BY <2>4 DEF check_stopped, debugger, settings, run, debug, history
  <2>5. CASE send_stopped
    BY <2>5 DEF send_stopped, AfterSend, debugger, settings, run, debug, history
  <2>6. CASE wait_for_running
    BY <2>6 DEF wait_for_running, Return, debugger, settings, run, debug, history
  <2>7. ASSUME NEW status \in {"PASS", "FAIL"}, end_item(status)
        PROVE StoppedStays'
    BY <2>7 DEF end_item, settings, debug, history
  <2>8. CASE pop_frame \/ run_over
    BY <2>8 DEF pop_frame, run_over, debugger, settings, run, debug, history
  <2> QED
    BY <1>1, <2>1, <2>2, <2>3, <2>4, <2>5, <2>6, <2>7, <2>8 DEF RobotThread, set_main_thread, start,
       compare_requested, reset_requested, load_points, visit_point, points_visited
<1>2. ASSUME RobotThread, last # "stop" PROVE StoppedStays'
  BY <1>2 DEF RobotThread, set_main_thread, start, start_not_run, start_item, Starts, check_stopped,
       compare_requested, send_stopped, reset_requested, load_points, visit_point, points_visited,
       wait_for_running, end_item, pop_frame, run_over, history
<1>3. CASE stop
  BY <1>3 DEF stop, NotifyAll, EntryIsOver, settings, run, debug
<1>4. CASE continue_thread \/ next \/ step_in \/ step_out \/ pause_thread
  BY <1>4 DEF continue_thread, next, step_in, step_out, pause_thread, Resume
<1>5. CASE set_breakpoints \/ set_exception_breakpoints
  BY <1>5 DEF set_breakpoints, set_exception_breakpoints, debugger, settings, run, debug, history
<1>6. CASE deliver \/ UNCHANGED vars
  BY <1>6 DEF deliver, vars, debugger, settings, run, debug, history
<1> QED
  BY <1>1, <1>2, <1>3, <1>4, <1>5, <1>6 DEF Next, Requests

(* Once a terminate request has woken the thread, it stops at failures at  *)
(* most, until the client resumes or pauses it again.                      *)
THEOREM TerminateHolds == Spec => []TerminateIsFinal
<1>1. Init => EntryIsOver /\ StoppedStays
  BY DEF Init, EntryIsOver, StoppedStays
<1>2. EntryIsOver /\ TypeInv /\ [Next]_vars => EntryIsOver'
  BY StepEntry
<1>3. StoppedStays /\ EntryIsOver /\ SleepsOnlyWhilePaused /\ TypeInv /\ [Next]_vars => StoppedStays'
  BY StepStopped
<1>4. TypeInv /\ [Next]_vars => TypeInv'
  BY StepType
<1>5. StoppedStays => TerminateIsFinal
  BY DEF StoppedStays, TerminateIsFinal
<1> QED
  BY InitType, <1>1, <1>2, <1>3, <1>4, <1>5, NoLostWakeup, PTL DEF Spec

-----------------------------------------------------------------------------
(* The frames are the items that are being run.                            *)

AllExecuted == \A i \in DOMAIN running : running[i].executed

LEMMA StepFrames ==
  ASSUME ~NotRunItems, FramesMatchRun, AllExecuted, TypeInv, [Next]_vars
  PROVE  FramesMatchRun' /\ AllExecuted'
<1> USE DEF FramesMatchRun, AllExecuted
<1>0. stack_frames \in Seq(Frame) /\ running \in Seq(Item)
  BY DEF TypeInv, TypeOK
<1>1. ASSUME NEW type \in Types, NEW own \in BOOLEAN, NEW l \in Lines, start_item(type, own, l)
      PROVE FramesMatchRun' /\ AllExecuted'
  <2> DEFINE f == [type |-> type, sourced |-> Sourced(own)]
             g == [type |-> type, executed |-> TRUE]
  <2>1. stack_frames' = <<f>> \o stack_frames /\ running' = <<g>> \o running
    BY <1>1 DEF start_item, Starts
  <2>2. f \in Frame /\ g \in Item
    BY DEF Frame, Item, Sourced
  <2>3. Len(stack_frames') = Len(stack_frames) + 1 /\ Len(running') = Len(running) + 1
    BY <1>0, <2>1, <2>2
  <2>4. ASSUME NEW i \in DOMAIN running'
        PROVE stack_frames'[i].type = running'[i].type /\ running'[i].executed
    <3>1. CASE i = 1
      BY <1>0, <2>1, <2>2, <3>1
    <3>2. CASE i # 1
      <4>1. i - 1 \in DOMAIN running /\ running'[i] = running[i - 1] /\ stack_frames'[i] = stack_frames[i - 1]
        BY <1>0, <2>1, <2>2, <2>3, <2>4, <3>2
      <4> QED
        BY <4>1
    <3> QED
      BY <3>1, <3>2
  <2> QED
    BY <2>3, <2>4
<1>2. ASSUME stack_frames' = IF stack_frames = <<>> THEN <<>> ELSE Tail(stack_frames),
             running' = Tail(running), running # <<>>
      PROVE FramesMatchRun' /\ AllExecuted'
  <2>1. stack_frames # <<>>
    BY <1>0, <1>2
  <2>2. Len(stack_frames') = Len(stack_frames) - 1 /\ Len(running') = Len(running) - 1
    BY <1>0, <1>2, <2>1
  <2>3. ASSUME NEW i \in DOMAIN running'
        PROVE stack_frames'[i].type = running'[i].type /\ running'[i].executed
    <3>1. i + 1 \in DOMAIN running /\ running'[i] = running[i + 1] /\ stack_frames'[i] = stack_frames[i + 1]
      BY <1>0, <1>2, <2>1, <2>2, <2>3
    <3> QED
      BY <3>1
  <2> QED
    BY <2>2, <2>3
<1>3. ASSUME NEW status \in {"PASS", "FAIL"}, end_item(status)
      PROVE FramesMatchRun' /\ AllExecuted'
  BY <1>2, <1>3 DEF end_item, PopFrame
<1>4. CASE pop_frame
  BY <1>2, <1>4 DEF pop_frame, PopFrame, TypeInv, EndHasItem
<1>5. ASSUME UNCHANGED <<stack_frames, running>> PROVE FramesMatchRun' /\ AllExecuted'
  BY <1>5
<1>6. ASSUME NEW type \in {"KEYWORD", "CONTROL"}, start_not_run(type) PROVE FALSE
  BY <1>6 DEF start_not_run, Starts
<1>7. CASE \/ set_main_thread \/ start \/ check_stopped \/ compare_requested \/ send_stopped
           \/ reset_requested \/ load_points \/ visit_point \/ points_visited
           \/ wait_for_running \/ run_over
  BY <1>5, <1>7 DEF set_main_thread, start, check_stopped, compare_requested, send_stopped, reset_requested,
     load_points, visit_point, points_visited, wait_for_running, run_over, debugger, run
<1>8. CASE Requests
  BY <1>5, <1>8 DEF Requests, continue_thread, next, step_in, step_out, pause_thread, stop, set_breakpoints,
     set_exception_breakpoints, Resume, debugger, run
<1>9. CASE deliver \/ UNCHANGED vars
  BY <1>5, <1>9 DEF deliver, vars, debugger, run
<1> QED
  BY <1>1, <1>3, <1>4, <1>6, <1>7, <1>8, <1>9 DEF Next, RobotThread

(* Test data whose items are all executed: the stack the client is shown,  *)
(* and the steps are counted in, is the nesting of the run.                *)
THEOREM FramesAreTheRun ==
  ASSUME ~NotRunItems
  PROVE  Spec => []FramesMatchRun
<1>1. Init => FramesMatchRun /\ AllExecuted
  BY DEF Init, FramesMatchRun, AllExecuted
<1>2. FramesMatchRun /\ AllExecuted /\ TypeInv /\ [Next]_vars => FramesMatchRun' /\ AllExecuted'
  BY StepFrames
<1>3. TypeInv /\ [Next]_vars => TypeInv'
  BY StepType
<1> QED
  BY InitType, <1>1, <1>2, <1>3, PTL DEF Spec

-----------------------------------------------------------------------------
(* A step stops outside: the levels it stops at are those it may stop at.  *)

LevelsInReach ==
  requested_state \in {"Next", "StepOut"} =>
    \A d \in Nat : d >= 1 /\ d <= stop_stack_len => d \in reach

(* Between the top frame and a level that a step out stops at there is a   *)
(* frame that is no control structure: were all those down to the first    *)
(* level it passes control structures, they would be more than it counted. *)
LEMMA SomethingIsLeft ==
  ASSUME TypeOK, NEW d \in Nat, d >= 1, d <= Len(stack_frames) - 1 - ControlsBelow
  PROVE  \E i \in 2 .. Len(stack_frames) :
            stack_frames[i].type # "CONTROL" /\ d <= Len(stack_frames) + 1 - i
<1> DEFINE n == Len(stack_frames)
           controls == {i \in 2 .. n : \A j \in 2 .. i : stack_frames[j].type = "CONTROL"}
           k == Cardinality(controls)
<1>1. n \in Nat /\ IsFiniteSet(2 .. n)
  BY FS_Interval DEF TypeOK
<1>2. IsFiniteSet(controls) /\ k \in Nat /\ ControlsBelow = k
  BY <1>1, FS_Subset, FS_CardinalityType DEF ControlsBelow
<1>3. k + 2 <= n /\ d <= n - 1 - k
  BY <1>1, <1>2
<1>4. ASSUME \A j \in 2 .. (k + 2) : stack_frames[j].type = "CONTROL"
      PROVE  FALSE
  <2>1. 2 .. (k + 2) \subseteq controls
    <3>1. ASSUME NEW i \in 2 .. (k + 2)
          PROVE  i \in 2 .. n /\ \A j \in 2 .. i : stack_frames[j].type = "CONTROL"
      <4> HIDE DEF k, n
      <4> QED
        BY <1>1, <1>2, <1>3, <1>4, <3>1
    <3> QED
      BY <3>1
  <2>2. Cardinality(2 .. (k + 2)) = k + 1
    <3> HIDE DEF k
    <3> QED
      BY <1>2, FS_Interval
  <2>3. Cardinality(2 .. (k + 2)) <= k
    BY <1>2, <2>1, FS_Subset
  <2> HIDE DEF k
  <2> QED
    BY <1>2, <2>2, <2>3
<1> HIDE DEF k
<1>5. PICK j \in 2 .. (k + 2) : stack_frames[j].type # "CONTROL"
  BY <1>4
<1> QED
  BY <1>1, <1>2, <1>3, <1>5

LEMMA StepLevels ==
  ASSUME LevelsInReach, FramesMatchRun, TypeInv, [Next]_vars
  PROVE  LevelsInReach'
<1> USE DEF LevelsInReach
<1>0. /\ stack_frames \in Seq(Frame) /\ running \in Seq(Item) /\ stop_stack_len \in Int
      /\ Len(stack_frames) \in Nat /\ Len(running) = Len(stack_frames)
  BY DEF TypeInv, TypeOK, FramesMatchRun
<1>1. CASE next
  <2>1. TopIs({"CONTROL"}) <=> RunsIn({"CONTROL"})
    <3>1. stack_frames # <<>> <=> running # <<>>
      BY <1>0
    <3>2. stack_frames # <<>> => /\ Head(stack_frames) = stack_frames[1] /\ Head(running) = running[1]
                                 /\ 1 \in DOMAIN running
      BY <1>0
    <3> QED
      BY <3>1, <3>2 DEF TopIs, RunsIn, FramesMatchRun
  <2> QED
    BY <1>0, <1>1, <2>1 DEF next
<1>2. CASE step_out
  <2>1. ControlsBelow \in Nat /\ stop_stack_len' = Len(stack_frames) - 1 - ControlsBelow
        /\ reach' = Outside
    BY <1>2, ControlsBelowIsNat DEF step_out, TypeInv
  <2>2. ASSUME NEW d \in Nat, d >= 1, d <= Len(stack_frames) - 1 - ControlsBelow
        PROVE  d \in Outside
    <3>1. PICK i \in 2 .. Len(stack_frames) :
            stack_frames[i].type # "CONTROL" /\ d <= Len(stack_frames) + 1 - i
      BY <2>2, SomethingIsLeft DEF TypeInv
    <3>2. i \in 2 .. Len(running) /\ running[i].type # "CONTROL" /\ d <= Len(running) + 1 - i
      BY <1>0, <3>1 DEF FramesMatchRun
    <3>3. d \in 0 .. Len(running)
      BY <1>0, <2>1, <2>2
    <3> QED
      BY <3>2, <3>3 DEF Outside
  <2> QED
    BY <2>1, <2>2
<1>3. CASE continue_thread \/ step_in \/ pause_thread \/ stop \/ set_breakpoints
           \/ set_exception_breakpoints
  BY <1>3 DEF continue_thread, step_in, pause_thread, stop, set_breakpoints,
     set_exception_breakpoints, debugger, history
<1>4. CASE RobotThread
  <2>1. UNCHANGED <<stop_stack_len, reach>> /\ requested_state' \in {requested_state, "Nothing"}
    BY <1>4 DEF RobotThread, set_main_thread, start, start_not_run, start_item, check_stopped,
       compare_requested, send_stopped, reset_requested, NothingRequested, load_points, visit_point,
       points_visited, wait_for_running, end_item, pop_frame, run_over, debugger, history
  <2> QED
    BY <2>1
<1>5. CASE deliver \/ UNCHANGED vars
  BY <1>5 DEF deliver, vars, debugger, history
<1> QED
  BY <1>1, <1>2, <1>3, <1>4, <1>5 DEF Next, Requests

(* Only a comparison of process_start_state announces a step's stop.       *)
LEMMA StopsInReach ==
  ASSUME LevelsInReach, FramesMatchRun, TypeInv, [Next]_vars,
         pc = "compare", pc' = "send", requested_state \in {"Next", "StepOut"}
  PROVE  Len(running) \in reach
<1>1. compare_requested
  BY DEF Next, RobotThread, Requests, set_main_thread, start, start_not_run, start_item, Starts,
     check_stopped, send_stopped, reset_requested, load_points, visit_point, points_visited,
     wait_for_running, end_item, pop_frame, run_over, continue_thread, next, step_in, step_out,
     Resume, NotifyAll, pause_thread, stop, set_breakpoints, set_exception_breakpoints, deliver,
     vars
<1>2. Len(stack_frames) <= stop_stack_len
  BY <1>1 DEF compare_requested, StopsHere
<1>3. stack_frames # <<>> /\ stack_frames \in Seq(Frame)
  BY DEF TypeInv, TypeOK, ScanHasItem, Scanning
<1>4. Len(stack_frames) \in Nat /\ Len(stack_frames) >= 1 /\ Len(running) = Len(stack_frames)
  BY <1>3 DEF FramesMatchRun
<1> QED
  BY <1>2, <1>4 DEF LevelsInReach

(* Test data whose items are all executed: a step over never stops inside  *)
(* the item it was requested for, a step out never inside the keyword.     *)
THEOREM StepsComeOut ==
  ASSUME ~NotRunItems
  PROVE  Spec => StepsStopOutside
<1>1. Init => LevelsInReach
  BY DEF Init, LevelsInReach
<1>2. LevelsInReach /\ FramesMatchRun /\ TypeInv /\ [Next]_vars => LevelsInReach'
  BY StepLevels
<1>3. TypeInv /\ [Next]_vars => TypeInv'
  BY StepType
<1>4. LevelsInReach /\ FramesMatchRun /\ TypeInv /\ [Next]_vars
        => [pc = "compare" /\ pc' = "send" /\ requested_state \in {"Next", "StepOut"}
              => Len(running) \in reach]_vars
  BY StopsInReach
<1> QED
  BY InitType, <1>1, <1>2, <1>3, <1>4, FramesAreTheRun, PTL DEF Spec, StepsStopOutside
=============================================================================
