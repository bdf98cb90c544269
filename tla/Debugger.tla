------------------------------ MODULE Debugger ------------------------------
(***************************************************************************)
(* The debugger core of the launcher process (robotcode/debugger/          *)
(* debugger.py).  Two threads share one Debugger object:                   *)
(*                                                                         *)
(*   - the robot thread runs the test data; Robot Framework calls the      *)
(*     listener at the start and at the end of every suite, test, keyword  *)
(*     and control structure, and the listener calls start_... / end_...;  *)
(*   - the asyncio thread of the debug adapter serves the requests of the  *)
(*     client: continue, next, stepIn, stepOut, pause, terminate and the   *)
(*     setBreakpoints requests.                                            *)
(*                                                                         *)
(* The request handlers hold `condition`; the robot thread reads and       *)
(* writes `state` and `requested_state` without it, so its code is cut     *)
(* into one action per access, and a request may fall between any two.     *)
(***************************************************************************)
EXTENDS Integers, Sequences, FiniteSets

CONSTANTS
  Lines,         (* the line numbers of the test data                      *)
  PointTables,   (* the breakpoint tables a client may install             *)
  FilterSets,    (* the exception filter sets a client may install         *)
  NotRunItems,   (* do the test data have items of status NOT RUN?         *)
  MaxDepth,      (* bound: nesting of running items                        *)
  MaxItems,      (* bound: items started in the run                        *)
  MaxRequests    (* bound: requests other than continue                    *)

(* A breakpoint of one line: has it a condition, its hit condition (0 for  *)
(* none) and has it a log message?                                         *)
Point == [cond : BOOLEAN, hit : Nat, log : BOOLEAN]

ASSUME ConstantsAssumption ==
  /\ PointTables \subseteq [Lines -> Seq(Point)]
  /\ FilterSets \subseteq SUBSET {"failed_suite", "failed_test", "failed_keyword"}
  /\ NotRunItems \in BOOLEAN
  /\ MaxDepth \in Nat /\ MaxItems \in Nat /\ MaxRequests \in Nat

(* The types of running items.  CONTROL stands for FOR, FOR ITERATION, IF, *)
(* ELSE IF and ELSE, which the code never tells apart.                     *)
Types == {"SUITE", "TEST", "KEYWORD", "CONTROL"}

State == {"Stopped", "Running", "Paused"}
RequestedState == {"Nothing", "Pause", "Next", "StepIn", "StepOut"}

(* The order in which process_start_state compares requested_state.        *)
Comparisons == <<"Pause", "Next", "StepIn", "StepOut">>

Reasons == {"none", "entry", "pause", "step", "breakpoint", "exception"}

VARIABLES
  (* the fields of Debugger *)
  state, requested_state, stop_stack_len, stack_frames,
  breakpoints, exception_breakpoints, hit_counts,
  stop_on_entry, no_debug, main_thread,
  (* the robot thread *)
  pc,        (* where it is in the listener                                *)
  ending,    (* is it in an end_... callback?                              *)
  line,      (* the line of the item being started                         *)
  cmp,       (* the next comparison of process_start_state                 *)
  points,    (* the breakpoints process_start_state has still to visit     *)
  reason,    (* the reason of the StoppedEvent being sent                  *)
  (* Robot Framework and the client, which are external *)
  running,   (* the nesting of the run, innermost item first               *)
  started,   (* how many items were started                                *)
  events,    (* events on their way to the client                          *)
  view,      (* does the client show the thread as running or stopped?     *)
  requests,  (* how many requests were made                                *)
  (* history *)
  last,      (* the last request that resumed, paused or stopped the thread*)
  reach      (* the depths of the run the last next or stepOut may stop at *)

debugger == <<state, requested_state, stop_stack_len, stack_frames>>
settings == <<breakpoints, exception_breakpoints, no_debug>>
robot == <<ending, line, cmp, points>>
run == <<running, started>>
client == <<view, requests>>
history == <<last, reach>>

vars == <<debugger, settings, hit_counts, stop_on_entry, main_thread,
          pc, robot, reason, run, events, client, history>>

Frame == [type : Types, sourced : BOOLEAN]
Item == [type : Types, executed : BOOLEAN]

-----------------------------------------------------------------------------
(* Helpers                                                                 *)

(* debug: the property of the same name *)
debug == ~no_debug

(* on_debugger_send_event hands an event to the loop, which sends it.      *)
(* Mutant: nobody listens for the event any more.                          *)
send_event_lost(e) == events' = events
send_event(e) == events' = Append(events, e)

(* Condition.notify_all: a waiting thread will evaluate its predicate.     *)
(* Mutant: the call is forgotten.                                          *)
NotifyNobody == pc' = pc
NotifyAll == pc' = IF pc = "blocked" THEN "wait" ELSE pc

(* Where the robot thread goes once a callback has nothing left to wait    *)
(* for: an end_... callback has still to pop its frame.                    *)
Return == IF ending THEN "pop" ELSE "idle"

(* popleft, if there is a frame.  Mutant: the frame is left.               *)
PopNothing == stack_frames' = stack_frames
PopFrame == stack_frames' = IF stack_frames = <<>> THEN <<>> ELSE Tail(stack_frames)

(* The number of control structures directly below the top frame.          *)
ControlsBelow ==
  Cardinality({i \in 2 .. Len(stack_frames) :
                 \A j \in 2 .. i : stack_frames[j].type = "CONTROL"})

(* What the items of a run may be nested in.                               *)
MayContain(outer, type) ==
  CASE outer = "SUITE" -> type \in {"SUITE", "TEST"}
    [] OTHER           -> type \in {"KEYWORD", "CONTROL"}

-----------------------------------------------------------------------------
(* The robot thread: the start of the run (run_robot)                      *)

Init ==
  /\ state = "Stopped" /\ requested_state = "Nothing" /\ stop_stack_len = 0
  /\ stack_frames = <<>>
  /\ breakpoints \in PointTables /\ exception_breakpoints \in FilterSets
  /\ hit_counts = [k \in Lines \X Types |-> 0]
  /\ stop_on_entry \in BOOLEAN /\ no_debug \in BOOLEAN /\ main_thread = FALSE
  /\ pc = "boot" /\ ending = FALSE /\ line = 0 /\ cmp = 1 /\ points = <<>>
  /\ reason = "none"
  /\ running = <<>> /\ started = 0
  /\ events = <<>> /\ view = "running" /\ requests = 0
  /\ last = "none" /\ reach = {}

set_main_thread ==
  /\ pc = "boot"
  /\ pc' = "start"
  /\ main_thread' = TRUE
  /\ UNCHANGED <<debugger, settings, hit_counts, stop_on_entry, robot, reason,
                 run, events, client, history>>

start ==
  /\ pc = "start"
  /\ pc' = "idle"
  /\ state' = "Running"
  /\ UNCHANGED <<requested_state, stop_stack_len, stack_frames, settings, hit_counts,
                 stop_on_entry, main_thread, robot, reason, run, events, client, history>>

-----------------------------------------------------------------------------
(* The robot thread: start_suite, start_test, start_keyword                *)

(* Robot Framework starts an item of the given type inside the innermost   *)
(* running one, and everything inside an item that is not run is not run.  *)
Starts(type, executed) ==
  /\ pc = "idle"
  /\ started < MaxItems /\ Len(running) < MaxDepth
  /\ IF running = <<>> THEN started = 0 /\ type = "SUITE"
                       ELSE /\ MayContain(Head(running).type, type)
                            /\ executed => Head(running).executed
  /\ executed \/ (NotRunItems /\ type \in {"KEYWORD", "CONTROL"})
  /\ running' = <<[type |-> type, executed |-> executed]>> \o running
  /\ started' = started + 1

(* start_keyword returns at once for an item of status NOT RUN.            *)
start_not_run(type) ==
  /\ Starts(type, FALSE)
  /\ UNCHANGED <<debugger, settings, hit_counts, stop_on_entry, main_thread, pc, robot,
                 reason, events, client, history>>

(* An item without a source inherits that of a frame (add_stackframe_entry)*)
Sourced(own) == own \/ \E i \in DOMAIN stack_frames : stack_frames[i].sourced

StopsOnEntry(type) == debug /\ type = "SUITE" /\ stop_on_entry

start_item(type, own, l) ==
  /\ Starts(type, TRUE)
  /\ stack_frames' = <<[type |-> type, sourced |-> Sourced(own)]>> \o stack_frames
  /\ ending' = FALSE /\ line' = l /\ cmp' = 1
  /\ IF StopsOnEntry(type)
     THEN /\ stop_on_entry' = FALSE
          /\ state' = "Paused" /\ reason' = "entry" /\ pc' = "send"
     ELSE /\ pc' = IF debug /\ Sourced(own) THEN "check" ELSE "idle"
          /\ UNCHANGED <<stop_on_entry, state, reason>>
  /\ UNCHANGED <<requested_state, stop_stack_len, settings, hit_counts, main_thread,
                 points, events, client, history>>

-----------------------------------------------------------------------------
(* The robot thread: process_start_state                                   *)

(* Mutant: the test of the state is forgotten.                             *)
check_nothing ==
  /\ pc = "check"
  /\ pc' = "compare"
  /\ UNCHANGED <<debugger, settings, hit_counts, stop_on_entry, main_thread, robot,
                 reason, run, events, client, history>>
check_stopped ==
  /\ pc = "check"
  /\ pc' = IF state = "Stopped" THEN "wait" ELSE "compare"
  /\ UNCHANGED <<debugger, settings, hit_counts, stop_on_entry, main_thread, robot,
                 reason, run, events, client, history>>

(* A pause and a step into stop at every item, the other steps only at one *)
(* that is not nested deeper than their request asked for.                 *)
(* Mutant: one level too deep.                                             *)
StopsDeeper(r) == r \in {"Pause", "StepIn"} \/ Len(stack_frames) <= stop_stack_len + 1
StopsHere(r) == r \in {"Pause", "StepIn"} \/ Len(stack_frames) <= stop_stack_len

(* One comparison of the if/elif chain; the first that matches ends it.    *)
compare_requested ==
  /\ pc = "compare"
  /\ IF requested_state # Comparisons[cmp]
     THEN /\ IF cmp < 4 THEN cmp' = cmp + 1 /\ pc' = "compare" ELSE cmp' = 1 /\ pc' = "load"
          /\ UNCHANGED <<state, reason>>
     ELSE /\ cmp' = 1
          /\ IF StopsHere(requested_state)
             THEN /\ state' = "Paused"
                  /\ reason' = IF requested_state = "Pause" THEN "pause" ELSE "step"
                  /\ pc' = "send"
             ELSE pc' = "load" /\ UNCHANGED <<state, reason>>
  /\ UNCHANGED <<requested_state, stop_stack_len, stack_frames, settings, hit_counts,
                 stop_on_entry, main_thread, ending, line, points, run, events, client,
                 history>>

(* Where a StoppedEvent of the given reason returns to.                    *)
AfterSend(r) ==
  CASE r \in {"pause", "step"} -> "reset"
    [] r = "breakpoint"       -> "points"
    [] OTHER                  -> "wait"

send_stopped ==
  /\ pc = "send"
  /\ send_event("stopped")
  /\ pc' = AfterSend(reason)
  /\ UNCHANGED <<debugger, settings, hit_counts, stop_on_entry, main_thread, robot,
                 reason, run, client, history>>

NothingRequested == "Nothing"

reset_requested ==
  /\ pc = "reset"
  /\ requested_state' = NothingRequested
  /\ pc' = "load"
  /\ UNCHANGED <<state, stop_stack_len, stack_frames, settings, hit_counts, stop_on_entry,
                 main_thread, robot, reason, run, events, client, history>>

(* The breakpoints of the line are read once, before they are visited.     *)
load_points ==
  /\ pc = "load"
  /\ points' = breakpoints[line]
  /\ pc' = "points"
  /\ UNCHANGED <<debugger, settings, hit_counts, stop_on_entry, main_thread, ending, line,
                 cmp, reason, run, events, client, history>>

(* The counter of a hit condition counts the visits of the line by items of*)
(* one type; the breakpoint counts as hit while it differs from the number.*)
HitKey == <<line, Head(stack_frames).type>>
HitCount == hit_counts[HitKey] + 1
IsHit(p) == p.hit = 0 \/ HitCount # p.hit

(* One breakpoint of the line.  A condition is an expression of the test   *)
(* data, so either result is possible; a breakpoint that is not hit, and   *)
(* one that only logs, ends the visit of the others.                       *)
visit_point ==
  /\ pc = "points" /\ points # <<>>
  /\ LET p == Head(points) IN \E holds \in IF p.cond THEN BOOLEAN ELSE {TRUE} :
       /\ hit_counts' = IF holds /\ p.hit > 0
                        THEN [hit_counts EXCEPT ![HitKey] = HitCount]
                        ELSE hit_counts
       /\ IF holds /\ IsHit(p) /\ ~p.log
          THEN /\ points' = Tail(points)
               /\ state' = "Paused" /\ reason' = "breakpoint" /\ pc' = "send"
          ELSE /\ points' = <<>>
               /\ pc' = "wait"
               /\ UNCHANGED <<state, reason>>
  /\ UNCHANGED <<requested_state, stop_stack_len, stack_frames, settings, stop_on_entry,
                 main_thread, ending, line, cmp, run, events, client, history>>

points_visited ==
  /\ pc = "points" /\ points = <<>>
  /\ pc' = "wait"
  /\ UNCHANGED <<debugger, settings, hit_counts, stop_on_entry, main_thread, robot,
                 reason, run, events, client, history>>

-----------------------------------------------------------------------------
(* The robot thread: wait_for_running                                      *)

(* The predicate of wait_for is evaluated, and the thread put to sleep,    *)
(* while the condition's lock is held.                                     *)
wait_for_running ==
  /\ pc = "wait"
  /\ pc' = IF state \in {"Running", "Stopped"} THEN Return ELSE "blocked"
  /\ UNCHANGED <<debugger, settings, hit_counts, stop_on_entry, main_thread, robot,
                 reason, run, events, client, history>>

-----------------------------------------------------------------------------
(* The robot thread: end_suite, end_test, end_keyword                      *)

FilterOf(type) ==
  CASE type = "SUITE" -> "failed_suite"
    [] type = "TEST"  -> "failed_test"
    [] OTHER          -> "failed_keyword"

(* process_end_state stops at the end of a failed item if the client asked *)
(* for it, whatever the state; the frame is popped in any case, also at the*)
(* end of an item of status NOT RUN.                                       *)
StopsOnFailure(item, status) ==
  debug /\ item.executed /\ status = "FAIL" /\ FilterOf(item.type) \in exception_breakpoints

end_item(status) ==
  /\ pc = "idle" /\ running # <<>>
  /\ IF StopsOnFailure(Head(running), status)
     THEN /\ state' = "Paused" /\ reason' = "exception" /\ pc' = "send"
          /\ ending' = TRUE
          /\ UNCHANGED <<stack_frames, running>>
     ELSE /\ PopFrame
          /\ running' = Tail(running)
          /\ UNCHANGED <<state, reason, pc, ending>>
  /\ UNCHANGED <<requested_state, stop_stack_len, settings, hit_counts, stop_on_entry,
                 main_thread, line, cmp, points, started, events, client, history>>

pop_frame ==
  /\ pc = "pop"
  /\ PopFrame
  /\ running' = Tail(running)
  /\ ending' = FALSE
  /\ pc' = "idle"
  /\ UNCHANGED <<state, requested_state, stop_stack_len, settings, hit_counts, stop_on_entry,
                 main_thread, line, cmp, points, reason, started, events, client, history>>

(* robot.run_cli returns once the top suite has ended.                     *)
run_over ==
  /\ pc = "idle" /\ running = <<>> /\ started > 0
  /\ pc' = "done"
  /\ UNCHANGED <<debugger, settings, hit_counts, stop_on_entry, main_thread, robot,
                 reason, run, events, client, history>>

-----------------------------------------------------------------------------
(* The adapter's thread: the requests that resume, pause and stop.  A      *)
(* client offers continue and the steps for a stopped thread and pause for *)
(* a running one; its view is up to date but for the events on their way.  *)

Counted == requests < MaxRequests /\ requests' = requests + 1

(* The part of a resuming request every one of them shares.                *)
Resume ==
  /\ main_thread /\ view = "stopped"
  /\ state' = "Running"
  /\ NotifyAll
  /\ view' = "running" /\ last' = "resume"
  /\ UNCHANGED <<stack_frames, settings, hit_counts, stop_on_entry, main_thread, robot,
                 reason, run, events>>

continue_thread ==
  /\ Resume
  /\ UNCHANGED <<requested_state, stop_stack_len, requests, reach>>

TopIs(types) == stack_frames # <<>> /\ Head(stack_frames).type \in types
RunsIn(types) == running # <<>> /\ Head(running).type \in types

next ==
  /\ Resume /\ Counted
  /\ IF TopIs({"TEST", "SUITE"})
     THEN requested_state' = "StepIn" /\ UNCHANGED <<stop_stack_len, reach>>
     ELSE /\ requested_state' = "Next"
          /\ stop_stack_len' = Len(stack_frames) + IF TopIs({"CONTROL"}) THEN 1 ELSE 0
          /\ reach' = 0 .. (Len(running) + IF RunsIn({"CONTROL"}) THEN 1 ELSE 0)

step_in ==
  /\ Resume /\ Counted
  /\ requested_state' = "StepIn"
  /\ UNCHANGED <<stop_stack_len, reach>>

(* The depths up to the innermost item around the current one that is not  *)
(* a control structure.                                                    *)
Outside == {d \in 0 .. Len(running) :
              \E i \in 2 .. Len(running) :
                running[i].type # "CONTROL" /\ d <= Len(running) + 1 - i}

step_out ==
  /\ Resume /\ Counted
  /\ requested_state' = "StepOut"
  /\ stop_stack_len' = Len(stack_frames) - 1 - ControlsBelow
  /\ reach' = Outside

pause_thread ==
  /\ main_thread /\ view = "running" /\ Counted
  /\ requested_state' = "Pause"
  /\ state' = "Paused"
  /\ NotifyAll
  /\ last' = "pause"
  /\ UNCHANGED <<stop_stack_len, stack_frames, settings, hit_counts, stop_on_entry, main_thread,
                 robot, reason, run, events, view, reach>>

(* stop, which the terminate request calls.  Only a thread that sleeps is  *)
(* sure to notice it before it pauses again.                               *)
stop ==
  /\ Counted
  /\ state' = "Stopped"
  /\ IF main_thread THEN send_event("continued") ELSE UNCHANGED events
  /\ NotifyAll
  /\ last' = IF pc = "blocked" THEN "stop" ELSE "none"
  /\ UNCHANGED <<requested_state, stop_stack_len, stack_frames, settings, hit_counts,
                 stop_on_entry, main_thread, robot, reason, run, view, reach>>

set_breakpoints ==
  /\ Counted
  /\ breakpoints' \in PointTables
  /\ UNCHANGED <<debugger, exception_breakpoints, no_debug, hit_counts, stop_on_entry,
                 main_thread, pc, robot, reason, run, events, view, history>>

set_exception_breakpoints ==
  /\ Counted
  /\ exception_breakpoints' \in FilterSets
  /\ UNCHANGED <<debugger, breakpoints, no_debug, hit_counts, stop_on_entry,
                 main_thread, pc, robot, reason, run, events, view, history>>

(* The client receives an event.                                           *)
deliver ==
  /\ events # <<>>
  /\ events' = Tail(events)
  /\ view' = IF Head(events) = "stopped" THEN "stopped" ELSE "running"
  /\ UNCHANGED <<debugger, settings, hit_counts, stop_on_entry, main_thread, pc, robot,
                 reason, run, requests, history>>

-----------------------------------------------------------------------------
(* The specification                                                       *)

RobotThread ==
  \/ set_main_thread \/ start
  \/ \E type \in {"KEYWORD", "CONTROL"} : start_not_run(type)
  \/ \E type \in Types, own \in BOOLEAN, l \in Lines : start_item(type, own, l)
  \/ check_stopped \/ compare_requested \/ send_stopped \/ reset_requested
  \/ load_points \/ visit_point \/ points_visited
  \/ wait_for_running
  \/ \E status \in {"PASS", "FAIL"} : end_item(status)
  \/ pop_frame \/ run_over

Requests ==
  \/ continue_thread \/ next \/ step_in \/ step_out \/ pause_thread \/ stop
  \/ set_breakpoints \/ set_exception_breakpoints

Next == RobotThread \/ Requests \/ deliver

(* The operating system runs both threads; a client shows what it is told  *)
(* and its user resumes a thread that stays stopped.                       *)
Fairness == WF_vars(RobotThread) /\ WF_vars(deliver) /\ WF_vars(continue_thread)

Spec == Init /\ [][Next]_vars
FairSpec == Spec /\ Fairness

-----------------------------------------------------------------------------
(* Properties                                                              *)

PCs == {"boot", "start", "idle", "check", "compare", "send", "reset", "load", "points",
        "wait", "blocked", "pop", "done"}

(* The types of the variables.                                             *)
TypeOK ==
  /\ state \in State /\ requested_state \in RequestedState /\ stop_stack_len \in Int
  /\ stack_frames \in Seq(Frame)
  /\ breakpoints \in PointTables /\ exception_breakpoints \in FilterSets
  /\ hit_counts \in [Lines \X Types -> Nat]
  /\ stop_on_entry \in BOOLEAN /\ no_debug \in BOOLEAN /\ main_thread \in BOOLEAN
  /\ pc \in PCs /\ ending \in BOOLEAN /\ line \in Lines \cup {0}
  /\ cmp \in 1 .. 4 /\ points \in Seq(Point) /\ reason \in Reasons
  /\ running \in Seq(Item) /\ started \in 0 .. MaxItems
  /\ events \in Seq({"stopped", "continued"})
  /\ view \in {"running", "stopped"} /\ requests \in 0 .. MaxRequests
  /\ last \in {"none", "resume", "pause", "stop"} /\ reach \in SUBSET Nat

(* No lost wake-up: the robot thread sleeps only while it is to stay       *)
(* paused, so whoever changes the state wakes it.                          *)
SleepsOnlyWhilePaused == pc = "blocked" => state = "Paused"

(* The client knows of a sleeping thread: when every event has arrived, a  *)
(* thread that sleeps is shown as stopped, and can be resumed.  The        *)
(* exception is the request to pause, which sets the state without an      *)
(* event and may put a thread to sleep that is past process_start_state.   *)
ClientKnows == pc = "blocked" /\ events = <<>> => view = "stopped" \/ last = "pause"

(* Why ClientKnows holds: the last thing a client is told of a thread that  *)
(* is paused is that it stopped, unless a pause request paused it.         *)
Told == IF events = <<>> THEN view = "stopped" ELSE events[Len(events)] = "stopped"
PausedIsTold == state = "Paused" /\ pc # "send" => Told \/ last = "pause"

(* A terminate request that finds the thread asleep is final: until the    *)
(* client resumes or pauses again the thread stops for failures only.      *)
TerminateIsFinal == pc = "send" /\ last = "stop" => reason = "exception"

(* Why TerminateIsFinal holds: the thread it woke finds Stopped wherever it *)
(* looks, and the stop on entry is over before the thread first sleeps.    *)
EntryIsOver ==
  /\ started = 0 => running = <<>>
  /\ pc \notin {"boot", "start", "idle", "done"} => debug /\ started > 0
  /\ debug /\ started > 0 => ~stop_on_entry
StoppedStays ==
  last = "stop" =>
    /\ pc \in {"idle", "check", "wait", "pop", "done", "send", "blocked"}
    /\ debug /\ started > 0
    /\ state = "Stopped" \/ (state = "Paused" /\ pc \in {"send", "wait", "blocked"})
    /\ TerminateIsFinal

(* The frames the client is shown are the items that are being run, and    *)
(* steps are counted in them (for data whose items are all executed).      *)
FramesMatchRun ==
  /\ Len(stack_frames) = Len(running)
  /\ \A i \in DOMAIN running : stack_frames[i].type = running[i].type

(* A step over never stops inside the item it was requested for, and a     *)
(* step out never inside the keyword to be left, whatever was run between. *)
StepsStopOutside ==
  [][pc = "compare" /\ pc' = "send" /\ requested_state \in {"Next", "StepOut"}
       => Len(running) \in reach]_vars

(* Unless the client ever asks to pause, the run ends: every stop is       *)
(* announced, and every resuming request takes effect.                     *)
RunEnds == [](last # "pause") => <>(pc = "done")

=============================================================================
