---------------------------- MODULE StateMachine ----------------------------
(***************************************************************************)
(* The state machine engine of src/core/egw_fsm.c.  A state is a handler   *)
(* function; egw_fsm_dispatch calls the current one and, when it answers   *)
(* EGW_RET_TRAN, the exit action of the source and the entry action of the *)
(* target.  Handlers are application code: they answer anything and may    *)
(* dispatch further events while the dispatch that called them is still    *)
(* under way.  `stack' holds the engine calls under way, innermost last,   *)
(* each inside the handler its stage names.  An event carries no content   *)
(* here: a handler's answer is a free choice.  Calls with a NULL machine   *)
(* change nothing.                                                         *)
(***************************************************************************)
EXTENDS Integers, Sequences

CONSTANTS States,        \* the state functions
          NoState,       \* the NULL function pointer
          MaxDispatches  \* bound: how deep dispatches nest

ASSUME FsmAssumption == NoState \notin States /\ MaxDispatches \in Nat \ {0}

VARIABLES current,  \* fsm->current
          temp,     \* fsm->temp
          stack,    \* egw_fsm_init and egw_fsm_dispatch calls under way
          active,   \* history: states entered and not exited since
          last,     \* history: the state entered last
          overlap   \* history: a dispatch left a state it was no longer in

fsm_vars == <<current, temp, stack, active, last, overlap>>

(***************************************************************************)
(* source and target are the locals of egw_fsm_dispatch; moved is history: *)
(* a dispatch nested in the event or exit handler changed the state.       *)
(***************************************************************************)
DispatchFrame == [source : States, target : States \cup {NoState},
                  stage : {"event", "exit", "entry"}, moved : BOOLEAN]

\* Once initialised, the machine always has a state.
FsmTypeOK == /\ current \in States \cup {NoState}
             /\ temp \in States \cup {NoState}
             /\ stack \in Seq(DispatchFrame) /\ Len(stack) <= MaxDispatches
             /\ active \subseteq States
             /\ last \in States \cup {NoState}
             /\ overlap \in BOOLEAN
             /\ last # NoState => current # NoState

\* A zeroed egw_fsm_t.
FsmZeroed == /\ current = NoState /\ temp = NoState /\ stack = <<>>
             /\ active = {} /\ last = NoState /\ overlap = FALSE

TopDispatch == stack[Len(stack)]
Pop == SubSeq(stack, 1, Len(stack) - 1)

\* egw_fsm_init: the machine starts over in s and runs its entry action.
FsmInit(s) ==
  /\ stack = <<>>
  /\ current' = s
  /\ stack' = <<[source |-> s, target |-> s, stage |-> "entry", moved |-> FALSE]>>
  /\ active' = {s} /\ last' = s /\ overlap' = FALSE
  /\ UNCHANGED temp

\* egw_fsm_dispatch is called, by a handler or from outside: the current
\* state's handler gets the event.
Dispatch ==
  /\ current # NoState
  /\ Len(stack) < MaxDispatches
  /\ stack' = Append(stack, [source |-> current, target |-> NoState,
                             stage |-> "event", moved |-> FALSE])
  /\ UNCHANGED <<current, temp, active, last, overlap>>

\* The machine is not initialised: egw_fsm_dispatch returns at once.
DispatchBeforeInit == current = NoState /\ UNCHANGED fsm_vars

InHandler(stage) == stack # <<>> /\ TopDispatch.stage = stage

\* What a handler may leave in fsm->temp: EGW_TRAN and EGW_SUPER write it.
LeavesTemp == temp' \in States \cup {NoState, temp}

\* The event handler answers HANDLED, IGNORED or EGW_SUPER(s).
EventHandled ==
  /\ InHandler("event")
  /\ LeavesTemp
  /\ stack' = Pop
  /\ UNCHANGED <<current, active, last, overlap>>

\* target && target != source
TakesTransition(t) == t # NoState /\ t # TopDispatch.source

\* Mutant of EventTran: the exit signal goes to the target.
EventTranExitsTarget(t) ==
  /\ InHandler("event")
  /\ temp' = t
  /\ IF TakesTransition(t)
     THEN /\ stack' = [stack EXCEPT ![Len(stack)].target = t,
                                    ![Len(stack)].stage = "exit"]
          /\ active' = active \ {t}
     ELSE stack' = Pop /\ UNCHANGED active
  /\ UNCHANGED <<current, last, overlap>>

\* The event handler answers EGW_TRAN(t): the exit action of the source runs,
\* unless the target is NULL or the source itself.
EventTran(t) ==
  /\ InHandler("event")
  /\ temp' = t
  /\ IF TakesTransition(t)
     THEN /\ stack' = [stack EXCEPT ![Len(stack)].target = t,
                                    ![Len(stack)].stage = "exit"]
          /\ active' = active \ {TopDispatch.source}
     ELSE stack' = Pop /\ UNCHANGED active
  /\ UNCHANGED <<current, last, overlap>>

\* The state changes under every dispatch whose event or exit handler runs.
MarkMoved(frames) ==
  [n \in DOMAIN frames |->
     IF n < Len(frames) /\ frames[n].stage # "entry"
     THEN [frames[n] EXCEPT !.moved = TRUE] ELSE frames[n]]

\* Mutant of ExitDone: the current state is not set before the entry action.
ExitDoneKeepsCurrent ==
  /\ InHandler("exit")
  /\ LeavesTemp
  /\ stack' = MarkMoved([stack EXCEPT ![Len(stack)].stage = "entry"])
  /\ active' = active \cup {TopDispatch.target}
  /\ last' = TopDispatch.target
  /\ overlap' = (overlap \/ TopDispatch.moved)
  /\ UNCHANGED current

\* The exit action returns (its answer is ignored), current = target, and the
\* entry action of the target runs.
ExitDone ==
  /\ InHandler("exit")
  /\ LeavesTemp
  /\ current' = TopDispatch.target
  /\ stack' = MarkMoved([stack EXCEPT ![Len(stack)].stage = "entry"])
  /\ active' = active \cup {TopDispatch.target}
  /\ last' = TopDispatch.target
  /\ overlap' = (overlap \/ TopDispatch.moved)

\* The entry action returns (its answer is ignored): the call is over.
EntryDone ==
  /\ InHandler("entry")
  /\ LeavesTemp
  /\ stack' = Pop
  /\ UNCHANGED <<current, active, last, overlap>>

FsmNext == \/ \E s \in States : FsmInit(s)
           \/ Dispatch \/ DispatchBeforeInit
           \/ EventHandled
           \/ \E t \in States \cup {NoState} : EventTran(t)
           \/ ExitDone \/ EntryDone

FsmSpec == FsmZeroed /\ [][FsmNext]_fsm_vars

-----------------------------------------------------------------------------
\* When no engine call is under way, the current state is the one whose entry
\* action ran last, however deep handlers nested dispatches: the engine never
\* rests in a state it entered earlier or never.
CurrentEnteredLast == stack = <<>> => current = last

\* Entry and exit actions pair up: at rest exactly the current state has been
\* entered and not exited.  The exception is a transition taken after a
\* dispatch nested in the same event or exit handler had already moved the
\* machine elsewhere; the engine then leaves a state without its exit action.
EntryExitPaired == stack = <<>> /\ last # NoState /\ ~overlap => active = {current}
=============================================================================
