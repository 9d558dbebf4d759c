------------------------------ MODULE EventBus ------------------------------
(***************************************************************************)
(* The publish/subscribe bus of src/core/egw_bus.c.  The bus is an array   *)
(* of at most MAX_SUBS subscriptions.  egw_bus_publish walks the live      *)
(* array and calls every matching subscription synchronously, so a         *)
(* callback may subscribe, unsubscribe or publish while the walk that      *)
(* called it is under way.  `calls' is the stack of those walks.           *)
(*                                                                         *)
(* A key stands for the pair (device_id, sig_id) the code compares; the    *)
(* published value is passed on unread and is left out.  Every             *)
(* subscription is told apart by its `data' pointer.  Calls with a NULL    *)
(* bus or callback return at once and change nothing.                      *)
(***************************************************************************)
EXTENDS Integers, Sequences, FiniteSets

CONSTANTS Keys,         \* the (device_id, sig_id) pairs
          Callbacks,    \* the callback functions
          Data,         \* the data pointers passed to egw_bus_subscribe
          MAX_SUBS,     \* capacity of the subscription array
          MaxPublishes, \* bound: how deep publishes nest
          MaxOps        \* bound: bus operations one run of a callback makes, one
                        \* fewer at each further level of nesting

ASSUME BusAssumption == /\ MAX_SUBS \in Nat \ {0}
                        /\ MaxPublishes \in Nat \ {0}
                        /\ MaxOps \in Nat
                        /\ IsFiniteSet(Data) /\ Cardinality(Data) >= MAX_SUBS

VARIABLES subs,   \* bus->subs[0 .. count-1], from index 1
          calls   \* the egw_bus_publish calls under way, innermost last

bus_vars == <<subs, calls>>

Sub == [key : Keys, cb : Callbacks, data : Data]

(***************************************************************************)
(* One egw_bus_publish call: its key, its loop index, whether it is inside *)
(* a callback and how many bus operations that callback has made.  The     *)
(* other fields are history: the matching subscriptions live since the     *)
(* call began (due), the live ones it called (got), and how often an entry *)
(* it had already passed was unsubscribed under it (cuts, which stops at   *)
(* MAX_SUBS: no more subscriptions than that can be missed).               *)
(***************************************************************************)
WalkFrame == [key : Keys, i : Nat \ {0}, inCallback : BOOLEAN, ops : 0..MaxOps,
              due : SUBSET Data, got : SUBSET Data, cuts : 0..MAX_SUBS]

\* The array never holds more than MAX_SUBS subscriptions and the walks over it stay
\* within the bounds of the model.
BusTypeOK == /\ subs \in Seq(Sub) /\ Len(subs) <= MAX_SUBS
             /\ calls \in Seq(WalkFrame) /\ Len(calls) <= MaxPublishes

BusInit == subs = <<>> /\ calls = <<>>

TopWalk == calls[Len(calls)]

\* Application code runs outside every publish, or inside the innermost callback.
CodeRuns == calls # <<>> => TopWalk.inCallback /\ TopWalk.ops + Len(calls) <= MaxOps

\* The stack with one more operation on the account of the running callback.
Counted == IF calls = <<>> THEN calls
           ELSE [calls EXCEPT ![Len(calls)].ops = @ + 1]

Live == {subs[j].data : j \in DOMAIN subs}

\* Which unused data pointer a new subscription gets makes no difference.
Fresh == CHOOSE d \in Data : d \notin Live

\* Mutant of Subscribe: the new entry goes to the front of the array.
SubscribeInFront(k, c) ==
  /\ CodeRuns
  /\ subs' = IF Len(subs) >= MAX_SUBS THEN subs
             ELSE <<[key |-> k, cb |-> c, data |-> Fresh]>> \o subs
  /\ calls' = Counted

\* egw_bus_subscribe: append, or ERR_BUSY when the array is full.
Subscribe(k, c) ==
  /\ CodeRuns
  /\ subs' = IF Len(subs) >= MAX_SUBS THEN subs
             ELSE Append(subs, [key |-> k, cb |-> c, data |-> Fresh])
  /\ calls' = Counted

Matches(k, c) == {j \in DOMAIN subs : subs[j].key = k /\ subs[j].cb = c}

\* subs[i] = subs[count - 1]; count--
SwapRemove(s, j) == SubSeq([s EXCEPT ![j] = s[Len(s)]], 1, Len(s) - 1)

\* The history of every walk when the entry at index j goes away.
Forget(stack, j) ==
  [n \in DOMAIN stack |->
     [stack[n] EXCEPT !.due = @ \ {subs[j].data}, !.got = @ \ {subs[j].data},
                      !.cuts = IF j <= stack[n].i /\ @ < MAX_SUBS THEN @ + 1 ELSE @]]

\* egw_bus_unsubscribe: the first match is overwritten by the last entry;
\* ERR_NOTFOUND when there is none.
Unsubscribe(k, c) ==
  /\ CodeRuns
  /\ \/ /\ Matches(k, c) = {}
        /\ subs' = subs
        /\ calls' = Counted
     \/ \E j \in Matches(k, c) :
          /\ \A n \in Matches(k, c) : j <= n
          /\ subs' = SwapRemove(subs, j)
          /\ calls' = Forget(Counted, j)

\* egw_bus_publish is entered: its loop starts at the first entry.
Publish(k) ==
  /\ CodeRuns
  /\ Len(calls) < MaxPublishes
  /\ calls' = Append(Counted,
       [key |-> k, i |-> 1, inCallback |-> FALSE, ops |-> 0,
        due |-> {s.data : s \in {subs[j] : j \in {n \in DOMAIN subs : subs[n].key = k}}},
        got |-> {}, cuts |-> 0])
  /\ UNCHANGED subs

InLoop == calls # <<>> /\ ~TopWalk.inCallback

\* The entry at i does not match: i++.
Skip ==
  /\ InLoop /\ TopWalk.i <= Len(subs) /\ subs[TopWalk.i].key # TopWalk.key
  /\ calls' = [calls EXCEPT ![Len(calls)].i = @ + 1]
  /\ UNCHANGED subs

\* The entry at i matches and is called.
Call ==
  /\ InLoop /\ TopWalk.i <= Len(subs) /\ subs[TopWalk.i].key = TopWalk.key
  /\ calls' = [calls EXCEPT ![Len(calls)].inCallback = TRUE,
                            ![Len(calls)].ops = 0,
                            ![Len(calls)].got = @ \cup {subs[TopWalk.i].data}]
  /\ UNCHANGED subs

\* Mutant of CallbackReturn: the slot is looked at again when another entry has
\* moved into it.
CallbackReturnRevisits ==
  /\ calls # <<>> /\ TopWalk.inCallback
  /\ calls' = [calls EXCEPT ![Len(calls)].inCallback = FALSE,
                            ![Len(calls)].i =
                               IF @ <= Len(subs) /\ subs[@].data \notin TopWalk.got THEN @ ELSE @ + 1]
  /\ UNCHANGED subs

\* The callback returns to the loop: i++.
CallbackReturn ==
  /\ calls # <<>> /\ TopWalk.inCallback
  /\ calls' = [calls EXCEPT ![Len(calls)].inCallback = FALSE,
                            ![Len(calls)].i = @ + 1]
  /\ UNCHANGED subs

\* Mutant of Return: the loop stops one entry early.
ReturnEarly ==
  /\ InLoop /\ TopWalk.i >= Len(subs)
  /\ calls' = SubSeq(calls, 1, Len(calls) - 1)
  /\ UNCHANGED subs

\* The loop has passed the last entry: egw_bus_publish returns.
Return ==
  /\ InLoop /\ TopWalk.i > Len(subs)
  /\ calls' = SubSeq(calls, 1, Len(calls) - 1)
  /\ UNCHANGED subs

BusNext == \/ \E k \in Keys, c \in Callbacks : Subscribe(k, c) \/ Unsubscribe(k, c)
           \/ \E k \in Keys : Publish(k)
           \/ Skip \/ Call \/ CallbackReturn \/ Return

\* The loop runs on its own thread and callbacks return ("must not block").
Fairness == /\ WF_bus_vars(Skip) /\ WF_bus_vars(Call)
            /\ WF_bus_vars(CallbackReturn) /\ WF_bus_vars(Return)

BusSpec == BusInit /\ [][BusNext]_bus_vars /\ Fairness

-----------------------------------------------------------------------------
\* The first entry a walk has not visited yet.
Ahead(f) == IF f.inCallback THEN f.i + 1 ELSE f.i

\* No subscription is called twice by one publish, whatever the callbacks it
\* called did to the array: what is still ahead of the loop was never called.
NobodyCalledTwice ==
  \A n \in DOMAIN calls : \A j \in Ahead(calls[n])..Len(subs) :
    subs[j].data \notin calls[n].got

\* egw_bus.h promises that publish calls every matching subscriber.  When it
\* returns it has done so, except that each unsubscription of an entry it had
\* already passed may have hidden one: the last entry, moved behind the loop.
MissedOnlyThroughGaps ==
  [][Len(calls') < Len(calls) => Cardinality(TopWalk.due \ TopWalk.got) <= TopWalk.cuts]_bus_vars

\* Every publish returns, also when its callbacks keep subscribing new
\* matching callbacks while the loop runs: the capacity stops them.
PublishReturns == calls # <<>> ~> calls = <<>>
=============================================================================
