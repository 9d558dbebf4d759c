----------------------------- MODULE CoreProofs -----------------------------
(***************************************************************************)
(* Theorems about the modules of src/core: EventBus, for every capacity of *)
(* the subscription array, any keys and callbacks, and publishes nested to *)
(* any depth; StateMachine, for any set of states and dispatches nested to *)
(* any depth; Config, for any set of files and paths, every width of the   *)
(* integers, and a file rewritten any number of times.                     *)
(***************************************************************************)
EXTENDS EventBus, StateMachine, Config, FiniteSetTheorems, TLAPS

-----------------------------------------------------------------------------
(* The event bus. *)

-----------------------------------------------------------------------------
(* The inductive invariant.  Its parts are about an array s and one walk f. *)

LiveIn(s) == {s[j].data : j \in DOMAIN s}

\* The data pointers tell the subscriptions apart.
Distinct(s) == \A j, k \in DOMAIN s : s[j].data = s[k].data => j = k

\* The subscriptions walk f still owes a call although it has passed them.
Missed(f, s) == {d \in f.due \ f.got : \E j \in DOMAIN s : j < Ahead(f) /\ s[j].data = d}

\* What a walk has called and still owes is in the array, what it owes matches,
\* nothing ahead of it was called, and it misses no more than entries were cut.
WalkOK(f, s) ==
  /\ f.due \subseteq LiveIn(s) /\ f.got \subseteq LiveIn(s)
  /\ \A j \in DOMAIN s : s[j].data \in f.due => s[j].key = f.key
  /\ \A j \in Ahead(f)..Len(s) : s[j].data \notin f.got
  /\ Cardinality(Missed(f, s)) <= f.cuts

BusIInv == /\ BusTypeOK
           /\ Distinct(subs)
           /\ \A n \in DOMAIN calls : n < Len(calls) => calls[n].inCallback
           /\ \A n \in DOMAIN calls : WalkOK(calls[n], subs)

-----------------------------------------------------------------------------
(* Cardinalities. *)

\* Every set of data pointers is finite.
LEMMA DataFinite ==
  ASSUME NEW S, S \subseteq Data
  PROVE  IsFiniteSet(S) /\ Cardinality(S) \in Nat
BY FS_Subset, FS_CardinalityType, BusAssumption

\* There are no more data pointers in the array than entries.
LEMMA LiveBound ==
  ASSUME NEW s \in Seq(Sub)
  PROVE  IsFiniteSet(LiveIn(s)) /\ Cardinality(LiveIn(s)) <= Len(s) /\ LiveIn(s) \subseteq Data
<1> DEFINE f == [j \in DOMAIN s |-> s[j].data]
<1>1. f \in Surjection(DOMAIN s, LiveIn(s))
  BY DEF Surjection, LiveIn
<1>2. DOMAIN s = 1..Len(s) /\ Len(s) \in Nat
  OBVIOUS
<1>3. IsFiniteSet(DOMAIN s) /\ Cardinality(DOMAIN s) = Len(s)
  BY <1>2, FS_Interval
<1>4. IsFiniteSet(LiveIn(s)) /\ Cardinality(LiveIn(s)) <= Len(s)
  BY <1>1, <1>3, FS_Surjection
<1>5. LiveIn(s) \subseteq Data
  <2>1. \A j \in DOMAIN s : s[j] \in Sub
    OBVIOUS
  <2>2. \A x \in Sub : x.data \in Data
    BY DEF Sub
  <2> QED BY <2>1, <2>2 DEF LiveIn
<1> QED BY <1>4, <1>5

\* While the array has room there is an unused data pointer.
LEMMA FreshIsNew ==
  ASSUME subs \in Seq(Sub), Len(subs) < MAX_SUBS
  PROVE  Fresh \in Data /\ Fresh \notin LiveIn(subs)
<1>1. LiveIn(subs) \subseteq Data /\ Cardinality(LiveIn(subs)) <= Len(subs)
  BY LiveBound
<1>2. Cardinality(LiveIn(subs)) \in Nat /\ Cardinality(Data) \in Nat
  BY <1>1, DataFinite
<1>3. LiveIn(subs) /= Data
  BY <1>1, <1>2, BusAssumption
<1>4. Live = LiveIn(subs)
  BY DEF Live, LiveIn
<1>5. \E d \in Data : d \notin Live
  BY <1>1, <1>3, <1>4
<1> QED BY <1>4, <1>5 DEF Fresh

-----------------------------------------------------------------------------
(* What the operations on the array do to a walk over it. *)

\* Missed subscriptions are data pointers of the array.
LEMMA MissedBound ==
  ASSUME NEW s \in Seq(Sub), NEW f
  PROVE  /\ Missed(f, s) \subseteq LiveIn(s)
         /\ IsFiniteSet(Missed(f, s)) /\ Cardinality(Missed(f, s)) \in Nat
         /\ Cardinality(Missed(f, s)) <= Len(s)
<1>1. Missed(f, s) \subseteq LiveIn(s)
  BY DEF Missed, LiveIn
<1>2. IsFiniteSet(LiveIn(s)) /\ Cardinality(LiveIn(s)) <= Len(s) /\ LiveIn(s) \subseteq Data
  BY LiveBound
<1>3. /\ IsFiniteSet(Missed(f, s)) /\ Cardinality(Missed(f, s)) \in Nat
      /\ Cardinality(LiveIn(s)) \in Nat
  BY <1>1, <1>2, DataFinite
<1>4. Cardinality(Missed(f, s)) <= Cardinality(LiveIn(s))
  BY <1>1, <1>2, FS_Subset
<1>5. Len(s) \in Nat
  OBVIOUS
<1> QED BY <1>1, <1>2, <1>3, <1>4, <1>5

\* A walk that misses no more than another one, after no fewer cuts.
LEMMA FewerMissed ==
  ASSUME NEW s \in Seq(Sub), NEW t \in Seq(Sub), NEW f \in WalkFrame, NEW g \in WalkFrame,
         Missed(g, t) \subseteq Missed(f, s), f.cuts <= g.cuts,
         Cardinality(Missed(f, s)) <= f.cuts
  PROVE  Cardinality(Missed(g, t)) <= g.cuts
<1>1. Cardinality(Missed(g, t)) <= Cardinality(Missed(f, s))
  BY MissedBound, FS_Subset
<1>2. /\ Cardinality(Missed(f, s)) \in Nat /\ Cardinality(Missed(g, t)) \in Nat
      /\ f.cuts \in Int /\ g.cuts \in Int
  BY MissedBound DEF WalkFrame
<1> QED BY <1>1, <1>2

\* The operation counter is no concern of the walk.
LEMMA WalkOps ==
  ASSUME NEW s, NEW f, NEW g, WalkOK(f, s), Ahead(g) = Ahead(f),
         g.key = f.key, g.due = f.due, g.got = f.got, g.cuts = f.cuts
  PROVE  WalkOK(g, s)
<1>1. Missed(g, s) = Missed(f, s)
  BY DEF Missed
<1> QED BY <1>1 DEF WalkOK

\* A new entry at the end, with a data pointer that is not in use.
LEMMA WalkAppend ==
  ASSUME NEW s \in Seq(Sub), NEW f \in WalkFrame, NEW x \in Sub, x.data \notin LiveIn(s), WalkOK(f, s)
  PROVE  WalkOK(f, Append(s, x))
<1> DEFINE t == Append(s, x)
<1>1. /\ t \in Seq(Sub) /\ Len(s) \in Nat /\ Len(t) = Len(s) + 1
      /\ DOMAIN s = 1..Len(s) /\ DOMAIN t = 1..Len(s) + 1
      /\ \A j \in 1..Len(s) : t[j] = s[j]
      /\ t[Len(s) + 1] = x
  OBVIOUS
<1> HIDE DEF t
<1>2. \A j \in DOMAIN t : (j \in DOMAIN s /\ t[j] = s[j]) \/ (j = Len(s) + 1 /\ t[j] = x)
  BY <1>1
<1>3. \A j \in DOMAIN s : j \in DOMAIN t /\ t[j] = s[j]
  BY <1>1
<1>4. LiveIn(s) \subseteq LiveIn(t)
  BY <1>3 DEF LiveIn
<1>5. \A j \in DOMAIN t : t[j].data \in f.due => t[j].key = f.key
  BY <1>2 DEF WalkOK
<1>6. \A j \in Ahead(f)..Len(t) : t[j].data \notin f.got
  <2>1. Ahead(f) \in Nat \ {0}
    BY DEF Ahead, WalkFrame
  <2>2. \A j \in Ahead(f)..Len(t) : (j \in Ahead(f)..Len(s) /\ j \in DOMAIN s) \/ j = Len(s) + 1
    BY <1>1, <2>1
  <2> QED BY <1>1, <1>3, <2>2 DEF WalkOK
<1>7. Missed(f, t) \subseteq Missed(f, s)
  <2> SUFFICES ASSUME NEW d \in f.due \ f.got, NEW j \in DOMAIN t, j < Ahead(f), t[j].data = d
               PROVE  j \in DOMAIN s /\ s[j].data = d
    BY DEF Missed
  <2>1. d \in LiveIn(s)
    BY DEF WalkOK
  <2> QED BY <1>2, <2>1
<1>8. Cardinality(Missed(f, t)) <= f.cuts
  <2>1. f.cuts \in Int
    BY DEF WalkFrame
  <2> QED BY <1>1, <1>7, <2>1, FewerMissed DEF WalkOK
<1> QED BY <1>4, <1>5, <1>6, <1>8 DEF WalkOK, t

\* Overwriting entry j by the last one.
LEMMA SwapFacts ==
  ASSUME NEW s \in Seq(Sub), NEW j \in DOMAIN s
  PROVE  LET t == SwapRemove(s, j)
         IN  /\ t \in Seq(Sub) /\ Len(s) \in Nat \ {0} /\ Len(t) = Len(s) - 1
             /\ DOMAIN s = 1..Len(s) /\ DOMAIN t = 1..Len(s) - 1
             /\ \A k \in DOMAIN t : k \in DOMAIN s /\ t[k] = IF k = j THEN s[Len(s)] ELSE s[k]
<1> DEFINE u == [s EXCEPT ![j] = s[Len(s)]]
<1>1. Len(s) \in Nat \ {0} /\ DOMAIN s = 1..Len(s) /\ Len(s) \in DOMAIN s
  OBVIOUS
<1>2. /\ u \in Seq(Sub) /\ Len(u) = Len(s)
      /\ \A k \in DOMAIN s : u[k] = IF k = j THEN s[Len(s)] ELSE s[k]
  BY <1>1
<1> HIDE DEF u
<1>3. /\ SubSeq(u, 1, Len(s) - 1) \in Seq(Sub) /\ Len(SubSeq(u, 1, Len(s) - 1)) = Len(s) - 1
      /\ \A k \in 1..Len(s) - 1 : SubSeq(u, 1, Len(s) - 1)[k] = u[k]
  BY <1>1, <1>2
<1> QED BY <1>1, <1>2, <1>3 DEF SwapRemove, u

\* Swapping keeps the data pointers apart and takes out exactly that of entry j.
LEMMA SwapLive ==
  ASSUME NEW s \in Seq(Sub), NEW j \in DOMAIN s, Distinct(s)
  PROVE  /\ Distinct(SwapRemove(s, j))
         /\ LiveIn(SwapRemove(s, j)) = LiveIn(s) \ {s[j].data}
<1> DEFINE t == SwapRemove(s, j)
<1>1. /\ Len(s) \in Nat \ {0} /\ DOMAIN s = 1..Len(s) /\ DOMAIN t = 1..Len(s) - 1
      /\ \A k \in DOMAIN t : k \in DOMAIN s /\ t[k] = IF k = j THEN s[Len(s)] ELSE s[k]
  BY SwapFacts
<1> HIDE DEF t
<1>2. Len(s) \in DOMAIN s /\ \A k \in DOMAIN t : k /= Len(s)
  BY <1>1
<1>3. Distinct(t)
  BY <1>1, <1>2 DEF Distinct
<1>4. LiveIn(t) \subseteq LiveIn(s) \ {s[j].data}
  BY <1>1, <1>2 DEF LiveIn, Distinct
<1>5. ASSUME NEW k \in DOMAIN s, s[k].data /= s[j].data PROVE s[k].data \in LiveIn(t)
  <2>1. k /= j
    BY <1>5
  <2>2. CASE k = Len(s)
    <3>1. j \in DOMAIN t /\ t[j] = s[k]
      BY <1>1, <2>1, <2>2
    <3> QED BY <3>1 DEF LiveIn
  <2>3. CASE k /= Len(s)
    <3>1. k \in DOMAIN t /\ t[k] = s[k]
      BY <1>1, <2>1, <2>3
    <3> QED BY <3>1 DEF LiveIn
  <2> QED BY <2>2, <2>3
<1>6. LiveIn(s) \ {s[j].data} \subseteq LiveIn(t)
  BY <1>5 DEF LiveIn
<1> QED BY <1>3, <1>4, <1>6 DEF t

\* Entry j is unsubscribed while walk f is inside a callback: f may miss one
\* subscription more, the one that moves from the end of the array to index j,
\* and then the cut is counted.
LEMMA WalkForget ==
  ASSUME NEW s \in Seq(Sub), Len(s) <= MAX_SUBS, Distinct(s), NEW j \in DOMAIN s,
         NEW f \in WalkFrame, f.inCallback, WalkOK(f, s), NEW g \in WalkFrame,
         g.key = f.key, g.i = f.i, g.inCallback,
         g.due = f.due \ {s[j].data}, g.got = f.got \ {s[j].data},
         g.cuts = IF j <= f.i /\ f.cuts < MAX_SUBS THEN f.cuts + 1 ELSE f.cuts
  PROVE  WalkOK(g, SwapRemove(s, j))
<1> DEFINE t == SwapRemove(s, j)
           final == s[Len(s)].data
<1>1. /\ t \in Seq(Sub) /\ Len(s) \in Nat \ {0} /\ Len(t) = Len(s) - 1
      /\ DOMAIN s = 1..Len(s) /\ DOMAIN t = 1..Len(s) - 1
      /\ \A k \in DOMAIN t : k \in DOMAIN s /\ t[k] = IF k = j THEN s[Len(s)] ELSE s[k]
  BY SwapFacts
<1>2. LiveIn(t) = LiveIn(s) \ {s[j].data}
  BY SwapLive
<1> HIDE DEF t
<1>3. /\ f.i \in Nat \ {0} /\ Ahead(f) = f.i + 1 /\ Ahead(g) = f.i + 1
      /\ f.cuts \in 0..MAX_SUBS /\ g.cuts \in 0..MAX_SUBS /\ MAX_SUBS \in Nat
      /\ Len(s) \in DOMAIN s
  BY <1>1, BusAssumption DEF WalkFrame, Ahead
<1>4. g.due \subseteq LiveIn(t) /\ g.got \subseteq LiveIn(t)
  BY <1>2 DEF WalkOK
<1>5. \A k \in DOMAIN t : t[k].data \in g.due => t[k].key = g.key
  BY <1>1, <1>3 DEF WalkOK
<1>6. \A k \in Ahead(g)..Len(t) : t[k].data \notin g.got
  <2> SUFFICES ASSUME NEW k \in Ahead(g)..Len(t) PROVE t[k].data \notin g.got
    OBVIOUS
  <2>1. k \in DOMAIN t /\ k \in Ahead(f)..Len(s) /\ Len(s) \in Ahead(f)..Len(s)
    BY <1>1, <1>3
  <2>2. t[k] = s[k] \/ t[k] = s[Len(s)]
    BY <1>1, <2>1
  <2> QED BY <2>1, <2>2 DEF WalkOK
<1>7. Missed(g, t) \subseteq Missed(f, s) \cup (IF j <= f.i THEN {final} ELSE {})
  <2> SUFFICES ASSUME NEW d \in g.due \ g.got, NEW k \in DOMAIN t, k < Ahead(g), t[k].data = d
               PROVE  d \in Missed(f, s) \cup (IF j <= f.i THEN {final} ELSE {})
    BY DEF Missed
  <2>1. d \in f.due \ f.got
    OBVIOUS
  <2>2. CASE k = j
    <3>1. d = final /\ j <= f.i
      BY <1>1, <1>3, <2>2
    <3> QED BY <3>1
  <2>3. CASE k /= j
    <3>1. k \in DOMAIN s /\ s[k].data = d /\ k < Ahead(f)
      BY <1>1, <1>3, <2>3
    <3> QED BY <2>1, <3>1 DEF Missed
  <2> QED BY <2>2, <2>3
<1>8. /\ IsFiniteSet(Missed(f, s)) /\ Cardinality(Missed(f, s)) \in Nat
      /\ Cardinality(Missed(g, t)) \in Nat /\ Cardinality(Missed(g, t)) <= Len(t)
  BY <1>1, MissedBound
<1>9. Cardinality(Missed(f, s)) <= f.cuts
  BY DEF WalkOK
<1>10. Cardinality(Missed(g, t)) <= g.cuts
  <2>1. CASE j > f.i
    <3>1. g.cuts = f.cuts /\ ~(j <= f.i)
      BY <2>1, <1>1, <1>3
    <3>2. Missed(g, t) \subseteq Missed(f, s)
      BY <1>7, <3>1
    <3> QED BY <1>1, <1>3, <1>9, <3>1, <3>2, FewerMissed
  <2>2. CASE j <= f.i /\ f.cuts < MAX_SUBS
    <3>1. g.cuts = f.cuts + 1
      BY <2>2
    <3>2. Missed(g, t) \subseteq Missed(f, s) \cup {final}
      BY <1>7, <2>2
    <3>3. /\ IsFiniteSet(Missed(f, s) \cup {final})
          /\ Cardinality(Missed(f, s) \cup {final}) \in Nat
          /\ Cardinality(Missed(f, s) \cup {final}) <= Cardinality(Missed(f, s)) + 1
      <4> HIDE DEF final
      <4>1. /\ IsFiniteSet(Missed(f, s) \cup {final})
            /\ Cardinality(Missed(f, s) \cup {final}) =
                 IF final \in Missed(f, s) THEN Cardinality(Missed(f, s))
                                          ELSE Cardinality(Missed(f, s)) + 1
        BY <1>8, FS_AddElement
      <4> QED BY <1>8, <4>1
    <3>4. Cardinality(Missed(g, t)) <= Cardinality(Missed(f, s) \cup {final})
      BY <3>2, <3>3, FS_Subset
    <3> QED BY <1>3, <1>8, <1>9, <3>1, <3>3, <3>4
  <2>3. CASE j <= f.i /\ ~(f.cuts < MAX_SUBS)
    <3>1. g.cuts = MAX_SUBS
      BY <2>3, <1>3
    <3> QED BY <1>1, <1>3, <1>8, <3>1
  <2>4. j \in Int
    BY <1>1
  <2> QED BY <1>3, <2>1, <2>2, <2>3, <2>4
<1> QED BY <1>4, <1>5, <1>6, <1>10 DEF WalkOK, t

\* The walk calls the entry at its index.
LEMMA WalkCall ==
  ASSUME NEW s \in Seq(Sub), Distinct(s), NEW f \in WalkFrame, ~f.inCallback, WalkOK(f, s),
         f.i <= Len(s), NEW g \in WalkFrame, g.key = f.key, g.i = f.i, g.inCallback,
         g.due = f.due, g.got = f.got \cup {s[f.i].data}, g.cuts = f.cuts
  PROVE  WalkOK(g, s)
<1>1. /\ f.i \in DOMAIN s /\ f.i \in Nat \ {0} /\ DOMAIN s = 1..Len(s) /\ Len(s) \in Nat
      /\ Ahead(f) = f.i /\ Ahead(g) = f.i + 1 /\ f.cuts \in Int
  BY DEF WalkFrame, Ahead
<1>2. g.got \subseteq LiveIn(s)
  BY <1>1 DEF WalkOK, LiveIn
<1>3. \A j \in Ahead(g)..Len(s) : j \in DOMAIN s /\ j \in Ahead(f)..Len(s) /\ j /= f.i
  BY <1>1
<1>4. \A j \in Ahead(g)..Len(s) : s[j].data \notin g.got
  BY <1>1, <1>3 DEF WalkOK, Distinct
<1>5. Missed(g, s) \subseteq Missed(f, s)
  <2> SUFFICES ASSUME NEW d \in g.due \ g.got, NEW j \in DOMAIN s, j < Ahead(g), s[j].data = d
               PROVE  d \in f.due \ f.got /\ j < Ahead(f)
    BY DEF Missed
  <2>1. j /= f.i
    OBVIOUS
  <2> QED BY <1>1, <2>1
<1>6. Cardinality(Missed(g, s)) <= g.cuts
  BY <1>1, <1>5, FewerMissed DEF WalkOK
<1> QED BY <1>2, <1>4, <1>6 DEF WalkOK

\* The walk passes an entry that does not match.
LEMMA WalkSkip ==
  ASSUME NEW s \in Seq(Sub), NEW f \in WalkFrame, ~f.inCallback, WalkOK(f, s),
         f.i <= Len(s), s[f.i].key /= f.key,
         NEW g \in WalkFrame, g.key = f.key, g.i = f.i + 1, ~g.inCallback,
         g.due = f.due, g.got = f.got, g.cuts = f.cuts
  PROVE  WalkOK(g, s)
<1>1. /\ f.i \in DOMAIN s /\ f.i \in Nat \ {0} /\ DOMAIN s = 1..Len(s) /\ Len(s) \in Nat
      /\ Ahead(f) = f.i /\ Ahead(g) = f.i + 1 /\ f.cuts \in Int
  BY DEF WalkFrame, Ahead
<1>2. s[f.i].data \notin f.due
  BY <1>1 DEF WalkOK
<1>3. \A j \in Ahead(g)..Len(s) : j \in Ahead(f)..Len(s)
  BY <1>1
<1>4. Missed(g, s) \subseteq Missed(f, s)
  <2> SUFFICES ASSUME NEW d \in g.due \ g.got, NEW j \in DOMAIN s, j < Ahead(g), s[j].data = d
               PROVE  d \in f.due \ f.got /\ j < Ahead(f)
    BY DEF Missed
  <2>1. j /= f.i
    BY <1>2
  <2> QED BY <1>1, <2>1
<1>5. Cardinality(Missed(g, s)) <= g.cuts
  BY <1>1, <1>4, FewerMissed DEF WalkOK
<1> QED BY <1>3, <1>5 DEF WalkOK

\* A walk that begins owes a call to every matching entry and has missed none.
LEMMA WalkNew ==
  ASSUME NEW s \in Seq(Sub), Distinct(s), NEW g \in WalkFrame, g.i = 1, ~g.inCallback,
         g.due = {s[j].data : j \in {n \in DOMAIN s : s[n].key = g.key}},
         g.got = {}, g.cuts = 0
  PROVE  WalkOK(g, s)
<1>1. Ahead(g) = 1 /\ DOMAIN s = 1..Len(s) /\ Len(s) \in Nat
  BY DEF Ahead
<1>2. Missed(g, s) = {}
  BY <1>1 DEF Missed
<1>3. Cardinality(Missed(g, s)) <= g.cuts
  BY <1>2, FS_EmptySet
<1>4. \A j \in DOMAIN s : s[j].data \in g.due => s[j].key = g.key
  BY DEF Distinct
<1>5. g.due \subseteq LiveIn(s)
  BY DEF LiveIn
<1> QED BY <1>3, <1>4, <1>5 DEF WalkOK

-----------------------------------------------------------------------------
(* The steps. *)

\* One more operation of the innermost callback: the walks stand where they stood,
\* all of them inside a callback.
LEMMA CountedWalks ==
  ASSUME BusIInv, CodeRuns
  PROVE  /\ Counted \in Seq(WalkFrame) /\ Len(Counted) = Len(calls)
         /\ DOMAIN Counted = DOMAIN calls
         /\ \A n \in DOMAIN calls :
              /\ Counted[n] \in WalkFrame /\ Counted[n].inCallback
              /\ WalkOK(Counted[n], subs)
<1>1. CASE calls = <<>>
  BY <1>1 DEF Counted
<1>2. CASE calls /= <<>>
  <2> DEFINE top == [calls[Len(calls)] EXCEPT !.ops = @ + 1]
  <2>1. /\ calls \in Seq(WalkFrame) /\ Len(calls) \in Nat \ {0} /\ DOMAIN calls = 1..Len(calls)
        /\ Len(calls) \in DOMAIN calls
    BY <1>2 DEF BusIInv, BusTypeOK
  <2>2. \A n \in DOMAIN calls : calls[n] \in WalkFrame
    BY <2>1
  <2>3. TopWalk.inCallback /\ TopWalk.ops + Len(calls) <= MaxOps /\ TopWalk = calls[Len(calls)]
    BY <1>2 DEF CodeRuns, TopWalk
  <2>4. TopWalk \in WalkFrame
    BY <2>1, <2>2, <2>3
  <2>5. top \in WalkFrame
    <3>1. TopWalk.ops + 1 \in 0..MaxOps
      BY <2>1, <2>3, <2>4, BusAssumption DEF WalkFrame
    <3> QED BY <2>3, <2>4, <3>1 DEF WalkFrame
  <2>6. /\ top.key = TopWalk.key /\ top.i = TopWalk.i /\ top.inCallback = TopWalk.inCallback
        /\ top.due = TopWalk.due /\ top.got = TopWalk.got /\ top.cuts = TopWalk.cuts
    BY <2>3, <2>4 DEF WalkFrame
  <2>7. Counted = [calls EXCEPT ![Len(calls)] = top]
    BY <1>2 DEF Counted
  <2> HIDE DEF top
  <2>8. /\ Counted \in Seq(WalkFrame) /\ Len(Counted) = Len(calls) /\ DOMAIN Counted = DOMAIN calls
        /\ \A n \in DOMAIN calls : Counted[n] = IF n = Len(calls) THEN top ELSE calls[n]
    BY <2>1, <2>5, <2>7
  <2>9. ASSUME NEW n \in DOMAIN calls
        PROVE  Counted[n] \in WalkFrame /\ Counted[n].inCallback /\ WalkOK(Counted[n], subs)
    <3>1. WalkOK(calls[n], subs)
      BY DEF BusIInv
    <3>2. CASE n = Len(calls)
      <4>1. Ahead(top) = Ahead(TopWalk)
        BY <2>6 DEF Ahead
      <4>2. WalkOK(top, subs)
        BY <2>3, <2>6, <3>1, <3>2, <4>1, WalkOps
      <4> QED BY <2>3, <2>5, <2>6, <2>8, <3>2, <4>2
    <3>3. CASE n /= Len(calls)
      <4>1. n < Len(calls)
        BY <2>1, <3>3
      <4> QED BY <2>2, <2>8, <3>1, <3>3, <4>1 DEF BusIInv
    <3> QED BY <3>2, <3>3
  <2> QED BY <2>8, <2>9
<1> QED BY <1>1, <1>2

\* A new subscription.
LEMMA SubscribeStep ==
  ASSUME BusIInv, NEW k \in Keys, NEW c \in Callbacks, Subscribe(k, c)
  PROVE  BusIInv'
<1>1. /\ calls' \in Seq(WalkFrame) /\ Len(calls') = Len(calls) /\ DOMAIN calls' = DOMAIN calls
      /\ \A n \in DOMAIN calls :
           calls'[n] \in WalkFrame /\ calls'[n].inCallback /\ WalkOK(calls'[n], subs)
  BY CountedWalks DEF Subscribe
<1>2. /\ subs \in Seq(Sub) /\ Len(subs) \in Nat /\ Len(subs) <= MAX_SUBS /\ Distinct(subs)
      /\ Len(calls) <= MaxPublishes /\ MAX_SUBS \in Nat
  BY BusAssumption DEF BusIInv, BusTypeOK
<1>3. CASE Len(subs) >= MAX_SUBS
  <2>1. subs' = subs
    BY <1>3 DEF Subscribe
  <2> QED BY <1>1, <1>2, <2>1 DEF BusIInv, BusTypeOK
<1>4. CASE Len(subs) < MAX_SUBS
  <2> DEFINE x == [key |-> k, cb |-> c, data |-> Fresh]
  <2>1. subs' = Append(subs, x)
    BY <1>2, <1>4 DEF Subscribe
  <2>2. Fresh \in Data /\ Fresh \notin LiveIn(subs)
    BY <1>2, <1>4, FreshIsNew
  <2>3. x \in Sub /\ x.data \notin LiveIn(subs)
    BY <2>2 DEF Sub
  <2> HIDE DEF x
  <2>4. /\ subs' \in Seq(Sub) /\ Len(subs') = Len(subs) + 1
        /\ DOMAIN subs' = 1..Len(subs) + 1 /\ DOMAIN subs = 1..Len(subs)
        /\ \A j \in 1..Len(subs) : subs'[j] = subs[j]
        /\ subs'[Len(subs) + 1] = x
    BY <1>2, <2>1, <2>3
  <2>5. Distinct(subs')
    <3>1. \A j \in DOMAIN subs' : (j \in DOMAIN subs /\ subs'[j] = subs[j])
                               \/ (j = Len(subs) + 1 /\ subs'[j] = x)
      BY <1>2, <2>4
    <3>2. \A j \in DOMAIN subs : subs[j].data /= x.data
      BY <2>3 DEF LiveIn
    <3> QED BY <1>2, <3>1, <3>2 DEF Distinct
  <2>6. \A n \in DOMAIN calls : WalkOK(calls'[n], subs')
    BY <1>1, <1>2, <2>1, <2>3, WalkAppend
  <2> QED BY <1>1, <1>2, <1>4, <2>4, <2>5, <2>6 DEF BusIInv, BusTypeOK
<1> QED BY <1>2, <1>3, <1>4

\* An unsubscription, by swapping in the last entry.
LEMMA UnsubscribeStep ==
  ASSUME BusIInv, NEW k \in Keys, NEW c \in Callbacks, Unsubscribe(k, c)
  PROVE  BusIInv'
<1>1. /\ Counted \in Seq(WalkFrame) /\ Len(Counted) = Len(calls) /\ DOMAIN Counted = DOMAIN calls
      /\ \A n \in DOMAIN calls :
           Counted[n] \in WalkFrame /\ Counted[n].inCallback /\ WalkOK(Counted[n], subs)
  BY CountedWalks DEF Unsubscribe
<1>2. /\ subs \in Seq(Sub) /\ Len(subs) \in Nat /\ Len(subs) <= MAX_SUBS /\ Distinct(subs)
      /\ Len(calls) <= MaxPublishes /\ MAX_SUBS \in Nat
  BY BusAssumption DEF BusIInv, BusTypeOK
<1>3. CASE subs' = subs /\ calls' = Counted
  BY <1>1, <1>2, <1>3 DEF BusIInv, BusTypeOK
<1>4. ASSUME NEW j \in Matches(k, c), subs' = SwapRemove(subs, j), calls' = Forget(Counted, j)
      PROVE  BusIInv'
  <2>1. j \in DOMAIN subs
    BY DEF Matches
  <2>2. subs' \in Seq(Sub) /\ Len(subs') = Len(subs) - 1 /\ Distinct(subs')
    BY <1>2, <1>4, <2>1, SwapFacts, SwapLive
  <2> DEFINE W(f) == [f EXCEPT !.due = @ \ {subs[j].data}, !.got = @ \ {subs[j].data},
                               !.cuts = IF j <= f.i /\ @ < MAX_SUBS THEN @ + 1 ELSE @]
  <2>3. ASSUME NEW f \in WalkFrame
        PROVE  /\ W(f) \in WalkFrame
               /\ W(f).key = f.key /\ W(f).i = f.i /\ W(f).inCallback = f.inCallback
               /\ W(f).due = f.due \ {subs[j].data} /\ W(f).got = f.got \ {subs[j].data}
               /\ W(f).cuts = IF j <= f.i /\ f.cuts < MAX_SUBS THEN f.cuts + 1 ELSE f.cuts
    <3>1. (IF j <= f.i /\ f.cuts < MAX_SUBS THEN f.cuts + 1 ELSE f.cuts) \in 0..MAX_SUBS
      BY <1>2 DEF WalkFrame
    <3> QED BY <3>1 DEF WalkFrame
  <2>4. calls' = [n \in DOMAIN calls |-> W(Counted[n])]
    BY <1>1, <1>4 DEF Forget
  <2> HIDE DEF W
  <2>5. \A n \in DOMAIN calls :
          /\ calls'[n] = W(Counted[n]) /\ calls'[n] \in WalkFrame /\ calls'[n].inCallback
    BY <1>1, <2>3, <2>4
  <2>6. calls \in Seq(WalkFrame) /\ DOMAIN calls = 1..Len(calls) /\ Len(calls) \in Nat
    BY DEF BusIInv, BusTypeOK
  <2>7. calls' \in Seq(WalkFrame) /\ Len(calls') = Len(calls) /\ DOMAIN calls' = DOMAIN calls
    BY <2>4, <2>5, <2>6
  <2>8. ASSUME NEW n \in DOMAIN calls PROVE WalkOK(calls'[n], subs')
    <3> DEFINE f == Counted[n]
               g == W(f)
    <3>1. f \in WalkFrame /\ f.inCallback /\ WalkOK(f, subs)
      BY <1>1
    <3> HIDE DEF f
    <3>2. /\ g \in WalkFrame /\ g.key = f.key /\ g.i = f.i /\ g.inCallback
          /\ g.due = f.due \ {subs[j].data} /\ g.got = f.got \ {subs[j].data}
          /\ g.cuts = IF j <= f.i /\ f.cuts < MAX_SUBS THEN f.cuts + 1 ELSE f.cuts
      BY <2>3, <3>1
    <3> HIDE DEF g
    <3>3. WalkOK(g, SwapRemove(subs, j))
      BY <1>2, <2>1, <3>1, <3>2, WalkForget
    <3> QED BY <1>4, <2>5, <3>3 DEF f, g
  <2> QED BY <1>2, <2>2, <2>5, <2>7, <2>8 DEF BusIInv, BusTypeOK
<1> QED BY <1>3, <1>4 DEF Unsubscribe

\* A publish begins.
LEMMA PublishStep ==
  ASSUME BusIInv, NEW k \in Keys, Publish(k)
  PROVE  BusIInv'
<1> DEFINE g == [key |-> k, i |-> 1, inCallback |-> FALSE, ops |-> 0,
                 due |-> {s.data : s \in {subs[j] : j \in {n \in DOMAIN subs : subs[n].key = k}}},
                 got |-> {}, cuts |-> 0]
<1>1. /\ Counted \in Seq(WalkFrame) /\ Len(Counted) = Len(calls) /\ DOMAIN Counted = DOMAIN calls
      /\ \A n \in DOMAIN calls :
           Counted[n] \in WalkFrame /\ Counted[n].inCallback /\ WalkOK(Counted[n], subs)
  BY CountedWalks DEF Publish
<1>2. /\ subs \in Seq(Sub) /\ Len(subs) <= MAX_SUBS /\ Distinct(subs)
      /\ calls \in Seq(WalkFrame) /\ Len(calls) \in Nat /\ DOMAIN calls = 1..Len(calls)
      /\ Len(calls) < MaxPublishes /\ MaxPublishes \in Nat
  BY BusAssumption DEF BusIInv, BusTypeOK, Publish
<1>3. g.due = {subs[j].data : j \in {n \in DOMAIN subs : subs[n].key = k}}
  OBVIOUS
<1>4. g.due \subseteq Data
  <2>1. LiveIn(subs) \subseteq Data
    BY <1>2, LiveBound
  <2> QED BY <1>3, <2>1 DEF LiveIn
<1>5. g \in WalkFrame
  BY <1>4, BusAssumption DEF WalkFrame
<1>6. g.key = k /\ g.i = 1 /\ ~g.inCallback /\ g.got = {} /\ g.cuts = 0
  OBVIOUS
<1>7. calls' = Append(Counted, g) /\ subs' = subs
  BY DEF Publish
<1> HIDE DEF g
<1>8. WalkOK(g, subs)
  BY <1>2, <1>3, <1>5, <1>6, WalkNew
<1>9. /\ calls' \in Seq(WalkFrame) /\ Len(calls') = Len(calls) + 1
      /\ DOMAIN calls' = 1..Len(calls) + 1
      /\ \A n \in 1..Len(calls) : calls'[n] = Counted[n]
      /\ calls'[Len(calls) + 1] = g
  BY <1>1, <1>5, <1>7
<1>10. \A n \in DOMAIN calls' : n \in DOMAIN calls \/ n = Len(calls')
  BY <1>2, <1>9
<1>11. \A n \in DOMAIN calls' : n < Len(calls') => calls'[n].inCallback
  BY <1>1, <1>2, <1>9, <1>10
<1>12. \A n \in DOMAIN calls' : WalkOK(calls'[n], subs')
  BY <1>1, <1>2, <1>7, <1>8, <1>9, <1>10
<1> QED BY <1>2, <1>7, <1>9, <1>11, <1>12 DEF BusIInv, BusTypeOK

\* A step of the innermost walk that leaves the array alone.
LEMMA TopStep ==
  ASSUME BusIInv, calls /= <<>>, subs' = subs, NEW g \in WalkFrame, WalkOK(g, subs),
         calls' = [calls EXCEPT ![Len(calls)] = g]
  PROVE  BusIInv'
<1>1. /\ calls \in Seq(WalkFrame) /\ Len(calls) \in Nat \ {0} /\ DOMAIN calls = 1..Len(calls)
      /\ Len(calls) <= MaxPublishes
  BY DEF BusIInv, BusTypeOK
<1>2. /\ calls' \in Seq(WalkFrame) /\ Len(calls') = Len(calls) /\ DOMAIN calls' = DOMAIN calls
      /\ \A n \in DOMAIN calls : calls'[n] = IF n = Len(calls) THEN g ELSE calls[n]
  BY <1>1
<1>3. \A n \in DOMAIN calls' : n < Len(calls') => calls'[n].inCallback
  BY <1>1, <1>2 DEF BusIInv
<1>4. \A n \in DOMAIN calls' : WalkOK(calls'[n], subs')
  BY <1>1, <1>2 DEF BusIInv
<1> QED BY <1>1, <1>2, <1>3, <1>4 DEF BusIInv, BusTypeOK

\* What the invariant says of the innermost walk.
LEMMA TopFacts ==
  ASSUME BusIInv, calls /= <<>>
  PROVE  /\ TopWalk \in WalkFrame /\ WalkOK(TopWalk, subs) /\ TopWalk = calls[Len(calls)]
         /\ Len(calls) \in DOMAIN calls /\ calls \in Seq(WalkFrame)
         /\ subs \in Seq(Sub) /\ Distinct(subs)
BY DEF BusIInv, BusTypeOK, TopWalk

\* The walk goes one entry further, calls an entry, or comes back from a callback.
LEMMA WalkStep ==
  ASSUME BusIInv, Skip \/ Call \/ CallbackReturn
  PROVE  BusIInv'
<1> DEFINE f == TopWalk
<1>1. calls /= <<>> /\ subs' = subs
  BY DEF Skip, Call, CallbackReturn, InLoop
<1>2. /\ f \in WalkFrame /\ WalkOK(f, subs) /\ f = calls[Len(calls)] /\ Len(calls) \in DOMAIN calls
      /\ calls \in Seq(WalkFrame) /\ subs \in Seq(Sub) /\ Distinct(subs)
  BY <1>1, TopFacts
<1>3. CASE Skip
  <2> DEFINE g == [f EXCEPT !.i = @ + 1]
  <2>1. /\ g \in WalkFrame /\ g.key = f.key /\ g.i = f.i + 1 /\ g.inCallback = f.inCallback
        /\ g.due = f.due /\ g.got = f.got /\ g.cuts = f.cuts
    <3>1. f \in WalkFrame
      BY <1>2
    <3>2. f.i + 1 \in Nat \ {0}
      BY <3>1 DEF WalkFrame
    <3> HIDE DEF f
    <3> QED BY <3>1, <3>2 DEF WalkFrame
  <2>2. ~f.inCallback /\ f.i <= Len(subs) /\ subs[f.i].key /= f.key
    BY <1>3 DEF Skip, InLoop
  <2>3. calls' = [calls EXCEPT ![Len(calls)] = g]
    BY <1>2, <1>3 DEF Skip, TopWalk
  <2> HIDE DEF g, f
  <2>4. WalkOK(g, subs)
    BY <1>2, <2>1, <2>2, WalkSkip
  <2> QED BY <1>1, <2>1, <2>3, <2>4, TopStep
<1>4. CASE Call
  <2> DEFINE g == [f EXCEPT !.inCallback = TRUE, !.ops = 0, !.got = @ \cup {subs[f.i].data}]
  <2>1. ~f.inCallback /\ f.i <= Len(subs)
    BY <1>4 DEF Call, InLoop
  <2>2. subs[f.i].data \in Data
    <3>1. f.i \in DOMAIN subs
      BY <1>2, <2>1 DEF WalkFrame
    <3>2. LiveIn(subs) \subseteq Data
      BY <1>2, LiveBound
    <3> QED BY <3>1, <3>2 DEF LiveIn
  <2>3. /\ g \in WalkFrame /\ g.key = f.key /\ g.i = f.i /\ g.inCallback
        /\ g.due = f.due /\ g.got = f.got \cup {subs[f.i].data} /\ g.cuts = f.cuts
    <3>1. f \in WalkFrame
      BY <1>2
    <3>2. 0 \in 0..MaxOps
      BY BusAssumption
    <3> HIDE DEF f
    <3> QED BY <2>2, <3>1, <3>2 DEF WalkFrame
  <2>4. calls' = [calls EXCEPT ![Len(calls)] = g]
    BY <1>2, <1>4 DEF Call, TopWalk
  <2> HIDE DEF g, f
  <2>5. WalkOK(g, subs)
    BY <1>2, <2>1, <2>3, WalkCall
  <2> QED BY <1>1, <2>3, <2>4, <2>5, TopStep
<1>5. CASE CallbackReturn
  <2> DEFINE g == [f EXCEPT !.inCallback = FALSE, !.i = @ + 1]
  <2>1. f.inCallback
    BY <1>5 DEF CallbackReturn
  <2>2. /\ g \in WalkFrame /\ g.key = f.key /\ g.i = f.i + 1 /\ ~g.inCallback
        /\ g.due = f.due /\ g.got = f.got /\ g.cuts = f.cuts
    <3>1. f \in WalkFrame
      BY <1>2
    <3>2. f.i + 1 \in Nat \ {0}
      BY <3>1 DEF WalkFrame
    <3> HIDE DEF f
    <3> QED BY <3>1, <3>2 DEF WalkFrame
  <2>3. calls' = [calls EXCEPT ![Len(calls)] = g]
    BY <1>2, <1>5 DEF CallbackReturn, TopWalk
  <2> HIDE DEF g, f
  <2>4. Ahead(g) = Ahead(f)
    BY <2>1, <2>2 DEF Ahead
  <2>5. WalkOK(g, subs)
    BY <1>2, <2>2, <2>4, WalkOps
  <2> QED BY <1>1, <2>2, <2>3, <2>5, TopStep
<1> QED BY <1>3, <1>4, <1>5

\* A publish returns.
LEMMA ReturnStep ==
  ASSUME BusIInv, Return
  PROVE  BusIInv'
<1>1. calls /= <<>> /\ subs' = subs /\ calls' = SubSeq(calls, 1, Len(calls) - 1)
  BY DEF Return, InLoop
<1>2. /\ calls \in Seq(WalkFrame) /\ Len(calls) \in Nat \ {0} /\ DOMAIN calls = 1..Len(calls)
      /\ Len(calls) <= MaxPublishes /\ MaxPublishes \in Nat
  BY <1>1, BusAssumption DEF BusIInv, BusTypeOK
<1>3. /\ calls' \in Seq(WalkFrame) /\ Len(calls') = Len(calls) - 1
      /\ DOMAIN calls' = 1..Len(calls) - 1
      /\ \A n \in DOMAIN calls' : n \in DOMAIN calls /\ n < Len(calls) /\ calls'[n] = calls[n]
  BY <1>1, <1>2
<1>4. \A n \in DOMAIN calls' : calls'[n].inCallback /\ WalkOK(calls'[n], subs')
  BY <1>1, <1>3 DEF BusIInv
<1> QED BY <1>1, <1>2, <1>3, <1>4 DEF BusIInv, BusTypeOK

\* The invariant holds when the bus is created.
LEMMA BusInitInv == BusInit => BusIInv
<1> SUFFICES ASSUME BusInit PROVE BusIInv
  OBVIOUS
<1>1. subs = <<>> /\ calls = <<>> /\ MAX_SUBS \in Nat /\ MaxPublishes \in Nat
  BY BusAssumption DEF BusInit
<1> QED BY <1>1 DEF BusIInv, BusTypeOK, Distinct

\* Every step keeps it.
LEMMA BusStepInv == BusIInv /\ [BusNext]_bus_vars => BusIInv'
<1> SUFFICES ASSUME BusIInv, [BusNext]_bus_vars PROVE BusIInv'
  OBVIOUS
<1>1. CASE UNCHANGED bus_vars
  BY <1>1 DEF bus_vars, BusIInv, BusTypeOK
<1> QED
  BY <1>1, SubscribeStep, UnsubscribeStep, PublishStep, WalkStep, ReturnStep DEF BusNext

\* The inductive invariant.
LEMMA BusInvariance == BusSpec => []BusIInv
BY BusInitInv, BusStepInv, PTL DEF BusSpec

-----------------------------------------------------------------------------
\* egw_bus_subscribe never writes behind the array, and the walks stay typed.
THEOREM BusTypeCorrect == BusSpec => []BusTypeOK
<1>1. BusIInv => BusTypeOK
  BY DEF BusIInv
<1> QED BY <1>1, BusInvariance, PTL

\* egw_bus_publish calls nobody twice, for every capacity and depth of nesting.
THEOREM CalledAtMostOnce == BusSpec => []NobodyCalledTwice
<1>1. BusIInv => NobodyCalledTwice
  BY DEF BusIInv, WalkOK, NobodyCalledTwice
<1> QED BY <1>1, BusInvariance, PTL

\* When egw_bus_publish returns, it has called every matching subscription that
\* was there all along, up to one for each entry unsubscribed behind its loop.
THEOREM MissesBounded == BusSpec => MissedOnlyThroughGaps
<1>1. ASSUME BusIInv, [BusNext]_bus_vars, Len(calls') < Len(calls)
      PROVE  Cardinality(TopWalk.due \ TopWalk.got) <= TopWalk.cuts
  <2>1. calls \in Seq(WalkFrame) /\ Len(calls) \in Nat
    BY <1>1 DEF BusIInv, BusTypeOK
  <2>2. Return
    <3>1. \A k \in Keys, c \in Callbacks : ~Subscribe(k, c)
      BY <1>1, <2>1, CountedWalks DEF Subscribe
    <3>2. \A k \in Keys, c \in Callbacks : ~Unsubscribe(k, c)
      <4> SUFFICES ASSUME NEW k \in Keys, NEW c \in Callbacks, Unsubscribe(k, c) PROVE FALSE
        OBVIOUS
      <4>1. /\ Counted \in Seq(WalkFrame) /\ Len(Counted) = Len(calls) /\ DOMAIN calls = 1..Len(calls)
            /\ DOMAIN Counted = DOMAIN calls
        BY <1>1, <2>1, CountedWalks DEF Unsubscribe
      <4>2. CASE calls' = Counted
        BY <1>1, <2>1, <4>1, <4>2
      <4>3. ASSUME NEW j, calls' = Forget(Counted, j) PROVE FALSE
        <5>1. DOMAIN calls' = 1..Len(calls)
          BY <4>1, <4>3 DEF Forget
        <5>2. Len(calls') \in Nat /\ DOMAIN calls' = 1..Len(calls')
          BY <1>1, UnsubscribeStep DEF BusIInv, BusTypeOK
        <5>3. Len(calls) \in DOMAIN calls'
          BY <1>1, <2>1, <5>1, <5>2
        <5> QED BY <1>1, <2>1, <5>2, <5>3
      <4> QED BY <4>2, <4>3 DEF Unsubscribe
    <3>3. \A k \in Keys : ~Publish(k)
      BY <1>1, <2>1, CountedWalks DEF Publish
    <3>4. ~Skip /\ ~Call /\ ~CallbackReturn /\ ~(UNCHANGED bus_vars)
      BY <1>1, <2>1 DEF Skip, Call, CallbackReturn, bus_vars
    <3> QED BY <1>1, <3>1, <3>2, <3>3, <3>4 DEF BusNext
  <2>3. calls /= <<>> /\ ~TopWalk.inCallback /\ TopWalk.i > Len(subs)
    BY <2>2 DEF Return, InLoop
  <2>4. /\ TopWalk \in WalkFrame /\ WalkOK(TopWalk, subs) /\ subs \in Seq(Sub)
    BY <1>1, <2>3, TopFacts
  <2>5. \A j \in DOMAIN subs : j < Ahead(TopWalk)
    BY <2>3, <2>4 DEF Ahead, WalkFrame
  <2>6. Missed(TopWalk, subs) = TopWalk.due \ TopWalk.got
    BY <2>4, <2>5 DEF Missed, WalkOK, LiveIn
  <2> QED BY <2>4, <2>6 DEF WalkOK
<1>2. BusIInv /\ [BusNext]_bus_vars =>
        [Len(calls') < Len(calls) => Cardinality(TopWalk.due \ TopWalk.got) <= TopWalk.cuts]_bus_vars
  BY <1>1
<1> QED BY <1>2, BusInvariance, PTL DEF BusSpec, MissedOnlyThroughGaps

-----------------------------------------------------------------------------
(* The state machine engine. *)

-----------------------------------------------------------------------------
(* The inductive invariant. *)

\* A dispatch that still runs its event or exit handler, and under which no
\* other one has moved the machine, has the current state as its source.
SourceIsCurrent ==
  \A n \in DOMAIN stack : stack[n].stage # "entry" /\ ~stack[n].moved => stack[n].source = current

\* A dispatch takes an exit action only towards a state.
ExitHasTarget == \A n \in DOMAIN stack : stack[n].stage = "exit" => stack[n].target \in States

Exiting == {n \in DOMAIN stack : stack[n].stage = "exit"}

\* While no state was left twice, and no dispatch is about to do so, the current
\* state is active until its exit action is called and nothing is active after that.
ActiveIsCurrent ==
  ~overlap /\ last # NoState /\ (\A n \in Exiting : ~stack[n].moved) =>
     active = IF Exiting = {} THEN {current} ELSE {}

FsmIInv == /\ FsmTypeOK
           /\ current = last
           /\ SourceIsCurrent
           /\ ExitHasTarget
           /\ ActiveIsCurrent

-----------------------------------------------------------------------------
(* The steps. *)

\* What the type invariant says of a call under way.
LEMMA StackFacts ==
  ASSUME FsmTypeOK, stack # <<>>
  PROVE  /\ stack \in Seq(DispatchFrame) /\ Len(stack) \in Nat \ {0} /\ DOMAIN stack = 1..Len(stack)
         /\ Len(stack) \in DOMAIN stack
         /\ TopDispatch = stack[Len(stack)] /\ TopDispatch \in DispatchFrame
         /\ \A n \in DOMAIN stack : stack[n] \in DispatchFrame
         /\ Len(stack) <= MaxDispatches
BY DEF FsmTypeOK, TopDispatch

\* An engine call returns from its event or entry handler.
LEMMA PopStep ==
  ASSUME FsmIInv, stack # <<>>, TopDispatch.stage # "exit",
         LeavesTemp \/ temp' \in States \cup {NoState},
         stack' = Pop, UNCHANGED <<current, active, last, overlap>>
  PROVE  FsmIInv'
<1>1. /\ stack \in Seq(DispatchFrame) /\ Len(stack) \in Nat \ {0} /\ DOMAIN stack = 1..Len(stack)
      /\ TopDispatch = stack[Len(stack)] /\ Len(stack) <= MaxDispatches /\ MaxDispatches \in Nat
  BY StackFacts, FsmAssumption DEF FsmIInv
<1>2. /\ stack' \in Seq(DispatchFrame) /\ Len(stack') = Len(stack) - 1
      /\ DOMAIN stack' = 1..Len(stack) - 1
      /\ \A n \in DOMAIN stack' : n \in DOMAIN stack /\ n # Len(stack) /\ stack'[n] = stack[n]
  BY <1>1 DEF Pop
<1>3. \A n \in DOMAIN stack : n \in DOMAIN stack' \/ n = Len(stack)
  BY <1>1, <1>2
<1>4. FsmTypeOK'
  BY <1>1, <1>2 DEF FsmIInv, FsmTypeOK, LeavesTemp
<1>5. Exiting' = Exiting
  BY <1>1, <1>2, <1>3 DEF Exiting
<1>6. \A n \in Exiting : stack'[n] = stack[n]
  BY <1>1, <1>2, <1>3 DEF Exiting
<1>7. SourceIsCurrent' /\ ExitHasTarget' /\ ActiveIsCurrent'
  BY <1>2, <1>5, <1>6 DEF FsmIInv, SourceIsCurrent, ExitHasTarget, ActiveIsCurrent
<1> QED BY <1>4, <1>7 DEF FsmIInv

\* egw_fsm_init.
LEMMA FsmInitStep ==
  ASSUME FsmIInv, NEW s \in States, FsmInit(s)
  PROVE  FsmIInv'
<1> DEFINE f == [source |-> s, target |-> s, stage |-> "entry", moved |-> FALSE]
<1>1. f \in DispatchFrame /\ f.stage = "entry"
  BY DEF DispatchFrame
<1>2. /\ stack' = <<f>> /\ current' = s /\ last' = s
      /\ active' = {s} /\ overlap' = FALSE /\ temp' = temp
  BY DEF FsmInit
<1> HIDE DEF f
<1>3. stack' \in Seq(DispatchFrame) /\ Len(stack') = 1 /\ DOMAIN stack' = {1} /\ stack'[1] = f
  BY <1>1, <1>2
<1>4. FsmTypeOK'
  <2>1. overlap' \in BOOLEAN
    BY <1>2
  <2> QED BY <1>2, <1>3, <2>1, FsmAssumption DEF FsmIInv, FsmTypeOK
<1>5. Exiting' = {}
  BY <1>1, <1>3 DEF Exiting
<1>6. SourceIsCurrent' /\ ExitHasTarget'
  BY <1>1, <1>3 DEF SourceIsCurrent, ExitHasTarget
<1>7. ActiveIsCurrent'
  BY <1>2, <1>5 DEF ActiveIsCurrent
<1> QED BY <1>2, <1>4, <1>6, <1>7 DEF FsmIInv

\* egw_fsm_dispatch is called.
LEMMA DispatchStep ==
  ASSUME FsmIInv, Dispatch
  PROVE  FsmIInv'
<1> DEFINE f == [source |-> current, target |-> NoState, stage |-> "event", moved |-> FALSE]
<1>1. /\ f \in DispatchFrame /\ f.stage = "event" /\ f.source = current
  BY DEF DispatchFrame, FsmIInv, FsmTypeOK, Dispatch
<1>2. stack' = Append(stack, f) /\ UNCHANGED <<current, temp, active, last, overlap>>
  BY DEF Dispatch
<1> HIDE DEF f
<1>3. /\ stack \in Seq(DispatchFrame) /\ Len(stack) \in Nat /\ DOMAIN stack = 1..Len(stack)
      /\ Len(stack) < MaxDispatches /\ MaxDispatches \in Nat
  BY FsmAssumption DEF FsmIInv, FsmTypeOK, Dispatch
<1>4. /\ stack' \in Seq(DispatchFrame) /\ Len(stack') = Len(stack) + 1
      /\ DOMAIN stack' = 1..Len(stack) + 1
      /\ \A n \in 1..Len(stack) : stack'[n] = stack[n]
      /\ stack'[Len(stack) + 1] = f
  BY <1>1, <1>2, <1>3
<1>5. \A n \in DOMAIN stack' : (n \in DOMAIN stack /\ stack'[n] = stack[n]) \/ stack'[n] = f
  BY <1>3, <1>4
<1>6. \A n \in DOMAIN stack : n \in DOMAIN stack' /\ stack'[n] = stack[n]
  BY <1>3, <1>4
<1>7. FsmTypeOK'
  BY <1>2, <1>3, <1>4 DEF FsmIInv, FsmTypeOK
<1>8. Exiting' = Exiting
  BY <1>1, <1>5, <1>6 DEF Exiting
<1>9. \A n \in Exiting : stack'[n] = stack[n]
  BY <1>6 DEF Exiting
<1>10. SourceIsCurrent' /\ ExitHasTarget'
  BY <1>1, <1>2, <1>5 DEF FsmIInv, SourceIsCurrent, ExitHasTarget
<1>11. ActiveIsCurrent'
  BY <1>2, <1>8, <1>9 DEF FsmIInv, ActiveIsCurrent
<1> QED BY <1>2, <1>7, <1>10, <1>11 DEF FsmIInv

\* The event handler asks for a transition.
LEMMA EventTranStep ==
  ASSUME FsmIInv, NEW t \in States \cup {NoState}, EventTran(t)
  PROVE  FsmIInv'
<1>1. stack # <<>> /\ TopDispatch.stage = "event" /\ temp' = t /\ UNCHANGED <<current, last, overlap>>
  BY DEF EventTran, InHandler
<1>2. /\ stack \in Seq(DispatchFrame) /\ Len(stack) \in Nat \ {0} /\ DOMAIN stack = 1..Len(stack)
      /\ Len(stack) \in DOMAIN stack
      /\ TopDispatch = stack[Len(stack)] /\ TopDispatch \in DispatchFrame /\ Len(stack) <= MaxDispatches
  BY <1>1, StackFacts DEF FsmIInv
<1>3. CASE ~TakesTransition(t)
  <2>1. stack' = Pop /\ active' = active
    BY <1>3 DEF EventTran
  <2> QED BY <1>1, <2>1, PopStep
<1>4. CASE TakesTransition(t)
  <2> DEFINE f == [TopDispatch EXCEPT !.target = t, !.stage = "exit"]
  <2>1. t \in States
    BY <1>4 DEF TakesTransition
  <2>2. /\ f \in DispatchFrame /\ f.stage = "exit" /\ f.source = TopDispatch.source /\ f.target = t
        /\ f.moved = TopDispatch.moved
    BY <1>2, <2>1 DEF DispatchFrame
  <2>3. stack' = [stack EXCEPT ![Len(stack)] = f] /\ active' = active \ {TopDispatch.source}
    BY <1>2, <1>4 DEF EventTran
  <2> HIDE DEF f
  <2>4. /\ stack' \in Seq(DispatchFrame) /\ Len(stack') = Len(stack) /\ DOMAIN stack' = DOMAIN stack
        /\ \A n \in DOMAIN stack : stack'[n] = IF n = Len(stack) THEN f ELSE stack[n]
    BY <1>2, <2>2, <2>3
  <2>5. FsmTypeOK'
    BY <1>1, <1>2, <2>3, <2>4 DEF FsmIInv, FsmTypeOK
  <2>6. SourceIsCurrent'
    BY <1>1, <1>2, <2>2, <2>4 DEF FsmIInv, SourceIsCurrent
  <2>7. ExitHasTarget'
    BY <2>1, <2>2, <2>4 DEF FsmIInv, ExitHasTarget
  <2>8. Len(stack) \in Exiting' /\ stack'[Len(stack)] = f
    BY <1>2, <2>2, <2>4 DEF Exiting
  <2>9. ActiveIsCurrent'
    <3> SUFFICES ASSUME ~overlap, last # NoState, \A n \in Exiting' : ~stack'[n].moved
                 PROVE  active' = {}
      BY <1>1, <2>8 DEF ActiveIsCurrent
    <3>1. ~TopDispatch.moved
      BY <2>2, <2>8
    <3>2. TopDispatch.source = current
      BY <1>1, <1>2, <3>1 DEF FsmIInv, SourceIsCurrent
    <3>3. \A n \in Exiting : n \in Exiting' /\ stack'[n] = stack[n]
      BY <1>1, <1>2, <2>4 DEF Exiting
    <3>4. \A n \in Exiting : ~stack[n].moved
      BY <3>3
    <3>5. active \subseteq {current}
      BY <3>4 DEF FsmIInv, ActiveIsCurrent
    <3> QED BY <2>3, <3>2, <3>5
  <2> QED BY <1>1, <2>5, <2>6, <2>7, <2>9 DEF FsmIInv
<1> QED BY <1>3, <1>4

\* The exit action returns and the target is entered.
LEMMA ExitDoneStep ==
  ASSUME FsmIInv, ExitDone
  PROVE  FsmIInv'
<1>1. /\ stack # <<>> /\ TopDispatch.stage = "exit" /\ LeavesTemp
      /\ current' = TopDispatch.target /\ last' = TopDispatch.target
      /\ active' = active \cup {TopDispatch.target} /\ overlap' = (overlap \/ TopDispatch.moved)
  BY DEF ExitDone, InHandler
<1>2. /\ stack \in Seq(DispatchFrame) /\ Len(stack) \in Nat \ {0} /\ DOMAIN stack = 1..Len(stack)
      /\ Len(stack) \in DOMAIN stack
      /\ TopDispatch = stack[Len(stack)] /\ TopDispatch \in DispatchFrame /\ Len(stack) <= MaxDispatches
      /\ \A n \in DOMAIN stack : stack[n] \in DispatchFrame
  BY <1>1, StackFacts DEF FsmIInv
<1> DEFINE g == [TopDispatch EXCEPT !.stage = "entry"]
           M(f) == IF f.stage # "entry" THEN [f EXCEPT !.moved = TRUE] ELSE f
           mid == [stack EXCEPT ![Len(stack)] = g]
<1>3. g \in DispatchFrame /\ g.stage = "entry"
  BY <1>2 DEF DispatchFrame
<1>4. stack' = MarkMoved(mid)
  BY <1>2 DEF ExitDone
<1> HIDE DEF g
<1>5. /\ mid \in Seq(DispatchFrame) /\ Len(mid) = Len(stack) /\ DOMAIN mid = DOMAIN stack
      /\ \A n \in DOMAIN stack : mid[n] = IF n = Len(stack) THEN g ELSE stack[n]
  BY <1>2, <1>3
<1> HIDE DEF mid
<1>6. ASSUME NEW f \in DispatchFrame
      PROVE  M(f) \in DispatchFrame /\ M(f).stage = f.stage /\ M(f).target = f.target
             /\ (f.stage # "entry" => M(f).moved)
  BY DEF DispatchFrame
<1>7. stack' = [n \in DOMAIN stack |-> IF n < Len(stack) THEN M(mid[n]) ELSE mid[n]]
  BY <1>4, <1>5 DEF MarkMoved
<1> HIDE DEF M
<1>8. /\ DOMAIN stack' = DOMAIN stack
      /\ \A n \in DOMAIN stack : stack'[n] = IF n = Len(stack) THEN g ELSE M(stack[n])
  BY <1>2, <1>5, <1>7
<1>9. \A n \in DOMAIN stack : stack'[n] \in DispatchFrame
  BY <1>2, <1>3, <1>6, <1>8
<1>10. stack' \in Seq(DispatchFrame) /\ Len(stack') = Len(stack)
  BY <1>2, <1>7, <1>8, <1>9
<1>11. TopDispatch.target \in States
  BY <1>1, <1>2 DEF FsmIInv, ExitHasTarget
<1>12. FsmTypeOK'
  <2>1. overlap' \in BOOLEAN
    BY <1>1, <1>2 DEF FsmIInv, FsmTypeOK, DispatchFrame
  <2> QED BY <1>1, <1>2, <1>10, <1>11, <2>1 DEF FsmIInv, FsmTypeOK, LeavesTemp
<1>13. \A n \in DOMAIN stack : stack'[n].stage # "entry" =>
         n # Len(stack) /\ stack[n].stage = stack'[n].stage /\ stack'[n].moved
                        /\ stack'[n].target = stack[n].target
  BY <1>2, <1>3, <1>6, <1>8
<1>14. SourceIsCurrent'
  BY <1>8, <1>13 DEF SourceIsCurrent
<1>15. ExitHasTarget'
  BY <1>8, <1>13 DEF FsmIInv, ExitHasTarget
<1>16. ActiveIsCurrent'
  <2> SUFFICES ASSUME ~overlap', \A n \in Exiting' : ~stack'[n].moved
               PROVE  Exiting' = {} /\ active' = {current'}
    BY DEF ActiveIsCurrent
  <2>1. Exiting' = {}
    BY <1>8, <1>13 DEF Exiting
  <2>2. ~overlap /\ ~TopDispatch.moved
    BY <1>1
  <2>3. ASSUME NEW n \in Exiting PROVE ~stack[n].moved
    <3>1. n \in DOMAIN stack /\ stack[n].stage = "exit"
      BY DEF Exiting
    <3>2. CASE n = Len(stack)
      BY <1>2, <2>2, <3>2
    <3>3. CASE n # Len(stack)
      <4>1. stack'[n].stage = "exit"
        BY <1>2, <1>6, <1>8, <3>1, <3>3
      <4> QED BY <1>8, <2>1, <3>1, <4>1 DEF Exiting
    <3> QED BY <3>2, <3>3
  <2>4. Len(stack) \in Exiting
    BY <1>1, <1>2 DEF Exiting
  <2>5. last # NoState
    <3>1. TopDispatch.source = current
      BY <1>1, <1>2, <2>2 DEF FsmIInv, SourceIsCurrent
    <3> QED BY <1>2, <3>1, FsmAssumption DEF FsmIInv, DispatchFrame
  <2>6. active = {}
    BY <2>2, <2>3, <2>4, <2>5 DEF FsmIInv, ActiveIsCurrent
  <2> QED BY <1>1, <2>1, <2>6
<1> QED BY <1>1, <1>12, <1>14, <1>15, <1>16 DEF FsmIInv

\* The invariant holds of a zeroed egw_fsm_t.
LEMMA FsmInitInv == FsmZeroed => FsmIInv
<1> SUFFICES ASSUME FsmZeroed PROVE FsmIInv
  OBVIOUS
<1>1. /\ stack = <<>> /\ current = NoState /\ last = NoState /\ temp = NoState /\ active = {}
      /\ overlap = FALSE /\ MaxDispatches \in Nat
  BY FsmAssumption DEF FsmZeroed
<1>2. overlap \in BOOLEAN
  BY <1>1
<1>3. FsmTypeOK
  BY <1>1, <1>2 DEF FsmTypeOK
<1>4. SourceIsCurrent /\ ExitHasTarget /\ ActiveIsCurrent
  BY <1>1 DEF SourceIsCurrent, ExitHasTarget, ActiveIsCurrent
<1> QED BY <1>1, <1>3, <1>4 DEF FsmIInv

\* Every step keeps it.
LEMMA FsmStepInv == FsmIInv /\ [FsmNext]_fsm_vars => FsmIInv'
<1> SUFFICES ASSUME FsmIInv, [FsmNext]_fsm_vars PROVE FsmIInv'
  OBVIOUS
<1>1. CASE UNCHANGED fsm_vars
  BY <1>1 DEF fsm_vars, FsmIInv, FsmTypeOK, SourceIsCurrent, ExitHasTarget, ActiveIsCurrent, Exiting
<1>2. CASE EventHandled
  BY <1>2, PopStep DEF EventHandled, InHandler
<1>3. CASE EntryDone
  BY <1>3, PopStep DEF EntryDone, InHandler
<1>4. CASE DispatchBeforeInit
  BY <1>1, <1>4 DEF DispatchBeforeInit
<1> QED
  BY <1>1, <1>2, <1>3, <1>4, FsmInitStep, DispatchStep, EventTranStep, ExitDoneStep DEF FsmNext

\* The inductive invariant.
LEMMA FsmInvariance == FsmSpec => []FsmIInv
BY FsmInitInv, FsmStepInv, PTL DEF FsmSpec

-----------------------------------------------------------------------------
\* The engine's variables stay typed; dispatch calls a state function, never NULL.
THEOREM FsmTypeCorrect == FsmSpec => []FsmTypeOK
<1>1. FsmIInv => FsmTypeOK
  BY DEF FsmIInv
<1> QED BY <1>1, FsmInvariance, PTL

\* egw_fsm_dispatch rests in the state whose entry action it called last.
THEOREM RestsWhereEntered == FsmSpec => []CurrentEnteredLast
<1>1. FsmIInv => CurrentEnteredLast
  BY DEF FsmIInv, CurrentEnteredLast
<1> QED BY <1>1, FsmInvariance, PTL

\* Entry and exit actions pair up, but for a transition out of a state that a
\* nested egw_fsm_dispatch has left already.
THEOREM ActionsPair == FsmSpec => []EntryExitPaired
<1>1. ASSUME FsmIInv PROVE EntryExitPaired
  <2> SUFFICES ASSUME stack = <<>>, last # NoState, ~overlap PROVE active = {current}
    BY DEF EntryExitPaired
  <2>1. Exiting = {}
    BY DEF Exiting
  <2> QED BY <1>1, <2>1 DEF FsmIInv, ActiveIsCurrent
<1> QED BY <1>1, FsmInvariance, PTL

\* egw_fsm_init and egw_fsm_dispatch never take the machine back to the state of
\* a zeroed egw_fsm_t, in which events are dropped.
THEOREM StaysInitialised == FsmSpec => [][current # NoState => current' # NoState]_fsm_vars
<1>1. ASSUME FsmIInv, [FsmNext]_fsm_vars, current # NoState PROVE current' # NoState
  <2>1. ASSUME ExitDone PROVE current' \in States
    BY <1>1, <2>1, StackFacts DEF ExitDone, InHandler, FsmIInv, ExitHasTarget
  <2>2. ASSUME NEW s \in States, FsmInit(s) PROVE current' \in States
    BY <2>2 DEF FsmInit
  <2>3. current' = current \/ current' \in States
    BY <1>1, <2>1, <2>2
    DEF FsmNext, Dispatch, DispatchBeforeInit, EventHandled, EventTran, EntryDone, fsm_vars
  <2> QED BY <1>1, <2>3, FsmAssumption
<1>2. FsmIInv /\ [FsmNext]_fsm_vars => [current # NoState => current' # NoState]_fsm_vars
  BY <1>1
<1> QED BY <1>2, FsmInvariance, PTL DEF FsmSpec

-----------------------------------------------------------------------------
(* The configuration layer. *)

-----------------------------------------------------------------------------
(* The inductive invariant. *)

\* What egw_conf_load holds before each of its system and library calls.
HeldAt == /\ lp = "idle" => held = IF cfg = NULL THEN {} ELSE {"tree", "cfg"}
          /\ lp = "stat" => held = {"fd"}
          /\ lp = "read" => held = {"fd", "buf"}
          /\ lp = "parse" => held = {"buf"}

\* While it loads there is a file and no handle yet; what it read is of some file.
Loading == lp # "idle" => /\ file \in Files /\ cfg = NULL
                          /\ lp = "parse" => text.doc \in Docs \cup {NULL}

\* The cursor is where the last successful egw_conf_enter led.
CursorEntered == cfg # NULL => /\ cfg \in [root : Docs, cur : Paths \cup {<<>>}]
                               /\ cfg.cur = entered

ConfIInv == ConfTypeOK /\ HeldAt /\ Loading /\ CursorEntered /\ AnswerFromEntered

-----------------------------------------------------------------------------
(* The conversion of numbers. *)

\* What the getter of integers may deliver is an int32_t, and a number that fits
\* only loses its fraction.
LEMMA ToInt32Facts ==
  ASSUME NEW t \in Int, NEW x \in ToInt32(t)
  PROVE  /\ x \in INT_MIN..INT_MAX
         /\ t \in (10 * INT_MIN)..(10 * INT_MAX) =>
              \E frac \in -9..9 : x * 10 + frac = t /\ frac * x >= 0
<1> DEFINE whole == IF t >= 0 THEN t \div 10 ELSE -((-t) \div 10)
           frac == t - whole * 10
<1>1. INT_MAX \in Nat /\ INT_MIN \in Int /\ INT_MIN < 0
  BY ConfigAssumption DEF INT_MIN
<1>2. /\ whole \in Int /\ frac \in -9..9 /\ whole * 10 + frac = t
      /\ (t >= 0 => whole >= 0 /\ frac >= 0) /\ (t < 0 => whole <= 0 /\ frac <= 0)
  OBVIOUS
<1>3. x = whole \/ (whole \notin INT_MIN..INT_MAX /\ (x = INT_MIN \/ x = INT_MAX))
  BY DEF ToInt32
<1>4. x \in INT_MIN..INT_MAX
  <2>1. CASE whole \in INT_MIN..INT_MAX
    BY <1>3, <2>1
  <2>2. CASE whole \notin INT_MIN..INT_MAX
    <3>1. x \in {INT_MIN, INT_MAX}
      BY <2>2 DEF ToInt32
    <3> QED BY <1>1, <3>1
  <2> QED BY <2>1, <2>2
<1> HIDE DEF whole
<1>5. ASSUME t \in (10 * INT_MIN)..(10 * INT_MAX)
      PROVE  \E fr \in -9..9 : x * 10 + fr = t /\ fr * x >= 0
  <2>1. whole \in INT_MIN..INT_MAX
    BY <1>1, <1>2, <1>5
  <2>2. x = whole
    BY <1>3, <2>1
  <2>3. frac * whole >= 0
    <3> HIDE DEF frac
    <3>1. \A a, b \in Nat : a * b >= 0
      OBVIOUS
    <3>2. CASE t >= 0
      BY <1>2, <3>1, <3>2
    <3>3. CASE t < 0
      <4>1. -frac \in Nat /\ -whole \in Nat
        BY <1>2, <3>3
      <4>2. (-frac) * (-whole) >= 0
        BY <3>1, <4>1
      <4>3. frac * whole = (-frac) * (-whole)
        BY <1>2
      <4> QED BY <4>2, <4>3
    <3> QED BY <3>2, <3>3
  <2> QED BY <1>2, <2>2, <2>3
<1> QED BY <1>4, <1>5

-----------------------------------------------------------------------------
(* The steps. *)

\* The file changes: no part of the invariant looks at what it holds.
LEMMA RewriteStep == ASSUME ConfIInv, Rewrite PROVE ConfIInv'
<1>1. UNCHANGED <<lp, size, text, cfg, held, ret, out, asked, entered>>
  BY DEF Rewrite
<1>2. file' \in Files \cup {NULL} /\ (lp # "idle" => file' \in Files)
  BY DEF Rewrite
<1>3. edits' \in 0..MaxEdits
  BY ConfigAssumption DEF Rewrite, ConfIInv, ConfTypeOK
<1>4. ConfTypeOK'
  BY <1>1, <1>2, <1>3 DEF ConfIInv, ConfTypeOK
<1>5. HeldAt' /\ Loading' /\ CursorEntered'
  BY <1>1, <1>2 DEF ConfIInv, HeldAt, Loading, CursorEntered
<1>6. AnswerFromEntered'
  BY <1>1 DEF ConfIInv, AnswerFromEntered
<1> QED BY <1>4, <1>5, <1>6 DEF ConfIInv

\* egw_conf_load up to the parser: a failure closes and frees what is held.
LEMMA LoadStep == ASSUME ConfIInv, LoadOpen \/ LoadStat \/ LoadRead PROVE ConfIInv'
<1>1. UNCHANGED <<file, edits, cfg, entered>>
  BY DEF LoadOpen, LoadStat, LoadRead
<1>2. cfg = NULL
  BY DEF ConfIInv, Loading, LoadOpen, LoadStat, LoadRead
<1>3. CursorEntered' /\ AnswerFromEntered'
  BY <1>1, <1>2 DEF CursorEntered, AnswerFromEntered
<1>4. \/ /\ lp' = "idle" /\ held' = {} /\ ret' \in {"ERR_NOTFOUND", "ERR_PARSE", "ERR_INVALID_ARG"}
      \/ lp' = "stat" /\ held' = {"fd"} /\ file \in Files /\ ret' = ret
      \/ lp' = "read" /\ held' = {"fd", "buf"} /\ file \in Files /\ ret' = ret
      \/ /\ lp' = "parse" /\ held' = {"buf"} /\ file \in Files /\ ret' = ret
         /\ text'.doc = file.doc
  <2>1. CASE LoadOpen
    BY <1>2, <2>1 DEF ConfIInv, ConfTypeOK, HeldAt, LoadOpen, LoadFails
  <2>2. CASE LoadStat
    BY <2>2 DEF ConfIInv, HeldAt, Loading, LoadStat, LoadFails
  <2>3. CASE LoadRead
    BY <2>3 DEF ConfIInv, HeldAt, Loading, LoadRead, LoadFails
  <2> QED BY <2>1, <2>2, <2>3
<1>5. ConfTypeOK'
  BY <1>1, <1>2, <1>4 DEF ConfIInv, ConfTypeOK
<1>6. HeldAt'
  BY <1>1, <1>2, <1>4 DEF HeldAt
<1>7. file \in Files => file.doc \in Docs \cup {NULL}
  BY DEF Docs
<1>8. Loading'
  BY <1>1, <1>2, <1>4, <1>7 DEF Loading
<1> QED BY <1>3, <1>5, <1>6, <1>8 DEF ConfIInv

\* The end of egw_conf_load: the handle is given out, or everything is freed.
LEMMA ParseStep == ASSUME ConfIInv, LoadParse PROVE ConfIInv'
<1>1. lp = "parse" /\ cfg = NULL /\ text.doc \in Docs \cup {NULL}
  BY DEF LoadParse, ConfIInv, Loading
<1>2. UNCHANGED <<file, edits>> /\ lp' = "idle" /\ asked' = NULL
  BY DEF LoadParse, LoadFails
<1>3. Loading' /\ AnswerFromEntered'
  BY <1>2 DEF Loading, AnswerFromEntered
<1>4. CASE cfg' = cfg
  <2>1. held' = {} /\ ret' \in {"ERR_INVALID_ARG", "ERR_PARSE"}
    <3>1. Acceptable => [root |-> Parsed, cur |-> <<>>] # NULL
      BY <1>1, ConfigAssumption DEF Acceptable, Parsed
    <3> QED BY <1>1, <1>4, <3>1 DEF LoadParse, LoadFails
  <2> QED BY <1>1, <1>2, <1>3, <1>4, <2>1 DEF ConfIInv, ConfTypeOK, HeldAt, CursorEntered
<1>5. CASE cfg' # cfg
  <2>1. /\ Acceptable /\ cfg' = [root |-> Parsed, cur |-> <<>>] /\ entered' = <<>>
        /\ held' = {"tree", "cfg"} /\ ret' = "EGW_OK"
    BY <1>5 DEF LoadParse
  <2>2. Parsed \in Docs
    BY <1>1, <2>1 DEF Acceptable, Parsed
  <2>3. cfg' \in [root : Docs, cur : Paths \cup {<<>>}] /\ cfg'.cur = <<>> /\ cfg'.root = Parsed
    BY <2>1, <2>2
  <2>4. cfg' # NULL /\ <<>> \in DOMAIN cfg'.root
    BY <2>2, <2>3, ConfigAssumption
  <2>5. ConfTypeOK'
    BY <1>2, <2>1, <2>3, <2>4 DEF ConfIInv, ConfTypeOK
  <2>6. HeldAt' /\ CursorEntered'
    BY <1>2, <2>1, <2>3, <2>4 DEF HeldAt, CursorEntered
  <2> QED BY <1>3, <2>5, <2>6 DEF ConfIInv
<1> QED BY <1>4, <1>5

\* egw_conf_free.
LEMMA FreeStep == ASSUME ConfIInv, Free PROVE ConfIInv'
<1>1. /\ lp = "idle" /\ held = {"tree", "cfg"} /\ cfg' = NULL /\ held' = {} /\ asked' = NULL
      /\ UNCHANGED <<file, edits, lp, ret>>
  BY DEF Free, ConfIInv, HeldAt
<1> QED BY <1>1 DEF ConfIInv, ConfTypeOK, HeldAt, Loading, CursorEntered, AnswerFromEntered

\* egw_conf_enter.
LEMMA EnterStep == ASSUME ConfIInv, NEW p \in Paths \cup {NULL}, Enter(p) PROVE ConfIInv'
<1>1. /\ lp = "idle" /\ cfg # NULL /\ asked' = NULL
      /\ UNCHANGED <<file, edits, lp, held>>
      /\ ret' \in {"EGW_OK", "ERR_NOTFOUND", "ERR_INVALID_ARG"}
  BY DEF Enter
<1>2. cfg \in [root : Docs, cur : Paths \cup {<<>>}] /\ cfg.cur = entered
  BY <1>1 DEF ConfIInv, CursorEntered
<1>3. Loading' /\ AnswerFromEntered'
  BY <1>1 DEF Loading, AnswerFromEntered
<1>4. CASE UNCHANGED <<cfg, entered>>
  BY <1>1, <1>3, <1>4 DEF ConfIInv, ConfTypeOK, HeldAt, CursorEntered
<1>5. CASE ~(UNCHANGED <<cfg, entered>>)
  <2>1. p # NULL /\ Target(p) # NULL /\ cfg' = [cfg EXCEPT !.cur = Target(p)] /\ entered' = p
    BY <1>5 DEF Enter
  <2>2. <<>> \o p = p
    BY <2>1, ConfigAssumption
  <2>3. Target(p) = p /\ p \in DOMAIN cfg.root
    BY <2>1, <2>2 DEF Target, GetPointer
  <2>4. cfg' \in [root : Docs, cur : Paths \cup {<<>>}] /\ cfg'.cur = p /\ cfg'.root = cfg.root
    BY <1>2, <2>1, <2>3
  <2>5. cfg' # NULL
    BY <2>4, ConfigAssumption
  <2>6. ConfTypeOK'
    BY <1>1, <2>3, <2>4 DEF ConfIInv, ConfTypeOK
  <2>7. HeldAt' /\ CursorEntered'
    BY <1>1, <2>1, <2>4, <2>5 DEF ConfIInv, HeldAt, CursorEntered
  <2> QED BY <1>3, <2>6, <2>7 DEF ConfIInv
<1> QED BY <1>4, <1>5

\* A getter.
LEMMA GetStep ==
  ASSUME ConfIInv, NEW p \in Paths \cup {NULL}, NEW g \in Getters, Get(g, p)
  PROVE  ConfIInv'
<1> DEFINE item == GetPointer(cfg.cur, p)
           node == cfg.root[entered \o p]
<1>1. /\ lp = "idle" /\ cfg # NULL /\ asked' = [getter |-> g, path |-> p]
      /\ UNCHANGED <<file, edits, lp, size, text, cfg, held, entered>>
  BY DEF Get
<1>2. cfg \in [root : Docs, cur : Paths \cup {<<>>}] /\ cfg.cur = entered /\ cfg.root \in Docs
  BY <1>1 DEF ConfIInv, CursorEntered
<1>3. item # NULL <=> p # NULL /\ entered \o p \in DOMAIN cfg.root
  BY <1>2, ConfigAssumption DEF GetPointer
<1>4. item # NULL => item = entered \o p
  BY <1>2 DEF GetPointer
<1>5. IF item # NULL /\ cfg.root[item].kind = g
      THEN \/ ret' = "EGW_OK" /\ out' \in ValuesAt(item, g)
           \/ g = "string" /\ ret' = "ERR_INVALID_ARG" /\ out' = NULL
      ELSE ret' = "ERR_NOTFOUND" /\ (out' = Defaults[g] \/ (g = "string" /\ out' = NULL))
  BY DEF Get
<1> HIDE DEF item
<1>6. ret' \in {"EGW_OK", "ERR_NOTFOUND", "ERR_INVALID_ARG"}
  BY <1>5
<1>7. ConfTypeOK'
  BY <1>1, <1>6 DEF ConfIInv, ConfTypeOK
<1>8. HeldAt' /\ Loading' /\ CursorEntered'
  BY <1>1 DEF ConfIInv, HeldAt, Loading, CursorEntered
<1>9. CASE item # NULL /\ cfg.root[item].kind = g
  <2>1. p # NULL /\ entered \o p \in DOMAIN cfg.root /\ item = entered \o p /\ node.kind = g
    BY <1>3, <1>4, <1>9
  <2>2. ret' # "ERR_NOTFOUND"
    BY <1>5, <1>9
  <2>3. ret' = "EGW_OK" /\ g \in {"string", "bool"} => out' = node.val
    BY <1>5, <1>9, <2>1 DEF ValuesAt
  <2>4. ASSUME g = "number"
        PROVE  /\ out' \in INT_MIN..INT_MAX
               /\ node.val \in (10 * INT_MIN)..(10 * INT_MAX) =>
                    \E frac \in -9..9 : out' * 10 + frac = node.val /\ frac * out' >= 0
    <3>1. node.val \in Int
      BY <1>2, <2>1, <2>4, ConfigAssumption
    <3>2. out' \in ToInt32(node.val)
      BY <1>5, <1>9, <2>1, <2>4 DEF ValuesAt
    <3> HIDE DEF node
    <3> QED BY <3>1, <3>2, ToInt32Facts
  <2>5. AnswerFromEntered'
    BY <1>1, <2>1, <2>2, <2>3, <2>4 DEF AnswerFromEntered
  <2> QED BY <1>7, <1>8, <2>5 DEF ConfIInv
<1>10. CASE ~(item # NULL /\ cfg.root[item].kind = g)
  <2>1. ret' = "ERR_NOTFOUND" /\ (out' = Defaults[g] \/ (g = "string" /\ out' = NULL))
    BY <1>5, <1>10
  <2>2. ~(p # NULL /\ entered \o p \in DOMAIN cfg.root /\ node.kind = g)
    BY <1>3, <1>4, <1>10
  <2>3. AnswerFromEntered'
    BY <1>1, <2>1, <2>2 DEF AnswerFromEntered
  <2> QED BY <1>7, <1>8, <2>3 DEF ConfIInv
<1> QED BY <1>9, <1>10

\* The invariant holds before the first call.
LEMMA ConfInitInv == ConfInit => ConfIInv
BY ConfigAssumption DEF ConfInit, ConfIInv, ConfTypeOK, HeldAt, Loading, CursorEntered, AnswerFromEntered

\* Every step keeps it.
LEMMA ConfStepInv == ConfIInv /\ [ConfNext]_conf_vars => ConfIInv'
<1> SUFFICES ASSUME ConfIInv, [ConfNext]_conf_vars PROVE ConfIInv'
  OBVIOUS
<1>1. CASE UNCHANGED conf_vars
  BY <1>1 DEF conf_vars, ConfIInv, ConfTypeOK, HeldAt, Loading, CursorEntered, AnswerFromEntered
<1> QED
  BY <1>1, RewriteStep, LoadStep, ParseStep, FreeStep, EnterStep, GetStep DEF ConfNext

\* The inductive invariant.
LEMMA ConfInvariance == ConfSpec => []ConfIInv
BY ConfInitInv, ConfStepInv, PTL DEF ConfSpec

-----------------------------------------------------------------------------
\* The cursor of a handle is a node of its document, whatever was entered.
THEOREM ConfTypeCorrect == ConfSpec => []ConfTypeOK
<1>1. ConfIInv => ConfTypeOK
  BY DEF ConfIInv
<1> QED BY <1>1, ConfInvariance, PTL

\* egw_conf_load leaves no descriptor, buffer or tree behind on any of its paths.
THEOREM LoadLeaksNothing == ConfSpec => []NothingLeaked
<1>1. ConfIInv => NothingLeaked
  BY DEF ConfIInv, HeldAt, NothingLeaked
<1> QED BY <1>1, ConfInvariance, PTL

\* The getters answer from the path entered last with success, and deliver the
\* default (NULL for a string default that could not be copied) if there is no
\* node of their kind.
THEOREM AnswersFromCursor == ConfSpec => []AnswerFromEntered
<1>1. ConfIInv => AnswerFromEntered
  BY DEF ConfIInv
<1> QED BY <1>1, ConfInvariance, PTL
=============================================================================
