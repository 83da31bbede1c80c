--------------------------- MODULE HandoffProofs ---------------------------
(***************************************************************************)
(* Proofs about the handoff of a connection, for every number of           *)
(* connections and every limit of descriptors: a connection that had       *)
(* nobody beside it on its way goes to read_cb as itself.                  *)
(***************************************************************************)
EXTENDS Handoff, FiniteSetTheorems, TLAPS

-----------------------------------------------------------------------------
(* Types of what the threads and the connections have.                     *)

Lines == {"none", "check", "load", "start", "starting", "drop", "free", "done"}

TypeOK ==
    /\ arrived \in Nat
    /\ e_thd \in Conns \cup {Null, Garbage}
    /\ ev_thread \in [Conns -> {"none", "live", "freed"}]
    /\ pc \in [Conns -> Lines]
    /\ mine \in [Conns -> Conns \cup {Null}]
    /\ watcher \in [Conns -> {"none", "live", "kept", "spoilt"}]
    /\ holds \in [Conns -> Conns \cup {Null}]
    /\ list \in [Conns -> Conns \cup {Null}]

-----------------------------------------------------------------------------
(* The inductive invariant.                                                *)

\* Connections are accepted in order, and the variable of accept_cb, while it
\* has a connection, has the latest.
InOrder ==
    /\ Accepted = 1 .. Cardinality(Accepted)
    /\ arrived + Cardinality(Accepted) <= MaxConns
    /\ e_thd \in Conns => e_thd = Cardinality(Accepted)

\* How far a thread has come, and what it has done to its watcher until there.
ThreadInv(w) ==
    /\ pc[w] \in {"none", "check", "load"} => mine[w] = Null
    /\ pc[w] \in {"start", "starting", "drop", "free"} => mine[w] # Null
    /\ pc[w] \in {"none", "check", "load", "start"} => watcher[w] = "none"
    /\ pc[w] \in {"starting", "drop", "free"} =>
          watcher[w] = "live" /\ holds[w] = mine[w]
    /\ watcher[w] = "none" <=> holds[w] = Null
    /\ pc[w] \in {"none", "check", "load", "start", "starting"} => list[w] = Null
    /\ list[w] \in {Null, mine[w]}
    /\ pc[w] = "free" \/ watcher[w] \in {"kept", "spoilt"} => e_thd # w

\* A thread takes its own connection or a later one, and what memory and lists
\* have of connections was taken by a thread.
Taken(c) == c \in Conns /\ \E v \in Conns : mine[v] = c

FromThreads ==
    /\ \A w \in Conns : mine[w] # Null => mine[w] \in Accepted /\ mine[w] >= w
    /\ \A w \in Conns : holds[w] # Null => Taken(holds[w])
    /\ \A c \in stopped \cup crossed : Taken(c)

\* Each thread has taken its own connection, each watcher in a list has the
\* descriptor of the list, and what was stopped is in no list.
Tidy ==
    \A w \in Conns :
        /\ mine[w] \in {w, Null}
        /\ list[w] # Null => holds[w] = w
        /\ w \in stopped => list[w] = Null /\ pc[w] \in {"drop", "free", "done"}

\* A connection that no thread and no watcher has any more, and that is never
\* going to be stopped.
Doomed(u) ==
    /\ u \in Accepted \ stopped
    /\ e_thd # u
    /\ \A v \in Conns :
          /\ pc[v] \in {"start", "starting"} => mine[v] # u
          /\ list[v] # Null => holds[v] # u

\* Whoever spoils the order leaves such a connection behind: this is why a
\* connection that finds all others stopped finds no watcher in a list.
TidyOrDoomed == Tidy \/ \E u \in Conns : Doomed(u)

\* A connection c that is not crowded, after those that came before it and
\* before those that come after it.
Alone(c) ==
    /\ pc[c] \in {"check", "load", "start", "starting", "drop"} =>
          e_thd \in {c, Null, Garbage}
    /\ mine[c] \in {c, Null}
    /\ list[c] # Null => holds[c] = c
    /\ c \in stopped => list[c] = Null /\ pc[c] \in {"drop", "free", "done"}
    /\ c \notin crossed
    /\ \A d \in Accepted :
          /\ d < c => pc[d] = "done" /\ list[d] = Null /\ mine[d] # c
          /\ d > c => /\ pc[c] = "done" /\ c \in stopped
                      /\ holds[d] # c

AloneInv == \A c \in Accepted \ crowded : Alone(c)

IInv ==
    /\ InOrder
    /\ \A w \in Conns : ThreadInv(w)
    /\ FromThreads
    /\ TidyOrDoomed
    /\ AloneInv

-----------------------------------------------------------------------------
(* Types.                                                                  *)

\* Steps that touch no thread, no watcher and no list.
Quiet ==
    /\ UNCHANGED <<threadVars, stopped, crossed, crowded>>
    /\ arrived' = arrived \/ Arrives

\* Whatever the system does is one of these.
LEMMA NextCases ==
    ASSUME [HandoffNext]_handoffVars
    PROVE  \/ Quiet
           \/ StackReused
           \/ AcceptCb
           \/ \E f \in Conns \cup {Listen} : EventError(f)
           \/ \E f, w \in Conns : ReadCb(f, w)
           \/ \E c \in Conns :
                 \/ FindsNull(c) \/ Finds(c) \/ Loads(c) \/ Strays(c)
                 \/ Allocates(c) \/ Starts(c) \/ Drops(c) \/ FreesWatcher(c)
<1>1. CASE UNCHANGED handoffVars
  BY <1>1 DEF handoffVars, netVars, ghostVars, Quiet
<1>2. CASE ReifyBegins \/ ReifyEnds \/ PollReturns \/ TimerFires \/ LoopTurns \/ AcceptFails
  BY <1>2 DEF ReifyBegins, ReifyEnds, PollReturns, TimerFires, Polled, LoopTurns,
              AcceptFails, netVars, ghostVars, Quiet
<1>3. CASE \E f \in Conns : NothingCalled(f)
  BY <1>3 DEF NothingCalled, netVars, ghostVars, Quiet
<1>4. CASE \E c \in Conns : ThreadFaults(c) \/ FreedReadFaults(c) \/ Sends(c)
  BY <1>4 DEF ThreadFaults, FreedReadFaults, Ends, Sends, netVars, ghostVars, Quiet
<1>5. CASE Arrives
  BY <1>5 DEF Arrives, ghostVars, Quiet
<1> QED
  BY <1>1, <1>2, <1>3, <1>4, <1>5 DEF HandoffNext, LoopStep, ThreadStep

\* A thread that is there goes to its next line: the same connections are
\* accepted.
LEMMA GoesOn ==
    ASSUME TypeOK, NEW c \in Conns, NEW line \in Lines \ {"none"},
           pc[c] # "none", Goes(c, line)
    PROVE  /\ pc' \in [Conns -> Lines]
           /\ pc'[c] = line
           /\ \A w \in Conns \ {c} : pc'[w] = pc[w]
           /\ Accepted' = Accepted
<1>1. /\ pc' \in [Conns -> Lines]
      /\ pc'[c] = line
      /\ \A w \in Conns \ {c} : pc'[w] = pc[w]
  BY DEF TypeOK, Goes
<1> QED
  BY <1>1 DEF Accepted

LEMMA AcceptedCount ==
    /\ IsFiniteSet(Accepted)
    /\ Cardinality(Accepted) \in Nat
    /\ Cardinality(Accepted) <= MaxConns
<1>1. IsFiniteSet(Conns) /\ Cardinality(Conns) = MaxConns
  BY FS_Interval, HandoffAssumption DEF Conns
<1>2. Accepted \subseteq Conns
  BY DEF Accepted
<1> QED
  BY <1>1, <1>2, FS_Subset, FS_CardinalityType

\* The next connection takes the next descriptor.
LEMMA NextAccepted ==
    ASSUME TypeOK, InOrder, AcceptCb
    PROVE  /\ Cardinality(Accepted) + 1 \in Conns
           /\ pc[Cardinality(Accepted) + 1] = "none"
           /\ \E line \in {"check", "done"} :
                 pc' = [pc EXCEPT ![Cardinality(Accepted) + 1] = line]
           /\ pc' \in [Conns -> Lines]
           /\ Accepted' = Accepted \cup {Cardinality(Accepted) + 1}
           /\ Accepted' = 1 .. Cardinality(Accepted) + 1
           /\ Cardinality(Accepted)' = Cardinality(Accepted) + 1
<1> DEFINE n == Cardinality(Accepted)
<1>1. n \in Nat /\ arrived > 0 /\ arrived \in Nat
  BY AcceptedCount DEF AcceptCb, TypeOK
<1>2. n + 1 \in Conns
  BY <1>1, HandoffAssumption DEF InOrder, Conns
<1>3. n + 1 \notin Accepted
  BY <1>1 DEF InOrder
<1>4. pc[n + 1] = "none"
  BY <1>2, <1>3 DEF Accepted
<1>5. \E line \in {"check", "done"} : pc' = [pc EXCEPT ![n + 1] = line]
  BY DEF AcceptCb
<1>6. pc' \in [Conns -> Lines]
  BY <1>5 DEF TypeOK, Lines
<1>7. Accepted' = Accepted \cup {n + 1}
  BY <1>2, <1>5, <1>6 DEF Accepted, TypeOK
<1>8. Cardinality(Accepted') = n + 1
  BY <1>3, <1>7, AcceptedCount, FS_AddElement
<1>9. Accepted' = 1 .. n + 1
  BY <1>1, <1>7 DEF InOrder
<1> QED
  BY <1>2, <1>4, <1>5, <1>6, <1>7, <1>8, <1>9

\* Watchers that libev stops are in no list, the others where they were.
LEMMA ListsShrink ==
    ASSUME TypeOK, NEW f \in Conns \cup {Listen}, EventError(f)
    PROVE  /\ list' \in [Conns -> Conns \cup {Null}]
           /\ \A w \in Conns : list'[w] \in {list[w], Null}
<1>1. list' = [w \in Conns |-> IF list[w] = f THEN ev_io_stop(w, f)[w] ELSE list[w]]
  BY DEF EventError
<1>2. \A w \in Conns : ev_io_stop(w, f)[w] \in {list[w], Null}
  BY DEF ev_io_stop, TypeOK
<1> QED
  BY <1>1, <1>2 DEF TypeOK

LEMMA TypeStep ==
    ASSUME TypeOK, InOrder, [HandoffNext]_handoffVars
    PROVE  TypeOK'
<1>1. CASE Quiet
  BY <1>1 DEF Quiet, threadVars, Arrives, TypeOK
<1>2. CASE StackReused
  BY <1>2 DEF StackReused, netVars, TypeOK
<1>3. CASE AcceptCb
  <2>1. pc' \in [Conns -> Lines] /\ Cardinality(Accepted) + 1 \in Conns
    BY <1>3, NextAccepted
  <2>2. arrived' \in Nat
    BY <1>3 DEF AcceptCb, TypeOK
  <2> QED
    BY <1>3, <2>1, <2>2 DEF AcceptCb, TypeOK
<1>4. ASSUME NEW f \in Conns, NEW w \in Conns, ReadCb(f, w)
      PROVE  TypeOK'
  <2>1. list' = list \/ list' = [list EXCEPT ![w] = Null]
    BY <1>4 DEF ReadCb, ev_io_stop
  <2>2. UNCHANGED <<arrived, e_thd, ev_thread, pc, mine, watcher, holds>>
    BY <1>4 DEF ReadCb
  <2> QED
    BY <2>1, <2>2 DEF TypeOK
<1>5. ASSUME NEW c \in Conns, FindsNull(c) \/ Finds(c) \/ Strays(c)
      PROVE  TypeOK'
  BY <1>5 DEF FindsNull, Finds, Strays, Goes, netVars, TypeOK, Lines
<1>6. ASSUME NEW c \in Conns, Loads(c)
      PROVE  TypeOK'
  BY <1>6 DEF Loads, Goes, netVars, TypeOK, Lines
<1>7. ASSUME NEW c \in Conns, Allocates(c)
      PROVE  TypeOK'
  <2>1. PICK old \in SUBSET Conns :
            /\ holds' = [w \in Conns |-> IF w \in old \cup {c} THEN mine[c] ELSE holds[w]]
            /\ watcher' = [w \in Conns |-> IF w = c THEN "live"
                                           ELSE IF w \in old THEN "kept" ELSE watcher[w]]
    BY <1>7 DEF Allocates
  <2>2. /\ holds' \in [Conns -> Conns \cup {Null}]
        /\ watcher' \in [Conns -> {"none", "live", "kept", "spoilt"}]
    BY <2>1 DEF TypeOK
  <2> QED
    BY <1>7, <2>2 DEF Allocates, Goes, netVars, TypeOK, Lines
<1>8. ASSUME NEW c \in Conns, Starts(c)
      PROVE  TypeOK'
  BY <1>8 DEF Starts, Goes, netVars, TypeOK, Lines
<1>9. ASSUME NEW c \in Conns, Drops(c)
      PROVE  TypeOK'
  BY <1>9 DEF Drops, Goes, netVars, TypeOK, Lines
<1>10. ASSUME NEW c \in Conns, FreesWatcher(c)
       PROVE  TypeOK'
  BY <1>10 DEF FreesWatcher, Goes, netVars, TypeOK, Lines
<1>11. ASSUME NEW f \in Conns \cup {Listen}, EventError(f)
       PROVE  TypeOK'
  <2>1. list' \in [Conns -> Conns \cup {Null}]
    BY <1>11, ListsShrink
  <2>2. UNCHANGED <<arrived, e_thd, ev_thread, pc, mine, watcher, holds>>
    BY <1>11 DEF EventError, netVars
  <2> QED
    BY <2>1, <2>2 DEF TypeOK
<1> QED
  BY <1>1, <1>2, <1>3, <1>4, <1>5, <1>6, <1>7, <1>8, <1>9, <1>10, <1>11, NextCases

-----------------------------------------------------------------------------
(* Every step preserves the invariant.                                     *)

LEMMA QuietStep ==
    ASSUME IInv, TypeOK, Quiet
    PROVE  IInv'
<1>1. UNCHANGED <<e_thd, pc, mine, watcher, holds, list, stopped, crossed, crowded, Accepted>>
  BY DEF Quiet, threadVars, Accepted
<1>2. InOrder'
  <2>1. Cardinality(Accepted)' = Cardinality(Accepted)
    BY <1>1
  <2>2. arrived' + Cardinality(Accepted) <= MaxConns
    BY AcceptedCount, HandoffAssumption DEF Quiet, Arrives, InOrder, IInv, TypeOK
  <2> QED
    BY <1>1, <2>1, <2>2 DEF InOrder, IInv
<1> QED
  BY <1>1, <1>2 DEF IInv, ThreadInv, FromThreads, Taken, TidyOrDoomed, Tidy, Doomed,
                    AloneInv, Alone

LEMMA StackStep ==
    ASSUME IInv, TypeOK, StackReused
    PROVE  IInv'
<1>1. /\ UNCHANGED <<pc, mine, watcher, holds, list, stopped, crossed, crowded, arrived, Accepted>>
      /\ e_thd' \in {Null, Garbage}
  BY DEF StackReused, netVars, ghostVars, Accepted
<1>2. e_thd' \notin Conns
  BY <1>1, HandoffAssumption DEF Conns
<1>3. InOrder' /\ \A w \in Conns : ThreadInv(w)'
  BY <1>1, <1>2 DEF InOrder, IInv, ThreadInv
<1>4. FromThreads'
  BY <1>1 DEF FromThreads, Taken, IInv
<1>5. TidyOrDoomed'
  BY <1>1, <1>2 DEF TidyOrDoomed, Tidy, Doomed, IInv
<1>6. AloneInv'
  BY <1>1 DEF AloneInv, Alone, IInv
<1> QED
  BY <1>3, <1>4, <1>5, <1>6 DEF IInv

\* The system refuses a descriptor: lists only shrink.
LEMMA EventErrorStep ==
    ASSUME IInv, TypeOK, NEW f \in Conns \cup {Listen}, EventError(f)
    PROVE  IInv'
<1>1. UNCHANGED <<e_thd, pc, mine, watcher, holds, stopped, crossed, crowded, arrived, Accepted>>
  BY DEF EventError, netVars, Accepted
<1>2. \A w \in Conns : list'[w] \in {list[w], Null}
  BY ListsShrink
<1>3. InOrder' /\ FromThreads'
  BY <1>1 DEF InOrder, IInv, FromThreads, Taken
<1>4. \A w \in Conns : ThreadInv(w)'
  BY <1>1, <1>2 DEF IInv, ThreadInv
<1>5. TidyOrDoomed'
  BY <1>1, <1>2 DEF TidyOrDoomed, Tidy, Doomed, IInv
<1>6. AloneInv'
  <2> SUFFICES ASSUME NEW a \in Accepted, a \notin crowded
               PROVE  Alone(a)'
    BY <1>1 DEF AloneInv
  <2>1. Alone(a) /\ a \in Conns
    BY DEF IInv, AloneInv, Accepted
  <2>2. \A d \in Accepted : d \in Conns
    BY DEF Accepted
  <2> QED
    BY <1>1, <1>2, <2>1, <2>2 DEF Alone
<1> QED
  BY <1>3, <1>4, <1>5, <1>6 DEF IInv

LEMMA FindsStep ==
    ASSUME IInv, TypeOK, NEW c \in Conns, Finds(c)
    PROVE  IInv'
<1>1. /\ UNCHANGED <<e_thd, mine, watcher, holds, list, stopped, crossed, crowded, arrived>>
      /\ pc[c] = "check"
  BY DEF Finds, netVars, ghostVars
<1>2. /\ pc'[c] = "load" /\ Accepted' = Accepted
      /\ \A w \in Conns \ {c} : pc'[w] = pc[w]
  BY <1>1, GoesOn DEF Finds, Lines
<1>3. InOrder' /\ FromThreads'
  BY <1>1, <1>2 DEF InOrder, IInv, FromThreads, Taken
<1>4. \A w \in Conns : ThreadInv(w)'
  BY <1>1, <1>2 DEF IInv, ThreadInv
<1>5. TidyOrDoomed'
  BY <1>1, <1>2 DEF TidyOrDoomed, Tidy, Doomed, IInv
<1>6. AloneInv'
  <2> SUFFICES ASSUME NEW a \in Accepted, a \notin crowded
               PROVE  Alone(a)'
    BY <1>1, <1>2 DEF AloneInv
  <2>1. Alone(a) /\ a \in Conns
    BY DEF IInv, AloneInv, Accepted
  <2>2. \A d \in Accepted : d \in Conns
    BY DEF Accepted
  <2> QED
    BY <1>1, <1>2, <2>1, <2>2 DEF Alone
<1> QED
  BY <1>3, <1>4, <1>5, <1>6 DEF IInv

\* A thread that finds null, or strays, takes no connection and is done.
LEMMA FindsNothingStep ==
    ASSUME IInv, TypeOK, NEW c \in Conns, FindsNull(c) \/ Strays(c)
    PROVE  IInv'
<1>1. /\ UNCHANGED <<e_thd, mine, watcher, holds, list, stopped, crossed, crowded, arrived>>
      /\ pc[c] \in {"check", "load"}
  BY DEF FindsNull, Strays, netVars, ghostVars
<1>2. /\ pc'[c] = "done" /\ Accepted' = Accepted
      /\ \A w \in Conns \ {c} : pc'[w] = pc[w]
  BY <1>1, GoesOn DEF FindsNull, Strays, Lines
<1>3. InOrder' /\ FromThreads'
  BY <1>1, <1>2 DEF InOrder, IInv, FromThreads, Taken
<1>4. \A w \in Conns : ThreadInv(w)'
  BY <1>1, <1>2 DEF IInv, ThreadInv
<1>5. TidyOrDoomed'
  BY <1>1, <1>2 DEF TidyOrDoomed, Tidy, Doomed, IInv
<1>6. AloneInv'
  <2> SUFFICES ASSUME NEW a \in Accepted, a \notin crowded
               PROVE  Alone(a)'
    BY <1>1, <1>2 DEF AloneInv
  <2>1. Alone(a) /\ a \in Conns
    BY DEF IInv, AloneInv, Accepted
  <2>2. \A d \in Accepted : d \in Conns
    BY DEF Accepted
  <2> QED
    BY <1>1, <1>2, <2>1, <2>2 DEF Alone
<1> QED
  BY <1>3, <1>4, <1>5, <1>6 DEF IInv

\* A thread takes what the variable has, its own connection or a later one: if
\* it is a later one, nobody has its own any more.
LEMMA LoadsStep ==
    ASSUME IInv, TypeOK, NEW c \in Conns, Loads(c)
    PROVE  IInv'
<1>1. /\ UNCHANGED <<e_thd, watcher, holds, list, stopped, crossed, crowded, arrived>>
      /\ pc[c] = "load" /\ e_thd \in Conns
      /\ mine' = [mine EXCEPT ![c] = e_thd]
  BY DEF Loads, netVars, ghostVars
<1>2. /\ pc'[c] = "start" /\ Accepted' = Accepted
      /\ \A w \in Conns \ {c} : pc'[w] = pc[w]
  BY <1>1, GoesOn DEF Loads, Lines
<1>3. mine'[c] = e_thd /\ \A w \in Conns \ {c} : mine'[w] = mine[w]
  BY <1>1 DEF TypeOK
<1>4. e_thd # Null /\ e_thd # Garbage
  BY <1>1, HandoffAssumption DEF Conns
<1>5. /\ c \in Accepted /\ e_thd \in Accepted /\ e_thd >= c
      /\ \A a \in Accepted : a <= e_thd
  <2>1. c \in Accepted
    BY <1>1 DEF Accepted
  <2>2. e_thd = Cardinality(Accepted) /\ Accepted = 1 .. Cardinality(Accepted)
    BY <1>1 DEF IInv, InOrder
  <2>3. e_thd >= 1 /\ e_thd \in Nat
    BY <1>1, HandoffAssumption DEF Conns
  <2> QED
    BY <2>1, <2>2, <2>3
<1>6. mine[c] = Null /\ list[c] = Null
  BY <1>1 DEF IInv, ThreadInv
<1>7. InOrder'
  BY <1>1, <1>2 DEF InOrder, IInv
<1>8. \A w \in Conns : ThreadInv(w)'
  BY <1>1, <1>2, <1>3, <1>4, <1>6 DEF IInv, ThreadInv
<1>9. FromThreads'
  <2>1. \A x \in Conns : Taken(x) => Taken(x)'
    BY <1>3, <1>6, HandoffAssumption DEF Taken, Conns
  <2>2. \A w \in Conns : mine'[w] # Null => mine'[w] \in Accepted /\ mine'[w] >= w
    BY <1>3, <1>5 DEF IInv, FromThreads
  <2>4. \A x \in stopped \cup crossed : Taken(x)'
    <3> SUFFICES ASSUME NEW x \in stopped \cup crossed PROVE Taken(x)'
      OBVIOUS
    <3>1. Taken(x)
      BY DEF IInv, FromThreads
    <3> QED
      BY <3>1, <2>1 DEF Taken
  <2> QED
    BY <1>1, <1>2, <2>1, <2>2, <2>4 DEF IInv, FromThreads, TypeOK, Taken
<1>10. TidyOrDoomed'
  <2>1. ASSUME NEW u \in Conns, Doomed(u)
        PROVE  Doomed(u)'
    <3>1. e_thd # u
      BY <2>1 DEF Doomed
    <3> QED
      BY <1>1, <1>2, <1>3, <2>1, <3>1 DEF Doomed
  <2>2. CASE Tidy /\ e_thd = c
    BY <1>1, <1>2, <1>3, <2>2 DEF Tidy, TidyOrDoomed
  <2>3. CASE Tidy /\ e_thd # c
    <3>1. ~ Taken(c) /\ \A v \in Conns : mine'[v] # c
      BY <1>3, <1>6, <2>3, HandoffAssumption DEF Tidy, Taken, Conns
    <3>2. c \notin stopped /\ \A v \in Conns : holds[v] # c
      BY <3>1, HandoffAssumption DEF IInv, FromThreads, Conns
    <3> QED
      BY <1>1, <1>2, <1>5, <2>3, <3>1, <3>2 DEF Doomed, TidyOrDoomed
  <2> QED
    BY <2>1, <2>2, <2>3 DEF IInv, TidyOrDoomed
<1>11. AloneInv'
  <2> SUFFICES ASSUME NEW a \in Accepted, a \notin crowded
               PROVE  Alone(a)'
    BY <1>1, <1>2 DEF AloneInv
  <2>1. Alone(a) /\ a \in Conns
    BY DEF IInv, AloneInv, Accepted
  <2>2. \A d \in Accepted : d \in Conns
    BY DEF Accepted
  <2>3. CASE a = c
    <3>1. e_thd = a
      BY <1>1, <1>4, <2>1, <2>3 DEF Alone
    <3>2. \A d \in Accepted : ~ (d > a) /\ (d < a => d # c)
      BY <1>1, <2>1, <2>3 DEF Alone
    <3> QED
      BY <1>1, <1>2, <1>3, <2>1, <2>2, <2>3, <3>1, <3>2 DEF Alone
  <2>4. CASE a # c
    BY <1>1, <1>2, <1>3, <1>5, <2>1, <2>2, <2>4 DEF Alone
  <2> QED
    BY <2>3, <2>4
<1> QED
  BY <1>7, <1>8, <1>9, <1>10, <1>11 DEF IInv

\* A watcher gets memory, which may be that of one that is still in a list: then
\* nobody has the connection of that one any more.
LEMMA AllocatesStep ==
    ASSUME IInv, TypeOK, NEW c \in Conns, Allocates(c)
    PROVE  IInv'
<1>1. /\ UNCHANGED <<e_thd, mine, list, stopped, crossed, crowded, arrived>>
      /\ pc[c] = "start"
  BY DEF Allocates, netVars, ghostVars
<1>2. /\ pc'[c] = "starting" /\ Accepted' = Accepted
      /\ \A w \in Conns \ {c} : pc'[w] = pc[w]
  BY <1>1, GoesOn DEF Allocates, Lines
<1>3. PICK old \in SUBSET {w \in Conns : watcher[w] \in {"kept", "spoilt"}} :
          /\ holds' = [w \in Conns |-> IF w \in old \cup {c} THEN mine[c] ELSE holds[w]]
          /\ watcher' = [w \in Conns |-> IF w = c THEN "live"
                                         ELSE IF w \in old THEN "kept" ELSE watcher[w]]
  BY DEF Allocates
<1>4. /\ \A w \in Conns : holds'[w] = IF w \in old \cup {c} THEN mine[c] ELSE holds[w]
      /\ \A w \in Conns : watcher'[w] = IF w = c THEN "live"
                                        ELSE IF w \in old THEN "kept" ELSE watcher[w]
      /\ \A w \in old : w \in Conns /\ watcher[w] \in {"kept", "spoilt"}
  BY <1>3
<1>5. /\ mine[c] # Null /\ list[c] = Null /\ c \in Accepted
      /\ mine[c] \in Accepted /\ mine[c] >= c
  BY <1>1 DEF IInv, ThreadInv, FromThreads, Accepted
<1>6. \A w \in old : pc[w] = "done" /\ w # c /\ e_thd # w
  BY <1>1, <1>4 DEF IInv, ThreadInv, TypeOK, Lines
<1>7. InOrder'
  BY <1>1, <1>2 DEF InOrder, IInv
<1>8. \A w \in Conns : ThreadInv(w)'
  BY <1>1, <1>2, <1>4, <1>5, <1>6 DEF IInv, ThreadInv
<1>9. FromThreads'
  <2>1. Taken(mine[c])
    BY <1>5 DEF Taken, Accepted
  <2> QED
    BY <1>1, <1>2, <1>4, <2>1 DEF IInv, FromThreads, Taken
<1>10. TidyOrDoomed'
  <2>1. ASSUME NEW u \in Conns, Doomed(u)
        PROVE  Doomed(u)'
    <3>1. mine[c] # u
      BY <1>1, <2>1 DEF Doomed
    <3> QED
      BY <1>1, <1>2, <1>4, <2>1, <3>1 DEF Doomed
  <2>2. CASE Tidy /\ \A w \in old : list[w] = Null
    BY <1>1, <1>2, <1>4, <1>5, <2>2 DEF Tidy, TidyOrDoomed
  <2>3. ASSUME Tidy, NEW w \in old, list[w] # Null
        PROVE  Doomed(w)'
    <3>1. w \in Conns /\ pc[w] = "done" /\ w # c /\ e_thd # w
      BY <1>4, <1>6
    <3>2. w \in Accepted \ stopped
      BY <2>3, <3>1 DEF Tidy, Accepted
    <3>3. \A v \in Conns : pc'[v] \in {"start", "starting"} => mine[v] # w
      BY <1>1, <1>2, <1>5, <2>3, <3>1, HandoffAssumption DEF Tidy, Conns
    <3>4. \A v \in Conns : list[v] # Null => holds'[v] # w
      BY <1>4, <1>5, <2>3, <3>1 DEF Tidy
    <3> QED
      BY <1>1, <1>2, <3>1, <3>2, <3>3, <3>4 DEF Doomed
  <2> QED
    BY <1>4, <2>1, <2>2, <2>3 DEF IInv, TidyOrDoomed
<1>11. AloneInv'
  <2> SUFFICES ASSUME NEW a \in Accepted, a \notin crowded
               PROVE  Alone(a)'
    BY <1>1, <1>2 DEF AloneInv
  <2>1. Alone(a) /\ a \in Conns
    BY DEF IInv, AloneInv, Accepted
  <2>2. \A d \in Accepted : d \in Conns
    BY DEF Accepted
  <2>3. c < a => pc[c] = "done"
    BY <1>5, <2>1 DEF Alone
  <2>4. a # c => mine[c] # a /\ (a \in old => list[a] = Null)
    BY <1>1, <1>5, <2>1, <2>2, <2>3, HandoffAssumption DEF Alone, Conns
  <2>5. a = c => \A d \in Accepted : ~ (d > a)
    BY <1>1, <2>1 DEF Alone
  <2> QED
    BY <1>1, <1>2, <1>4, <1>5, <2>1, <2>2, <2>3, <2>4, <2>5 DEF Alone
<1> QED
  BY <1>7, <1>8, <1>9, <1>10, <1>11 DEF IInv

\* A watcher gets into the list of the connection that its thread has taken.
LEMMA StartsStep ==
    ASSUME IInv, TypeOK, NEW c \in Conns, Starts(c)
    PROVE  IInv'
<1>1. /\ UNCHANGED <<e_thd, mine, watcher, holds, stopped, crossed, crowded, arrived>>
      /\ pc[c] = "starting"
      /\ list' = [list EXCEPT ![c] = mine[c]]
  BY DEF Starts, netVars
<1>2. /\ pc'[c] = "drop" /\ Accepted' = Accepted
      /\ \A w \in Conns \ {c} : pc'[w] = pc[w]
  BY <1>1, GoesOn DEF Starts, Lines
<1>3. list'[c] = mine[c] /\ \A w \in Conns \ {c} : list'[w] = list[w]
  BY <1>1 DEF TypeOK
<1>4. mine[c] # Null /\ holds[c] = mine[c] /\ c \in Accepted
  BY <1>1 DEF IInv, ThreadInv, Accepted
<1>5. InOrder'
  BY <1>1, <1>2 DEF InOrder, IInv
<1>6. \A w \in Conns : ThreadInv(w)'
  BY <1>1, <1>2, <1>3, <1>4 DEF IInv, ThreadInv
<1>7. FromThreads'
  BY <1>1, <1>2 DEF IInv, FromThreads, Taken
<1>8. TidyOrDoomed'
  <2>1. ASSUME NEW u \in Conns, Doomed(u)
        PROVE  Doomed(u)'
    <3>1. mine[c] # u
      BY <1>1, <2>1 DEF Doomed
    <3> QED
      BY <1>1, <1>2, <1>3, <1>4, <2>1, <3>1 DEF Doomed
  <2>2. CASE Tidy
    BY <1>1, <1>2, <1>3, <1>4, <2>2 DEF Tidy, TidyOrDoomed
  <2> QED
    BY <2>1, <2>2 DEF IInv, TidyOrDoomed
<1>9. AloneInv'
  <2> SUFFICES ASSUME NEW a \in Accepted, a \notin crowded
               PROVE  Alone(a)'
    BY <1>1, <1>2 DEF AloneInv
  <2>1. Alone(a) /\ a \in Conns
    BY DEF IInv, AloneInv, Accepted
  <2>2. \A d \in Accepted : d \in Conns
    BY DEF Accepted
  <2>3. c < a => pc[c] = "done"
    BY <1>4, <2>1 DEF Alone
  <2>4. a = c => \A d \in Accepted : ~ (d > a)
    BY <1>1, <2>1 DEF Alone
  <2> QED
    BY <1>1, <1>2, <1>3, <1>4, <2>1, <2>2, <2>3, <2>4 DEF Alone
<1> QED
  BY <1>5, <1>6, <1>7, <1>8, <1>9 DEF IInv

\* ev_thread_destroy sets the variable to null.
LEMMA DropsStep ==
    ASSUME IInv, TypeOK, NEW c \in Conns, Drops(c)
    PROVE  IInv'
<1>1. /\ UNCHANGED <<mine, watcher, holds, list, stopped, crossed, crowded, arrived>>
      /\ pc[c] = "drop" /\ e_thd' = Null
  BY DEF Drops, netVars, ghostVars
<1>2. /\ pc'[c] = "free" /\ Accepted' = Accepted
      /\ \A w \in Conns \ {c} : pc'[w] = pc[w]
  BY <1>1, GoesOn DEF Drops, Lines
<1>3. e_thd' \notin Conns /\ c \in Accepted
  BY <1>1, HandoffAssumption DEF Conns, Accepted
<1>4. InOrder' /\ FromThreads'
  BY <1>1, <1>2, <1>3 DEF InOrder, IInv, FromThreads, Taken
<1>5. \A w \in Conns : ThreadInv(w)'
  BY <1>1, <1>2, <1>3 DEF IInv, ThreadInv
<1>6. TidyOrDoomed'
  BY <1>1, <1>2, <1>3 DEF TidyOrDoomed, Tidy, Doomed, IInv
<1>7. AloneInv'
  <2> SUFFICES ASSUME NEW a \in Accepted, a \notin crowded
               PROVE  Alone(a)'
    BY <1>1, <1>2 DEF AloneInv
  <2>1. Alone(a) /\ a \in Conns
    BY DEF IInv, AloneInv, Accepted
  <2>2. \A d \in Accepted : d \in Conns
    BY DEF Accepted
  <2>3. a = c \/ pc[a] = "done"
    <3>1. a \in Nat /\ c \in Nat
      BY <2>1 DEF Conns
    <3> QED
      BY <1>1, <1>3, <2>1, <3>1 DEF Alone
  <2> QED
    BY <1>1, <1>2, <1>3, <2>1, <2>2, <2>3 DEF Alone
<1> QED
  BY <1>4, <1>5, <1>6, <1>7 DEF IInv

\* A watcher is freed in its list.
LEMMA FreesStep ==
    ASSUME IInv, TypeOK, NEW c \in Conns, FreesWatcher(c)
    PROVE  IInv'
<1>1. /\ UNCHANGED <<e_thd, mine, holds, list, stopped, crossed, crowded, arrived>>
      /\ pc[c] = "free"
      /\ \E s \in {"kept", "spoilt"} : watcher' = [watcher EXCEPT ![c] = s]
  BY DEF FreesWatcher, netVars, ghostVars
<1>2. /\ pc'[c] = "done" /\ Accepted' = Accepted
      /\ \A w \in Conns \ {c} : pc'[w] = pc[w]
  BY <1>1, GoesOn DEF FreesWatcher, Lines
<1>3. watcher'[c] # "none" /\ \A w \in Conns \ {c} : watcher'[w] = watcher[w]
  BY <1>1 DEF TypeOK
<1>4. mine[c] # Null /\ c \in Accepted
  BY <1>1 DEF IInv, ThreadInv, Accepted
<1>5. InOrder' /\ FromThreads'
  BY <1>1, <1>2 DEF InOrder, IInv, FromThreads, Taken
<1>6. \A w \in Conns : ThreadInv(w)'
  BY <1>1, <1>2, <1>3 DEF IInv, ThreadInv
<1>7. TidyOrDoomed'
  BY <1>1, <1>2 DEF TidyOrDoomed, Tidy, Doomed, IInv
<1>8. AloneInv'
  <2> SUFFICES ASSUME NEW a \in Accepted, a \notin crowded
               PROVE  Alone(a)'
    BY <1>1, <1>2 DEF AloneInv
  <2>1. Alone(a) /\ a \in Conns
    BY DEF IInv, AloneInv, Accepted
  <2>2. \A d \in Accepted : d \in Conns
    BY DEF Accepted
  <2> QED
    BY <1>1, <1>2, <1>4, <2>1, <2>2 DEF Alone
<1> QED
  BY <1>5, <1>6, <1>7, <1>8 DEF IInv

\* accept_cb: who comes when all others are stopped and done finds no watcher
\* in a list; who is still under way, and who comes then, is crowded.
LEMMA AcceptStep ==
    ASSUME IInv, TypeOK, AcceptCb
    PROVE  IInv'
<1> DEFINE k == Cardinality(Accepted) + 1
<1>1. /\ UNCHANGED <<mine, watcher, holds, list, stopped, crossed>>
      /\ arrived > 0 /\ arrived' = arrived - 1 /\ e_thd' = k
      /\ crowded' = IF UnderWay = {} THEN crowded ELSE crowded \cup UnderWay \cup {k}
  BY DEF AcceptCb
<1>2. /\ k \in Conns /\ pc[k] = "none" /\ k - 1 = Cardinality(Accepted)
      /\ \E line \in {"check", "done"} : pc' = [pc EXCEPT ![k] = line]
      /\ Accepted' = Accepted \cup {k}
      /\ Accepted' = 1 .. k
      /\ Cardinality(Accepted)' = k
  BY NextAccepted, AcceptedCount DEF IInv
<1>3. arrived \in Nat /\ k \in Nat /\ arrived + (k - 1) <= MaxConns
  BY <1>2 DEF IInv, InOrder, TypeOK, Conns
<1> HIDE DEF k
<1>4. pc'[k] \in {"check", "done"} /\ \A w \in Conns \ {k} : pc'[w] = pc[w]
  BY <1>2 DEF TypeOK
<1>5. /\ \A a \in Accepted : a \in Conns /\ a < k
      /\ k \notin Accepted
  BY <1>2, <1>3, AcceptedCount DEF IInv, InOrder, Accepted
<1>6. mine[k] = Null /\ holds[k] = Null /\ list[k] = Null
  BY <1>2 DEF IInv, ThreadInv
<1>7. ~ Taken(k)
  BY <1>2, <1>5, HandoffAssumption DEF IInv, FromThreads, Taken, Conns
<1>8. k \notin stopped \cup crossed
  BY <1>7 DEF IInv, FromThreads
<1>9. InOrder'
  BY <1>1, <1>2, <1>3, HandoffAssumption DEF InOrder
<1>10. \A w \in Conns : ThreadInv(w)'
  BY <1>1, <1>2, <1>4, <1>6 DEF IInv, ThreadInv
<1>11. FromThreads'
  BY <1>1, <1>2 DEF IInv, FromThreads, Taken
<1>12. TidyOrDoomed'
  <2>1. ASSUME NEW u \in Conns, Doomed(u)
        PROVE  Doomed(u)'
    BY <1>1, <1>2, <1>4, <1>5, <2>1 DEF Doomed
  <2>2. CASE Tidy
    BY <1>1, <1>4, <1>8, <2>2 DEF Tidy, TidyOrDoomed
  <2> QED
    BY <2>1, <2>2 DEF IInv, TidyOrDoomed
<1>13. ASSUME NEW a \in Accepted, a \notin crowded'
       PROVE  Alone(a)'
  <2>1. Alone(a) /\ a \in Conns /\ a < k /\ a # k
    BY <1>1, <1>5, <1>13 DEF IInv, AloneInv
  <2>2. a \in stopped /\ pc[a] = "done"
    BY <1>1, <1>13 DEF UnderWay
  <2>3. holds[k] # a
    BY <1>6, <2>1, HandoffAssumption DEF Conns
  <2>4. \A d \in Accepted' : d \in Accepted \/ d = k
    BY <1>2
  <2>5. /\ pc'[a] = "done" /\ list'[a] = Null /\ a \in stopped'
        /\ mine'[a] \in {a, Null} /\ a \notin crossed'
    BY <1>1, <1>4, <2>1, <2>2 DEF Alone
  <2>6. ASSUME NEW d \in Accepted'
        PROVE  /\ d < a => pc'[d] = "done" /\ list'[d] = Null /\ mine'[d] # a
               /\ d > a => holds'[d] # a
    <3>1. CASE d = k
      BY <1>1, <1>3, <2>1, <2>3, <3>1 DEF Conns
    <3>2. CASE d \in Accepted
      BY <1>1, <1>4, <1>5, <2>1, <3>2 DEF Alone
    <3> QED
      BY <2>4, <3>1, <3>2
  <2> QED
    BY <2>5, <2>6 DEF Alone
<1>14. ASSUME NEW a \in Accepted', a = k, a \notin crowded'
       PROVE  Alone(a)'
  <2>1. UnderWay = {}
    BY <1>1, <1>14
  <2>2. \A d \in Accepted : d \in stopped /\ pc[d] = "done"
    BY <2>1 DEF UnderWay
  <2>3. Tidy
    BY <2>2 DEF IInv, TidyOrDoomed, Doomed
  <2>4. \A d \in Accepted : list[d] = Null /\ mine[d] # k
    BY <1>2, <1>5, <1>7, <2>2, <2>3 DEF Tidy, Taken
  <2>5. \A d \in Accepted' : d \in Accepted \/ d = k
    BY <1>2
  <2>6. \A d \in Accepted : pc'[d] = "done"
    BY <1>4, <1>5, <2>2
  <2>7. \A d \in Accepted' : ~ (d > a)
    BY <1>3, <1>5, <1>14, <2>5
  <2> QED
    BY <1>1, <1>4, <1>6, <1>8, <1>14, <2>4, <2>5, <2>6, <2>7 DEF Alone
<1>15. AloneInv'
  BY <1>2, <1>13, <1>14 DEF AloneInv
<1> QED
  BY <1>9, <1>10, <1>11, <1>12, <1>15 DEF IInv

\* read_cb on the descriptor f, for a watcher w in its list.
LEMMA ReadStep ==
    ASSUME IInv, TypeOK, NEW f \in Conns, NEW w \in Conns, ReadCb(f, w)
    PROVE  IInv'
<1>1. /\ UNCHANGED <<e_thd, pc, mine, watcher, holds, crowded, arrived, Accepted>>
      /\ list[w] = f /\ watcher[w] \in {"live", "kept"}
      /\ crossed' = IF holds[w] = f THEN crossed ELSE crossed \cup {holds[w], f}
  BY DEF ReadCb, Accepted
<1>2. \/ list' = list /\ stopped' = stopped
      \/ /\ list' = IF holds[w] = f THEN [list EXCEPT ![w] = Null] ELSE list
         /\ stopped' = stopped \cup {holds[w]}
  BY DEF ReadCb, ev_io_stop
<1>3. /\ \A v \in Conns \ {w} : list'[v] = list[v]
      /\ list'[w] \in {list[w], Null}
      /\ \/ stopped' = stopped
         \/ /\ stopped' = stopped \cup {holds[w]}
            /\ holds[w] = f => list'[w] = Null
  BY <1>2 DEF TypeOK
<1>4. /\ list[w] # Null /\ holds[w] # Null /\ mine[w] = f
      /\ pc[w] \in {"drop", "free", "done"} /\ w \in Accepted /\ f # Null
  <2>1. list[w] # Null /\ f # Null
    BY <1>1, HandoffAssumption DEF Conns
  <2> QED
    BY <1>1, <2>1 DEF IInv, ThreadInv, TypeOK, Lines, Accepted
<1>5. InOrder'
  BY <1>1 DEF InOrder, IInv
<1>6. \A v \in Conns : ThreadInv(v)'
  BY <1>1, <1>3, <1>4 DEF IInv, ThreadInv
<1>7. FromThreads'
  <2>1. Taken(holds[w]) /\ Taken(f)
    BY <1>4 DEF IInv, FromThreads, Taken
  <2> QED
    BY <1>1, <1>3, <2>1 DEF IInv, FromThreads, Taken
<1>8. TidyOrDoomed'
  <2>1. ASSUME NEW u \in Conns, Doomed(u)
        PROVE  Doomed(u)'
    <3>1. holds[w] # u
      BY <1>4, <2>1 DEF Doomed
    <3> QED
      BY <1>1, <1>3, <2>1, <3>1 DEF Doomed
  <2>2. CASE Tidy
    <3>1. f = w /\ holds[w] = w
      BY <1>4, <2>2, HandoffAssumption DEF Tidy, Conns
    <3> QED
      BY <1>1, <1>3, <1>4, <2>2, <3>1 DEF Tidy, TidyOrDoomed
  <2> QED
    BY <2>1, <2>2 DEF IInv, TidyOrDoomed
<1>9. AloneInv'
  <2> SUFFICES ASSUME NEW a \in Accepted, a \notin crowded
               PROVE  Alone(a)'
    BY <1>1 DEF AloneInv
  <2>1. Alone(a) /\ a \in Conns
    BY DEF IInv, AloneInv, Accepted
  <2>2. \A d \in Accepted : d \in Conns
    BY DEF Accepted
  <2>3. a \in Nat /\ w \in Nat /\ f \in Nat /\ f >= w
    BY <1>4, <2>1 DEF Conns, IInv, FromThreads
  <2>4. CASE w = a
    <3>1. f = a /\ holds[w] = a
      BY <1>4, <2>1, <2>4 DEF Alone
    <3> QED
      BY <1>1, <1>3, <1>4, <2>1, <2>2, <2>4, <3>1 DEF Alone
  <2>5. CASE w # a
    <3>1. w > a
      BY <1>4, <2>1, <2>3, <2>5 DEF Alone
    <3>2. f # a /\ holds[w] # a
      BY <1>4, <2>1, <2>3, <3>1 DEF Alone
    <3> QED
      BY <1>1, <1>3, <2>1, <2>2, <2>5, <3>2, HandoffAssumption DEF Alone
  <2> QED
    BY <2>4, <2>5
<1> QED
  BY <1>5, <1>6, <1>7, <1>8, <1>9 DEF IInv

LEMMA IInvStep ==
    ASSUME IInv, TypeOK, [HandoffNext]_handoffVars
    PROVE  IInv'
<1> QED
  BY NextCases, QuietStep, StackStep, EventErrorStep, AcceptStep, ReadStep,
     FindsNothingStep, FindsStep, LoadsStep, AllocatesStep, StartsStep, DropsStep, FreesStep

LEMMA InitInv == HandoffInit => TypeOK /\ IInv
<1> SUFFICES ASSUME HandoffInit PROVE TypeOK /\ IInv
  OBVIOUS
<1>1. TypeOK
  BY DEF HandoffInit, TypeOK, Lines
<1>2. Accepted = {} /\ Cardinality(Accepted) = 0
  BY FS_EmptySet DEF HandoffInit, Accepted
<1>3. e_thd \notin Conns
  BY HandoffAssumption DEF HandoffInit, Conns
<1>4. InOrder
  BY <1>2, <1>3, HandoffAssumption DEF InOrder, HandoffInit
<1>5. \A w \in Conns : ThreadInv(w)
  BY DEF HandoffInit, ThreadInv
<1>6. FromThreads /\ Tidy
  BY DEF HandoffInit, FromThreads, Tidy
<1>7. AloneInv
  BY <1>2 DEF AloneInv
<1> QED
  BY <1>1, <1>4, <1>5, <1>6, <1>7 DEF IInv, TidyOrDoomed

-----------------------------------------------------------------------------
(* The theorems.                                                           *)

\* What the threads, the watchers and the lists have is well typed, and the
\* inductive invariant holds, in every state of the handoff.
THEOREM HandoffCorrect == HandoffSpec => [](TypeOK /\ IInv)
<1>1. TypeOK /\ IInv /\ [HandoffNext]_handoffVars => TypeOK' /\ IInv'
  BY TypeStep, IInvStep DEF IInv
<1> QED
  BY InitInv, <1>1, PTL DEF HandoffSpec

LEMMA InvImplies == TypeOK /\ IInv => AloneIsItself
<1> SUFFICES ASSUME TypeOK, IInv, NEW c \in Conns \ crowded
             PROVE  /\ c \notin crossed
                    /\ mine[c] \in {c, Null}
                    /\ list[c] # Null => list[c] = c /\ holds[c] = c
                    /\ \A d \in Conns \ {c} : list[d] # c /\ mine[d] # c
  BY DEF AloneIsItself
<1>1. \A d \in Conns : list[d] \in {Null, mine[d]}
  BY DEF IInv, ThreadInv
<1>2. c # Null /\ c \in Nat
  BY HandoffAssumption DEF Conns
<1>3. CASE c \notin Accepted
  <2>1. pc[c] = "none"
    BY <1>3 DEF Accepted
  <2>2. mine[c] = Null /\ list[c] = Null
    BY <2>1 DEF IInv, ThreadInv
  <2>3. \A d \in Conns : mine[d] # c
    BY <1>2, <1>3 DEF IInv, FromThreads
  <2>4. c \notin crossed
    BY <2>3 DEF IInv, FromThreads, Taken
  <2> QED
    BY <1>1, <1>2, <2>1, <2>2, <2>3, <2>4
<1>4. CASE c \in Accepted
  <2>1. Alone(c)
    BY <1>4 DEF IInv, AloneInv
  <2>2. mine[c] \in {c, Null}
    BY <2>1 DEF Alone
  <2>3. list[c] # Null => list[c] = c /\ holds[c] = c
    BY <1>1, <2>1 DEF Alone
  <2>4. ASSUME NEW d \in Conns \ {c}
        PROVE  mine[d] # c
    <3>1. mine[d] # Null => mine[d] >= d /\ d \in Accepted
      BY DEF IInv, FromThreads, ThreadInv, Accepted
    <3>2. d \in Nat
      BY DEF Conns
    <3> QED
      BY <1>2, <2>1, <3>1, <3>2 DEF Alone
  <2> QED
    BY <1>1, <1>2, <2>1, <2>2, <2>3, <2>4 DEF Alone
<1> QED
  BY <1>3, <1>4

\* A connection that had nobody beside it on its way goes to read_cb as itself
\* or not at all, whatever became of those before it: accept_cb, its thread, the
\* memory of its watcher and the list of its descriptor all have this connection.
THEOREM AloneCorrect == HandoffSpec => []AloneIsItself
  BY HandoffCorrect, InvImplies, PTL
=============================================================================
