------------------------------ MODULE Handoff ------------------------------
(***************************************************************************)
(* How a connection gets from accept_cb to read_cb (netsocket.c): a thread *)
(* of its own takes it from a local variable of accept_cb, registers a     *)
(* watcher with the loop of another thread, and frees the watcher.  The    *)
(* loop is libev's: apply changes, poll, call back.  Memory that was freed *)
(* or has another owner is read as it was, as null, as something useless,  *)
(* or the process ends.                                                    *)
(***************************************************************************)
EXTENDS Naturals, FiniteSets

CONSTANTS MaxConns,       \* bound on the connections
          DescriptorLimit,
          Null, Garbage,  \* other contents of the local variable e_thd
          Listen          \* the listening socket

ASSUME HandoffAssumption ==
    /\ MaxConns \in Nat /\ DescriptorLimit \in Nat
    /\ Null \notin Nat /\ Garbage \notin Nat /\ Listen \notin Nat
    /\ Null # Garbage

\* Connections in the order of their descriptors; also their ev_threads.
Conns == 1 .. MaxConns

VARIABLES up,
          phase,      \* of the loop: "reify", "reifying", "poll" or "call"
          events,     \* what the poll returned and was not called yet
          changes,    \* fdchanges: descriptors to be polled from the next turn on
          applying,   \* those that fd_reify has come to
          polled,     \* descriptors that epoll watches
          arrived,    \* how many connections are in the listen queue
          sent,       \* connections with bytes to read
          e_thd,      \* the local variable of accept_cb, or what is in its place
          ev_thread,  \* "none", "live" or "freed"
          pc,         \* of the thread of each connection: its next line
          mine,       \* the ev_thread that it took
          watcher,    \* the memory it allocated: "none", "live", "kept", "spoilt"
          holds,      \* the descriptor that this memory has
          list,       \* the descriptor in whose list of watchers it is, or Null
          called,     \* read_cb ran on this descriptor
          stopped,    \* and stopped the watcher
          crossed,    \* read_cb ran on it for another one
          crowded,    \* another connection was on its way at the same time
          lost        \* the loop lost or refused its registration

loopVars == <<phase, events, changes, applying, polled>>
netVars == <<arrived, sent>>
threadVars == <<e_thd, ev_thread, pc, mine, watcher, holds, list>>
ghostVars == <<called, stopped, crossed, crowded, lost>>
handoffVars == <<up, loopVars, netVars, threadVars, ghostVars>>

Accepted == {c \in Conns : pc[c] # "none"}

HandoffInit ==
    /\ up = TRUE
    /\ phase = "reify"
    /\ events = {} /\ changes = {Listen} /\ applying = {} /\ polled = {}
    /\ arrived = 0 /\ sent = {}
    /\ e_thd = Garbage
    /\ ev_thread = [c \in Conns |-> "none"]
    /\ pc = [c \in Conns |-> "none"]
    /\ mine = [c \in Conns |-> Null]
    /\ watcher = [c \in Conns |-> "none"]
    /\ holds = [c \in Conns |-> Null]
    /\ list = [c \in Conns |-> Null]
    /\ called = {} /\ stopped = {} /\ crossed = {} /\ crowded = {} /\ lost = {}

-----------------------------------------------------------------------------
(* Clients.                                                                *)

Arrives ==
    /\ arrived + Cardinality(Accepted) < MaxConns
    /\ arrived' = arrived + 1
    /\ UNCHANGED <<up, loopVars, sent, threadVars, ghostVars>>

Sends(c) ==
    /\ c \in Accepted
    /\ c \notin sent \cup called
    /\ sent' = sent \cup {c}
    /\ UNCHANGED <<up, loopVars, arrived, threadVars, ghostVars>>

-----------------------------------------------------------------------------
(* The loop.                                                               *)

ReifyBegins ==
    /\ up /\ phase = "reify"
    /\ phase' = "reifying"
    /\ applying' = changes
    /\ UNCHANGED <<up, events, changes, polled, netVars, threadVars, ghostVars>>

\* The lists when watcher w is stopped in a call for f: it is looked for in the
\* list of the descriptor that its memory has.  (A plausible bug: it stays.)
ev_io_stop_Inactive(w, f) == list

ev_io_stop(w, f) == IF holds[w] = f THEN [list EXCEPT ![w] = Null] ELSE list

\* The system takes a descriptor no more, for want of memory: libev stops its
\* watchers and calls them with EV_ERROR, and accept_cb or read_cb returns.
EventError(f) ==
    /\ up /\ phase = "reifying"
    /\ f \in applying
    /\ applying' = applying \ {f}
    /\ lost' = lost \cup {f}
    /\ list' = [w \in Conns |-> IF list[w] = f THEN ev_io_stop(w, f)[w] ELSE list[w]]
    /\ UNCHANGED <<up, phase, events, changes, polled, netVars, e_thd, ev_thread, pc, mine,
                   watcher, holds, called, stopped, crossed, crowded>>

\* The count of changes goes back to 0, over what another thread has added.
ReifyEnds ==
    /\ up /\ phase = "reifying"
    /\ phase' = "poll"
    /\ polled' = polled \cup applying
    /\ lost' = lost \cup (changes \ applying)
    /\ changes' = {} /\ applying' = {}
    /\ UNCHANGED <<up, events, netVars, threadVars, called, stopped, crossed, crowded>>

Ready == polled \cap (sent \cup (IF arrived > 0 THEN {Listen} ELSE {}))

Polled ==
    /\ events' = Ready
    /\ phase' = "call"
    /\ UNCHANGED <<up, changes, applying, polled, netVars, threadVars, ghostVars>>

PollReturns ==
    /\ up /\ phase = "poll"
    /\ Ready # {}
    /\ Polled

\* A plausible bug: the timer fires once, at 2 s.
TimerRepeats_Not == FALSE

\* timeout_watcher is due every second.
TimerRepeats == TRUE

TimerFires ==
    /\ up /\ phase = "poll"
    /\ Ready = {}
    /\ TimerRepeats
    /\ Polled

LoopTurns ==
    /\ up /\ phase = "call"
    /\ events = {}
    /\ phase' = "reify"
    /\ UNCHANGED <<up, events, changes, applying, polled, netVars, threadVars, ghostVars>>

\* Descriptors in use: none is ever closed.
Descriptors == Cardinality(Accepted)

\* Connections that are accepted and whose watcher was not stopped yet, or whose
\* thread still runs, or that a second watcher has.
UnderWay ==
    {c \in Accepted : \/ c \notin stopped \/ pc[c] # "done"
                     \/ \E w \in Conns \ {c} : list[w] = c}

\* accept_cb: its variable has one place on the stack.  Nobody looks whether
\* pthread_create made the thread; if not, the ev_thread stays for nobody.
AcceptCb ==
    /\ up /\ phase = "call" /\ Listen \in events
    /\ Descriptors < DescriptorLimit
    /\ arrived > 0
    /\ arrived' = arrived - 1
    /\ LET c == Cardinality(Accepted) + 1
       IN /\ ev_thread' = [ev_thread EXCEPT ![c] = "live"]
          /\ e_thd' = c
          /\ \E line \in {"check", "done"} : pc' = [pc EXCEPT ![c] = line]
          /\ crowded' = IF UnderWay = {} THEN crowded ELSE crowded \cup UnderWay \cup {c}
    /\ events' = events \ {Listen}
    /\ UNCHANGED <<up, phase, changes, applying, polled, sent, mine, watcher, holds, list,
                   called, stopped, crossed, lost>>

\* accept fails: the connection stays in the queue, and the socket ready.
AcceptFails ==
    /\ up /\ phase = "call" /\ Listen \in events
    /\ Descriptors >= DescriptorLimit
    /\ events' = events \ {Listen}
    /\ UNCHANGED <<up, phase, changes, applying, polled, netVars, threadVars, ghostVars>>

\* What the loop calls next uses the stack where accept_cb had its variable:
\* a null pointer or a cleared buffer of it may be there, or anything else.
StackReused ==
    /\ up
    /\ e_thd' \in {Null, Garbage} \ {e_thd}
    /\ UNCHANGED <<up, loopVars, netVars, ev_thread, pc, mine, watcher, holds, list, ghostVars>>

\* read_cb for a watcher in the list of a ready descriptor, on the descriptor
\* that its memory has: it takes what was sent, and stops the watcher, or fails
\* and leaves it.
ReadCb(f, w) ==
    /\ up /\ phase = "call" /\ f \in events
    /\ list[w] = f
    /\ watcher[w] \in {"live", "kept"}
    /\ holds[w] \in sent
    /\ events' = events \ {f}
    /\ called' = called \cup {holds[w]}
    /\ crossed' = IF holds[w] = f THEN crossed ELSE crossed \cup {holds[w], f}
    /\ sent' = sent \ {holds[w]}
    /\ \/ UNCHANGED <<list, polled, stopped>>
       \/ /\ list' = ev_io_stop(w, f)
          /\ polled' = polled \ {holds[w]}
          /\ stopped' = stopped \cup {holds[w]}
    /\ UNCHANGED <<up, phase, changes, applying, arrived, e_thd, ev_thread, pc, mine,
                   watcher, holds, crowded, lost>>

\* Nobody in the list, or only useless memory: nothing is called.
NothingCalled(f) ==
    /\ up /\ phase = "call" /\ f \in events \ {Listen}
    /\ \A w \in Conns : list[w] = f => watcher[w] = "spoilt"
    /\ events' = events \ {f}
    /\ UNCHANGED <<up, phase, changes, applying, polled, netVars, threadVars, ghostVars>>

-----------------------------------------------------------------------------
(* The thread of connection c.                                             *)

Goes(c, line) == pc' = [pc EXCEPT ![c] = line]

\* The variable is null: the thread has nothing to do, its connection stays.
FindsNull(c) ==
    /\ up /\ pc[c] = "check"
    /\ e_thd = Null
    /\ Goes(c, "done")
    /\ UNCHANGED <<up, loopVars, netVars, e_thd, ev_thread, mine, watcher, holds, list, ghostVars>>

Finds(c) ==
    /\ up /\ pc[c] = "check"
    /\ e_thd # Null
    /\ Goes(c, "load")
    /\ UNCHANGED <<up, loopVars, netVars, e_thd, ev_thread, mine, watcher, holds, list, ghostVars>>

Loads(c) ==
    /\ up /\ pc[c] = "load"
    /\ e_thd \in Conns
    /\ mine' = [mine EXCEPT ![c] = e_thd]
    /\ Goes(c, "start")
    /\ UNCHANGED <<up, loopVars, netVars, e_thd, ev_thread, watcher, holds, list, ghostVars>>

\* What the thread takes is no ev_thread: it watches no connection, if
\* this does not end the process.
Strays(c) ==
    /\ up /\ pc[c] = "load"
    /\ e_thd = Garbage
    /\ Goes(c, "done")
    /\ UNCHANGED <<up, loopVars, netVars, e_thd, ev_thread, mine, watcher, holds, list, ghostVars>>

\* malloc and ev_io_init: the memory may be that of a watcher which was freed
\* and is still in a list.
Allocates(c) ==
    /\ up /\ pc[c] = "start"
    /\ \E old \in SUBSET {w \in Conns : watcher[w] \in {"kept", "spoilt"}} :
          /\ Cardinality(old) <= 1
          /\ holds' = [w \in Conns |-> IF w \in old \cup {c} THEN mine[c] ELSE holds[w]]
          /\ watcher' = [w \in Conns |-> IF w = c THEN "live"
                                         ELSE IF w \in old THEN "kept" ELSE watcher[w]]
    /\ Goes(c, "starting")
    /\ UNCHANGED <<up, loopVars, netVars, e_thd, ev_thread, mine, list, ghostVars>>

\* ev_io_start, which has no lock: of two at a time, one may lose its change.
Starts(c) ==
    /\ up /\ pc[c] = "starting"
    /\ list' = [list EXCEPT ![c] = mine[c]]
    /\ \/ changes' = changes \cup {mine[c]} /\ UNCHANGED lost
       \/ /\ \E d \in Conns \ {c} : pc[d] = "starting"
          /\ lost' = lost \cup {mine[c]}
          /\ UNCHANGED changes
    /\ Goes(c, "drop")
    /\ UNCHANGED <<up, phase, events, applying, polled, netVars, e_thd, ev_thread, mine,
                   watcher, holds, called, stopped, crossed, crowded>>

\* ev_thread_destroy frees what the variable has now, and sets it to null.
Drops(c) ==
    /\ up /\ pc[c] = "drop"
    /\ \/ e_thd \in {Null, Garbage} /\ UNCHANGED ev_thread
       \/ /\ e_thd \in Conns /\ ev_thread[e_thd] = "live"
          /\ ev_thread' = [ev_thread EXCEPT ![e_thd] = "freed"]
    /\ e_thd' = Null
    /\ Goes(c, "free")
    /\ UNCHANGED <<up, loopVars, netVars, mine, watcher, holds, list, ghostVars>>

\* The watcher is freed in the list it is in, and keeps its content or not; the
\* thread id comes from an ev_thread that was freed before.
FreesWatcher(c) ==
    /\ up /\ pc[c] = "free"
    /\ \E s \in {"kept", "spoilt"} : watcher' = [watcher EXCEPT ![c] = s]
    /\ Goes(c, "done")
    /\ UNCHANGED <<up, loopVars, netVars, e_thd, ev_thread, mine, holds, list, ghostVars>>

Ends ==
    /\ up' = FALSE
    /\ UNCHANGED <<loopVars, netVars, threadVars, ghostVars>>

\* A thread takes garbage or null for a pointer, or frees an ev_thread twice.
ThreadFaults(c) ==
    /\ up
    /\ \/ pc[c] = "drop" /\ e_thd = Garbage
       \/ pc[c] = "load" /\ e_thd \notin Conns
       \/ pc[c] = "drop" /\ e_thd \in Conns /\ ev_thread[e_thd] = "freed"
    /\ Ends

\* A thread reads an ev_thread, or the loop a watcher, that was freed: this may
\* end the process and need not.
FreedReadFaults(c) ==
    /\ up
    /\ \/ pc[c] \in {"start", "free"} /\ ev_thread[mine[c]] = "freed"
       \/ /\ list[c] \in events \cup applying
          /\ phase \in {"call", "reifying"} /\ watcher[c] \in {"kept", "spoilt"}
    /\ Ends

-----------------------------------------------------------------------------
LoopStep ==
    \/ ReifyBegins \/ ReifyEnds \/ PollReturns \/ TimerFires \/ LoopTurns
    \/ AcceptCb \/ AcceptFails
    \/ \E f \in Conns \cup {Listen} : EventError(f)
    \/ \E f, w \in Conns : ReadCb(f, w)
    \/ \E f \in Conns : NothingCalled(f)

ThreadStep(c) ==
    \/ FindsNull(c) \/ Finds(c) \/ Loads(c) \/ Strays(c) \/ Allocates(c) \/ Starts(c)
    \/ Drops(c) \/ FreesWatcher(c) \/ ThreadFaults(c)

HandoffNext ==
    \/ LoopStep
    \/ StackReused
    \/ \E c \in Conns : ThreadStep(c) \/ FreedReadFaults(c) \/ Sends(c)
    \/ Arrives

\* The system runs the loop and every thread.
Fairness ==
    /\ WF_handoffVars(LoopStep)
    /\ \A c \in Conns : WF_handoffVars(ThreadStep(c))

HandoffSpec == HandoffInit /\ [][HandoffNext]_handoffVars /\ Fairness

-----------------------------------------------------------------------------
(* Properties.                                                             *)

\* A connection that had nobody beside it on its way goes to read_cb as itself
\* or not at all: no thread takes it for another or another for it, and no
\* memory or list has another's descriptor in its place.
AloneIsItself ==
    \A c \in Conns \ crowded :
        /\ c \notin crossed
        /\ mine[c] \in {c, Null}
        /\ list[c] # Null => list[c] = c /\ holds[c] = c
        /\ \A d \in Conns \ {c} : list[d] # c /\ mine[d] # c

\* ... and once its thread has taken it, read_cb is called on it when it has
\* sent something, unless the loop has lost its registration or the memory of
\* its watcher was spoilt: that ev_io_start does not wake the loop only costs
\* it the rest of a second.
AloneIsServed ==
    \A c \in Conns :
        mine[c] = c /\ c \in sent
            ~> \/ c \in called \cup crowded \cup lost
               \/ watcher[c] = "spoilt"
               \/ ~up
=============================================================================
