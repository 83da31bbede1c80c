------------------------------ MODULE Exchange ------------------------------
(***************************************************************************)
(* Clients and the server over their sockets, system call by system call:  *)
(* request_put_bucketset_init and request_put_object_init (request.c) as   *)
(* the client program runs them, and the server's one loop thread in       *)
(* accept_cb and read_cb (netsocket.c), with read_n and write_n (utils.c)  *)
(* blocking on either side.  What the store does with a request is in      *)
(* SdsStore; here it matters only whether the loop thread comes back.      *)
(*                                                                         *)
(* A stream is a number of units in flight.  The server's reply always     *)
(* fits in the socket's buffer and is its only one, so send does not       *)
(* block; a client's data may not fit.  No signal handler interrupts a     *)
(* read, libev calls back for the watcher that accept_cb hands over, and   *)
(* nobody kills the server: it ends only by what it does in read_cb.       *)
(***************************************************************************)
EXTENDS Integers, FiniteSets, FiniteSetsExt

CONSTANTS Clients,        \* client processes, one connection each
          ObjectClients,  \* those that put an object, with this repository's code
          PeerClients,    \* those of another make, which put a set and write
                          \* the request, as read_cb expects; the others put a
                          \* set with this repository's code
          SetLen,         \* units of request_put_bucketset
          ObjectLen,      \* units of request_put_object
          AckLen,         \* units of response_ack
          Pieces,         \* 4 MB pieces of an object's file
          PieceLen,       \* units of one piece
          Capacity,       \* units a socket buffers towards the server
          RecvRejected,   \* the results of recv that read_cb calls an error
          MaxBuffers,     \* bound: 4 MB buffers that calloc can hand out
          Nobody          \* no client

ASSUME ExchangeAssumption ==
    /\ ObjectClients \cup PeerClients \subseteq Clients
    /\ ObjectClients \cap PeerClients = {}
    /\ {SetLen, ObjectLen, AckLen, Pieces, PieceLen, Capacity} \subseteq Nat \ {0}
    /\ MaxBuffers \in Nat
    /\ RecvRejected \subseteq {-1, 0, 1}
    /\ Nobody \notin Clients
    /\ IsFiniteSet(Clients)

VARIABLES pc,       \* pc[c]: the system call client c is about to make
          left,     \* left[c]: units the client's write_n or read_n still wants
          pieces,   \* pieces[c]: pieces of the file not read yet
          result,   \* result[c]: what the client's request function returned
          up,       \* the server process runs
          conn,     \* conn[c]: "none", "pending", "watched" or "stopped"
          in,       \* in[c]: units on their way to the server
          back,     \* back[c]: units on their way to the client
          serving,  \* the client whose request the loop thread is in
          phase,    \* "idle", "request" (in read_n of it) or "object" (of its data)
          want,     \* units that the server's read_n still wants
          type,     \* the request type read_cb found
          created,  \* a set exists on the server
          buffers   \* buffers read_cb has allocated

client == <<pc, left, pieces, result>>
loop == <<serving, phase, want, type>>
vars == <<client, up, conn, in, back, loop, created, buffers>>

\* The clients that run request_put_bucketset_init.
SetClients == Clients \ (ObjectClients \cup PeerClients)

Writing == {"type", "header", "data"}
Reading == {"request", "ack"}

\* The client's end of the connection is closed: reads on the server side
\* see the end of the stream once what was sent is used up.
Gone(c) == pc[c] = "done"

-----------------------------------------------------------------------------
(* Clients.                                                                *)

\* main connects before it looks at its arguments; the kernel accepts for a
\* listening server, whatever its loop thread is doing.
Connect(c) ==
    /\ pc[c] = "connect"
    /\ up
    /\ pc' = [pc EXCEPT ![c] = "type"]
    /\ left' = [left EXCEPT ![c] = 1]
    /\ conn' = [conn EXCEPT ![c] = "pending"]
    /\ UNCHANGED <<pieces, result, up, in, back, loop, created, buffers>>

\* The request function closes the socket and returns, or the process ends.
Finish(c, r) ==
    /\ pc' = [pc EXCEPT ![c] = "done"]
    /\ left' = [left EXCEPT ![c] = 0]
    /\ result' = [result EXCEPT ![c] = r]
    /\ UNCHANGED <<pieces, up, conn, in, back, loop, created, buffers>>

ConnectFails(c) ==
    /\ pc[c] = "connect"
    /\ ~up
    /\ Finish(c, "failed")

\* One write system call of write_n that takes a unit.
Write(c) ==
    /\ pc[c] \in Writing
    /\ left[c] > 0
    /\ in[c] < Capacity
    /\ left' = [left EXCEPT ![c] = @ - 1]
    /\ in' = [in EXCEPT ![c] = @ + 1]
    /\ UNCHANGED <<pc, pieces, result, up, conn, back, loop, created, buffers>>

GoesOn(c, call, units) ==
    /\ pc' = [pc EXCEPT ![c] = call]
    /\ left' = [left EXCEPT ![c] = units]
    /\ UNCHANGED <<pieces, result, up, conn, in, back, loop, created, buffers>>

\* A plausible repair: send the request instead of reading it.
AfterType_Sends(c) ==
    /\ pc[c] = "type"
    /\ left[c] = 0
    /\ IF c \in ObjectClients THEN GoesOn(c, "header", ObjectLen)
                              ELSE GoesOn(c, "header", SetLen)

\* After the type: request_put_object_init writes its request;
\* request_put_bucketset_init has its request ready and calls read_n on it.
AfterType(c) ==
    /\ pc[c] = "type"
    /\ left[c] = 0
    /\ CASE c \in ObjectClients -> GoesOn(c, "header", ObjectLen)
         [] c \in PeerClients -> GoesOn(c, "header", SetLen)
         [] OTHER -> GoesOn(c, "request", SetLen)

\* A client of another make reads the ack when it has sent its request.
AfterHeader(c) ==
    /\ pc[c] = "header"
    /\ c \notin ObjectClients
    /\ left[c] = 0
    /\ GoesOn(c, "ack", AckLen)

\* The loop over the file: read_n takes a piece of it, and write_n is given
\* as many bytes from the request's address on, past its end; the kernel
\* takes those up to the first page that is not mapped.
NextPiece(c) ==
    /\ c \in ObjectClients
    /\ pc[c] \in {"header", "data"}
    /\ left[c] = 0
    /\ pieces[c] > 0
    /\ pieces' = [pieces EXCEPT ![c] = @ - 1]
    /\ pc' = [pc EXCEPT ![c] = "data"]
    /\ \E units \in 1 .. PieceLen : left' = [left EXCEPT ![c] = units]
    /\ UNCHANGED <<result, up, conn, in, back, loop, created, buffers>>

\* is_success would be set only by a write_n that returned 0: the function
\* returns -1 when the file is sent.
PutObjectEnds(c) ==
    /\ c \in ObjectClients
    /\ pc[c] \in {"header", "data"}
    /\ left[c] = 0
    /\ pieces[c] = 0
    /\ Finish(c, "failed")

\* One read system call of read_n that gets a unit.
Read(c) ==
    /\ pc[c] \in Reading
    /\ left[c] > 0
    /\ back[c] > 0
    /\ left' = [left EXCEPT ![c] = @ - 1]
    /\ back' = [back EXCEPT ![c] = @ - 1]
    /\ UNCHANGED <<pc, pieces, result, up, conn, in, loop, created, buffers>>

\* read_n has what it wants.  A whole "request" read is the success, and the
\* ack is read next; a whole ack is the end.
ReadReturns(c) ==
    /\ pc[c] \in Reading
    /\ left[c] = 0
    /\ IF pc[c] = "request" THEN GoesOn(c, "ack", AckLen) ELSE Finish(c, "success")

\* read_n meets the end of the stream: no success if that was the request;
\* how much of an ack arrived is not looked at.
ReadEnds(c) ==
    /\ pc[c] \in Reading
    /\ left[c] > 0
    /\ ~up
    /\ Finish(c, IF pc[c] = "request" THEN "failed" ELSE "success")

\* A write to a server that has ended: SIGPIPE.
BrokenPipe(c) ==
    /\ pc[c] \in Writing
    /\ left[c] > 0
    /\ ~up
    /\ Finish(c, "killed")

\* The user gives up, or main exits on an argument it does not know, which
\* it looks at only once it has connected.
Kill(c) ==
    /\ pc[c] \in Writing \cup Reading
    /\ Finish(c, "killed")

-----------------------------------------------------------------------------
(* The server's loop thread.                                               *)

Idle == up /\ phase = "idle"

Accept(c) ==
    /\ Idle
    /\ conn[c] = "pending"
    /\ conn' = [conn EXCEPT ![c] = "watched"]
    /\ UNCHANGED <<client, up, in, back, loop, created, buffers>>

\* The loop calls read_cb on c, whose socket is readable.
Called(c) == Idle /\ conn[c] = "watched" /\ (in[c] > 0 \/ Gone(c))

\* What recv can return: 1 and a byte, or, when all that a client sent before
\* it went is used up, 0 for the end of its stream or -1 for its reset.
Received(c) == IF in[c] > 0 THEN {1} ELSE {0, -1}

\* The byte taken off the stream with the result r.
Taken(r) == IF r = 1 THEN 1 ELSE 0

\* A plausible repair: an error is what the message says.
Rejects_Repaired(r) == r \in {-1, 0}

\* A plausible bug: every result of recv is an error.
Rejects_All(r) == r \in {-1, 0, 1}

Rejects(r) == r \in RecvRejected

ServerEnds ==
    /\ up' = FALSE
    /\ serving' = Nobody
    /\ phase' = "idle"
    /\ want' = 0

BufferAllocFails(c) ==
    /\ Called(c)
    /\ buffers = MaxBuffers
    /\ ServerEnds
    /\ UNCHANGED <<client, conn, in, back, type, created, buffers>>

\* A plausible bug: the result of calloc is not checked.
RecvIsError_Unchecked(c) ==
    /\ Called(c)
    /\ \E r \in Received(c) :
          /\ Rejects(r)
          /\ in' = [in EXCEPT ![c] = @ - Taken(r)]
    /\ buffers' = buffers + 1
    /\ UNCHANGED <<client, up, conn, back, loop, created>>

\* read_cb logs and returns: no answer, and the watcher stays active.
RecvIsError(c) ==
    /\ Called(c)
    /\ buffers < MaxBuffers
    /\ \E r \in Received(c) :
          /\ Rejects(r)
          /\ in' = [in EXCEPT ![c] = @ - Taken(r)]
    /\ buffers' = buffers + 1
    /\ UNCHANGED <<client, up, conn, back, loop, created>>

\* req_type is the byte received, or the 0 (REQ_PUT_OBJECT) it was set to.
RecvGoesOn(c) ==
    /\ Called(c)
    /\ buffers < MaxBuffers
    /\ \E r \in Received(c) :
          /\ ~Rejects(r)
          /\ in' = [in EXCEPT ![c] = @ - Taken(r)]
    /\ buffers' = buffers + 1
    /\ serving' = c
    /\ phase' = "request"
    /\ type' = IF in[c] > 0 /\ c \notin ObjectClients THEN "set" ELSE "object"
    /\ want' = IF type' = "set" THEN SetLen ELSE ObjectLen
    /\ UNCHANGED <<client, up, conn, back, created>>

ServerReads ==
    /\ phase = "request"
    /\ want > 0
    /\ in[serving] > 0
    /\ want' = want - 1
    /\ in' = [in EXCEPT ![serving] = @ - 1]
    /\ UNCHANGED <<client, up, conn, back, serving, phase, type, created, buffers>>

\* A plausible repair: sockets that do not block.
RequestRead_NonBlocking == phase = "request" /\ (want = 0 \/ in[serving] = 0)

\* A plausible bug: the end of the stream is taken for an interruption.
RequestRead_Retries == phase = "request" /\ want = 0

\* read_n of the request returns: all of it is there, or the stream ended.
RequestRead ==
    /\ phase = "request"
    /\ want = 0 \/ (in[serving] = 0 /\ Gone(serving))

\* send the ack, stop the watcher, back to the loop; the socket stays open.
Reply ==
    /\ back' = [back EXCEPT ![serving] = @ + AckLen]
    /\ conn' = [conn EXCEPT ![serving] = "stopped"]
    /\ serving' = Nobody
    /\ phase' = "idle"
    /\ want' = 0
    /\ UNCHANGED <<client, up, in, type, buffers>>

PutBucketset ==
    /\ RequestRead
    /\ type = "set"
    /\ created' = TRUE
    /\ Reply

\* The set is not known, or the request has no data.
PutNoObject ==
    /\ RequestRead
    /\ type = "object"
    /\ Reply
    /\ UNCHANGED created

\* The set is found and the hash has a bucket: write_bucket_object calls
\* read_n with a null buffer.
PutObject ==
    /\ RequestRead
    /\ type = "object"
    /\ created
    /\ phase' = "object"
    /\ UNCHANGED <<client, up, conn, in, back, serving, want, type, created, buffers>>

\* That read waits for data or the end, fails on the buffer, and leaves the data.
ObjectRead == phase = "object" /\ (in[serving] > 0 \/ Gone(serving))

PutObjectReturns ==
    /\ ObjectRead
    /\ Reply
    /\ UNCHANGED created

\* What can end the server between a read and the loop: what it takes for the
\* store, read from past the watcher that was allocated (lines 127 and 158);
\* the length of a text that nobody wrote (156, 194); a hash without a bucket,
\* or a data file that can be neither made nor switched; SIGPIPE, when it
\* sends to a client that has gone (195).
RequestEndsServer ==
    /\ RequestRead \/ ObjectRead
    /\ ServerEnds
    /\ UNCHANGED <<client, conn, in, back, type, created, buffers>>

-----------------------------------------------------------------------------
Init ==
    /\ pc = [c \in Clients |-> "connect"]
    /\ left = [c \in Clients |-> 0]
    /\ pieces = [c \in Clients |-> IF c \in ObjectClients THEN Pieces ELSE 0]
    /\ result = [c \in Clients |-> "none"]
    /\ up = TRUE
    /\ conn = [c \in Clients |-> "none"]
    /\ in = [c \in Clients |-> 0]
    /\ back = [c \in Clients |-> 0]
    /\ serving = Nobody
    /\ phase = "idle"
    /\ want = 0
    /\ type = "object"
    /\ created = FALSE
    /\ buffers = 0

\* What a client does when it is let run.
ClientStep(c) ==
    \/ Connect(c)
    \/ ConnectFails(c)
    \/ Write(c)
    \/ AfterType(c)
    \/ AfterHeader(c)
    \/ NextPiece(c)
    \/ PutObjectEnds(c)
    \/ Read(c)
    \/ ReadReturns(c)
    \/ ReadEnds(c)
    \/ BrokenPipe(c)

\* What the loop does for a connection that is ready.
LoopCall(c) ==
    \/ Accept(c)
    \/ BufferAllocFails(c)
    \/ RecvIsError(c)
    \/ RecvGoesOn(c)

\* What the loop thread does inside read_cb.
InReadCb ==
    \/ ServerReads
    \/ PutBucketset
    \/ PutNoObject
    \/ PutObject
    \/ RequestEndsServer
    \/ PutObjectReturns

Next ==
    \/ InReadCb
    \/ \E c \in Clients : ClientStep(c) \/ LoopCall(c) \/ Kill(c)

\* The operating system runs every process that is not blocked, and libev
\* calls back for every descriptor that is ready.  Nobody has to give up.
Fairness ==
    /\ WF_vars(InReadCb)
    /\ \A c \in Clients : WF_vars(ClientStep(c)) /\ WF_vars(LoopCall(c))

Spec == Init /\ [][Next]_vars /\ Fairness

-----------------------------------------------------------------------------
(* Properties.                                                             *)

\* Every variable has its type; the server has a connection only of a client
\* that has connected; the thread serves a client exactly while it is inside
\* read_cb, and then the client's watcher is active.
TypeOK ==
    /\ pc \in [Clients -> {"connect", "done"} \cup Writing \cup Reading]
    /\ left \in [Clients -> Nat]
    /\ pieces \in [Clients -> 0 .. Pieces]
    /\ result \in [Clients -> {"none", "success", "failed", "killed"}]
    /\ up \in BOOLEAN
    /\ conn \in [Clients -> {"none", "pending", "watched", "stopped"}]
    /\ in \in [Clients -> 0 .. Capacity]
    /\ back \in [Clients -> Nat]
    /\ serving \in Clients \cup {Nobody}
    /\ phase \in {"idle", "request", "object"}
    /\ want \in Nat
    /\ type \in {"set", "object"}
    /\ created \in BOOLEAN
    /\ buffers \in 0 .. MaxBuffers
    /\ \A c \in Clients : pc[c] = "connect" => conn[c] = "none"
    /\ phase = "idle" <=> serving = Nobody
    /\ phase # "idle" => up /\ conn[serving] = "watched"

\* A client that creates a set and is still there was never answered: the
\* server waits for its request or for the end of its stream.
NoLiveCreateAnswered ==
    \A c \in SetClients : conn[c] = "stopped" => Gone(c)

\* What it rests on: while it is there, such a client sends one unit, its
\* type, and gets nothing; once that unit is taken the server's read_n wants
\* the whole request and has nothing to read.
Silent(c) ==
    ~Gone(c) =>
        /\ pc[c] \in {"connect", "type", "request"}
        /\ conn[c] # "stopped" /\ back[c] = 0
        /\ pc[c] = "connect" => in[c] = 0
        /\ pc[c] = "type" => in[c] + left[c] <= 1
        /\ pc[c] = "request" => in[c] <= 1 /\ left[c] > 0
        /\ serving = c => /\ phase = "request" /\ type = "set" /\ want > 0
                          /\ in[c] = 0 /\ (pc[c] = "type" => left[c] = 0)

SilentCreate == \A c \in SetClients : Silent(c)

\* The client waits for the server, the server for the client.
Embrace(c) ==
    /\ pc[c] = "request" /\ left[c] > 0 /\ back[c] = 0
    /\ phase = "request" /\ serving = c /\ want > 0 /\ in[c] = 0

\* Once the server and a client wait for each other, no step of either, nor
\* of any other client, ends it, save that the client's user gives up; until
\* then the loop thread serves nobody else.
OnlyAKillFrees ==
    [][\A c \in Clients : Embrace(c) => Embrace(c)' \/ result'[c] = "killed"]_vars

\* The calls of read_cb that the units a client sends can cause when every
\* unit received is an error: one for each, and one for the end.
CallsFor(c) ==
    CASE c \in ObjectClients -> 2 + ObjectLen + Pieces * PieceLen
      [] c \in PeerClients -> 2 + SetLen
      [] OTHER -> 2

\* With the comparison the code has, and a buffer for each byte and each
\* connection, no client that is still there can end the server, whatever it
\* has sent: the server ends only inside a call for a client that has gone.
\* (A call that neither takes a byte nor stops the watcher would be repeated
\* until the buffers are used up.)
EndsOnlyByHangup ==
    [][up /\ ~up' /\ RecvRejected = {1}
          /\ MaxBuffers >= MapThenSumSet(CallsFor, Clients)
          => phase # "idle" /\ Gone(serving)]_vars

\* The loop thread always comes back to the loop: no client blocks it.
LoopReturns == []<>(phase = "idle")

\* Every connection whose client is gone is eventually no longer watched, or
\* was the end of the server.
HangupsSettled == \A c \in Clients : Gone(c) ~> conn[c] \in {"none", "stopped"} \/ ~up

\* A client that puts an object gets rid of its data and returns.
PutsReturn == \A c \in ObjectClients : pc[c] = "type" ~> Gone(c)

\* A client the thread waits for lets it go on by closing its end.
HangupFreesTheLoop ==
    \A c \in Clients : serving = c /\ Gone(c) ~> serving # c

\* A client that sends its request as read_cb expects it is answered, unless
\* the server ends: its call of recv succeeds, and only a failed one is to be
\* left without an answer.
PeersAnswered == \A p \in PeerClients : pc[p] = "type" ~> Gone(p) \/ ~up

\* The command  sds_cli -r bucketset -t create  comes to an end.
CreateReturns == \A c \in SetClients : pc[c] = "request" ~> Gone(c)
=============================================================================
