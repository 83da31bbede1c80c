--------------------------- MODULE ExchangeProofs ---------------------------
(***************************************************************************)
(* Safety of Exchange for every number of clients, every length of the     *)
(* requests, every capacity of the sockets and every set of results of     *)
(* recv that read_cb may take for an error.                                *)
(***************************************************************************)
EXTENDS Exchange, FiniteSetTheorems, TLAPS

-----------------------------------------------------------------------------
(* Type correctness, client steps and server steps apart.                  *)

\* A client's step leaves the server alone, and a type-correct one keeps
\* the type of what it changes.
LEMMA ClientTypes ==
    ASSUME TypeOK, NEW c \in Clients, ClientStep(c) \/ Kill(c)
    PROVE  TypeOK'
<1>a. {SetLen, ObjectLen, AckLen, Pieces, PieceLen, Capacity} \subseteq Nat \ {0}
  BY ExchangeAssumption
<1> USE <1>a DEF TypeOK, Writing, Reading, loop, client
<1>1. CASE Connect(c)
  BY <1>1 DEF Connect
<1>2. CASE ConnectFails(c) \/ PutObjectEnds(c) \/ ReadEnds(c) \/ BrokenPipe(c) \/ Kill(c)
  <2>1. PICK r \in {"success", "failed", "killed"} : Finish(c, r)
    BY <1>2 DEF ConnectFails, PutObjectEnds, ReadEnds, BrokenPipe, Kill
  <2>2. result' \in [Clients -> {"none", "success", "failed", "killed"}]
    BY <2>1 DEF Finish
  <2> QED
    BY <2>1, <2>2 DEF Finish
<1>3. CASE Write(c)
  <2>1. left'[c] \in Nat /\ in'[c] \in 0 .. Capacity
    BY <1>3 DEF Write
  <2> QED
    BY <1>3, <2>1 DEF Write
<1>4. CASE AfterType(c) \/ AfterHeader(c)
  BY <1>4 DEF AfterType, AfterHeader, GoesOn
<1>5. CASE NextPiece(c)
  <2>1. pieces[c] - 1 \in 0 .. Pieces
    BY <1>5 DEF NextPiece
  <2> QED
    BY <1>5, <2>1 DEF NextPiece
<1>6. CASE Read(c)
  <2>1. left'[c] \in Nat /\ back'[c] \in Nat
    BY <1>6 DEF Read
  <2> QED
    BY <1>6, <2>1 DEF Read
<1>7. CASE ReadReturns(c)
  BY <1>7 DEF ReadReturns, GoesOn, Finish
<1> QED
  BY <1>1, <1>2, <1>3, <1>4, <1>5, <1>6, <1>7 DEF ClientStep

\* The reply of read_cb, from inside it.
LEMMA ReplyTypes ==
    ASSUME TypeOK, phase # "idle", Reply, created' \in BOOLEAN
    PROVE  TypeOK'
<1>1. AckLen \in Nat /\ serving \in Clients
  BY ExchangeAssumption DEF TypeOK
<1> QED
  BY <1>1 DEF TypeOK, Reply, client, Writing, Reading

LEMMA ServerTypes ==
    ASSUME TypeOK, InReadCb \/ \E c \in Clients : LoopCall(c)
    PROVE  TypeOK'
<1>a. {SetLen, ObjectLen, AckLen, Pieces, PieceLen, Capacity} \subseteq Nat \ {0}
  BY ExchangeAssumption
<1>b. MaxBuffers \in Nat /\ Nobody \notin Clients
  BY ExchangeAssumption
<1>1. ASSUME NEW c \in Clients, Accept(c)
      PROVE  TypeOK'
  BY <1>1, <1>b DEF Accept, Idle, TypeOK, loop, client, Writing, Reading
<1>2. ASSUME NEW c \in Clients, BufferAllocFails(c)
      PROVE  TypeOK'
  BY <1>2, <1>b DEF BufferAllocFails, ServerEnds, TypeOK, loop, client, Writing, Reading
<1>3. ASSUME NEW c \in Clients, RecvIsError(c) \/ RecvGoesOn(c)
      PROVE  TypeOK'
  <2>1. PICK r \in Received(c) : in' = [in EXCEPT ![c] = @ - Taken(r)]
    BY <1>3 DEF RecvIsError, RecvGoesOn
  <2>4. in[c] - Taken(r) \in 0 .. Capacity /\ buffers + 1 \in 0 .. MaxBuffers
    BY <1>3, <1>a, <1>b DEF RecvIsError, RecvGoesOn, Received, Taken, TypeOK
  <2>5. in' \in [Clients -> 0 .. Capacity]
    BY <2>1, <2>4 DEF TypeOK
  <2>2. CASE RecvIsError(c)
    BY <2>2, <2>4, <2>5 DEF RecvIsError, TypeOK, loop, client, Writing, Reading
  <2>3. CASE RecvGoesOn(c)
    BY <2>3, <2>4, <2>5, <1>a, <1>b
       DEF RecvGoesOn, Called, Idle, TypeOK, client, Writing, Reading
  <2> QED
    BY <1>3, <2>2, <2>3
<1>4. CASE ServerReads
  <2>1. serving \in Clients
    BY <1>4 DEF ServerReads, TypeOK
  <2>2. want - 1 \in Nat /\ in[serving] - 1 \in 0 .. Capacity
    BY <1>4, <2>1, <1>a DEF ServerReads, TypeOK
  <2> QED
    BY <1>4, <2>1, <2>2 DEF ServerReads, TypeOK, client, Writing, Reading
<1>5. CASE PutBucketset \/ PutNoObject \/ PutObjectReturns
  <2>1. phase # "idle" /\ created' \in BOOLEAN /\ Reply
    BY <1>5 DEF PutBucketset, PutNoObject, PutObjectReturns, RequestRead, ObjectRead, TypeOK
  <2> QED
    BY <2>1, ReplyTypes
<1>6. CASE PutObject
  BY <1>6 DEF PutObject, RequestRead, TypeOK, client, Writing, Reading
<1>7. CASE RequestEndsServer
  BY <1>7, <1>b DEF RequestEndsServer, ServerEnds, TypeOK, client, Writing, Reading
<1> QED
  BY <1>1, <1>2, <1>3, <1>4, <1>5, <1>6, <1>7 DEF InReadCb, LoopCall

\* Every variable keeps its type, and the loop thread is inside read_cb only
\* for a connection that is watched.
THEOREM ExchangeTypes == Spec => []TypeOK
<1>1. Init => TypeOK
  <2> SUFFICES ASSUME Init PROVE TypeOK
    OBVIOUS
  <2>1. Pieces \in Nat /\ 0 \in 0 .. Capacity /\ buffers \in 0 .. MaxBuffers
    BY ExchangeAssumption DEF Init
  <2>2. pieces \in [Clients -> 0 .. Pieces] /\ in \in [Clients -> 0 .. Capacity]
    BY <2>1 DEF Init
  <2> QED
    BY <2>1, <2>2 DEF Init, TypeOK, Writing, Reading
<1>2. TypeOK /\ [Next]_vars => TypeOK'
  <2>1. TypeOK /\ UNCHANGED vars => TypeOK'
    BY DEF TypeOK, vars, client, loop, Writing, Reading
  <2> QED
    BY <2>1, ClientTypes, ServerTypes DEF Next
<1> QED
  BY <1>1, <1>2, PTL DEF Spec

-----------------------------------------------------------------------------
(* A client of request_put_bucketset_init and the server wait for each     *)
(* other.                                                                  *)

\* A step of another client does not touch what SilentCreate says of c.
LEMMA OtherClient ==
    ASSUME TypeOK, NEW c \in Clients, NEW d \in Clients, c # d,
           ClientStep(d) \/ Kill(d)
    PROVE  /\ pc'[c] = pc[c] /\ left'[c] = left[c] /\ result'[c] = result[c]
           /\ pieces'[c] = pieces[c]
           /\ conn'[c] = conn[c] /\ in'[c] = in[c] /\ back'[c] = back[c]
           /\ UNCHANGED loop
<1> USE DEF TypeOK
<1>1. CASE Connect(d) \/ Write(d) \/ NextPiece(d) \/ Read(d)
  BY <1>1 DEF Connect, Write, NextPiece, Read
<1>2. ASSUME NEW r, Finish(d, r)
      PROVE  /\ pc'[c] = pc[c] /\ left'[c] = left[c] /\ result'[c] = result[c]
             /\ UNCHANGED <<pieces, conn, in, back, loop>>
  BY <1>2 DEF Finish
<1>3. ASSUME NEW call, NEW units, GoesOn(d, call, units)
      PROVE  /\ pc'[c] = pc[c] /\ left'[c] = left[c]
             /\ UNCHANGED <<pieces, result, conn, in, back, loop>>
  BY <1>3 DEF GoesOn
<1>4. CASE ConnectFails(d) \/ PutObjectEnds(d) \/ ReadEnds(d) \/ BrokenPipe(d) \/ Kill(d)
  <2>1. \E r : Finish(d, r)
    BY <1>4 DEF ConnectFails, PutObjectEnds, ReadEnds, BrokenPipe, Kill
  <2> QED
    BY <1>2, <2>1
<1>5. CASE AfterType(d) \/ AfterHeader(d)
  <2>1. \E call, units : GoesOn(d, call, units)
    BY <1>5 DEF AfterType, AfterHeader
  <2> QED
    BY <1>3, <2>1
<1>6. CASE ReadReturns(d)
  <2>1. (\E call, units : GoesOn(d, call, units)) \/ \E r : Finish(d, r)
    BY <1>6 DEF ReadReturns
  <2> QED
    BY <1>2, <1>3, <2>1
<1> QED
  BY <1>1, <1>4, <1>5, <1>6 DEF ClientStep

\* The client's own steps.
LEMMA SilentClient ==
    ASSUME TypeOK, NEW c \in SetClients, Silent(c), ClientStep(c) \/ Kill(c)
    PROVE  Silent(c)'
<1>a. c \in Clients /\ c \notin ObjectClients /\ c \notin PeerClients /\ SetLen \in Nat \ {0}
  BY ExchangeAssumption DEF SetClients
<1>b. left[c] \in Nat /\ in[c] \in Nat /\ back[c] \in Nat
  BY <1>a, ExchangeAssumption DEF TypeOK
<1>1. CASE Connect(c)
  <2>1. pc'[c] = "type" /\ left'[c] = 1 /\ conn'[c] = "pending" /\ UNCHANGED <<in, back, loop>>
    BY <1>1, <1>a DEF Connect, TypeOK
  <2>2. pc[c] = "connect" /\ conn[c] = "none" /\ serving # c
    BY <1>1, <1>a, ExchangeAssumption DEF Connect, TypeOK
  <2> QED
    BY <1>b, <2>1, <2>2 DEF Silent, Gone, loop
<1>2. CASE ConnectFails(c) \/ PutObjectEnds(c) \/ ReadEnds(c) \/ BrokenPipe(c) \/ Kill(c)
  <2>1. \E r : Finish(c, r)
    BY <1>2 DEF ConnectFails, PutObjectEnds, ReadEnds, BrokenPipe, Kill
  <2>2. pc'[c] = "done"
    BY <1>a, <2>1 DEF Finish, TypeOK
  <2> QED
    BY <2>2 DEF Silent, Gone
<1>3. CASE Write(c)
  <2>1. /\ left[c] > 0 /\ left'[c] = left[c] - 1 /\ in'[c] = in[c] + 1
        /\ UNCHANGED <<pc, conn, back, loop>>
    BY <1>3, <1>a DEF Write, TypeOK
  <2>2. pc[c] = "type" /\ ~Gone(c)
    BY <1>3 DEF Write, Writing, Reading, Silent, Gone
  <2> QED
    BY <1>b, <2>1, <2>2 DEF Silent, Gone, loop
<1>4. CASE AfterType(c)
  <2>1. pc[c] = "type" /\ left[c] = 0 /\ GoesOn(c, "request", SetLen)
    BY <1>4, <1>a DEF AfterType
  <2>2. pc'[c] = "request" /\ left'[c] = SetLen /\ UNCHANGED <<in, conn, back, loop>>
    BY <2>1, <1>a DEF GoesOn, TypeOK
  <2> QED
    BY <1>a, <1>b, <2>1, <2>2 DEF Silent, Gone, loop
<1>5. CASE AfterHeader(c) \/ NextPiece(c) \/ Read(c) \/ ReadReturns(c)
  BY <1>5, <1>a, <1>b DEF AfterHeader, NextPiece, Read, ReadReturns, Reading, Silent, Gone
<1> QED
  BY <1>1, <1>2, <1>3, <1>4, <1>5 DEF ClientStep

\* The server's steps: a live client of this kind is never read from twice,
\* so read_cb never gets to its reply.
LEMMA SilentServer ==
    ASSUME TypeOK, NEW c \in SetClients, Silent(c),
           InReadCb \/ \E d \in Clients : LoopCall(d)
    PROVE  Silent(c)'
<1>a. c \in Clients /\ c \notin ObjectClients /\ c \notin PeerClients /\ SetLen \in Nat \ {0}
  BY ExchangeAssumption DEF SetClients
<1>b. left[c] \in Nat /\ in[c] \in Nat /\ back[c] \in Nat /\ Nobody # c
  BY <1>a, ExchangeAssumption DEF TypeOK
<1>c. SUFFICES ASSUME ~Gone(c), pc' = pc, left' = left
               PROVE  Silent(c)'
  <2>1. pc' = pc /\ left' = left
    BY DEF InReadCb, LoopCall, Accept, BufferAllocFails, RecvIsError, RecvGoesOn,
           ServerReads, PutBucketset, PutNoObject, PutObject, RequestEndsServer,
           PutObjectReturns, Reply, client
  <2> QED
    BY <2>1, <1>c DEF Silent, Gone
<1>1. ASSUME NEW d \in Clients, Accept(d)
      PROVE  Silent(c)'
  BY <1>1, <1>a, <1>c DEF Accept, Silent, Gone, loop, TypeOK
<1>2. ASSUME NEW d \in Clients, BufferAllocFails(d)
      PROVE  Silent(c)'
  BY <1>2, <1>a, <1>b, <1>c DEF BufferAllocFails, ServerEnds, Silent, Gone
<1>3. ASSUME NEW d \in Clients, RecvIsError(d)
      PROVE  Silent(c)'
  <2>1. in'[c] \in Nat /\ in'[c] <= in[c] /\ UNCHANGED <<conn, back, loop>>
    BY <1>3, <1>a, <1>b, ExchangeAssumption DEF RecvIsError, Received, Taken, TypeOK
  <2>2. serving # c
    BY <1>3, <1>b DEF RecvIsError, Called, Idle, TypeOK
  <2> QED
    BY <1>b, <1>c, <2>1, <2>2 DEF Silent, Gone, loop
<1>4. ASSUME NEW d \in Clients, RecvGoesOn(d)
      PROVE  Silent(c)'
  <2>1. CASE d # c
    <3>1. in'[c] = in[c] /\ serving' # c /\ UNCHANGED <<conn, back>>
      BY <1>4, <2>1, <1>a DEF RecvGoesOn, TypeOK
    <3> QED
      BY <1>c, <3>1 DEF Silent, Gone
  <2>2. CASE d = c
    <3>1. in[c] > 0 /\ conn[c] = "watched"
      BY <1>4, <2>2, <1>b, <1>c DEF RecvGoesOn, Called
    <3>2. pc[c] # "connect"
      BY <3>1, <1>a DEF TypeOK
    <3>3. in[c] = 1 /\ (pc[c] = "type" => left[c] = 0)
      BY <3>1, <3>2, <1>b, <1>c DEF Silent
    <3>4. in'[c] = 0 /\ UNCHANGED <<conn, back>>
      BY <1>4, <2>2, <3>3, <1>a DEF RecvGoesOn, Received, Taken, TypeOK
    <3>5. phase' = "request" /\ type' = "set" /\ want' = SetLen
      BY <1>4, <2>2, <3>1, <1>a DEF RecvGoesOn
    <3> QED
      BY <1>a, <1>b, <1>c, <3>2, <3>3, <3>4, <3>5 DEF Silent, Gone
  <2> QED
    BY <2>1, <2>2
<1>5. CASE InReadCb /\ serving = c
  <2>1. phase = "request" /\ want > 0 /\ in[c] = 0
    BY <1>5, <1>c DEF Silent
  <2>2. ~RequestRead /\ ~ServerReads /\ ~ObjectRead
    BY <2>1, <1>5, <1>c DEF RequestRead, ObjectRead, ServerReads, Gone
  <2> QED
    BY <1>5, <2>2 DEF InReadCb, PutBucketset, PutNoObject, PutObject, RequestEndsServer,
                      PutObjectReturns
<1>6. CASE InReadCb /\ serving # c
  <2>1. serving' # c
    BY <1>6, <1>b DEF InReadCb, ServerReads, PutBucketset, PutNoObject, PutObject,
                      RequestEndsServer, PutObjectReturns, Reply, ServerEnds
  <2>2. in'[c] = in[c] /\ back'[c] = back[c] /\ conn'[c] = conn[c]
    BY <1>6, <1>a DEF InReadCb, ServerReads, PutBucketset, PutNoObject, PutObject,
                      RequestEndsServer, PutObjectReturns, Reply, TypeOK
  <2> QED
    BY <1>c, <2>1, <2>2 DEF Silent, Gone
<1> QED
  BY <1>1, <1>2, <1>3, <1>4, <1>5, <1>6 DEF LoopCall

\* The exchange is stuck for every such client that is still there.
THEOREM SilentCreateCorrect == Spec => []SilentCreate
<1>1. Init => SilentCreate
  BY ExchangeAssumption DEF Init, SilentCreate, Silent, SetClients, Gone
<1>2. TypeOK /\ SilentCreate /\ [Next]_vars => SilentCreate'
  <2> SUFFICES ASSUME TypeOK, SilentCreate, [Next]_vars, NEW c \in SetClients
               PROVE  Silent(c)'
    BY DEF SilentCreate
  <2>1. Silent(c) /\ c \in Clients
    BY DEF SilentCreate, SetClients
  <2>2. CASE UNCHANGED vars
    BY <2>1, <2>2 DEF vars, client, loop, Silent, Gone
  <2>3. CASE InReadCb \/ \E d \in Clients : LoopCall(d)
    BY <2>1, <2>3, SilentServer
  <2>4. ASSUME NEW d \in Clients, ClientStep(d) \/ Kill(d)
        PROVE  Silent(c)'
    <3>1. CASE d = c
      BY <2>1, <2>4, <3>1, SilentClient
    <3>2. CASE d # c
      BY <2>1, <2>4, <3>2, OtherClient DEF Silent, Gone, loop
    <3> QED
      BY <3>1, <3>2
  <2> QED
    BY <2>2, <2>3, <2>4 DEF Next
<1> QED
  BY <1>1, <1>2, ExchangeTypes, PTL DEF Spec

\* No client that creates a set with this repository's code is answered
\* while it is there.
COROLLARY NoLiveCreateCorrect == Spec => []NoLiveCreateAnswered
<1>1. SilentCreate => NoLiveCreateAnswered
  BY DEF SilentCreate, Silent, NoLiveCreateAnswered
<1> QED
  BY <1>1, SilentCreateCorrect, PTL

\* A client and the loop thread that wait for each other do so until the
\* client's user gives up.
THEOREM EmbraceLasts == Spec => OnlyAKillFrees
<1>1. TypeOK /\ [Next]_vars
        => [\A c \in Clients : Embrace(c) => Embrace(c)' \/ result'[c] = "killed"]_vars
  <2> SUFFICES ASSUME TypeOK, Next, NEW c \in Clients, Embrace(c)
               PROVE  Embrace(c)' \/ result'[c] = "killed"
    OBVIOUS
  <2>a. up /\ phase = "request" /\ serving = c /\ pc[c] = "request" /\ left[c] > 0
        /\ back[c] = 0 /\ want > 0 /\ in[c] = 0
    BY DEF Embrace, TypeOK
  <2>b. left[c] \in Nat /\ want \in Nat
    BY DEF TypeOK
  <2>1. ~InReadCb
    <3>1. ~RequestRead /\ ~ObjectRead /\ ~ServerReads
      BY <2>a, <2>b DEF RequestRead, ObjectRead, ServerReads, Gone
    <3> QED
      BY <2>a, <3>1 DEF InReadCb, PutBucketset, PutNoObject, PutObject,
                        RequestEndsServer, PutObjectReturns
  <2>2. \A d \in Clients : ~LoopCall(d)
    BY <2>a DEF LoopCall, Accept, BufferAllocFails, RecvIsError, RecvGoesOn, Called, Idle
  <2>3. ~ClientStep(c)
    BY <2>a, <2>b DEF ClientStep, Connect, ConnectFails, Write, AfterType, AfterHeader,
                      NextPiece, PutObjectEnds, Read, ReadReturns, ReadEnds, BrokenPipe,
                      Writing, Reading
  <2>4. ASSUME Kill(c)
        PROVE  result'[c] = "killed"
    BY <2>4 DEF Kill, Finish, TypeOK
  <2>5. ASSUME NEW d \in Clients, d # c, ClientStep(d) \/ Kill(d)
        PROVE  Embrace(c)'
    BY <2>a, <2>5, OtherClient DEF Embrace, loop
  <2> QED
    BY <2>1, <2>2, <2>3, <2>4, <2>5 DEF Next
<1> QED
  BY <1>1, ExchangeTypes, PTL DEF Spec, OnlyAKillFrees

-----------------------------------------------------------------------------
(* What clients send, as long as they are there, cannot end the server.    *)

\* The units that c has not sent yet, and the call of read_cb for its end if
\* that is still to come: with what is in flight, the calls that c can cause.
Behind(c) ==
    IF c \in ObjectClients
    THEN CASE pc[c] = "connect" -> 1 + ObjectLen + pieces[c] * PieceLen
           [] pc[c] = "type" -> left[c] + ObjectLen + pieces[c] * PieceLen
           [] pc[c] \in {"header", "data"} -> left[c] + pieces[c] * PieceLen
           [] OTHER -> 0
    ELSE CASE pc[c] = "connect" -> IF c \in PeerClients THEN 1 + SetLen ELSE 1
           [] pc[c] = "type" -> IF c \in PeerClients THEN left[c] + SetLen ELSE left[c]
           [] pc[c] \in {"header", "data"} -> left[c]
           [] OTHER -> 0

Ending(c) == IF conn[c] = "stopped" \/ serving = c THEN 0 ELSE 1

Causes == [c \in Clients |-> Behind(c) + in[c] + Ending(c)]

\* Sums of CallsFor over clients, and of a function of clients as the sum over
\* its pairs, so that the weight of an element does not depend on the state.
Calls == INSTANCE SetSums WITH weight <- CallsFor
Pairs == INSTANCE SetSums WITH weight <- LAMBDA p : p[2]

PairsOf(r, S) == {<<c, r[c]>> : c \in S}
Total(r, S) == Pairs!Sum(PairsOf(r, S))

LEMMA PairsFinite ==
    ASSUME NEW r, NEW S, IsFiniteSet(S)
    PROVE  IsFiniteSet(PairsOf(r, S))
<1> DEFINE f == [c \in S |-> <<c, r[c]>>]
<1>1. f \in Surjection(S, PairsOf(r, S))
  BY DEF Surjection, PairsOf
<1> QED
  BY <1>1, FS_Surjection

LEMMA PairsSet == \A S : IsFiniteSet(S) => Pairs!IsFiniteSet(S) /\ Calls!IsFiniteSet(S)
BY DEF IsFiniteSet, Pairs!IsFiniteSet, Calls!IsFiniteSet

\* Taking one client out of a total.
LEMMA TotalRemoves ==
    ASSUME NEW S, IsFiniteSet(S), NEW r, \A c \in S : r[c] \in Nat
    PROVE  /\ Total(r, S) \in Nat
           /\ \A c \in S : Total(r, S) = r[c] + Total(r, S \ {c})
<1>1. Pairs!IsFiniteSet(PairsOf(r, S)) /\ \A p \in PairsOf(r, S) : p[2] \in Nat
  BY PairsFinite, PairsSet DEF PairsOf
<1>2. Pairs!Sum(PairsOf(r, S)) \in Nat
  BY <1>1, Pairs!SumOfNaturals
<1>3. ASSUME NEW c \in S
      PROVE  Total(r, S) = r[c] + Total(r, S \ {c})
  <2> DEFINE p == <<c, r[c]>>
  <2>1. p \in PairsOf(r, S) /\ PairsOf(r, S) \ {p} = PairsOf(r, S \ {c})
    BY DEF PairsOf
  <2>2. \A q \in PairsOf(r, S) : q[2] \in Int
    BY <1>1
  <2>3. Pairs!Sum(PairsOf(r, S)) = p[2] + Pairs!Sum(PairsOf(r, S) \ {p})
    BY <1>1, <2>1, <2>2, Pairs!SumRemoves
  <2> QED
    BY <2>1, <2>3 DEF Total
<1> QED
  BY <1>2, <1>3 DEF Total

\* Totals of functions that agree are the same.
LEMMA TotalsAgree ==
    ASSUME NEW S, NEW r, NEW q, \A c \in S : r[c] = q[c]
    PROVE  Total(r, S) = Total(q, S)
<1>1. PairsOf(r, S) = PairsOf(q, S)
  BY DEF PairsOf
<1> QED
  BY <1>1 DEF Total

\* A change at one client.
LEMMA TotalChanges ==
    ASSUME NEW r \in [Clients -> Nat], NEW q \in [Clients -> Nat], NEW c \in Clients,
           \A d \in Clients \ {c} : q[d] = r[d]
    PROVE  Total(q, Clients) = Total(r, Clients) - r[c] + q[c]
<1>1. IsFiniteSet(Clients) /\ IsFiniteSet(Clients \ {c})
  BY ExchangeAssumption, FS_Subset
<1>2. Total(q, Clients \ {c}) = Total(r, Clients \ {c}) /\ Total(r, Clients \ {c}) \in Nat
  BY <1>1, TotalsAgree, TotalRemoves
<1>3. Total(q, Clients) = q[c] + Total(q, Clients \ {c})
  BY <1>1, TotalRemoves
<1>4. Total(r, Clients) = r[c] + Total(r, Clients \ {c})
  BY <1>1, TotalRemoves
<1> QED
  BY <1>2, <1>3, <1>4

\* The total of CallsFor is the sum that EndsOnlyByHangup names.
LEMMA TotalIsSum ==
    ASSUME NEW r \in [Clients -> Nat], \A c \in Clients : r[c] = CallsFor(c)
    PROVE  Total(r, Clients) = MapThenSumSet(CallsFor, Clients)
<1> DEFINE T == {s \in SUBSET Clients : Total(r, s) # Calls!Sum(s)}
<1>1. SUFFICES ASSUME T # {} PROVE FALSE
  BY DEF Calls!Sum, CallsFor, MapThenSumSet, MapThenFoldSet,
         Calls!MapThenSumSet, Calls!MapThenFoldSet
<1>2. IsFiniteSet(Clients) /\ Calls!IsFiniteSet(Clients)
  BY ExchangeAssumption, PairsSet
<1>0. T \in SUBSET SUBSET Clients
  OBVIOUS
<1> HIDE DEF T
<1>3. PICK t \in T : \A u \in SUBSET t : u # t => u \notin T
  BY <1>0, <1>1, <1>2, Calls!SmallestSubset
<1>4. t \in SUBSET Clients /\ IsFiniteSet(t) /\ Calls!IsFiniteSet(t)
      /\ Total(r, t) # Calls!Sum(t)
  BY <1>2, FS_Subset, PairsSet DEF T
<1>5. CASE t = {}
  <2>1. PairsOf(r, t) = {}
    BY <1>5 DEF PairsOf
  <2>2. Total(r, t) = 0 /\ Calls!Sum(t) = 0
    BY <1>5, <2>1, Pairs!SumOfNone, Calls!SumOfNone DEF Total
  <2> QED
    BY <1>4, <2>2
<1>6. ASSUME NEW c \in t
      PROVE  FALSE
  <2>1. Total(r, t) = r[c] + Total(r, t \ {c})
    BY <1>4, TotalRemoves
  <2>2. \A d \in t : CallsFor(d) \in Int
    BY <1>4
  <2> HIDE DEF CallsFor
  <2>3. Calls!Sum(t) = CallsFor(c) + Calls!Sum(t \ {c})
    BY <1>4, <2>2, Calls!SumRemoves
  <2>4. Total(r, t \ {c}) = Calls!Sum(t \ {c})
    BY <1>3, <1>4 DEF T
  <2> QED
    BY <1>4, <2>1, <2>3, <2>4
<1> QED
  BY <1>5, <1>6

LEMMA BehindTypes ==
    ASSUME TypeOK, NEW c \in Clients
    PROVE  Behind(c) \in Nat
<1>1. {SetLen, ObjectLen, Pieces, PieceLen} \subseteq Nat
  BY ExchangeAssumption
<1>2. pieces[c] \in Nat /\ left[c] \in Nat
  BY DEF TypeOK
<1>3. pieces[c] * PieceLen \in Nat
  BY <1>1, <1>2
<1> QED
  BY <1>1, <1>2, <1>3 DEF Behind

LEMMA CausesTypes == TypeOK => Causes \in [Clients -> Nat]
<1> SUFFICES ASSUME TypeOK, NEW c \in Clients
             PROVE  Behind(c) + in[c] + Ending(c) \in Nat
  BY DEF Causes
<1>1. Behind(c) \in Nat /\ in[c] \in Nat /\ Ending(c) \in Nat
  BY BehindTypes DEF TypeOK, Ending
<1> QED
  BY <1>1

LEMMA ClientLeaves ==
    ASSUME NEW c \in Clients, ClientStep(c) \/ Kill(c)
    PROVE  UNCHANGED <<up, loop, created, buffers>>
BY DEF ClientStep, Kill, Connect, ConnectFails, Write, AfterType, AfterHeader, NextPiece,
       PutObjectEnds, Read, ReadReturns, ReadEnds, BrokenPipe, Finish, GoesOn

\* A client's step makes no more calls to come than there were.
LEMMA ClientCauses ==
    ASSUME TypeOK, NEW c \in Clients, ClientStep(c) \/ Kill(c)
    PROVE  /\ Causes'[c] <= Causes[c]
           /\ \A d \in Clients \ {c} : Causes'[d] = Causes[d]
<1>1. {SetLen, ObjectLen, AckLen, Pieces, PieceLen} \subseteq Nat
  BY ExchangeAssumption
<1>2. /\ pieces[c] \in Nat /\ left[c] \in Nat /\ in[c] \in Nat /\ serving' = serving
      /\ Ending(c) \in Nat
  BY ClientLeaves DEF TypeOK, Ending, loop
<1> DEFINE rest == pieces[c] * PieceLen
<1>3. rest \in Nat /\ Behind(c) \in Nat
  <2>1. rest \in Nat
    BY <1>1, <1>2
  <2> QED
    BY <1>1, <1>2, <2>1 DEF Behind
<1>4. ASSUME NEW d \in Clients \ {c}
      PROVE  Causes'[d] = Causes[d]
  BY <1>2, <1>4, OtherClient DEF Causes, Behind, Ending
<1> SUFFICES Behind(c)' + in'[c] + Ending(c)' <= Behind(c) + in[c] + Ending(c)
  BY <1>4 DEF Causes
<1>5. CASE Connect(c)
  <2>1. Behind(c)' = Behind(c) /\ Ending(c)' = Ending(c) /\ in'[c] = in[c]
    BY <1>1, <1>2, <1>5 DEF Connect, Behind, Ending, TypeOK
  <2> QED
    BY <1>2, <1>3, <2>1
<1>6. CASE Write(c)
  <2>1. Behind(c)' = Behind(c) - 1 /\ Ending(c)' = Ending(c) /\ in'[c] = in[c] + 1
    <3>1. /\ pc'[c] = pc[c] /\ left'[c] = left[c] - 1 /\ pieces'[c] = pieces[c]
          /\ conn' = conn /\ in'[c] = in[c] + 1 /\ pc[c] \in {"type", "header", "data"}
      BY <1>6 DEF Write, Writing, TypeOK
    <3> QED
      BY <1>1, <1>2, <1>3, <3>1 DEF Behind, Ending
  <2> QED
    BY <1>2, <1>3, <2>1
<1>7. ASSUME UNCHANGED <<in, conn>>, Behind(c)' \in 0 .. Behind(c)
      PROVE  Behind(c)' + in'[c] + Ending(c)' <= Behind(c) + in[c] + Ending(c)
  BY <1>2, <1>3, <1>7 DEF Ending
<1>8. ASSUME NEW r, Finish(c, r)
      PROVE  Behind(c)' + in'[c] + Ending(c)' <= Behind(c) + in[c] + Ending(c)
  <2>1. Behind(c)' = 0
    BY <1>8 DEF Finish, Behind, TypeOK
  <2> QED
    BY <1>3, <1>7, <1>8, <2>1 DEF Finish
<1>9. CASE ConnectFails(c) \/ PutObjectEnds(c) \/ ReadEnds(c) \/ BrokenPipe(c) \/ Kill(c)
  <2>1. \E r : Finish(c, r)
    BY <1>9 DEF ConnectFails, PutObjectEnds, ReadEnds, BrokenPipe, Kill
  <2> QED
    BY <1>8, <2>1
<1>10. CASE AfterType(c) \/ AfterHeader(c)
  <2>1. ASSUME AfterHeader(c)
        PROVE  Behind(c)' \in 0 .. Behind(c)
    <3>1. c \notin ObjectClients /\ pc'[c] = "ack"
      BY <2>1 DEF AfterHeader, GoesOn, TypeOK
    <3>2. Behind(c)' = 0
      BY <3>1 DEF Behind
    <3> QED
      BY <1>3, <3>2
  <2>2. ASSUME AfterType(c)
        PROVE  Behind(c)' \in 0 .. Behind(c)
    <3>1. /\ pc[c] = "type" /\ left[c] = 0 /\ pieces'[c] = pieces[c]
          /\ c \in ObjectClients => pc'[c] = "header" /\ left'[c] = ObjectLen
          /\ c \notin ObjectClients =>
                \/ pc'[c] = "request"
                \/ pc'[c] = "header" /\ c \in PeerClients /\ left'[c] = SetLen
      BY <2>2, ExchangeAssumption DEF AfterType, GoesOn, TypeOK
    <3>2. Behind(c)' = Behind(c) \/ Behind(c)' = 0
      <4>1. CASE c \in ObjectClients
        <5>1. /\ Behind(c) = 0 + ObjectLen + pieces[c] * PieceLen
              /\ Behind(c)' = left'[c] + pieces'[c] * PieceLen
          BY <3>1, <4>1 DEF Behind
        <5>2. ObjectLen \in Nat /\ pieces'[c] * PieceLen = pieces[c] * PieceLen
          BY <1>1, <3>1
        <5>3. left'[c] = ObjectLen /\ left[c] = 0
          BY <3>1, <4>1
        <5> QED
          BY <1>3, <5>1, <5>2, <5>3
      <4>2. CASE c \notin ObjectClients
        BY <1>1, <3>1, <4>2 DEF Behind
      <4> QED
        BY <4>1, <4>2
    <3> QED
      BY <1>3, <3>2
  <2>3. Behind(c)' \in 0 .. Behind(c)
    BY <1>10, <2>1, <2>2
  <2> QED
    BY <1>7, <1>10, <2>3 DEF AfterType, AfterHeader, GoesOn
<1>11. CASE NextPiece(c)
  <2>1. PICK units \in 1 .. PieceLen : left' = [left EXCEPT ![c] = units]
    BY <1>11 DEF NextPiece
  <2>2. Behind(c)' = units + (pieces[c] - 1) * PieceLen /\ Behind(c) = rest
    BY <1>2, <1>3, <1>11, <2>1 DEF NextPiece, Behind, TypeOK
  <2>3. (pieces[c] - 1) * PieceLen = rest - PieceLen /\ rest - PieceLen \in Nat
    <3>1. pieces[c] - 1 \in Nat
      BY <1>2, <1>11 DEF NextPiece
    <3>2. (pieces[c] - 1) * PieceLen \in Nat
      BY <1>1, <3>1
    <3>3. (pieces[c] - 1) * PieceLen = rest - PieceLen
      BY <1>1, <1>2
    <3> QED
      BY <3>2, <3>3
  <2>4. Behind(c)' \in 0 .. Behind(c)
    BY <1>1, <1>3, <2>2, <2>3
  <2> QED
    BY <1>7, <1>11, <2>4 DEF NextPiece
<1>12. CASE Read(c) \/ ReadReturns(c)
  <2>1. CASE \E r : Finish(c, r)
    BY <1>8, <2>1
  <2>2. CASE ~ \E r : Finish(c, r)
    <3>1. pc[c] \in Reading /\ pc'[c] \in Reading /\ UNCHANGED <<in, conn>>
      BY <1>12, <2>2 DEF Read, ReadReturns, GoesOn, Reading, TypeOK
    <3>2. Behind(c)' = 0 /\ Behind(c) = 0
      BY <3>1 DEF Behind, Reading
    <3> QED
      BY <1>7, <3>1, <3>2
  <2> QED
    BY <2>1, <2>2
<1> QED
  BY <1>5, <1>6, <1>9, <1>10, <1>11, <1>12 DEF ClientStep

\* Why the server survives: a call of read_cb that finds a byte takes it, and
\* one that finds none is for a client that has gone, of which no more will be
\* heard: it is answered as if it had put an object, or ends the server.  So
\* each call uses up a cause, and there are no more of them than buffers.
ServedOnlyGone ==
    /\ ~created /\ type = "object" /\ phase # "object"
    /\ phase = "request" => Gone(serving) /\ in[serving] = 0

Enough == MaxBuffers >= MapThenSumSet(CallsFor, Clients)

CausesLeft == up => buffers + Total(Causes, Clients) <= MapThenSumSet(CallsFor, Clients)

Survival == RecvRejected = {1} => ServedOnlyGone /\ (Enough => CausesLeft)

\* The sum of the bound, and the total of what is left.
LEMMA SumsAreNumbers ==
    ASSUME TypeOK
    PROVE  /\ MapThenSumSet(CallsFor, Clients) \in Nat
           /\ Total(Causes, Clients) \in Nat
           /\ \A c \in Clients : Causes[c] \in Nat /\ Causes[c] <= Total(Causes, Clients)
<1>1. IsFiniteSet(Clients)
  BY ExchangeAssumption
<1>2. Causes \in [Clients -> Nat]
  BY CausesTypes
<1> HIDE DEF Causes
<1>3. Total(Causes, Clients) \in Nat
  BY <1>1, <1>2, TotalRemoves
<1>4. ASSUME NEW c \in Clients
      PROVE  Causes[c] \in Nat /\ Causes[c] <= Total(Causes, Clients)
  <2>1. Total(Causes, Clients) = Causes[c] + Total(Causes, Clients \ {c})
    BY <1>1, <1>2, TotalRemoves
  <2>2. Total(Causes, Clients \ {c}) \in Nat
    <3>1. IsFiniteSet(Clients \ {c})
      BY <1>1, FS_Subset
    <3> QED
      BY <1>2, <3>1, TotalRemoves
  <2> QED
    BY <1>2, <2>1, <2>2
<1>5. MapThenSumSet(CallsFor, Clients) \in Nat
  <2> DEFINE r == [c \in Clients |-> CallsFor(c)]
  <2>1. \A c \in Clients : CallsFor(c) \in Nat
    <3>1. {SetLen, ObjectLen, Pieces, PieceLen} \subseteq Nat
      BY ExchangeAssumption
    <3>2. Pieces * PieceLen \in Nat
      BY <3>1
    <3> QED
      BY <3>1, <3>2 DEF CallsFor
  <2>2. r \in [Clients -> Nat] /\ \A c \in Clients : r[c] = CallsFor(c)
    BY <2>1
  <2> HIDE DEF r
  <2>3. Total(r, Clients) = MapThenSumSet(CallsFor, Clients)
    BY <2>2, TotalIsSum
  <2> QED
    BY <1>1, <2>2, <2>3, TotalRemoves
<1> QED
  BY <1>3, <1>4, <1>5

LEMMA CausesTypesNext == TypeOK' => (Causes \in [Clients -> Nat])'
BY CausesTypes, PTL

\* A step that changes the causes of one client changes their total by as much.
LEMMA CausesChange ==
    ASSUME TypeOK, TypeOK', NEW c \in Clients,
           \A d \in Clients \ {c} : Causes'[d] = Causes[d]
    PROVE  Total(Causes, Clients)' = Total(Causes, Clients) - Causes[c] + Causes'[c]
<1>1. Causes \in [Clients -> Nat]
  BY CausesTypes
<1>3. Causes' \in [Clients -> Nat]
  BY CausesTypesNext
<1> HIDE DEF Causes
<1> QED
  BY <1>1, <1>3, TotalChanges

LEMMA SurvivalInit == Init => Survival
<1> SUFFICES ASSUME Init PROVE Survival
  OBVIOUS
<1>1. {SetLen, ObjectLen, Pieces, PieceLen} \subseteq Nat
  BY ExchangeAssumption
<1>2. Pieces * PieceLen \in Nat
  BY <1>1
<1>3. ASSUME NEW c \in Clients
      PROVE  Causes[c] \in Nat /\ Causes[c] = CallsFor(c)
  <2>1. Nobody \notin Clients
    BY ExchangeAssumption
  <2>2. Ending(c) = 1 /\ in[c] = 0
    BY <2>1 DEF Init, Ending
  <2>3. Causes[c] = Behind(c) + 1
    <3>1. Behind(c) \in Nat
      BY <1>1, <1>2 DEF Init, Behind
    <3> QED
      BY <2>2, <3>1 DEF Causes
  <2> QED
    BY <1>1, <1>2, <2>3, ExchangeAssumption DEF Init, Behind, CallsFor
<1>4. Causes \in [Clients -> Nat]
  BY <1>3 DEF Causes
<1> HIDE DEF Causes
<1>5. Total(Causes, Clients) = MapThenSumSet(CallsFor, Clients)
  BY <1>3, <1>4, TotalIsSum
<1>6. Total(Causes, Clients) \in Nat
  BY <1>4, TotalRemoves, ExchangeAssumption
<1> QED
  BY <1>5, <1>6 DEF Init, Survival, ServedOnlyGone, CausesLeft

LEMMA SurvivalClient ==
    ASSUME TypeOK, TypeOK', Survival, NEW c \in Clients, ClientStep(c) \/ Kill(c)
    PROVE  Survival'
<1> SUFFICES ASSUME RecvRejected = {1}
             PROVE  ServedOnlyGone' /\ (Enough => CausesLeft')
  BY DEF Survival, Enough
<1>1. UNCHANGED <<up, serving, phase, type, created, buffers>>
  BY ClientLeaves DEF loop
<1>2. ServedOnlyGone'
  <2>1. ServedOnlyGone
    BY DEF Survival
  <2>2. CASE phase = "request"
    <3>1. serving \in Clients /\ pc[serving] = "done" /\ in[serving] = 0
      BY <2>1, <2>2 DEF ServedOnlyGone, Gone, TypeOK
    <3>2. c # serving
      BY <3>1 DEF ClientStep, Kill, Connect, ConnectFails, Write, AfterType, AfterHeader,
                  NextPiece, PutObjectEnds, Read, ReadReturns, ReadEnds, BrokenPipe,
                  Writing, Reading
    <3>3. pc'[serving] = pc[serving] /\ in'[serving] = in[serving]
      BY <3>1, <3>2, OtherClient
    <3> QED
      BY <1>1, <2>1, <3>1, <3>3 DEF ServedOnlyGone, Gone
  <2> QED
    BY <1>1, <2>1, <2>2 DEF ServedOnlyGone
<1>3. ASSUME Enough
      PROVE  CausesLeft'
  <2>1. CausesLeft
    BY <1>3 DEF Survival
  <2>2. /\ Causes'[c] <= Causes[c]
        /\ Total(Causes, Clients)' = Total(Causes, Clients) - Causes[c] + Causes'[c]
    BY ClientCauses, CausesChange
  <2>3. /\ Total(Causes, Clients) \in Nat /\ Causes[c] \in Nat /\ Causes'[c] \in Nat
        /\ MapThenSumSet(CallsFor, Clients) \in Nat /\ buffers \in Nat
    BY SumsAreNumbers, CausesTypesNext DEF TypeOK
  <2>4. Total(Causes, Clients)' <= Total(Causes, Clients)
    BY <2>2, <2>3
  <2>5. Total(Causes, Clients)' \in Int
    BY <2>2, <2>3
  <2>6. up => buffers + Total(Causes, Clients)' <= MapThenSumSet(CallsFor, Clients)
    BY <2>1, <2>3, <2>4, <2>5 DEF CausesLeft
  <2> QED
    BY <1>1, <2>1, <2>6 DEF CausesLeft
<1> QED
  BY <1>2, <1>3

\* A call of read_cb on c that takes one of its causes, and a buffer.
LEMMA SurvivalCall ==
    ASSUME TypeOK, TypeOK', Enough, CausesLeft, NEW c \in Clients,
           up, buffers' = buffers + 1, Causes'[c] = Causes[c] - 1,
           \A d \in Clients \ {c} : Causes'[d] = Causes[d]
    PROVE  CausesLeft'
<1>1. Total(Causes, Clients)' = Total(Causes, Clients) - Causes[c] + Causes'[c]
  BY CausesChange
<1>2. Total(Causes, Clients) \in Nat /\ Causes[c] \in Nat /\ buffers \in Nat
      /\ MapThenSumSet(CallsFor, Clients) \in Nat
  BY SumsAreNumbers DEF TypeOK
<1>3. Total(Causes, Clients)' = Total(Causes, Clients) - 1
  BY <1>1, <1>2
<1>4. buffers + 1 + Total(Causes, Clients)' <= MapThenSumSet(CallsFor, Clients)
  BY <1>2, <1>3 DEF CausesLeft
<1> QED
  BY <1>4 DEF CausesLeft

\* A call always has a buffer.
LEMMA AlwaysABuffer ==
    ASSUME TypeOK, Enough, CausesLeft, NEW c \in Clients, BufferAllocFails(c)
    PROVE  FALSE
<1>1. /\ up /\ serving = Nobody /\ Nobody # c /\ conn[c] = "watched"
      /\ in[c] \in Nat /\ buffers = MaxBuffers /\ MaxBuffers \in Nat
  BY ExchangeAssumption DEF BufferAllocFails, Called, Idle, TypeOK
<1>2. Causes[c] > 0
  <2>1. Ending(c) = 1
    BY <1>1 DEF Ending
  <2>2. Causes[c] = Behind(c) + in[c] + Ending(c) /\ Behind(c) \in Nat
    BY BehindTypes DEF Causes
  <2> QED
    BY <1>1, <2>1, <2>2
<1>3. Causes[c] \in Nat /\ Causes[c] <= Total(Causes, Clients)
      /\ Total(Causes, Clients) \in Nat /\ MapThenSumSet(CallsFor, Clients) \in Nat
  BY SumsAreNumbers
<1> QED
  BY <1>1, <1>2, <1>3 DEF Enough, CausesLeft

\* What the loop does for a connection.
LEMMA SurvivalLoop ==
    ASSUME TypeOK, TypeOK', Survival, NEW c \in Clients, LoopCall(c)
    PROVE  Survival'
<1> SUFFICES ASSUME RecvRejected = {1}
             PROVE  ServedOnlyGone' /\ (Enough => CausesLeft')
  BY DEF Survival, Enough
<1>1. /\ ServedOnlyGone /\ (Enough => CausesLeft)
      /\ phase = "idle" /\ serving = Nobody /\ up /\ serving # c
      /\ in[c] \in Nat /\ buffers \in Nat /\ MaxBuffers \in Nat
  BY ExchangeAssumption
     DEF Survival, LoopCall, Accept, BufferAllocFails, RecvIsError, RecvGoesOn, Called,
         Idle, TypeOK
<1>2. \A r \in Received(c) : Rejects(r) <=> in[c] > 0 /\ r = 1
  BY DEF Rejects, Received
<1>3. CASE Accept(c)
  <2>1. ServedOnlyGone'
    BY <1>1, <1>3 DEF Accept, ServedOnlyGone, loop
  <2>2. Causes' = Causes
    BY <1>3 DEF Accept, Causes, Behind, Ending, TypeOK, client, loop
  <2>3. UNCHANGED <<up, buffers>>
    BY <1>3 DEF Accept
  <2>4. CausesLeft => CausesLeft'
    BY <2>2, <2>3 DEF CausesLeft
  <2> QED
    BY <1>1, <2>1, <2>4
<1>4. CASE BufferAllocFails(c)
  <2>1. ServedOnlyGone'
    BY <1>1, <1>4 DEF BufferAllocFails, ServerEnds, ServedOnlyGone
  <2> QED
    BY <1>1, <1>4, <2>1, AlwaysABuffer
<1>5. CASE RecvIsError(c)
  <2>1. ServedOnlyGone'
    BY <1>1, <1>5 DEF RecvIsError, ServedOnlyGone, loop
  <2>2. in' = [in EXCEPT ![c] = @ - 1] /\ in[c] > 0
        /\ UNCHANGED <<client, up, conn, loop>> /\ buffers' = buffers + 1
    BY <1>2, <1>5 DEF RecvIsError, Received, Taken
  <2>3. \A d \in Clients : Behind(d)' = Behind(d) /\ Ending(d)' = Ending(d)
    BY <2>2 DEF Behind, Ending, client, loop
  <2>4. Causes'[c] = Causes[c] - 1
    <3>1. Causes[c] = Behind(c) + in[c] + Ending(c)
          /\ Causes'[c] = Behind(c) + (in[c] - 1) + Ending(c)
      BY <2>2, <2>3 DEF Causes, TypeOK
    <3>2. Behind(c) \in Nat /\ Ending(c) \in Nat
      BY BehindTypes DEF Ending
    <3> QED
      BY <1>1, <3>1, <3>2
  <2>5. \A d \in Clients \ {c} : Causes'[d] = Causes[d]
    BY <2>2, <2>3 DEF Causes, TypeOK
  <2>6. Enough => CausesLeft'
    BY <1>1, <2>2, <2>4, <2>5, SurvivalCall
  <2> QED
    BY <2>1, <2>6
<1>6. CASE RecvGoesOn(c)
  <2>1. in[c] = 0 /\ Gone(c) /\ conn[c] = "watched"
    BY <1>1, <1>2, <1>6 DEF RecvGoesOn, Called, Received
  <2>2. /\ UNCHANGED <<client, up, conn, created>> /\ buffers' = buffers + 1
        /\ in' = in /\ serving' = c /\ phase' = "request" /\ type' = "object"
    <3>1. in' = [in EXCEPT ![c] = 0]
      <4>1. PICK r \in {0, -1} : in' = [in EXCEPT ![c] = @ - Taken(r)]
        <5>1. Received(c) = {0, -1}
          BY <2>1, <1>1 DEF Received
        <5> QED
          BY <5>1, <1>6 DEF RecvGoesOn
      <4>2. Taken(r) = 0 /\ in[c] - 0 = 0
        BY <2>1 DEF Taken
      <4> QED
        BY <2>1, <4>1, <4>2
    <3>2. in' = in
      BY <2>1, <3>1 DEF TypeOK
    <3> QED
      BY <2>1, <3>2, <1>6 DEF RecvGoesOn
  <2>3. ServedOnlyGone'
    BY <1>1, <2>1, <2>2 DEF ServedOnlyGone, Gone, client
  <2>4. \A d \in Clients : Behind(d)' = Behind(d)
    BY <2>2 DEF Behind, client
  <2>5. Ending(c) = 1 /\ Ending(c)' = 0
    BY <1>1, <2>1, <2>2 DEF Ending
  <2>6. \A d \in Clients \ {c} : Ending(d)' = Ending(d)
    BY <1>1, <2>2, ExchangeAssumption DEF Ending
  <2>7. Causes'[c] = Causes[c] - 1
    <3>1. Causes[c] = Behind(c) + 0 + 1 /\ Causes'[c] = Behind(c) + 0 + 0
      BY <2>1, <2>2, <2>4, <2>5 DEF Causes
    <3>2. Behind(c) \in Nat
      BY BehindTypes
    <3> QED
      BY <3>1, <3>2
  <2>8. \A d \in Clients \ {c} : Causes'[d] = Causes[d]
    BY <2>2, <2>4, <2>6 DEF Causes
  <2>9. Enough => CausesLeft'
    BY <1>1, <2>2, <2>7, <2>8, SurvivalCall
  <2> QED
    BY <2>3, <2>9
<1> QED
  BY <1>3, <1>4, <1>5, <1>6 DEF LoopCall

\* Inside read_cb: there is nothing to read, and no set is known.
LEMMA SurvivalServed ==
    ASSUME TypeOK, TypeOK', Survival, InReadCb
    PROVE  Survival'
<1> SUFFICES ASSUME RecvRejected = {1}
             PROVE  ServedOnlyGone' /\ (Enough => CausesLeft')
  BY DEF Survival, Enough
<1>1. ServedOnlyGone /\ (Enough => CausesLeft)
  BY DEF Survival
<1>2. PutNoObject \/ RequestEndsServer
  <2>1. phase # "object" /\ type = "object" /\ ~created
        /\ (phase = "request" => in[serving] = 0)
    BY <1>1 DEF ServedOnlyGone
  <2> QED
    BY <2>1 DEF InReadCb, ServerReads, PutBucketset, PutObject, PutObjectReturns, ObjectRead
<1>3. CASE PutNoObject
  <2>1. /\ UNCHANGED <<client, up, in, type, created, buffers>>
        /\ conn' = [conn EXCEPT ![serving] = "stopped"]
        /\ serving' = Nobody /\ phase' = "idle"
    BY <1>3 DEF PutNoObject, Reply
  <2>2. ServedOnlyGone'
    BY <1>1, <2>1 DEF ServedOnlyGone
  <2>3. \A d \in Clients : Ending(d)' = Ending(d)
    <3>1. Nobody \notin Clients
      BY ExchangeAssumption
    <3> QED
      BY <2>1, <3>1 DEF Ending, TypeOK
  <2>4. \A d \in Clients : Behind(d)' = Behind(d)
    BY <2>1 DEF Behind, client
  <2>5. Causes' = Causes
    BY <2>1, <2>3, <2>4 DEF Causes
  <2>6. CausesLeft => CausesLeft'
    BY <2>1, <2>5 DEF CausesLeft
  <2> QED
    BY <1>1, <2>2, <2>6
<1>4. CASE RequestEndsServer
  <2>1. ~up' /\ phase' = "idle" /\ UNCHANGED <<type, created>>
    BY <1>4 DEF RequestEndsServer, ServerEnds
  <2> QED
    BY <1>1, <2>1 DEF ServedOnlyGone, CausesLeft
<1> QED
  BY <1>2, <1>3, <1>4

LEMMA SurvivalStep ==
    ASSUME TypeOK, TypeOK', Survival, [Next]_vars
    PROVE  Survival'
<1>1. CASE UNCHANGED vars
  <2>1. Causes' = Causes
    BY <1>1 DEF Causes, Behind, Ending, vars, client, loop
  <2>2. ServedOnlyGone' = ServedOnlyGone /\ CausesLeft' = CausesLeft
    BY <1>1, <2>1 DEF ServedOnlyGone, CausesLeft, Gone, vars, client, loop
  <2> QED
    BY <2>2 DEF Survival, Enough
<1> QED
  BY <1>1, SurvivalClient, SurvivalLoop, SurvivalServed DEF Next

THEOREM SurvivalInvariant == Spec => []Survival
BY SurvivalInit, SurvivalStep, ExchangeTypes, PTL DEF Spec

\* With the comparison the code has, every call that the clients' bytes and
\* ends cause has a buffer, and none gets past the comparison for a client
\* that is still there: the end of the server is in a call for one that has
\* gone.
LEMMA EndStep ==
    ASSUME TypeOK, Survival, [Next]_vars, up, ~up', RecvRejected = {1}, Enough
    PROVE  phase # "idle" /\ Gone(serving)
<1>1. ServedOnlyGone /\ CausesLeft
  BY DEF Survival
<1>2. \A c \in Clients : ~ClientStep(c) /\ ~Kill(c)
  BY ClientLeaves
<1>3. \A c \in Clients : ~LoopCall(c)
  BY <1>1, AlwaysABuffer DEF LoopCall, Accept, RecvIsError, RecvGoesOn
<1>4. RequestEndsServer
  BY <1>2, <1>3 DEF Next, vars, InReadCb, ServerReads, PutBucketset, PutNoObject, PutObject,
                    PutObjectReturns, Reply
<1> QED
  BY <1>1, <1>4 DEF RequestEndsServer, RequestRead, ObjectRead, ServedOnlyGone

THEOREM EndsCorrect == Spec => EndsOnlyByHangup
<1>1. TypeOK /\ Survival /\ [Next]_vars
        => [up /\ ~up' /\ RecvRejected = {1}
            /\ MaxBuffers >= MapThenSumSet(CallsFor, Clients)
            => phase # "idle" /\ Gone(serving)]_vars
  BY EndStep DEF Enough
<1> QED
  BY <1>1, ExchangeTypes, SurvivalInvariant, PTL DEF Spec, EndsOnlyByHangup
=============================================================================
