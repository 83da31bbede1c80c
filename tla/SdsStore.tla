------------------------------ MODULE SdsStore ------------------------------
(***************************************************************************)
(* The storage server behind its socket: one process whose single event    *)
(* loop thread runs read_cb (netsocket.c) for one connection at a time,    *)
(* and through it the registry of bucket sets (sds_store.sets), the bucket *)
(* sets, their buckets (bucketset.c, bucket.c, bucket_store.c) and the     *)
(* data files.  The data files outlive the process; nothing else does.     *)
(*                                                                         *)
(* One action is one whole invocation of read_cb on a request, split by    *)
(* the path the code takes.  A request is what the recv and read_n calls   *)
(* left in req_type, req_object and req_bucketset: those locals are not    *)
(* initialised and short reads are not noticed, so any request can be in   *)
(* them, and the actions choose one freely.                                *)
(***************************************************************************)
EXTENDS Integers, Sequences, FiniteSets, BucketRouting

CONSTANTS Conns,          \* connections clients open, one request each
          Names,          \* set names that appear in requests
          PrefixOf,       \* <<m, n>> \in PrefixOf iff strncmp(m, n, strlen(m)) = 0
          Objects,        \* [hash, nameLen, dataLen]: what a put request says
          OffsetValues,   \* how many values a uint64_t has: 2^64
          BucketSize,     \* conf.bucket_size: buckets per set
          SetHashRange,   \* conf.set_hash_range, before rounding
          DataLength,     \* conf.data_length: megabytes per data file
          MaxSet,         \* SDS_STORE_MAX_SET: first capacity of the registry
          RecvRejected,   \* the results of recv that read_cb calls an error
          MaxBuffers,     \* bound: 4 MB buffers that calloc can hand out
          MaxEpoch,       \* bound: starts of the process
          None            \* no set name

\* The largest base for which  i * BUCKET_MIN_HASH  stays an int in the loop
\* of bucketset_hash_range_round: 2^31 - 1 - BUCKET_MIN_HASH.
MaxRoundable == 2147483135

\* The values of a uint64_t; OffsetValues may be a smaller even number, with
\* which the same things happen at smaller lengths.  dataLen is a uint64_t of
\* the request, compared with nothing; nameLen is a uint32_t, too short to
\* carry a size over the end together with a length that is accepted.
Offsets == 0 .. OffsetValues - 1

OBJECT_HEADER == 72    \* sizeof(bucket_object)

ASSUME StoreAssumption ==
    /\ PrefixOf \subseteq Names \X Names
    /\ \A n \in Names : <<n, n>> \in PrefixOf
    /\ None \notin Names
    /\ OffsetValues \in Nat \ {0} /\ OffsetValues % 2 = 0
    /\ Objects \subseteq [hash : Nat, nameLen : Nat, dataLen : Offsets]
    /\ \A o \in Objects : OBJECT_HEADER + o.nameLen <= OffsetValues \div 2
    /\ BucketSize \in Nat
    /\ SetHashRange \in Nat /\ SetHashRange <= MaxRoundable
    /\ DataLength \in Nat
    /\ MaxSet \in Nat \ {0}
    /\ RecvRejected \subseteq {-1, 0, 1}
    /\ MaxBuffers \in Nat
    /\ MaxEpoch \in Nat \ {0}

VARIABLES up,        \* the process runs
          epoch,     \* how many times it was started
          conn,      \* conn[c]: "new", "watched" (ev_io active) or "closed"
          ack,       \* ack[c]: the response_ack sent on c, or NoAck
          buffers,   \* 4 MB read_cb buffers allocated and never freed
          sets,      \* sds_store.sets, in the order of vector_push_back
          disk,      \* data files that exist: <<set name, bucket number>>
          stored     \* history: the objects bucket_put accepted

vars == <<up, epoch, conn, ack, buffers, sets, disk, stored>>

Buckets == 0 .. BucketSize - 1
Files == Names \X Buckets
RangeCount == bucketset_hash_range_round(SetHashRange)

ReqTypes == {"PUT_OBJECT", "PUT_BUCKETSET", "OTHER"}

Unset == "unset"       \* a field of response_ack that no statement assigns
Success == "success"   \* response_ack.ret = 0
Failure == "failure"   \* response_ack.ret = -1
NoAck == [type |-> Unset, name |-> None, ret |-> Unset]

-----------------------------------------------------------------------------
(* The registry: the loop in read_cb over the vector of bucket sets.       *)

\* A plausible bug: strncmp with the arguments' roles swapped, so that a
\* request matches the sets whose names extend it.
NameMatches_Swapped(set, n) == <<n, set.name>> \in PrefixOf

NameMatches(set, n) == <<set.name, n>> \in PrefixOf

Matches(n) == { i \in DOMAIN sets : NameMatches(sets[i], n) }

\* A plausible bug: the scan does not break at the first match.
FindSet_NoBreak(n) == IF Matches(n) = {} THEN 0 ELSE Max(Matches(n))

FindSet(n) == IF Matches(n) = {} THEN 0 ELSE Min(Matches(n))

Known(n) == FindSet(n) # 0

\* The vector starts with room for MaxSet sets and doubles when it is full.
RegistryFull == \E k \in 0 .. Len(sets) : Len(sets) = MaxSet * 2^k

-----------------------------------------------------------------------------
(* Buckets and their data files.                                           *)

\* What bucket_put adds to the offset, in uint64_t arithmetic.
SizeOf(o) == (OBJECT_HEADER + o.dataLen + o.nameLen) % OffsetValues

\* The data length as write_bucket_object reads it, in an ssize_t.
SignedLen(o) ==
    IF o.dataLen < OffsetValues \div 2 THEN o.dataLen ELSE o.dataLen - OffsetValues

\* A plausible "repair": open the data file even when it already exists.
bucket_create_Reopen(n, i) == [open |-> TRUE, current_offset |-> 0, slot |-> <<>>]

\* bucket_create and bucket_create_data_fd: stat, and open only a file that
\* does not exist yet; otherwise the descriptor stays -1 (open = FALSE).
\* slot is the list in cache.tables[0], the only cache slot ever written.
bucket_create(n, i) ==
    [open |-> <<n, i>> \notin disk, current_offset |-> 0, slot |-> <<>>]

bucketset_create(n) ==
    [name |-> n, buckets |-> [i \in Buckets |-> bucket_create(n, i)]]

Missing(n) == { i \in Buckets : <<n, i>> \notin disk }

\* A plausible bug: the sum is kept in something wider than an offset.
Accept_Wide(bt, c, o) ==
    [bt EXCEPT !.slot = <<c>>, !.current_offset = @ + SizeOf(o)]

\* bucket_put on an object with data.  vector_at always misses, because
\* vector_insert never advances the vector's size, so a new list replaces
\* the one in slot 0; write_bucket_object then returns 0, the object is
\* added to the new list, and the offset moves past it, or around: nothing
\* compares the offset or the length with the length of the data file.
Accept(bt, c, o) ==
    [bt EXCEPT !.slot = <<c>>,
               !.current_offset = (@ + SizeOf(o)) % OffsetValues]

\* A plausible bug: the offset moves before the object's data is known.
Refuse_Advances(bt) ==
    [bt EXCEPT !.slot = <<>>,
               !.current_offset = (@ + OBJECT_HEADER) % OffsetValues]

\* bucket_put on an object without data, or with a length that is negative as
\* an ssize_t: the new list is already in the slot when write_bucket_object
\* returns -1.
Refuse(bt) == [bt EXCEPT !.slot = <<>>]

\* bucket_check_data_fd: data_file_cur_length is never changed, so the
\* switch to a new file is due only when the maximum is 0.  It then always
\* fails, because index has not moved and the file it names exists, and
\* bucket_put aborts the process with log_fatal.
SwitchDue == 0 >= DataLength

-----------------------------------------------------------------------------
(* The process and its loop.                                               *)

\* The process ends by abort, a failed assert, a null pointer or a kill:
\* its memory and its connections are gone, the data files are not.
ProcessLost ==
    /\ up' = FALSE
    /\ buffers' = 0
    /\ sets' = <<>>
    /\ conn' = [c \in Conns |-> IF conn[c] = "watched" THEN "closed" ELSE conn[c]]

\* A plausible bug: the result of recv is not looked at.
Reaches_AnyResult(type) == type \in ReqTypes

\* The results of recv that read_cb goes on with, and the request type it
\* then finds: the byte received, or 0 (REQ_PUT_OBJECT) when there was none.
Reaches(type) ==
    \E read \in {-1, 0, 1} \ RecvRejected :
        IF read = 1 THEN type \in ReqTypes ELSE type = "PUT_OBJECT"

\* read_cb is called on c, gets its buffer and gets as far as the switch.
Dispatched(c, type) ==
    /\ up
    /\ conn[c] = "watched"
    /\ buffers < MaxBuffers
    /\ Reaches(type)

\* A plausible bug: the watcher is not stopped after the reply.
Reply_KeepWatching(c, type, name, ret) ==
    /\ ack' = [ack EXCEPT ![c] = [type |-> type, name |-> name, ret |-> ret]]
    /\ buffers' = buffers + 1
    /\ conn' = conn

\* A plausible repair: the buffer is given back on the way out.
Reply_Freed(c, type, name, ret) ==
    /\ ack' = [ack EXCEPT ![c] = [type |-> type, name |-> name, ret |-> ret]]
    /\ buffers' = buffers
    /\ conn' = [conn EXCEPT ![c] = "closed"]

\* send the response_ack and ev_io_stop; the buffer is not freed.
Reply(c, type, name, ret) ==
    /\ ack' = [ack EXCEPT ![c] = [type |-> type, name |-> name, ret |-> ret]]
    /\ buffers' = buffers + 1
    /\ conn' = [conn EXCEPT ![c] = "closed"]

Accepted(c) ==
    /\ up
    /\ conn[c] = "new"
    /\ conn' = [conn EXCEPT ![c] = "watched"]
    /\ UNCHANGED <<up, epoch, ack, buffers, sets, disk, stored>>

\* The error branch on the result of recv: the watcher stays active, the
\* buffer stays allocated, and nothing is answered.
ReadRejected(c) ==
    /\ up
    /\ conn[c] = "watched"
    /\ buffers < MaxBuffers
    /\ RecvRejected # {}
    /\ buffers' = buffers + 1
    /\ UNCHANGED <<up, epoch, conn, ack, sets, disk, stored>>

\* EV_ERROR: libev has stopped the watcher before it reports the error.
ReadError(c) ==
    /\ up
    /\ conn[c] = "watched"
    /\ buffers < MaxBuffers
    /\ buffers' = buffers + 1
    /\ conn' = [conn EXCEPT ![c] = "closed"]
    /\ UNCHANGED <<up, epoch, ack, sets, disk, stored>>

\* calloc returns NULL and assert(buffer != NULL) fails.
BufferAllocFails(c) ==
    /\ up
    /\ conn[c] = "watched"
    /\ buffers = MaxBuffers
    /\ ProcessLost
    /\ UNCHANGED <<epoch, ack, disk, stored>>

Crash ==
    /\ up
    /\ ProcessLost
    /\ UNCHANGED <<epoch, ack, disk, stored>>

Restart ==
    /\ ~up
    /\ epoch < MaxEpoch
    /\ up' = TRUE
    /\ epoch' = epoch + 1
    /\ UNCHANGED <<conn, ack, buffers, sets, disk, stored>>

-----------------------------------------------------------------------------
(* read_cb on REQ_PUT_OBJECT for object o in set n.                        *)

PutObjectUnknownSet(c, n) ==
    /\ Dispatched(c, "PUT_OBJECT")
    /\ ~Known(n)
    /\ Reply(c, "PUT_OBJECT", Unset, Failure)
    /\ UNCHANGED <<up, epoch, sets, disk, stored>>

Target(o) == bucketset_search_bucket(BucketSize, RangeCount, o.hash)

\* No bucket covers the hash: bt is NULL and bt->current_offset is read.
PutObjectUnrouted(c, n, o) ==
    /\ Dispatched(c, "PUT_OBJECT")
    /\ Known(n)
    /\ Target(o) = NoBucket
    /\ ProcessLost
    /\ UNCHANGED <<epoch, ack, disk, stored>>

PutObjectSwitchFails(c, n, o) ==
    /\ Dispatched(c, "PUT_OBJECT")
    /\ Known(n)
    /\ Target(o) # NoBucket
    /\ SwitchDue
    /\ ProcessLost
    /\ UNCHANGED <<epoch, ack, disk, stored>>

\* bucket_put returns, and read_cb answers without having set resp.ret.
PutObjectRefused(c, n, o) ==
    /\ Dispatched(c, "PUT_OBJECT")
    /\ Known(n)
    /\ Target(o) # NoBucket
    /\ ~SwitchDue
    /\ SignedLen(o) <= 0
    /\ sets' = [sets EXCEPT ![FindSet(n)].buckets[Target(o)] = Refuse(@)]
    /\ Reply(c, "PUT_OBJECT", Unset, Unset)
    /\ UNCHANGED <<up, epoch, disk, stored>>

PutObjectStored(c, n, o) ==
    LET s == FindSet(n)
        bt == sets[s].buckets[Target(o)]
    IN  /\ Dispatched(c, "PUT_OBJECT")
        /\ Known(n)
        /\ Target(o) # NoBucket
        /\ ~SwitchDue
        /\ SignedLen(o) > 0
        /\ sets' = [sets EXCEPT ![s].buckets[Target(o)] = Accept(bt, c, o)]
        /\ stored' = stored \cup
               {[conn |-> c, req |-> n, set |-> sets[s].name, hash |-> o.hash,
                 bucket |-> Target(o), epoch |-> epoch, open |-> bt.open,
                 off |-> bt.current_offset, size |-> SizeOf(o)]}
        /\ Reply(c, "PUT_OBJECT", Unset, Unset)
        /\ UNCHANGED <<up, epoch, disk>>

-----------------------------------------------------------------------------
(* read_cb on REQ_PUT_BUCKETSET for set n, and on any other request.       *)

PutBucketsetExists(c, n) ==
    /\ Dispatched(c, "PUT_BUCKETSET")
    /\ Known(n)
    /\ Reply(c, "PUT_BUCKETSET", n, Success)
    /\ UNCHANGED <<up, epoch, sets, disk, stored>>

\* A plausible bug: fallocate of 0 bytes taken for a success.
CanAllocate_Zero == DataLength >= 0

\* fallocate fails when it is given a length of 0.
CanAllocate == DataLength > 0

\* A plausible bug: the set is put in with vector_insert, which moves no size.
PutBucketsetCreated_Inserted(c, n) ==
    /\ Dispatched(c, "PUT_BUCKETSET")
    /\ ~Known(n)
    /\ CanAllocate \/ Missing(n) = {}
    /\ disk' = disk \cup { <<n, i>> : i \in Buckets }
    /\ Reply(c, "PUT_BUCKETSET", n, Success)
    /\ UNCHANGED <<up, epoch, sets, stored>>

\* bucketset_create made or found every file, vector_push_back made room.
PutBucketsetCreated(c, n) ==
    /\ Dispatched(c, "PUT_BUCKETSET")
    /\ ~Known(n)
    /\ CanAllocate \/ Missing(n) = {}
    /\ disk' = disk \cup { <<n, i>> : i \in Buckets }
    /\ sets' = Append(sets, bucketset_create(n))
    /\ Reply(c, "PUT_BUCKETSET", n, Success)
    /\ UNCHANGED <<up, epoch, stored>>

\* vector_push_back could not expand: its result is not looked at.
PutBucketsetNotKept(c, n) ==
    /\ Dispatched(c, "PUT_BUCKETSET")
    /\ ~Known(n)
    /\ CanAllocate \/ Missing(n) = {}
    /\ RegistryFull
    /\ disk' = disk \cup { <<n, i>> : i \in Buckets }
    /\ Reply(c, "PUT_BUCKETSET", n, Success)
    /\ UNCHANGED <<up, epoch, sets, stored>>

\* The files before bucket i that fallocate makes when i is the one it
\* fails on; file i itself exists by then unless open failed too.
PutBucketsetAborts(c, n) ==
    /\ Dispatched(c, "PUT_BUCKETSET")
    /\ ~Known(n)
    /\ \E i \in Missing(n) :
          /\ CanAllocate \/ i = Min(Missing(n))
          /\ \E made \in { { <<n, j>> : j \in 0 .. i - 1 }, { <<n, j>> : j \in 0 .. i } } :
                 disk' = disk \cup made
    /\ ProcessLost
    /\ UNCHANGED <<epoch, ack, stored>>

\* REQ_DEL_OBJECT, REQ_LIST_BUCKSET and unknown types: the default branch.
OtherRequest(c) ==
    /\ Dispatched(c, "OTHER")
    /\ Reply(c, "OTHER", Unset, Unset)
    /\ UNCHANGED <<up, epoch, sets, disk, stored>>

PutObject(c, n, o) ==
    \/ PutObjectUnrouted(c, n, o)
    \/ PutObjectSwitchFails(c, n, o)
    \/ PutObjectRefused(c, n, o)
    \/ PutObjectStored(c, n, o)

PutBucketset(c, n) ==
    \/ PutBucketsetExists(c, n)
    \/ PutBucketsetCreated(c, n)
    \/ PutBucketsetNotKept(c, n)
    \/ PutBucketsetAborts(c, n)

-----------------------------------------------------------------------------
Init ==
    /\ up = TRUE
    /\ epoch = 1
    /\ conn = [c \in Conns |-> "new"]
    /\ ack = [c \in Conns |-> NoAck]
    /\ buffers = 0
    /\ sets = <<>>
    /\ disk = {}
    /\ stored = {}

Next ==
    \/ Crash
    \/ Restart
    \/ \E c \in Conns :
          \/ Accepted(c)
          \/ ReadRejected(c)
          \/ ReadError(c)
          \/ BufferAllocFails(c)
          \/ OtherRequest(c)
          \/ \E n \in Names :
                \/ PutObjectUnknownSet(c, n)
                \/ PutBucketset(c, n)
                \/ \E o \in Objects : PutObject(c, n, o)

Spec == Init /\ [][Next]_vars

-----------------------------------------------------------------------------
(* Properties.                                                             *)

Bucket == [open : BOOLEAN, current_offset : Offsets, slot : Seq(Conns)]
Bucketset == [name : Names, buckets : [Buckets -> Bucket]]
Ack == [type : ReqTypes \cup {Unset},
        name : Names \cup {None, Unset},
        ret : {Success, Failure, Unset}]
Entry == [conn : Conns, req : Names, set : Names, hash : Nat, bucket : Buckets,
          epoch : Nat, open : BOOLEAN, off : Offsets, size : Offsets]

\* Every variable has its type; a process that is down has no sets, no
\* buffers and no watched connection.
TypeOK ==
    /\ up \in BOOLEAN
    /\ epoch \in 1 .. MaxEpoch
    /\ conn \in [Conns -> {"new", "watched", "closed"}]
    /\ ack \in [Conns -> Ack]
    /\ buffers \in 0 .. MaxBuffers
    /\ sets \in Seq(Bucketset)
    /\ disk \subseteq Files
    /\ stored \subseteq Entry
    /\ ~up => sets = <<>> /\ buffers = 0 /\ \A c \in Conns : conn[c] # "watched"

\* The prefix comparison of read_cb never hides a set behind another one:
\* the scan for a set's own name ends at that set.
LookupExact == \A i \in DOMAIN sets : FindSet(sets[i].name) = i

\* An object this process has accepted stays where a request for it would
\* look: the set its request named still resolves to the set that took it,
\* whatever sets were created since.
Retrievable ==
    \A e \in stored :
        up /\ e.epoch = epoch => /\ Known(e.req)
                                 /\ sets[FindSet(e.req)].name = e.set

\* The objects bucket b of set s has accepted in one life of the process, and
\* the room they take together, however much an offset can count.
Accepts(s, b, life) ==
    { e \in stored : e.set = s /\ e.bucket = b /\ e.epoch = life }

Room(s, b, life) == MapThenSumSet(LAMBDA e : e.size, Accepts(s, b, life))

\* Two objects accepted in the same data file, by this process or by one
\* before a restart, get parts of it that do not overlap, as long as all that
\* the bucket has accepted there can be counted in an offset: after 2^64 bytes,
\* which three lengths near 2^63 reach, the offset has wrapped and later
\* objects are placed over earlier ones.  (A bucket without its data file open
\* accepts objects too; those have no part of any file.)
Disjoint(e, f) == e.off + e.size <= f.off \/ f.off + f.size <= e.off

NoOverlapInFile ==
    \A e, f \in stored :
        e # f /\ e.open /\ f.open /\ e.set = f.set /\ e.bucket = f.bucket
            => Disjoint(e, f) \/ Room(e.set, e.bucket, e.epoch) > OffsetValues

\* The offset of every bucket is the room its accepted objects take, modulo
\* 2^64: there is no gap and nothing is counted twice.
SpaceAccounted ==
    \A i \in DOMAIN sets : \A b \in Buckets :
        sets[i].buckets[b].current_offset =
            Room(sets[i].name, b, epoch) % OffsetValues

\* Every accepted object is in the one bucket whose closed interval of
\* ranks, the one in the bucket's file name, contains its hash.
PlacedInOneBucket ==
    \A e \in stored : \A b \in Buckets :
        MinRank(RangeCount, b) <= e.hash /\ e.hash <= MaxRank(RangeCount, b)
            <=> b = e.bucket

\* The response_ack of a connection is sent once: stopping the watcher makes
\* sure that read_cb does not run for that connection again.
OneAckPerConnection ==
    [][\A c \in Conns : ack[c] # NoAck => ack'[c] = ack[c]]_vars

\* The set each name resolves to.
Owner == [n \in Names |-> IF Known(n) THEN sets[FindSet(n)].name ELSE None]

Directory == INSTANCE SetDirectory WITH owner <- Owner

\* The vector scanned by prefix implements the directory of names: creating
\* a set never moves a name that already resolves.
ImplementsDirectory == Directory!Spec

\* With the comparison read_cb has (a received byte is an error), no request
\* of a client reaches the store: no set, no file and no object ever exists.
InertWhenByteRejected ==
    1 \in RecvRejected => sets = <<>> /\ disk = {} /\ stored = {}

\* The buffers are never freed, so a process answers at most as many
\* connections as calloc can hand out buffers.
AnswersPerLife ==
    Cardinality({ c \in Conns : ack[c] # NoAck }) <= MaxBuffers * epoch

\* With a data file length of 0 each process dies on the first file it
\* creates, so creating a set takes as many starts as the set has buckets.
OneFilePerLife == DataLength = 0 => Cardinality(disk) <= epoch

\* With a data file length of 0 a set exists only in a life of the process
\* that comes after as many as it has buckets, and none of its data files is
\* open there: what it accepts would have no file to go to.
SetTakesStarts ==
    DataLength = 0 =>
        \A i \in DOMAIN sets :
            /\ epoch > BucketSize
            /\ \A b \in Buckets : ~sets[i].buckets[b].open

\* A client that is told its set was created can use the name from then on,
\* unless the registry had to grow at that moment: the result of
\* vector_push_back is not looked at.
CreatedIsKnown ==
    [][\A c \in Conns :
          /\ ack'[c] # ack[c]
          /\ ack'[c].type = "PUT_BUCKETSET"
          /\ ack'[c].ret = Success
          => Known(ack[c].name)' \/ RegistryFull]_vars

-----------------------------------------------------------------------------
(* What NoOverlapInFile rests on: each open bucket of a live set is the    *)
(* only one that ever had its data file open.                              *)

\* No accepted object is from the future, and one accepted with its data
\* file open shows that the file exists.
StoredKnown ==
    \A e \in stored :
        /\ e.epoch <= epoch
        /\ e.open => <<e.set, e.bucket>> \in disk

\* An open bucket's data file exists, so that no later bucket opens it.
OpenFilesExist ==
    \A i \in DOMAIN sets : \A b \in Buckets :
        sets[i].buckets[b].open => <<sets[i].name, b>> \in disk

\* The objects in the data file that a bucket has open are all of this life:
\* no bucket ever goes on, from offset 0, in a file that an earlier process
\* has put objects in.
OpenFilesAreFresh ==
    \A i \in DOMAIN sets : \A e \in stored :
        /\ e.set = sets[i].name
        /\ e.open
        /\ sets[i].buckets[e.bucket].open
        => e.epoch = epoch

StorageInv ==
    /\ LookupExact
    /\ Retrievable
    /\ StoredKnown
    /\ OpenFilesExist
    /\ OpenFilesAreFresh
=============================================================================
