---------------------------- MODULE MCLibraries ----------------------------
(***************************************************************************)
(* The parts that the programs are made of, each on its own: a behaviour   *)
(* chooses one and leaves the others as they are.                          *)
(***************************************************************************)
EXTENDS Md5, HashFn, LogFormat, Log, Slice, Conf, StoreAdd, List, ClientMain

VARIABLE under   \* the part that runs

\* A vector is run twice: on its own, and as the one of the store.
Parts == {"md5", "hash", "format", "log", "slice", "conf", "vector", "store", "list",
          "client"}

\* Constants of the instances.

\* Around the ends of a block, of the padding, of a read, and of the word.
MCMessageLengths == {0, 1, 55, 56, 63, 64, 65, 119, 120, 127, 128, 150, 200, 959, 960, 1023}
MCHashLengths == {0, 1, 2, 3, 4, 5, 8, 12, 13, 15, 16, 17, 20, 27, 31, 32, 33, 36}

\* With a hexadecimal digit for an int and two for a long.
MCArguments == {-128, -127, -100, -17, -16, -15, -9, -8, -7, -1,
                0, 1, 7, 8, 9, 15, 16, 99, 127}

MCFiles ==
    {[addr |-> a, port |-> p, backlog |-> Integer(1024), data_dir |-> String("tmp"),
      data_length |-> n, backlogdata_dir |-> b] :
        a \in {Missing, String("host")},
        p \in {Missing} \cup {Integer(i) : i \in {80, 5566, 65536, 65616, 1056353}},
        n \in {Integer(8), String("host")},
        b \in {Missing, Integer(2048)}}

MCItems == Sets \cup Lists

MCWords == {<<"buck", "et", "set">>, <<"buck", "set">>, <<"buck">>, <<"create">>}
MCDataWords == {<<"test_set">>}

\* test_server_conf.json
TestConf ==
    {[addr |-> String("127.0.0.1"), port |-> Integer(5566), backlog |-> Integer(2048),
      data_dir |-> String("/tmp"), data_length |-> Integer(8),
      backlogdata_dir |-> Missing]}

-----------------------------------------------------------------------------
OneOf(S, v) == v = CHOOSE x \in S : TRUE

\* A part that does not run starts in one of its states only.
LibInit ==
    /\ under \in Parts
    /\ Md5Init /\ LogInit /\ SliceInit
    /\ HashInit /\ (under # "hash" => OneOf(HashLengths, len))
    /\ FormatInit /\ (under # "format" => OneOf(Arguments, arg) /\ letter = "p")
    /\ ConfInit
    /\ under # "conf" =>
          OneOf(Files, file) /\ readable = "absent"
    /\ StoreAddInit /\ ListInit /\ (under # "list" => destroy_cb)
    /\ IF under = "client" THEN ClientInit
       ELSE /\ argv = <<>> /\ ch = 0 /\ at = "conf" /\ requested = FALSE /\ freed = FALSE
            /\ slices = [l \in Letters |-> NoArgument]

\* All parts but one stay.
Only(part) ==
    /\ under = part
    /\ UNCHANGED under
    /\ part # "md5" => UNCHANGED md5Vars
    /\ part # "hash" => UNCHANGED hashVars
    /\ part # "format" => UNCHANGED formatVars
    /\ part # "log" => UNCHANGED logVars
    /\ part # "slice" => UNCHANGED sliceVars
    /\ part # "conf" => UNCHANGED confVars
    /\ part \notin {"vector", "store"} => UNCHANGED vectorVars
    /\ part # "store" => UNCHANGED <<members, spoiled>>
    /\ part # "list" => UNCHANGED listVars
    /\ part # "client" => UNCHANGED clientVars

LibNext ==
    \/ Only("md5") /\ Md5Next
    \/ Only("hash") /\ HashNext
    \/ Only("format") /\ FormatNext
    \/ Only("log") /\ LogNext
    \/ Only("slice") /\ SliceNext
    \/ Only("conf") /\ ConfNext
    \/ Only("vector") /\ VectorNext
    \/ Only("store") /\ StoreAddNext
    \/ Only("list") /\ ListNext
    \/ Only("client") /\ ClientNext

libVars == <<under, md5Vars, hashVars, formatVars, logVars, sliceVars, confVars,
             storeAddVars, listVars, clientVars>>

LibSpec == LibInit /\ [][LibNext]_libVars

\* ScansMeetSets, of the behaviours in which it is the store that has the vector.
StoreScansMeetSets == under = "store" => ScansMeetSets
=============================================================================
