----------------------------- MODULE ClientMain -----------------------------
(***************************************************************************)
(* main of the client (sds_store_client.c) on a command line.  An argument *)
(* is a sequence of syllables.                                             *)
(***************************************************************************)
EXTENDS Naturals, SequencesExt

CONSTANTS Words,       \* what -r and -t are given
          DataWords,   \* what -d is given
          MaxOptions   \* bound on the options of a command line

ASSUME ClientMainAssumption == MaxOptions \in Nat

\* One of -r, -t and -d, by its letter or by its long name, and what stands after it.
Option(letter, form, value) == [letter |-> letter, form |-> form, value |-> value]
NoArgument == <<"no argument">>

VARIABLES argv,      \* the options
          ch,        \* how many of them getopt_long has returned
          at,        \* "conf", "connect", "options", "request", "out", "returned",
                     \* "exited" or "fault"
          slices,    \* resource_name, op_type and op_data: NoArgument while nobody
                     \* has initialised them
          requested, \* request_put_bucketset_init was called
          freed      \* slice_deinit was called on garbage

clientVars == <<argv, ch, at, slices, requested, freed>>

Letters == {"r", "t", "d"}

CommandLines ==
    LET one == {Option(l, f, v) : l \in {"r", "t"}, f \in {"short", "long"}, v \in Words}
               \cup {Option("d", f, v) : f \in {"short", "long"}, v \in DataWords}
    IN  UNION {[1 .. n -> one] : n \in 0 .. MaxOptions}

\* options is "rtd:": the letters r and t have no argument, d has, and so have
\* all long names.  The word after -r or -t is no option and is skipped.
optarg(o) == IF o.form = "short" /\ o.letter # "d" THEN NoArgument ELSE o.value

\* A plausible bug: the result of slice_init is not looked at.
InitFails_Unchecked(o) == FALSE

\* slice_init of nothing is -1.
InitFails(o) == optarg(o) = NoArgument

BUCKSET == <<"buck", "set">>

\* strncmp over the size of the slice, which may be 0.
Names(value, resource) == IsPrefix(value, resource)

-----------------------------------------------------------------------------
ClientInit ==
    /\ argv \in CommandLines
    /\ ch = 0
    /\ at = "conf"
    /\ slices = [l \in Letters |-> NoArgument]
    /\ requested = FALSE /\ freed = FALSE

\* No configuration file is there: exit(0); or it is of no use, and main reads
\* through a null cf.
NoConf ==
    /\ at = "conf"
    /\ at' \in {"exited", "fault"}
    /\ UNCHANGED <<argv, ch, slices, requested, freed>>

ConfRead ==
    /\ at = "conf"
    /\ at' = "connect"
    /\ UNCHANGED <<argv, ch, slices, requested, freed>>

\* The options are read only with a connection.
Connects ==
    /\ at = "connect"
    /\ at' \in {"options", "out"}
    /\ UNCHANGED <<argv, ch, slices, requested, freed>>

\* Without an argument the process exits.  An earlier value of the same option
\* is written over.
OptionTaken ==
    /\ at = "options"
    /\ ch < Len(argv)
    /\ ch' = ch + 1
    /\ LET o == argv[ch + 1]
       IN  IF InitFails(o)
           THEN at' = "exited" /\ UNCHANGED slices
           ELSE slices' = [slices EXCEPT ![o.letter] = optarg(o)] /\ UNCHANGED at
    /\ UNCHANGED <<argv, requested, freed>>

\* The resource decides, whatever the type says: a bucket set is created, and
\* for an object, or anything else, nothing is done.  Of garbage anything may
\* be made.
Dispatch ==
    /\ at = "options"
    /\ ch = Len(argv)
    /\ \E hit \in BOOLEAN :
          /\ slices["r"] # NoArgument => hit = Names(slices["r"], BUCKSET)
          /\ requested' = hit
          /\ at' \in IF hit THEN {"request"}
                     ELSE IF slices["r"] = NoArgument THEN {"out", "fault"} ELSE {"out"}
    /\ UNCHANGED <<argv, ch, slices, freed>>

\* request_put_bucketset_init fails: exit(1); or returns.  A name that nobody
\* gave is read from garbage.
RequestReturns ==
    /\ at = "request"
    /\ at' \in {"out", "exited"} \cup (IF slices["d"] = NoArgument THEN {"fault"} ELSE {})
    /\ UNCHANGED <<argv, ch, slices, requested, freed>>

\* slice_deinit of three slices: a garbage size decides whether a garbage
\* pointer is freed.
Out ==
    /\ at = "out"
    /\ freed' \in BOOLEAN
    /\ freed' => \E l \in Letters : slices[l] = NoArgument
    /\ at' \in {"returned"} \cup (IF freed' THEN {"fault"} ELSE {})
    /\ UNCHANGED <<argv, ch, slices, requested>>

ClientNext ==
    NoConf \/ ConfRead \/ Connects \/ OptionTaken \/ Dispatch \/ RequestReturns \/ Out

ClientSpec == ClientInit /\ [][ClientNext]_clientVars

-----------------------------------------------------------------------------
(* Properties.                                                             *)

Given(l, form) == \E i \in 1 .. ch : argv[i].letter = l /\ argv[i].form = form

\* A request takes a command line whose -r and -t, where it has them, are long
\* names, and a resource that is a beginning of "buckset", if it is given at
\* all; and only a command line with all three options, on a client that got a
\* connection, is sure to end without a free of garbage.
OnlyLongOptions ==
    /\ requested =>
          /\ ~Given("r", "short") /\ ~Given("t", "short")
          /\ Given("r", "long") => Names(slices["r"], BUCKSET)
    /\ freed => \E l \in Letters : ~Given(l, "short") /\ ~Given(l, "long")

\* The usage comment: sds_cli -r bucketset -t create -d test_set
Usage ==
    <<Option("r", "short", <<"buck", "et", "set">>), Option("t", "short", <<"create">>),
      Option("d", "short", <<"test_set">>)>>

\* ... makes a request when there is a server.
UsageWorks ==
    argv = Usage /\ ch > 0 => at # "exited" \/ requested
=============================================================================
