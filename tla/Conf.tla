-------------------------------- MODULE Conf --------------------------------
(***************************************************************************)
(* The start of the two programs: conf_create of the server and of the     *)
(* client, sds_store_init, netsocket_init and connect_server.  A value in  *)
(* a configuration file is what jansson's two readers make of it.          *)
(***************************************************************************)
EXTENDS Integers

CONSTANTS Files,      \* the contents of a file that is a JSON object
          IntWidth,   \* how many values an int has (2^32)
          Ports,      \* how many ports there are (2^16)
          Ephemeral,  \* those that bind may choose for port 0
          NULL        \* no string

Keys == {"addr", "port", "backlog", "data_dir", "data_length", "backlogdata_dir"}

\* The readings of an integer, of a string, and of anything else.
Integer(n) == [int |-> n, str |-> NULL]
String(t) == [int |-> 0, str |-> t]
Missing == [int |-> 0, str |-> NULL]

NETSOCKET_DEFAULT_PORT == 8765
NETSOCKET_DEFAULT_BACKLOG == 1024

ASSUME ConfAssumption ==
    /\ IntWidth \in Nat \ {0} /\ Ports \in Nat /\ Ports > NETSOCKET_DEFAULT_PORT
    /\ Ephemeral \subseteq 1 .. Ports - 1
    /\ \A f \in Files : DOMAIN f = Keys /\ \A k \in Keys : f[k].int \in Int

VARIABLES file,       \* the content of the file
          readable,   \* "absent", "unreadable", "malformed" or "object"
          stage,      \* of the server: "start", "parsed", "bound", "running", "ended"
          cf,         \* sds_store.cf
          net,        \* what netsocket_init made of it
          dialled     \* the port the client connects to: -1 not yet, -2 it ended

confVars == <<file, readable, stage, cf, net, dialled>>

\* The cast of a 64-bit integer to int.
AsInt(n) == ((n + IntWidth \div 2) % IntWidth) - IntWidth \div 2

\* conf_keys: a comma is missing after "backlog", so it has four entries.
conf_keys == <<"addr", "port", "backlogdata_dir", "data_length">>
CONF_ADDR == 1
CONF_PORT == 2
CONF_BACKLOG == 3
CONF_DATA_DIR == 4

\* conf_keys[CONF_DATA_LENGTH] is past the end: a pointer to some string, which
\* may be a key of the file, or NULL.
PastTheEnd == {Missing} \cup {file[k] : k \in Keys}

Untouched == [port |-> 0, addr |-> NULL, data_dir |-> NULL, data_length |-> 0,
              backlog |-> 0, bucket_size |-> 0, set_hash_range |-> 0]

\* The result of conf_create when the entry past the end reads as v: bucket_size
\* and set_hash_range stay 0.
conf_create(v) ==
    [Untouched EXCEPT
        !.port = AsInt(file[conf_keys[CONF_PORT]].int),
        !.addr = file[conf_keys[CONF_ADDR]].str,
        !.backlog = AsInt(file[conf_keys[CONF_BACKLOG]].int),
        !.data_dir = file[conf_keys[CONF_DATA_DIR]].str,
        !.data_length = AsInt(v.int)]

-----------------------------------------------------------------------------
ConfInit ==
    /\ file \in Files
    /\ readable \in {"absent", "unreadable", "malformed", "object"}
    /\ stage = "start"
    /\ cf = Untouched
    /\ net = [port |-> -1, backlog |-> 0]
    /\ dialled = -1

\* open, read, calloc or json_loads fails.  On the first two, cf was not
\* initialised when it is freed: that may end the process, and so does the
\* assert of sds_store_init on the NULL that is returned otherwise.
ConfFails ==
    /\ stage = "start"
    /\ stage' = "ended"
    /\ UNCHANGED <<file, readable, cf, net, dialled>>

ConfCreated ==
    /\ stage = "start"
    /\ readable = "object"
    /\ \E v \in PastTheEnd : cf' = conf_create(v)
    /\ stage' = "parsed"
    /\ UNCHANGED <<file, readable, net, dialled>>

\* A plausible bug: the default is for a port that is not a port.
PortOf_Negative(p) == IF p < 0 THEN NETSOCKET_DEFAULT_PORT ELSE p

PortOf(p) == IF p <= 1024 THEN NETSOCKET_DEFAULT_PORT ELSE p

\* Where bind puts port p: htons keeps 16 bits, and the system chooses for 0.
BindsTo(p) == IF p % Ports = 0 THEN Ephemeral ELSE {p % Ports}

\* Up to bind; the address given is not used.
Bound ==
    /\ stage = "parsed"
    /\ \E p \in BindsTo(PortOf(cf.port)) :
          net' = [port |-> p,
                  backlog |-> IF cf.backlog < NETSOCKET_DEFAULT_BACKLOG
                              THEN NETSOCKET_DEFAULT_BACKLOG ELSE cf.backlog]
    /\ stage' = "bound"
    /\ UNCHANGED <<file, readable, cf, dialled>>

\* socket, bind or listen fails: log_fatal aborts.  SO_REUSEADDR is set after
\* bind, which therefore minds the connections of an earlier process.
NetsocketFails ==
    /\ stage \in {"parsed", "bound"}
    /\ stage' = "ended"
    /\ UNCHANGED <<file, readable, cf, net, dialled>>

Listening ==
    /\ stage = "bound"
    /\ stage' = "running"
    /\ UNCHANGED <<file, readable, cf, net, dialled>>

\* main of the client, with the same address and port in its own file, or
\* without a file, or with one it cannot use: it reads through a null cf then.
ClientEnds ==
    /\ dialled = -1
    /\ readable # "object" \/ file["addr"].str = NULL
    /\ dialled' = -2
    /\ UNCHANGED <<file, readable, stage, cf, net>>

ClientDials ==
    /\ dialled = -1
    /\ readable = "object" /\ file["addr"].str # NULL
    /\ dialled' = AsInt(file["port"].int) % Ports
    /\ UNCHANGED <<file, readable, stage, cf, net>>

ConfNext ==
    \/ ConfFails \/ ConfCreated \/ Bound \/ NetsocketFails \/ Listening
    \/ ClientEnds \/ ClientDials

ConfSpec == ConfInit /\ [][ConfNext]_confVars

-----------------------------------------------------------------------------
(* Properties.                                                             *)

\* A server and a client with the same port in their files meet exactly when
\* that port is above 1024 and not 0 in 16 bits, or is the default in 16 bits:
\* otherwise the server takes the default, or any port, in silence.
MeetAtPort ==
    stage = "running" /\ dialled >= 0 =>
        (dialled = net.port <=>
            \/ AsInt(file["port"].int) > 1024 /\ dialled # 0
            \/ dialled = NETSOCKET_DEFAULT_PORT)

\* What the configuration file of the tests means: the keys are the fields.
ConfHonoured ==
    stage = "running" =>
        /\ cf.data_dir = file["data_dir"].str
        /\ cf.data_length = AsInt(file["data_length"].int)
        /\ cf.backlog = AsInt(file["backlog"].int)
=============================================================================
