----------------------------- MODULE MCSdsStore -----------------------------
(***************************************************************************)
(* Instances of SdsStore for TLC.  Three names stand for the prefix        *)
(* relations two names can have: "a" is a proper prefix of "ab", and "b"   *)
(* is unrelated to both.  The hashes sit on the edges of the 512-wide      *)
(* buckets: 510 is the last hash bucket 0 takes, 511 the one no bucket     *)
(* takes, 512 the first of bucket 1.                                       *)
(***************************************************************************)
EXTENDS SdsStore, TLC

CONSTANTS c1, c2, c3, c4, a, ab, b

MCConns4 == {c1, c2, c3, c4}
ConnSymmetry == Permutations(MCConns4)

MCNames == {a, ab, b}
MCPrefixes == {<<a, a>>, <<ab, ab>>, <<b, b>>, <<a, ab>>}

MCPrefixNames == {a, ab}
MCPrefixNamePairs == {<<a, a>>, <<ab, ab>>, <<a, ab>>}

\* Offsets have 256 values here: 100 and 10 bytes of data make objects of 173
\* and 83 bytes, which fill the room exactly or go over it after one, two or
\* three puts, and 200 is negative as a signed length.
Object(h, length) == [hash |-> h, nameLen |-> 1, dataLen |-> length]

EdgeObjects == {Object(510, 100), Object(0, 10), Object(511, 3), Object(512, 3),
                Object(0, 0), Object(0, 200)}
SomeObjects == {Object(0, 3), Object(511, 3), Object(0, 0)}

\* recv received a byte: what read_cb calls an error (netsocket.c:143).
ByteIsError == {1}

\* recv failed or found the connection closed: what the message says.
NoByteIsError == {-1, 0}
=============================================================================
