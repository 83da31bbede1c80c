----------------------------- MODULE MCExchange -----------------------------
(***************************************************************************)
(* Instances of Exchange for TLC: a client of this repository that creates *)
(* a set, one that puts an object larger than what the socket buffers, and *)
(* one of another make that creates a set.  A request of a set is shorter  *)
(* than an acknowledgement, as in request.h (255 and 260 bytes).           *)
(***************************************************************************)
EXTENDS Exchange

CONSTANTS s1, p1, o1

MCClients == {s1, p1, o1}
MCObjectClients == {o1}
MCPeerClients == {p1}

\* recv received a byte: what read_cb calls an error (netsocket.c:143).
ByteIsError == {1}

\* recv failed or found the connection closed: what the message says.
NoByteIsError == {-1, 0}
=============================================================================
