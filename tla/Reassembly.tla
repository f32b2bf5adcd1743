------------------------------ MODULE Reassembly ------------------------------
(***************************************************************************)
(* pkg/packet_anal/tcp/reassembly.go: one TCP connection put together from *)
(* its two half-streams.  The assembler library delivers each direction in *)
(* order, chunk by chunk, and the two directions in any interleaving (a    *)
(* lost or reordered segment delays its direction); the code decides which *)
(* endpoint is the client and files the bytes accordingly.                 *)
(***************************************************************************)
EXTENDS Naturals, Sequences

CONSTANTS
  Endpoints,   \* the two addresses
  Streams,     \* what each endpoint may send: [Endpoints -> Seq(Chunk)]
  MidStream,   \* the capture may start in the middle: either side is seen first
  Opener,      \* the endpoint that opens the connection
  Nobody

Roles == {"client", "server"}

\* A chunk: the bytes of one call, as a sequence of records (or other units), and
\* the End mark that a FIN or RST leaves.
Chunk == [bytes : Seq(STRING), end : BOOLEAN]

ASSUME ReassemblyAssumption ==
  /\ \E x, y \in Endpoints : x # y /\ Endpoints = {x, y}
  /\ Opener \in Endpoints /\ Nobody \notin Endpoints
  /\ Streams \subseteq [Endpoints -> Seq(Chunk)]

VARIABLES
  sent,     \* what the endpoints send (chosen at the start)
  pending,  \* chunks of each direction still to be delivered
  open,     \* directions whose half-stream exists
  client,   \* connState.clientAddr
  fixed,    \* connState.roleFixed
  data,     \* conn.ClientData and conn.ServerData
  fin,      \* conn.ClientFIN and conn.ServerFIN
  flushed   \* Flush has returned the connection

tcpVars == <<sent, pending, open, client, fixed, data, fin, flushed>>

ByRole(x) == [r \in Roles |-> x]

TCPInit ==
  /\ sent \in Streams /\ pending = sent
  /\ open = {} /\ client = Nobody /\ fixed = FALSE
  /\ data = ByRole(<<>>) /\ fin = ByRole(FALSE)
  /\ flushed = FALSE

\* getOrCreate, at the first packet of a direction: the first stream seen is
\* taken for the client.
FirstStream(e, first) ==
  /\ ~flushed /\ e \notin open
  /\ MidStream \/ e = Opener \/ Opener \in open
  /\ open' = open \cup {e}
  /\ client' = IF client = Nobody THEN first ELSE client
  /\ UNCHANGED <<sent, pending, fixed, data, fin, flushed>>

OpenUnassigned(e) == FirstStream(e, Nobody)
Open(e) == FirstStream(e, e)

LooksLikeClientHello(b) == b # <<>> /\ b[1] = "CH"

Role(e) == IF e = client THEN "client" ELSE "server"
NotSwapped(f)    == f
Swapped(f) == [client |-> f["server"], server |-> f["client"]]

\* A ClientHello on the server side, before any other byte of that side, makes
\* its sender the client.
Swaps(e, c) ==
  /\ ~fixed /\ Role(e) = "server" /\ data["server"] = <<>>
  /\ LooksLikeClientHello(c.bytes) /\ ~LooksLikeClientHello(data["client"])

\* Reassembled, for one chunk; an empty one is passed over.
File(e, c, swap, counts) ==
  LET role == IF swap THEN "client" ELSE Role(e)
      was  == IF swap THEN Swapped(data) ELSE data
      ends == IF swap THEN Swapped(fin) ELSE fin
  IN /\ client' = IF swap THEN e ELSE client
     /\ fixed' = (fixed \/ LooksLikeClientHello(c.bytes))
     /\ data' = [was EXCEPT ![role] = @ \o c.bytes]
     /\ fin' = IF counts THEN [ends EXCEPT ![role] = TRUE] ELSE ends

Deliver(e, swap) ==
  /\ ~flushed /\ e \in open /\ pending[e] # <<>>
  /\ pending' = [pending EXCEPT ![e] = Tail(@)]
  /\ LET c == Head(pending[e])
     IN IF c.bytes = <<>> THEN UNCHANGED <<client, fixed, data, fin>> ELSE File(e, c, swap, c.end)
  /\ UNCHANGED <<sent, open, flushed>>

NeverSwap(e)   == Deliver(e, FALSE)
Reassembled(e) == Deliver(e, pending[e] # <<>> /\ Swaps(e, Head(pending[e])))

\* The end of the capture: what has not arrived by then is not in it.
Flush ==
  /\ ~flushed /\ open # {} /\ flushed' = TRUE
  /\ UNCHANGED <<sent, pending, open, client, fixed, data, fin>>

TCPNext == (\E e \in Endpoints : Open(e) \/ Reassembled(e)) \/ Flush

TCPSpec == TCPInit /\ [][TCPNext]_tcpVars

TCPTypeOK ==
  /\ {sent, pending} \subseteq [Endpoints -> Seq(Chunk)]
  /\ open \subseteq Endpoints /\ client \in Endpoints \cup {Nobody}
  /\ data \in [Roles -> Seq(STRING)] /\ fin \in [Roles -> BOOLEAN]
  /\ fixed \in BOOLEAN /\ flushed \in BOOLEAN
  /\ client = Nobody <=> open = {}

\* The connection as its two streams: the bytes filed under each sender's role, whatever
\* the roles turn out to be and when they change, are those it sent; none is lost,
\* repeated, reordered or filed under the other direction (Reassembled, swapRoles).
FiledFrom == [e \in Endpoints |-> IF e \in open THEN data[Role(e)] ELSE <<>>]
Filed == INSTANCE OrderedStreams WITH Ends <- Endpoints, coming <- pending, received <- FiledFrom
FiledAsSent == Filed!Spec
=============================================================================
