---------------------------- MODULE FixHeadPacker ---------------------------
(***************************************************************************)
(* NetworkPackagerFixHead: framing of packages on a byte stream, for one   *)
(* net id.  PackAndSend of the peer puts a header with the body length in  *)
(* front of each body, UnPack of this side takes the frames apart again,   *)
(* however read() cuts the stream.  The sockets do not block, and Write     *)
(* ignores how many bytes send() took.  The net id, and with it the entry   *)
(* of net_id_to_buffer_map_, is reused by later connections.               *)
(*                                                                         *)
(* A byte is identified by its position in the stream of its connection.   *)
(* The buffer holds `stale' bytes of earlier connections followed by the   *)
(* cur_read_size - stale bytes of the stream that end at position `pos'.   *)
(***************************************************************************)
EXTENDS Integers, Sequences

CONSTANTS HeaderLen,   \* NET_PACKER_FIXHEAD_HEADER_LENGTH
          Lengths,     \* body lengths that the peer sends
          Garbage,     \* what a header made of unrelated bytes may read as
          INT_MAX,     \* greatest value of an int
          MaxSent,     \* bound: packages sent on a connection
          MaxRead,     \* MAX_SOCKET_MSG_BUFF_LENGTH: most bytes of one read()
          MaxConns     \* bound: connections that use the net id

ASSUME LengthAssumption ==
    /\ HeaderLen \in Nat \ {0}
    /\ INT_MAX \in Nat
    /\ Lengths \subseteq 0..INT_MAX - HeaderLen /\ Garbage \subseteq 0..INT_MAX
    /\ MaxSent \in Nat /\ MaxRead \in Nat /\ MaxConns \in Nat

VARIABLES
    sent,             \* body lengths the peer sent on this connection
    starts, total,    \* stream position of each frame, and of the end
    pos,              \* bytes of the stream that UnPack has copied
    length,           \* bytes of the current UnPack call still to be copied
    cur_read_size, buffer_size, package_length,  \* NetPackerFixHeadMsgCacheBuffer
    stale,            \* bytes in the buffer from earlier connections
    delivered,        \* what ManagerRecv got: the package's number, 0 if none matches
    conns,            \* connections so far
    clean             \* ghost: no connection ended inside a frame, and every
                      \* frame entered the stream as a whole

streamVars == <<sent, starts, total>>
bufferVars == <<cur_read_size, buffer_size, package_length, stale>>
vars == <<streamVars, pos, length, bufferVars, delivered, conns, clean>>

Init ==
    /\ sent = << >> /\ starts = << >> /\ total = 0
    /\ pos = 0 /\ length = 0
    /\ cur_read_size = 0 /\ buffer_size = 0 /\ package_length = 0 /\ stale = 0
    /\ delivered = << >> /\ conns = 1 /\ clean = TRUE

\* PackAndSend on the other side: header and body are handed to send(), of which
\* a full socket buffer takes only the first b bytes, or none (EAGAIN).  Nobody
\* sends the rest.
PackAndSend(n, b) ==
    /\ Len(sent) < MaxSent
    /\ sent' = Append(sent, n)
    /\ starts' = Append(starts, total)
    /\ total' = total + b
    /\ clean' = (clean /\ b = HeaderLen + n)
    /\ UNCHANGED <<pos, length, bufferVars, delivered, conns>>

\* Stream position of frame i, and of the end for i = Len(sent) + 1.
FramePos(i) == IF i <= Len(sent) THEN starts[i] ELSE total

\* The bytes of frame k that entered the stream.
Entered(k) == FramePos(k + 1) - FramePos(k)

\* read() returned n bytes and OnRecv passes them to UnPack.
Read(n) ==
    /\ length = 0
    /\ n <= total - pos
    /\ length' = n
    /\ UNCHANGED <<streamVars, pos, bufferVars, delivered, conns, clean>>

Most(a, b) == IF a <= b THEN b ELSE a
\* copy_bytes is the lesser of the bytes there are and the bytes missing.
Least(a, b) == IF a <= b THEN a ELSE b

\* memcpy of n bytes to the end of the buffer.
Copy(n) ==
    /\ pos' = pos + n
    /\ length' = length - n

\* The header in a buffer of size bytes that ends at stream position p.  Bytes
\* that are no header of a frame read as any of Garbage; a negative length, for
\* which memcpy is undefined, is outside the model.
HeaderAt(p, size) ==
    LET frames == {k \in 1..Len(sent) :
                      stale = 0 /\ starts[k] = p - size /\ Entered(k) >= HeaderLen}
    IN  IF frames # {} THEN {sent[k] : k \in frames} ELSE Garbage

\* A sum as an int, the way the usual builds compute it.
AsInt(n) == IF n <= INT_MAX THEN n ELSE n - 2 * (INT_MAX + 1)

\* all_pack_size, to which ChangeBufferSize extends the buffer.
\* Faulty variant: the header is not counted.
SizeForBody(n) == n
SizeForPackage(n) == AsInt(HeaderLen + n)

\* The header branch of UnPack; an absent buffer is created first.
UnPackHeader ==
    LET left == HeaderLen - cur_read_size
        n == Least(length, left)
    IN  /\ length > 0
        /\ cur_read_size < HeaderLen
        /\ Copy(n)
        /\ cur_read_size' = cur_read_size + n
        /\ IF cur_read_size + n >= HeaderLen
           THEN /\ package_length' \in HeaderAt(pos + n, cur_read_size + n)
                /\ buffer_size' = Most(Most(buffer_size, HeaderLen),
                                       SizeForPackage(package_length'))
           ELSE /\ buffer_size' = Most(buffer_size, HeaderLen)
                /\ UNCHANGED package_length
        /\ UNCHANGED <<streamVars, stale, delivered, conns, clean>>

\* The number of the package that the full buffer holds; 0 for none.
Package ==
    LET frames == {k \in 1..Len(sent) : /\ stale = 0
                                        /\ starts[k] = pos' - (HeaderLen + package_length)
                                        /\ sent[k] = package_length
                                        /\ Entered(k) = HeaderLen + package_length}
    IN  IF frames = {} THEN {0} ELSE frames

\* Faulty variant: the whole rest of the read is taken into the body.
UnPackBodyGreedy ==
    LET left == HeaderLen + package_length - cur_read_size
        n == length
    IN  /\ length > 0
        /\ cur_read_size >= HeaderLen
        /\ Copy(n)
        /\ IF n >= left
           THEN /\ \E k \in Package : delivered' = Append(delivered, k)
                /\ cur_read_size' = 0 /\ stale' = 0 /\ package_length' = 0
           ELSE /\ cur_read_size' = cur_read_size + n
                /\ UNCHANGED <<delivered, stale, package_length>>
        /\ UNCHANGED <<streamVars, buffer_size, conns, clean>>

\* Faulty variant: a package is complete only when bytes were copied.
UnPackBodyNonEmpty ==
    LET left == HeaderLen + package_length - cur_read_size
        n == Least(length, left)
    IN  /\ length > 0
        /\ cur_read_size >= HeaderLen
        /\ Copy(n)
        /\ IF n = left /\ n > 0
           THEN /\ \E k \in Package : delivered' = Append(delivered, k)
                /\ cur_read_size' = 0 /\ stale' = 0 /\ package_length' = 0
           ELSE /\ cur_read_size' = cur_read_size + n
                /\ UNCHANGED <<delivered, stale, package_length>>
        /\ UNCHANGED <<streamVars, buffer_size, conns, clean>>

\* The body branch of UnPack: a complete package goes to ManagerRecv, then
\* ZeroAllBytes clears the buffer and with it the header.  Where the sum in left
\* overflows the subtraction takes it back, and so does the test for the end.
UnPackBody ==
    LET left == HeaderLen + package_length - cur_read_size
        n == Least(length, left)
    IN  /\ length > 0
        /\ cur_read_size >= HeaderLen
        /\ Copy(n)
        /\ IF n = left
           THEN /\ \E k \in Package : delivered' = Append(delivered, k)
                /\ cur_read_size' = 0 /\ stale' = 0 /\ package_length' = 0
           ELSE /\ cur_read_size' = cur_read_size + n
                /\ UNCHANGED <<delivered, stale, package_length>>
        /\ UNCHANGED <<streamVars, buffer_size, conns, clean>>

UnPack == UnPackHeader \/ UnPackBody

\* The connection closes, bytes not read are lost, and NetworkManager gives the
\* net id to a new connection.  Nobody touches net_id_to_buffer_map_.
ReuseNetID ==
    /\ length = 0
    /\ conns < MaxConns /\ conns' = conns + 1
    /\ sent' = << >> /\ starts' = << >> /\ total' = 0 /\ pos' = 0 /\ delivered' = << >>
    /\ stale' = cur_read_size
    /\ clean' = (clean /\ cur_read_size = 0)
    /\ UNCHANGED <<length, cur_read_size, buffer_size, package_length>>

Next ==
    \/ \E n \in Lengths : \E b \in 0..(HeaderLen + n) : PackAndSend(n, b)
    \/ \E n \in 1..MaxRead : Read(n)
    \/ UnPackHeader \/ UnPackBody
    \/ ReuseNetID

Spec == Init /\ [][Next]_vars

\* UnPack is a recursion on one thread: it runs on.
FairSpec == Spec /\ WF_vars(UnPack)

-----------------------------------------------------------------------------
\* Every variable has its type.
TypeOK ==
    /\ sent \in Seq(Nat) /\ starts \in Seq(Nat) /\ Len(starts) = Len(sent)
    /\ total \in Nat /\ pos \in Nat /\ length \in Nat
    /\ cur_read_size \in Nat /\ buffer_size \in Nat /\ package_length \in Nat
    /\ stale \in Nat /\ delivered \in Seq(Nat) /\ conns \in Nat /\ clean \in BOOLEAN

\* What ManagerRecv gets is the sequence of packages the peer sent: none is
\* lost, split, merged or reordered by the way read() cuts the stream - until a
\* send or a connection is cut inside a frame.
DeliveredInOrder ==
    clean => /\ Len(delivered) <= Len(sent)
             /\ \A i \in 1..Len(delivered) : delivered[i] = i

Promise == INSTANCE PackageChannel WITH Packages <- Lengths, intact <- clean

\* The bytes, the buffer and the cuts of read() implement a channel of whole
\* packages: ManagerRecv gets the next package of the connection or nothing,
\* until a send or a connection was cut inside a frame.
ImplementsChannel == Promise!Spec

\* When all bytes sent have been unpacked every package has been delivered,
\* except that an empty one at the very end waits for the next byte.
NothingHeldBack ==
    clean /\ length = 0 /\ pos = total =>
       \/ Len(delivered) = Len(sent)
       \/ Len(delivered) = Len(sent) - 1 /\ sent[Len(sent)] = 0

\* No memcpy of UnPack writes behind the end of the buffer, whatever an
\* earlier connection or a send cut short left in it and whatever length a header
\* made of unrelated bytes announces - unless the sum of that length and the
\* header's is no int: then the buffer is not extended.
FitsBuffer ==
    cur_read_size > buffer_size =>
       cur_read_size >= HeaderLen /\ HeaderLen + package_length > INT_MAX

\* UnPack returns: the recursion uses up the bytes of the call.
UnPackReturns == (length > 0) ~> (length = 0)

=============================================================================
