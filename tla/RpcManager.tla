----------------------------- MODULE RpcManager -----------------------------
(***************************************************************************)
(* RPCManager: the key check of new connections and the sessions that      *)
(* outlive them.  One manager, which listens and connects, over a          *)
(* NetworkManager that calls it back one event at a time, for each net id  *)
(* in order, and gives the id of a closed connection to a later one.  The  *)
(* peers are RPCManagers too: one sends its key once, another answers it,  *)
(* and data follows a successful check; but OnRecv takes the answer from   *)
(* any connection, so a peer that was asked for its key may send an answer *)
(* of its own, with which it is active, or disconnected, like after ours.  *)
(*                                                                         *)
(* A connection is used once; a peer that comes back is another one with   *)
(* the same Addr.  A session id is what CalculateRPCSessionKey makes text  *)
(* of: the local port, 0 for an accepted connection, and the remote end.   *)
(***************************************************************************)
EXTENDS Naturals, Sequences, FiniteSets

CONSTANTS Accepted, Dialled,   \* the connections of either kind
          Addr,                \* Addr[c]: remote address and port
          LPort,               \* LPort[c]: local port
          Keys, LongKeys,      \* keys; those that do not fit into a message
          None

Conns == Accepted \cup Dialled

ASSUME RpcManagerAssumption ==
    /\ Accepted \cap Dialled = {} /\ IsFiniteSet(Conns)
    /\ DOMAIN Addr = Conns /\ LPort \in [Conns -> Nat \ {0}]
    /\ LongKeys \subseteq Keys
    /\ None \notin Keys

VARIABLES
    listen_port_2_key, uncheck_key,      \* keys by listening port, by server
    network_id_2_key, uncheck_info,      \* by net id
    session_map,                         \* the ids of the sessions
    session_2_net, net_2_session,
    state, id,                           \* of each connection
    free_ids, max_id,                    \* of NetworkManager
    in, out,                             \* messages on a connection
    closing,                             \* connections the peer has closed
    active,                              \* ghost: sessions the handler knows as active
    got,                                 \* ghost: session -> connections it got data of
    needed, shown,                       \* ghost: key at accept, key the peer sent
    unasked,                             \* ghost: accepted ones whose peer has sent an answer
    confused                             \* ghost: see SessionsMatch

keyVars == <<listen_port_2_key, uncheck_key>>
idVars == <<network_id_2_key, uncheck_info>>
sessionVars == <<session_map, session_2_net, net_2_session, active>>
connVars == <<state, id, free_ids, max_id, closing>>
vars == <<keyVars, idVars, sessionVars, connVars, in, out, got, needed, shown, unasked, confused>>

\* std::map: operator[] assignment and erase.
Put(m, k, v) == [x \in DOMAIN m \cup {k} |-> IF x = k THEN v ELSE m[x]]
Erase(m, k)  == [x \in DOMAIN m \ {k} |-> m[x]]
Empty == [x \in {} |-> None]

Init ==
    /\ listen_port_2_key = Empty /\ uncheck_key = Empty
    /\ network_id_2_key = Empty /\ uncheck_info = Empty
    /\ session_map = {} /\ session_2_net = Empty /\ net_2_session = Empty
    /\ active = {} /\ got = {} /\ unasked = {}
    /\ state = [c \in Conns |-> "idle"] /\ id = [c \in Conns |-> 0]
    /\ free_ids = {} /\ max_id = 0 /\ closing = {}
    /\ in = [c \in Conns |-> << >>] /\ out = [c \in Conns |-> "nothing"]
    /\ needed = [c \in Conns |-> None] /\ shown = [c \in Conns |-> None]
    /\ confused = FALSE

-----------------------------------------------------------------------------
(* The application. *)

AsyncListen(port, key) ==
    /\ listen_port_2_key' = Put(listen_port_2_key, port, key)
    /\ UNCHANGED <<uncheck_key, idVars, sessionVars, connVars, in, out, got, needed, shown,
                   unasked, confused>>

AsyncConnect(c, key) ==
    /\ state[c] = "idle"
    /\ state' = [state EXCEPT ![c] = "dialling"]
    /\ uncheck_key' = Put(uncheck_key, Addr[c], key)
    /\ UNCHANGED <<listen_port_2_key, idVars, sessionVars, id, free_ids, max_id, closing, in,
                   out, got, needed, shown, unasked, confused>>

-----------------------------------------------------------------------------
(* Callbacks of NetworkManager. *)

OnConnectFail(c) ==
    /\ state[c] = "dialling"
    /\ state' = [state EXCEPT ![c] = "closed"]
    /\ UNCHANGED <<keyVars, idVars, sessionVars, id, free_ids, max_id, closing, in, out, got,
                   needed, shown, unasked, confused>>

\* NetworkManager::GetFreeNetID for connection c.
TakesNetID(c, n) ==
    /\ n \in IF free_ids = {} THEN {max_id + 1} ELSE free_ids
    /\ free_ids' = free_ids \ {n}
    /\ max_id' = IF free_ids = {} THEN n ELSE max_id
    /\ id' = [id EXCEPT ![c] = n]
    /\ state' = [state EXCEPT ![c] = "open"]

\* The session id of a connection, from the info that OnAccept or OnConnect
\* writes: OnAccept leaves local_port 0.
Own(c) == <<IF c \in Accepted THEN 0 ELSE LPort[c], Addr[c]>>

\* Faulty variant: an old info is kept, as OnAccept does.
InfoIfNew(n, c) == IF n \in DOMAIN uncheck_info THEN uncheck_info ELSE Put(uncheck_info, n, Own(c))
InfoOfConnect(n, c) == Put(uncheck_info, n, Own(c))

\* A key of 99 characters or more is not sent and no info is kept.
OnConnect(c, n) ==
    /\ state[c] = "dialling"
    /\ TakesNetID(c, n)
    /\ IF uncheck_key[Addr[c]] \in LongKeys THEN UNCHANGED <<uncheck_info, out>>
       ELSE /\ uncheck_info' = InfoOfConnect(n, c)
            /\ out' = [out EXCEPT ![c] = "key"]
    /\ UNCHANGED <<keyVars, network_id_2_key, sessionVars, closing, in, got, needed, shown,
                   unasked, confused>>

\* The info that an earlier connection left for this id is used.
OnAccept(c, n) ==
    /\ state[c] = "idle"
    /\ LPort[c] \in DOMAIN listen_port_2_key
    /\ TakesNetID(c, n)
    /\ network_id_2_key' = Put(network_id_2_key, n, listen_port_2_key[LPort[c]])
    /\ needed' = [needed EXCEPT ![c] = listen_port_2_key[LPort[c]]]
    /\ uncheck_info' = IF n \in DOMAIN uncheck_info THEN uncheck_info
                       ELSE Put(uncheck_info, n, Own(c))
    /\ confused' = (confused \/ uncheck_info'[n] # Own(c))
    /\ UNCHANGED <<keyVars, sessionVars, closing, in, out, got, shown, unasked>>

\* The message at hand has been read.
Reads(c, type) ==
    /\ state[c] = "open"
    /\ in[c] # << >> /\ Head(in[c]) = type
    /\ in' = [in EXCEPT ![c] = Tail(@)]

\* A session that exists is used again.
OnActiveNetwork(n) ==
    LET sid == uncheck_info[n]
    IN  /\ session_map' = session_map \cup {sid}
        /\ session_2_net' = Put(session_2_net, sid, n)
        /\ net_2_session' = Put(net_2_session, n, sid)
        /\ active' = active \cup {sid}
        /\ confused' = (confused \/ sid \in active)

\* An accepted connection is closed: no OnDisconnect follows, and its id is not
\* given to another one.
Disconnect(c) ==
    /\ state' = [state EXCEPT ![c] = "closed"]
    /\ confused' = (confused \/ id[c] \in DOMAIN net_2_session)
    /\ UNCHANGED sessionVars

KeyOfNet(c) == network_id_2_key[id[c]]

OnRecvKey(c) ==
    /\ Reads(c, "key")
    /\ IF shown[c] = KeyOfNet(c)
       THEN /\ out' = [out EXCEPT ![c] = "yes"]
            /\ OnActiveNetwork(id[c])
            /\ UNCHANGED state
       ELSE Disconnect(c) /\ UNCHANGED out
    /\ UNCHANGED <<keyVars, idVars, id, free_ids, max_id, closing, got, needed, shown, unasked>>

\* The answer is taken from any connection.  After a refusal SocketConnect is only
\* asked to stop at its next event, which is the close by the peer.
OnRecvAnswer(c, answer) ==
    /\ Reads(c, answer)
    /\ \/ answer = "yes" /\ OnActiveNetwork(id[c]) /\ UNCHANGED state
       \/ answer = "no" /\ c \in Accepted /\ Disconnect(c)
       \/ answer = "no" /\ c \in Dialled /\ UNCHANGED <<state, sessionVars, confused>>
    /\ UNCHANGED <<keyVars, idVars, id, free_ids, max_id, closing, out, got, needed, shown, unasked>>

\* Data for the session of the id; without one it is dropped.
OnRecvData(c) ==
    /\ Reads(c, "data")
    /\ got' = got \cup {<<c, s>> : s \in session_map
                                 \cap {net_2_session[n] : n \in {id[c]} \cap DOMAIN net_2_session}}
    /\ UNCHANGED <<keyVars, idVars, sessionVars, connVars, out, needed, shown, unasked,
                   confused>>

\* Faulty variant: the id keeps its session.
NetKeepsSession(n) == net_2_session
NetWithoutSession(n) == Erase(net_2_session, n)

\* What the id has no session for erases nothing and tells nobody.
OnDisconnect(c) ==
    LET sids == {net_2_session[n] : n \in {id[c]} \cap DOMAIN net_2_session}
    IN  /\ state[c] = "open" /\ c \in closing /\ in[c] = << >>
        /\ session_2_net' = [s \in DOMAIN session_2_net \ sids |-> session_2_net[s]]
        /\ net_2_session' = NetWithoutSession(id[c])
        /\ active' = active \ sids
        /\ state' = [state EXCEPT ![c] = "closed"]
        /\ free_ids' = free_ids \cup {id[c]}
        /\ UNCHANGED <<keyVars, idVars, session_map, id, max_id, closing, in, out, got,
                       needed, shown, unasked, confused>>

-----------------------------------------------------------------------------
(* The peers. *)

PeerSays(c, type) ==
    /\ state[c] = "open" /\ c \notin closing
    /\ in' = [in EXCEPT ![c] = Append(@, type)]
    /\ UNCHANGED <<keyVars, idVars, sessionVars, connVars, got, needed, confused>>

PeerSendsKey(c, key) ==
    /\ c \in Accepted /\ shown[c] = None
    /\ shown' = [shown EXCEPT ![c] = key]
    /\ PeerSays(c, "key")
    /\ UNCHANGED <<out, unasked>>

\* The key in "out" is answered, or once what nobody asked.
PeerAnswers(c, answer) ==
    /\ IF c \in Dialled THEN out[c] = "key" /\ UNCHANGED unasked
       ELSE c \notin unasked /\ unasked' = unasked \cup {c}
    /\ out' = [out EXCEPT ![c] = answer]
    /\ PeerSays(c, answer)
    /\ UNCHANGED shown

\* One package of data per connection.
PeerSendsData(c) ==
    /\ out[c] = "yes"
    /\ out' = [out EXCEPT ![c] = "data"]
    /\ PeerSays(c, "data")
    /\ UNCHANGED <<shown, unasked>>

PeerCloses(c) ==
    /\ state[c] = "open" /\ c \notin closing
    /\ closing' = closing \cup {c}
    /\ UNCHANGED <<keyVars, idVars, sessionVars, state, id, free_ids, max_id, in, out, got,
                   needed, shown, unasked, confused>>

-----------------------------------------------------------------------------
Open(c) ==
    \E n \in free_ids \cup {max_id + 1} :
       IF c \in Accepted THEN OnAccept(c, n) ELSE OnConnect(c, n)

Callback(c) ==
    \/ OnRecvKey(c) \/ OnRecvData(c) \/ OnDisconnect(c)
    \/ \E answer \in {"yes", "no"} : OnRecvAnswer(c, answer)

Peer(c) ==
    \/ \E key \in Keys \ LongKeys : PeerSendsKey(c, key)
    \/ \E answer \in {"yes", "no"} : PeerAnswers(c, answer)
    \/ PeerSendsData(c) \/ PeerCloses(c)

Next ==
    \/ \E c \in Accepted, key \in Keys : AsyncListen(LPort[c], key)
    \/ \E c \in Dialled : OnConnectFail(c) \/ \E key \in Keys : AsyncConnect(c, key)
    \/ \E c \in Conns : Open(c) \/ Callback(c) \/ Peer(c)

Spec == Init /\ [][Next]_vars

-----------------------------------------------------------------------------
\* The connections that have a session.
Checked == {c \in Conns : state[c] = "open" /\ id[c] \in DOMAIN net_2_session}

\* Accepted connections have a session exactly if their own peer has shown
\* the key that its port had when it was accepted, whatever the net id was used
\* for before and whichever key the port has got since: none without, and one
\* as soon as the message with the key is read, until the peer closes.  OnRecv
\* does not ask who answers a key: a peer that sends an answer of its own is
\* active without a key if it says yes, and is not covered.
KeyDecides ==
    \A c \in Accepted \ unasked :
       LET right == shown[c] # None /\ shown[c] = needed[c]
           waits == \E i \in DOMAIN in[c] : in[c][i] = "key"
       IN  /\ c \in Checked => right
           /\ right /\ c \notin closing => c \in Checked \/ waits

\* The two maps and the handler agree on which connection has which session,
\* and data is given to the session of the connection it came on, unless
\* OnAccept took over the info of an earlier connection, two open connections
\* have one session id, or a connection that had its session by an answer of
\* its own peer was active again, or was disconnected, for what it sent next.
SessionsMatch ==
    ~ confused =>
       /\ \A c \in Checked : /\ net_2_session[id[c]] = Own(c)
                             /\ Own(c) \in DOMAIN session_2_net
                             /\ session_2_net[Own(c)] = id[c]
       /\ DOMAIN session_2_net = {Own(c) : c \in Checked}
       /\ active = DOMAIN session_2_net
       /\ \A g \in got : g[2] = Own(g[1])

=============================================================================
