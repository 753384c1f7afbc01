------------------------------ MODULE NetStack ------------------------------
(***************************************************************************)
(* The protocol code: ARP (e1000.rs poll) and the web server (net.rs),     *)
(* which keeps no connection state.  handle_incoming_packet answers a SYN  *)
(* with a SYN-ACK and a segment that starts with "GET" with the page,      *)
(* taking every number it needs from the segment it answers.               *)
(*                                                                         *)
(* Clients are TCP endpoints that follow RFC 793.  The network may lose,   *)
(* repeat and reorder segments: net only grows, any segment in it may be   *)
(* received any number of times, or never, also after its connection is    *)
(* over and the client has opened another one from the same port.  Other   *)
(* hosts share the ARP table with the clients.                             *)
(***************************************************************************)
EXTENDS ArpCache, Sequences

CONSTANTS Clients,       \* client endpoints, named by their IP (and hardware) address
          SeqMod,        \* sequence numbers are modulo this (2^32)
          ServerIss,     \* the server's initial sequence number (0xCAFEBABE)
          ClientIss,     \* the initial sequence numbers clients may choose
          GetLen,        \* bytes of the client's request
          BodyLen,       \* bytes of the server's response
          MaxConns,      \* bound: the connections a client opens, one after the other
          Plans          \* how clients may cut and push their request

ASSUME NetAssumption == /\ Clients \subseteq Ips /\ Clients \subseteq Macs
                        /\ MaxConns \in Nat
                        /\ SeqMod \in Nat \ {0} /\ GetLen \in Nat /\ BodyLen \in Nat
                        /\ GetLen >= 2 /\ BodyLen >= 1
                        /\ 2 * (GetLen + BodyLen + 1) < SeqMod
                        /\ ServerIss \in 0 .. SeqMod - 1
                        /\ ClientIss \subseteq 0 .. SeqMod - 1
                        /\ Plans \subseteq {"whole", "afterGet", "lastPushed"}

VARIABLES
    arpReplied,          \* clients that have the server's ARP reply
    net,                 \* every segment ever sent, both ways
    state,               \* each client: closed, synSent, established, done
    conn,                \* history: the number of its current connection
    iss, plan,           \* its initial sequence number and its request's plan
    sent, acked,         \* request bytes sent, and acknowledged
    rcvNxt,              \* the next sequence number it expects
    got                  \* history: the connections whose response it has accepted

clientVars == <<state, conn, iss, plan, sent, acked, rcvNxt, got>>
vars == <<arpVars, arpReplied, net, clientVars>>

Broadcast == "ff"
Plus(a, n) == (a + n) % SeqMod                 \* wrapping_add
Minus(a, b) == (a + SeqMod - b) % SeqMod       \* the distance from b to a

Init ==
    /\ ArpInit
    /\ arpReplied = {}
    /\ net = {}
    /\ state = [c \in Clients |-> "closed"]
    /\ conn = [c \in Clients |-> 1]
    /\ iss \in [Clients -> ClientIss]
    /\ plan \in [Clients -> Plans]
    /\ sent = [c \in Clients |-> 0]
    /\ acked = [c \in Clients |-> 0]
    /\ rcvNxt = [c \in Clients |-> 0]
    /\ got = [c \in Clients |-> <<>>]

-----------------------------------------------------------------------------
(* The server.                                                              *)

\* poll(): an ARP request of client c.  Its address is cached whoever it asks
\* for; it is answered when it asks for us.
HandleArp(c, forUs) ==
    /\ HearArp(c, c)
    /\ arpReplied' = IF forUs THEN arpReplied \cup {c} ELSE arpReplied
    /\ UNCHANGED <<net, clientVars>>

\* Any other host's ARP packet: its address is cached, whatever it is by now.
HandleOtherArp(ip, mac) ==
    /\ HearArp(ip, mac)
    /\ UNCHANGED <<arpReplied, net, clientVars>>

\* The hardware address the answer goes to.
TargetMac(c) == IF lookup(c) = None THEN Broadcast ELSE lookup(c)

\* craft_base_tcp_frame and inject_frame: a segment in answer to m (whose connection
\* is recorded, not sent).
Frame(m, seq, ack, syn, len) ==
    [dir |-> "out", client |-> m.client, mac |-> TargetMac(m.client), seq |-> seq,
     ack |-> ack, syn |-> syn, len |-> len, conn |-> m.conn]

\* handle_incoming_packet, SYN: send_tcp_syn_ack.
HandleSyn(m) ==
    /\ m.dir = "in" /\ m.syn
    /\ net' = net \cup {Frame(m, ServerIss, Plus(m.seq, 1), TRUE, 0)}
    /\ UNCHANGED <<arpVars, arpReplied, clientVars>>

\* Mutants: the request's length is not acknowledged; it is acknowledged with one
\* byte too many, as a SYN is; the response starts at the server's initial number.
HandleGet_With(m, seq, ack) ==
    /\ m.dir = "in" /\ ~m.syn /\ m.psh /\ m.len > 0 /\ m.get
    /\ net' = net \cup {Frame(m, seq, ack, FALSE, BodyLen)}
    /\ UNCHANGED <<arpVars, arpReplied, clientVars>>
HandleGet_NoLength(m) == HandleGet_With(m, m.ack, m.seq)
HandleGet_OneMore(m) == HandleGet_With(m, m.ack, Plus(m.seq, m.len + 1))
HandleGet_FixedSeq(m) == HandleGet_With(m, ServerIss, Plus(m.seq, m.len))

\* handle_incoming_packet, pushed data that starts with "GET": send_http_response.
HandleGet(m) ==
    /\ m.dir = "in" /\ ~m.syn /\ m.psh /\ m.len > 0 /\ m.get
    /\ net' = net \cup {Frame(m, m.ack, Plus(m.seq, m.len), FALSE, BodyLen)}
    /\ UNCHANGED <<arpVars, arpReplied, clientVars>>

-----------------------------------------------------------------------------
(* A client.                                                                *)

\* It opens its connection once it knows the server's hardware address.
Connect(c) ==
    /\ state[c] = "closed" /\ c \in arpReplied
    /\ state' = [state EXCEPT ![c] = "synSent"]
    /\ net' = net \cup {[dir |-> "in", client |-> c, seq |-> iss[c], ack |-> 0,
                         syn |-> TRUE, psh |-> FALSE, get |-> FALSE, len |-> 0,
                         conn |-> conn[c]]}
    /\ UNCHANGED <<arpVars, arpReplied, conn, iss, plan, sent, acked, rcvNxt, got>>

\* The request's segments: offset, length, whether it starts with "GET" and whether
\* it is pushed, as the end of each write of the client is.  "whole" is one segment,
\* "afterGet" two writes, "lastPushed" one write in two segments.
Segments(p) ==
    IF p = "whole" THEN {[off |-> 0, len |-> GetLen, get |-> TRUE, psh |-> TRUE]}
    ELSE {[off |-> 0, len |-> GetLen - 1, get |-> TRUE, psh |-> p # "lastPushed"],
          [off |-> GetLen - 1, len |-> 1, get |-> FALSE, psh |-> TRUE]}

\* It sends a segment of its request, or sends it again while unacknowledged;
\* the acknowledgment it carries is always the current one.
SendRequest(c, s) ==
    /\ state[c] \in {"established", "done"}
    /\ s \in Segments(plan[c]) /\ s.off <= sent[c] /\ acked[c] < s.off + s.len
    /\ sent' = [sent EXCEPT ![c] = IF s.off + s.len > @ THEN s.off + s.len ELSE @]
    /\ net' = net \cup {[dir |-> "in", client |-> c, seq |-> Plus(iss[c], 1 + s.off),
                         ack |-> rcvNxt[c], syn |-> FALSE, psh |-> s.psh, get |-> s.get,
                         len |-> s.len, conn |-> conn[c]]}
    /\ UNCHANGED <<arpVars, arpReplied, state, conn, iss, plan, acked, rcvNxt, got>>

Reaches(m, c) == m.dir = "out" /\ m.client = c /\ m.mac \in {c, Broadcast}

RecvSynAck(c, m) ==
    /\ Reaches(m, c) /\ m.syn
    /\ state[c] = "synSent" /\ m.ack = Plus(iss[c], 1)
    /\ state' = [state EXCEPT ![c] = "established"]
    /\ rcvNxt' = [rcvNxt EXCEPT ![c] = Plus(m.seq, 1)]
    /\ UNCHANGED <<arpVars, arpReplied, net, conn, iss, plan, sent, acked, got>>

\* Two connections with these initial numbers share no number of a request.
Apart(a, b) == Minus(a, b) > GetLen /\ Minus(b, a) > GetLen

\* With its page it opens another connection from the same port, with an initial
\* number that leaves all it has sent behind, in every connection before, as RFC 793
\* asks of it.
Reconnect(c, n) ==
    /\ state[c] = "done" /\ acked[c] = sent[c] /\ conn[c] < MaxConns
    /\ n \in ClientIss
    /\ \A m \in net : m.dir = "in" /\ m.client = c /\ m.syn => Apart(n, m.seq)
    /\ state' = [state EXCEPT ![c] = "closed"]
    /\ conn' = [conn EXCEPT ![c] = @ + 1]
    /\ iss' = [iss EXCEPT ![c] = n]
    /\ sent' = [sent EXCEPT ![c] = 0] /\ acked' = [acked EXCEPT ![c] = 0]
    /\ UNCHANGED <<arpVars, arpReplied, net, plan, rcvNxt, got>>

\* How many request bytes the acknowledgment of m covers; too many to be sent is
\* a segment to throw away.
Covers(c, m) == Minus(m.ack, Plus(iss[c], 1))

\* It accepts data that is next in order.
RecvData(c, m) ==
    /\ Reaches(m, c) /\ ~m.syn
    /\ state[c] \in {"established", "done"}
    /\ m.seq = rcvNxt[c] /\ Covers(c, m) <= sent[c]
    /\ acked' = [acked EXCEPT ![c] = IF Covers(c, m) > @ THEN Covers(c, m) ELSE @]
    /\ rcvNxt' = [rcvNxt EXCEPT ![c] = Plus(m.seq, m.len)]
    /\ got' = [got EXCEPT ![c] = Append(@, <<m.conn, conn[c]>>)]
    /\ state' = [state EXCEPT ![c] = "done"]
    /\ UNCHANGED <<arpVars, arpReplied, net, conn, iss, plan, sent>>

ArpFrom(c) == HandleArp(c, TRUE) \/ HandleArp(c, FALSE)
Serve(c) == \E m \in net : m.client = c /\ (HandleSyn(m) \/ HandleGet(m))
Request(c) == Connect(c) \/ \E s \in Segments(plan[c]) : SendRequest(c, s)
Receive(c) == \E m \in net : RecvSynAck(c, m) \/ RecvData(c, m)

Next ==
    \/ \E c \in Clients :
          \/ ArpFrom(c) \/ Serve(c) \/ Request(c) \/ Receive(c)
          \/ \E n \in ClientIss : Reconnect(c, n)
    \/ \E ip \in Ips \ Clients, mac \in Macs \ Clients : HandleOtherArp(ip, mac)

\* Segments are repeated until one gets through, and poll() comes to each.
Fairness ==
    \A c \in Clients :
        /\ WF_vars(HandleArp(c, TRUE))
        /\ WF_vars(Request(c)) /\ WF_vars(Serve(c)) /\ WF_vars(Receive(c))

Spec == Init /\ [][Next]_vars
FairSpec == Spec /\ Fairness

-----------------------------------------------------------------------------
(* Properties.                                                              *)

\* Every connection's page is accepted at most once, although every repeated
\* request is answered afresh, and it is the answer to a request of that very
\* connection, although the server starts each at the same number.
BodyOnce ==
    \A c \in Clients : \A i \in DOMAIN got[c] : got[c][i] = <<i, i>>

\* The server never acknowledges bytes the client has not sent in the connection,
\* in spite of wrapping numbers and requests cut in two.
AckWithinSent ==
    \A m \in net : m.dir = "out" /\ m.conn = conn[m.client] =>
        Covers(m.client, m) <= sent[m.client]

\* A client gets the page, whatever is lost, if one of its segments both starts with
\* "GET" and is pushed.  The server, which puts no segments together, answers no
\* other request: one write cut after "GET" is asked for ever and in vain.
Answerable(p) == \E s \in Segments(p) : s.get /\ s.psh
Served ==
    \A c \in Clients : state[c] = "synSent" /\ Answerable(plan[c]) ~> state[c] = "done"
=============================================================================
