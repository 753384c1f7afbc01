--------------------------- MODULE NetStackProofs ---------------------------
(***************************************************************************)
(* Proofs about the ARP table and the web server.                          *)
(*                                                                         *)
(* The table, for every number of entries and hosts: no host has two       *)
(* active entries, and every active entry holds its host's last            *)
(* announcement; lookup() then finds the only entry there is, whichever    *)
(* insert() touched.                                                       *)
(*                                                                         *)
(* The server, for every number of clients, connections and numbers that   *)
(* wrap anywhere: NetInv says what every segment in the network can hold,  *)
(* PageInv where a client can be in its present connection and that every  *)
(* older SYN is more than a request away from the present one.  The server *)
(* remembers nothing, so both speak of the segments alone.                 *)
(***************************************************************************)
EXTENDS NetStack, Integers, WellFoundedInduction, TLAPS

-----------------------------------------------------------------------------
(* The ARP table.                                                           *)

USE ArpAssumption

\* A search that finds something stops at an entry that passes its test.
LEMMA FirstIn ==
    ASSUME NEW S \in SUBSET Nat, S # {}
    PROVE  First(S) \in S
<1>1. PICK x \in S : \A y \in S : ~ (<<y, x>> \in OpToRel(<, Nat))
  BY NatLessThanWellFounded, WFMin
<1>2. \A y \in S : ~ (y < x)
  BY <1>1 DEF OpToRel
<1>3. \A y \in S : x <= y
  BY <1>2
<1>4. QED
  BY <1>3 DEF First

\* What insert() does to the array: one entry changes, or none because the table
\* is full and does not know the host.
LEMMA InsertEffect ==
    ASSUME ArpTypeOK, NEW ip \in Ips, NEW mac \in Macs, insert(ip, mac)
    PROVE  \/ \E k \in Slots :
                 /\ entries[k].active /\ entries[k].ip = ip
                 /\ entries' = [entries EXCEPT ![k].mac = mac]
           \/ \E k \in Slots :
                 /\ Holding(ip) = {} /\ ~entries[k].active
                 /\ entries' = [entries EXCEPT ![k] =
                                   [ip |-> ip, mac |-> mac, active |-> TRUE]]
           \/ Holding(ip) = {} /\ Inactive = {} /\ entries' = entries
<1>1. Holding(ip) \in SUBSET Nat /\ Inactive \in SUBSET Nat
  BY DEF Holding, Inactive, Slots
<1>2. CASE Holding(ip) # {}
  <2>1. First(Holding(ip)) \in Holding(ip)
    BY <1>1, <1>2, FirstIn
  <2>2. QED
    BY <1>2, <2>1 DEF insert, Holding
<1>3. CASE Holding(ip) = {} /\ Inactive # {}
  <2>1. First(Inactive) \in Inactive
    BY <1>1, <1>3, FirstIn
  <2>2. QED
    BY <1>3, <2>1 DEF insert, Inactive
<1>4. CASE Holding(ip) = {} /\ Inactive = {}
  BY <1>4 DEF insert
<1>5. QED
  BY <1>2, <1>3, <1>4

\* The table invariant: entries are well formed, each host has at most one, and
\* it is the host's last announcement.
TableInv == ArpTypeOK /\ OneEntryPerHost /\ EntriesCurrent

\* The table invariant holds whatever hosts announce, in whatever order.
THEOREM TableCorrect == ArpSpec => []TableInv
<1>1. ArpInit => TableInv
  BY DEF ArpInit, TableInv, ArpTypeOK, OneEntryPerHost, EntriesCurrent
<1>2. TableInv /\ [ArpNext]_arpVars => TableInv'
  <2> SUFFICES ASSUME TableInv, [ArpNext]_arpVars PROVE TableInv'
    OBVIOUS
  <2>0. ArpTypeOK /\ OneEntryPerHost /\ EntriesCurrent
    BY DEF TableInv
  <2>1. ASSUME NEW ip \in Ips, NEW mac \in Macs, HearArp(ip, mac) PROVE TableInv'
    <3>1. latest' = [latest EXCEPT ![ip] = mac] /\ insert(ip, mac)
      BY <2>1 DEF HearArp
    <3>2. ASSUME NEW k \in Slots, entries[k].active, entries[k].ip = ip,
                 entries' = [entries EXCEPT ![k].mac = mac]
          PROVE  TableInv'
      <4>1. ArpTypeOK'
        BY <2>0, <3>1, <3>2 DEF ArpTypeOK
      <4>2. \A i \in Slots : /\ entries'[i].active = entries[i].active
                             /\ entries'[i].ip = entries[i].ip
                             /\ i # k => entries'[i].mac = entries[i].mac
        BY <2>0, <3>2 DEF ArpTypeOK
      <4>3. entries'[k].mac = mac
        BY <2>0, <3>2 DEF ArpTypeOK
      <4>4. OneEntryPerHost'
        BY <2>0, <4>2 DEF OneEntryPerHost
      <4>5. EntriesCurrent'
        BY <2>0, <3>1, <3>2, <4>2, <4>3 DEF EntriesCurrent, OneEntryPerHost, ArpTypeOK
      <4>6. QED
        BY <4>1, <4>4, <4>5 DEF TableInv
    <3>3. ASSUME NEW k \in Slots, Holding(ip) = {}, ~entries[k].active,
                 entries' = [entries EXCEPT ![k] = [ip |-> ip, mac |-> mac, active |-> TRUE]]
          PROVE  TableInv'
      <4>1. ArpTypeOK'
        BY <2>0, <3>1, <3>3 DEF ArpTypeOK
      <4>2. \A i \in Slots : i # k => entries'[i] = entries[i]
        BY <2>0, <3>3 DEF ArpTypeOK
      <4>3. entries'[k] = [ip |-> ip, mac |-> mac, active |-> TRUE]
        BY <2>0, <3>3 DEF ArpTypeOK
      <4>4. \A i \in Slots : entries[i].active => entries[i].ip # ip
        BY <3>3 DEF Holding
      <4>5. OneEntryPerHost'
        BY <2>0, <4>2, <4>3, <4>4 DEF OneEntryPerHost
      <4>6. EntriesCurrent'
        BY <2>0, <3>1, <4>2, <4>3, <4>4 DEF EntriesCurrent, ArpTypeOK
      <4>7. QED
        BY <4>1, <4>5, <4>6 DEF TableInv
    <3>4. ASSUME Holding(ip) = {}, entries' = entries PROVE TableInv'
      <4>1. \A i \in Slots : entries[i].active => entries[i].ip # ip
        BY <3>4 DEF Holding
      <4>2. ArpTypeOK' /\ OneEntryPerHost'
        BY <2>0, <3>1, <3>4 DEF ArpTypeOK, OneEntryPerHost
      <4>3. EntriesCurrent'
        BY <2>0, <3>1, <3>4, <4>1 DEF EntriesCurrent, ArpTypeOK
      <4>4. QED
        BY <4>2, <4>3 DEF TableInv
    <3>5. QED
      BY <2>0, <3>1, <3>2, <3>3, <3>4, InsertEffect
  <2>2. CASE UNCHANGED arpVars
    BY <2>0, <2>2 DEF arpVars, TableInv, ArpTypeOK, OneEntryPerHost, EntriesCurrent
  <2>3. QED
    BY <2>1, <2>2 DEF ArpNext
<1>3. QED
  BY <1>1, <1>2, PTL DEF ArpSpec

\* No host ever has two active entries.
THEOREM Unique == ArpSpec => []OneEntryPerHost
<1>1. TableInv => OneEntryPerHost
  BY DEF TableInv
<1>2. QED
  BY <1>1, TableCorrect, PTL

\* What lookup() returns, given the table invariant.
LEMMA LookupValue ==
    ASSUME TableInv, NEW ip \in Ips
    PROVE  /\ Holding(ip) = {} => lookup(ip) = None
           /\ Holding(ip) # {} => lookup(ip) = latest[ip] /\ lookup(ip) \in Macs
<1>1. ASSUME Holding(ip) # {} PROVE lookup(ip) = latest[ip] /\ lookup(ip) \in Macs
  <2>1. First(Holding(ip)) \in Holding(ip)
    BY <1>1, FirstIn DEF Holding, Slots
  <2>2. QED
    BY <1>1, <2>1 DEF lookup, Holding, TableInv, EntriesCurrent
<1>2. QED
  BY <1>1 DEF lookup

\* lookup() fails exactly for the hosts without an entry.
LookupFinds == \A h \in Ips : (lookup(h) = None <=> Holding(h) = {})
\* It is so in every state the table reaches.
LEMMA LookupIff == TableInv => LookupFinds
  BY LookupValue DEF LookupFinds

\* The same of the state after a step.
LEMMA FindsAfter == TableInv' => LookupFinds'
  BY LookupIff, PTL

\* lookup() never gives an address older than the host's last announcement.
THEOREM LookupCurrent == ArpSpec => []NeverStale
<1>1. TableInv => NeverStale
  BY LookupValue DEF NeverStale
<1>2. QED
  BY <1>1, TableCorrect, PTL

\* A host once in the table is never lost from it, and only a full table turns a
\* host away.
THEOREM Remembered == ArpSpec => NeverForgotten
<1> DEFINE Kept == \A ip \in Ips :
              /\ lookup(ip) # None => lookup(ip)' # None
              /\ latest'[ip] # None /\ lookup(ip)' = None => Inactive = {}
<1> DEFINE Known == \A ip \in Ips : latest[ip] # None /\ lookup(ip) = None => Inactive = {}
<1>1. ArpInit => Known
  BY DEF ArpInit
<1>2. TableInv /\ TableInv' /\ Known /\ [ArpNext]_arpVars => Known' /\ [Kept]_arpVars
  <2> SUFFICES ASSUME TableInv, TableInv', Known, [ArpNext]_arpVars
               PROVE  Known' /\ [Kept]_arpVars
    OBVIOUS
  <2>1. ASSUME NEW ip \in Ips, NEW mac \in Macs, HearArp(ip, mac) PROVE Known' /\ Kept
    <3>0. ArpTypeOK /\ ArpTypeOK'
      BY DEF TableInv
    <3>1. /\ latest' = [latest EXCEPT ![ip] = mac] /\ insert(ip, mac)
      BY <2>1 DEF HearArp
    <3>2. \A i \in Slots : entries[i].active =>
             entries'[i].active /\ entries'[i].ip = entries[i].ip
      <4>1. ASSUME NEW k \in Slots, entries' = [entries EXCEPT ![k].mac = mac]
            PROVE  \A i \in Slots : entries'[i].active = entries[i].active
                                   /\ entries'[i].ip = entries[i].ip
        BY <3>0, <4>1 DEF ArpTypeOK
      <4>2. ASSUME NEW k \in Slots, ~entries[k].active,
                   entries' = [entries EXCEPT ![k] = [ip |-> ip, mac |-> mac, active |-> TRUE]]
            PROVE  \A i \in Slots : i # k => entries'[i] = entries[i]
        BY <3>0, <4>2 DEF ArpTypeOK
      <4>3. QED
        BY <3>0, <3>1, <4>1, <4>2, InsertEffect
    <3>3. Holding(ip)' = {} => Inactive = {}
      <4>1. ASSUME NEW k \in Slots, entries[k].active, entries[k].ip = ip PROVE Holding(ip)' # {}
        BY <3>2, <4>1 DEF Holding
      <4>2. ASSUME NEW k \in Slots,
                   entries' = [entries EXCEPT ![k] = [ip |-> ip, mac |-> mac, active |-> TRUE]]
            PROVE  Holding(ip)' # {}
        <5>1. entries'[k].active /\ entries'[k].ip = ip
          BY <3>0, <4>2 DEF ArpTypeOK
        <5>2. QED
          BY <5>1 DEF Holding
      <4>3. QED
        BY <3>0, <3>1, <4>1, <4>2, InsertEffect
    <3>4. \A h \in Ips : Holding(h) # {} => Holding(h)' # {}
      BY <3>2 DEF Holding
    <3>5. Inactive = {} => Inactive' = {}
      BY <3>2 DEF Inactive
    <3>6. \A h \in Ips : (lookup(h) = None <=> Holding(h) = {})
      BY LookupIff DEF LookupFinds
    <3>7. \A h \in Ips : (lookup(h)' = None <=> Holding(h)' = {})
      BY FindsAfter DEF LookupFinds
    <3>8. \A h \in Ips : h # ip => latest'[h] = latest[h]
      BY <3>0, <3>1 DEF ArpTypeOK
    <3>9. \A h \in Ips : latest'[h] # None /\ lookup(h)' = None => Inactive = {}
      BY <3>3, <3>4, <3>6, <3>7, <3>8
    <3>10. Kept
      BY <3>4, <3>6, <3>7, <3>9
    <3>11. Known'
      BY <3>5, <3>9
    <3>12. QED
      BY <3>10, <3>11
  <2>2. CASE UNCHANGED arpVars
    BY <2>2 DEF arpVars, lookup, Holding, Inactive
  <2>3. QED
    BY <2>1, <2>2 DEF ArpNext
<1>3. QED
  BY <1>1, <1>2, TableCorrect, PTL DEF ArpSpec, NeverForgotten

HIDE ArpAssumption

-----------------------------------------------------------------------------
(* Sequence numbers.                                                        *)

\* Sums of sequence numbers wrap once at most.
LEMMA PlusValue ==
    ASSUME NEW a \in 0 .. SeqMod - 1, NEW n \in 0 .. SeqMod - 1
    PROVE  /\ Plus(a, n) = IF a + n < SeqMod THEN a + n ELSE a + n - SeqMod
           /\ Plus(a, n) \in 0 .. SeqMod - 1
  BY NetAssumption DEF Plus

\* So do the distances between them.
LEMMA MinusValue ==
    ASSUME NEW a \in 0 .. SeqMod - 1, NEW b \in 0 .. SeqMod - 1
    PROVE  /\ Minus(a, b) = IF a >= b THEN a - b ELSE a + SeqMod - b
           /\ Minus(a, b) \in 0 .. SeqMod - 1
  BY NetAssumption DEF Minus

\* Adding in two steps is adding the sum, and the distance to a sum is the summand.
LEMMA PlusPlus ==
    ASSUME NEW a \in 0 .. SeqMod - 1, NEW n \in Nat, NEW k \in Nat, n + k < SeqMod
    PROVE  Plus(Plus(a, n), k) = Plus(a, n + k)
<1>1. n \in 0 .. SeqMod - 1 /\ k \in 0 .. SeqMod - 1 /\ n + k \in 0 .. SeqMod - 1
  BY NetAssumption
<1>2. Plus(a, n) = IF a + n < SeqMod THEN a + n ELSE a + n - SeqMod
  BY <1>1, PlusValue
<1>3. Plus(a, n + k) = IF a + (n + k) < SeqMod THEN a + (n + k) ELSE a + (n + k) - SeqMod
  BY <1>1, PlusValue
<1>4. ASSUME NEW b \in 0 .. SeqMod - 1
      PROVE  Plus(b, k) = IF b + k < SeqMod THEN b + k ELSE b + k - SeqMod
  BY <1>1, PlusValue
<1>5. Plus(a, n) \in 0 .. SeqMod - 1
  BY <1>1, PlusValue
<1>6. Plus(Plus(a, n), k) = IF Plus(a, n) + k < SeqMod THEN Plus(a, n) + k ELSE Plus(a, n) + k - SeqMod
  BY <1>4, <1>5
<1>7. QED
  BY <1>1, <1>2, <1>3, <1>5, <1>6, NetAssumption

\* An acknowledgment of k request bytes covers k bytes, wherever the numbers wrap.
LEMMA CoversValue ==
    ASSUME NEW a \in 0 .. SeqMod - 1, NEW k \in 0 .. GetLen
    PROVE  Minus(Plus(a, 1 + k), Plus(a, 1)) = k
<1>1. 1 + k \in 0 .. SeqMod - 1 /\ 1 \in 0 .. SeqMod - 1
  BY NetAssumption
<1> DEFINE p == Plus(a, 1 + k)
           q == Plus(a, 1)
<1>2. p \in 0 .. SeqMod - 1 /\ p = IF a + (1 + k) < SeqMod THEN a + (1 + k) ELSE a + (1 + k) - SeqMod
  BY <1>1, PlusValue
<1>3. q \in 0 .. SeqMod - 1 /\ q = IF a + 1 < SeqMod THEN a + 1 ELSE a + 1 - SeqMod
  BY <1>1, PlusValue
<1>4. Minus(p, q) = IF p >= q THEN p - q ELSE p + SeqMod - q
  BY <1>2, <1>3, MinusValue
<1> HIDE DEF p, q
<1>5. Minus(p, q) = k
  BY <1>1, <1>2, <1>3, <1>4, NetAssumption
<1>6. QED
  BY <1>5 DEF p, q

\* An acknowledgment of bytes of the connection before is out of the window of the
\* new one, when the new initial number n has left all old ones behind.
LEMMA OldOutOfWindow ==
    ASSUME NEW a \in 0 .. SeqMod - 1, NEW n \in 0 .. SeqMod - 1, NEW k \in 0 .. GetLen,
           Minus(n, a) > GetLen, Minus(a, n) > GetLen
    PROVE  Minus(Plus(a, 1 + k), Plus(n, 1)) > GetLen
<1>1. 1 + k \in 0 .. SeqMod - 1 /\ 1 \in 0 .. SeqMod - 1
  BY NetAssumption
<1> DEFINE p == Plus(a, 1 + k)
           q == Plus(n, 1)
<1>2. p \in 0 .. SeqMod - 1 /\ p = IF a + (1 + k) < SeqMod THEN a + (1 + k) ELSE a + (1 + k) - SeqMod
  BY <1>1, PlusValue
<1>3. q \in 0 .. SeqMod - 1 /\ q = IF n + 1 < SeqMod THEN n + 1 ELSE n + 1 - SeqMod
  BY <1>1, PlusValue
<1>4. Minus(p, q) = IF p >= q THEN p - q ELSE p + SeqMod - q
  BY <1>2, <1>3, MinusValue
<1>5. (IF n >= a THEN n - a ELSE n + SeqMod - a) > GetLen
  BY MinusValue
<1>6. (IF a >= n THEN a - n ELSE a + SeqMod - n) > GetLen
  BY MinusValue
<1> HIDE DEF p, q
<1>7. Minus(p, q) > GetLen
  BY <1>4, <1>5, <1>6, <1>1, <1>2, <1>3, NetAssumption
<1>8. QED
  BY <1>7 DEF p, q

-----------------------------------------------------------------------------
(* Acknowledgments.                                                         *)

\* The length of the segment that starts with "GET".
FirstLen(p) == IF p = "whole" THEN GetLen ELSE GetLen - 1

Numbers == 0 .. SeqMod - 1

NetTypeOK ==
    /\ state \in [Clients -> {"closed", "synSent", "established", "done"}]
    /\ conn \in [Clients -> Nat \ {0}]
    /\ iss \in [Clients -> ClientIss] /\ plan \in [Clients -> Plans]
    /\ sent \in [Clients -> 0 .. GetLen] /\ acked \in [Clients -> 0 .. GetLen]
    /\ rcvNxt \in [Clients -> Numbers]
    /\ got \in [Clients -> Seq(Nat \X Nat)]

\* A segment of a client: one of its present connection carries the number of what
\* it has sent in it.
AskedOK(m) ==
    m.dir = "in" =>
        /\ m.client \in Clients /\ m.conn \in Nat \ {0} /\ m.conn <= conn[m.client]
        /\ m.seq \in Numbers /\ m.ack \in Numbers /\ m.len \in 0 .. GetLen
        /\ m.conn = conn[m.client] /\ m.syn => m.seq = iss[m.client]
        /\ m.conn = conn[m.client] /\ ~m.syn /\ m.get =>
              /\ m.seq = Plus(iss[m.client], 1)
              /\ m.len = FirstLen(plan[m.client]) /\ m.len <= sent[m.client]

\* A segment of the server: one for the client's present connection acknowledges the
\* SYN, or the SYN and the first segment of the request.
AnsweredOK(m) ==
    m.dir = "out" =>
        /\ m.client \in Clients /\ m.conn \in Nat \ {0} /\ m.conn <= conn[m.client]
        /\ m.seq \in Numbers /\ m.ack \in Numbers /\ m.len \in 0 .. BodyLen
        /\ m.conn = conn[m.client] /\ m.syn => m.ack = Plus(iss[m.client], 1)
        /\ m.conn = conn[m.client] /\ ~m.syn =>
              /\ m.ack = Plus(iss[m.client], 1 + FirstLen(plan[m.client]))
              /\ FirstLen(plan[m.client]) <= sent[m.client]

NetInv == NetTypeOK /\ \A m \in net : AskedOK(m) /\ AnsweredOK(m)

\* m is the SYN of a connection of client c.
SynOf(m, c, k) == m.dir = "in" /\ m.syn /\ m.client = c /\ m.conn = k

\* A request was sent after its connection's SYN and the SYN-ACK.
FreshAsked(m) ==
    m.dir = "in" /\ ~m.syn /\ m.get =>
        /\ m.ack = Plus(ServerIss, 1)
        /\ \E o \in net : SynOf(o, m.client, m.conn) /\ m.seq = Plus(o.seq, 1)

\* A response starts where the SYN-ACK ended and acknowledges bytes of its
\* connection.
FreshAnswered(m) ==
    m.dir = "out" =>
        /\ m.syn => m.seq = ServerIss
        /\ ~m.syn => /\ m.seq = Plus(ServerIss, 1) /\ m.len = BodyLen
                     /\ \E o \in net, k \in 0 .. GetLen :
                           SynOf(o, m.client, m.conn) /\ m.ack = Plus(o.seq, 1 + k)

\* A client that is connected has sent its SYN; its older SYNs are left behind.
SynKept(c) ==
    /\ state[c] # "closed" => \E o \in net : SynOf(o, c, conn[c]) /\ o.seq = iss[c]
    /\ \A o \in net : o.dir = "in" /\ o.syn /\ o.client = c /\ o.conn # conn[c] =>
          Apart(iss[c], o.seq)

\* Where a client is in its present connection.
Progress(c) ==
    /\ state[c] = "established" => rcvNxt[c] = Plus(ServerIss, 1)
    /\ state[c] = "done" => /\ rcvNxt[c] = Plus(Plus(ServerIss, 1), BodyLen)
                            /\ acked[c] >= FirstLen(plan[c])
    /\ Len(got[c]) = IF state[c] = "done" THEN conn[c] ELSE conn[c] - 1
    /\ \A i \in 1 .. Len(got[c]) : got[c][i] = <<i, i>>

PageInv ==
    /\ \A m \in net : FreshAsked(m) /\ FreshAnswered(m)
    /\ \A c \in Clients : SynKept(c) /\ Progress(c)

\* Numbers a client or the server computes stay numbers.
LEMMA Ranges ==
    /\ \A a \in Numbers, n \in 0 .. GetLen + 1 : Plus(a, n) \in Numbers
    /\ \A a \in Numbers, n \in 0 .. BodyLen : Plus(a, n) \in Numbers
    /\ 0 \in Numbers /\ ServerIss \in Numbers /\ ClientIss \subseteq Numbers
    /\ \A p : FirstLen(p) \in 1 .. GetLen
<1>1. 0 .. GetLen + 1 \subseteq Numbers /\ 0 .. BodyLen \subseteq Numbers
  BY NetAssumption DEF Numbers
<1>2. \A a \in Numbers, n \in Numbers : Plus(a, n) \in Numbers
  BY PlusValue DEF Numbers
<1>3. \A p : FirstLen(p) \in 1 .. GetLen
  BY NetAssumption DEF FirstLen
<1>4. 0 \in Numbers /\ ServerIss \in Numbers /\ ClientIss \subseteq Numbers
  BY NetAssumption DEF Numbers
<1>5. QED
  BY <1>1, <1>2, <1>3, <1>4

\* A step that leaves the connections alone and forgets nothing that was sent
\* leaves the segments as they should be.
LEMMA OldSegments ==
    ASSUME NetInv, NEW m \in net, UNCHANGED <<conn, iss, plan>>,
           \A c \in Clients : sent'[c] \in Nat /\ sent'[c] >= sent[c]
    PROVE  AskedOK(m)' /\ AnsweredOK(m)'
<1>1. AskedOK(m) /\ AnsweredOK(m) /\ \A c \in Clients : sent[c] \in Nat
  BY NetAssumption DEF NetInv, NetTypeOK
<1>2. AskedOK(m)'
  <2>1. CASE m.dir = "in"
    <3>1. m.client \in Clients /\ m.len \in Nat
      BY <1>1, <2>1 DEF AskedOK
    <3>2. m.len <= sent[m.client] => m.len <= sent'[m.client]
      BY <1>1, <3>1
    <3>3. QED
      BY <1>1, <3>1, <3>2 DEF AskedOK
  <2>2. QED
    BY <2>1 DEF AskedOK
<1>3. AnsweredOK(m)'
  <2>1. CASE m.dir = "out"
    <3>1. m.client \in Clients /\ FirstLen(plan[m.client]) \in Nat
      BY <1>1, <2>1, Ranges DEF AnsweredOK
    <3>2. FirstLen(plan[m.client]) <= sent[m.client]
             => FirstLen(plan[m.client]) <= sent'[m.client]
      BY <1>1, <3>1
    <3>3. QED
      BY <1>1, <3>1, <3>2 DEF AnsweredOK
  <2>2. QED
    BY <2>1 DEF AnsweredOK
<1>4. QED
  BY <1>2, <1>3

\* What a segment of the request is.
LEMMA SegmentShape ==
    ASSUME NEW p, NEW s \in Segments(p)
    PROVE  /\ s.off \in 0 .. GetLen /\ s.len \in 0 .. GetLen /\ s.off + s.len \in 0 .. GetLen
           /\ s.get => s.off = 0 /\ s.len = FirstLen(p)
<1>1. CASE p = "whole"
  BY <1>1, NetAssumption DEF Segments, FirstLen
<1>2. CASE p # "whole"
  BY <1>2, NetAssumption DEF Segments, FirstLen
<1>3. QED
  BY <1>1, <1>2

\* The server's answer to a SYN, and to a request.
LEMMA AnswerOK ==
    ASSUME NetInv, NEW m \in net, HandleSyn(m) \/ HandleGet(m)
    PROVE  NetInv'
<1>1. UNCHANGED clientVars
  BY DEF HandleSyn, HandleGet
<1>2. AskedOK(m) /\ m.dir = "in"
  BY DEF NetInv, HandleSyn, HandleGet
<1>3. m.client \in Clients /\ m.conn \in Nat \ {0} /\ m.conn <= conn[m.client]
  BY <1>2 DEF AskedOK
<1>4. m.seq \in Numbers /\ m.ack \in Numbers /\ m.len \in 0 .. GetLen
  BY <1>2 DEF AskedOK
<1>5. NetTypeOK'
  BY <1>1 DEF NetInv, NetTypeOK, clientVars
<1>6. iss[m.client] \in Numbers
  BY <1>3, Ranges DEF NetInv, NetTypeOK
<1>7. ASSUME NEW f, f.dir = "out", f.client = m.client, f.conn = m.conn,
             f.seq \in Numbers, f.ack \in Numbers, f.len \in 0 .. BodyLen,
             m.conn = conn[m.client] /\ f.syn => f.ack = Plus(iss[m.client], 1),
             m.conn = conn[m.client] /\ ~f.syn =>
                 /\ f.ack = Plus(iss[m.client], 1 + FirstLen(plan[m.client]))
                 /\ FirstLen(plan[m.client]) <= sent[m.client],
             net' = net \cup {f}
      PROVE  NetInv'
  <2>1. AskedOK(f)'
    BY <1>7 DEF AskedOK
  <2>2. AnsweredOK(f)'
    BY <1>1, <1>3, <1>7 DEF AnsweredOK, clientVars
  <2>3. \A c \in Clients : sent'[c] \in Nat /\ sent'[c] >= sent[c]
    BY <1>1 DEF NetInv, NetTypeOK, clientVars
  <2>4. ASSUME NEW o \in net PROVE AskedOK(o)' /\ AnsweredOK(o)'
    BY <1>1, <2>3, OldSegments DEF clientVars
  <2>5. QED
    BY <1>5, <1>7, <2>1, <2>2, <2>4 DEF NetInv
<1>8. CASE HandleSyn(m)
  <2> DEFINE f == Frame(m, ServerIss, Plus(m.seq, 1), TRUE, 0)
  <2>1. /\ f.dir = "out" /\ f.client = m.client /\ f.conn = m.conn
        /\ f.seq = ServerIss /\ f.ack = Plus(m.seq, 1) /\ f.syn /\ f.len = 0
    BY DEF Frame
  <2>2. net' = net \cup {f} /\ m.syn
    BY <1>8 DEF HandleSyn
  <2>3. m.conn = conn[m.client] => m.seq = iss[m.client]
    BY <1>2, <2>2 DEF AskedOK
  <2>4. Plus(m.seq, 1) \in Numbers /\ ServerIss \in Numbers /\ 0 \in 0 .. BodyLen
    <3>1. 1 \in 0 .. GetLen + 1 /\ 0 \in 0 .. BodyLen
      BY NetAssumption
    <3>2. QED
      BY <1>4, <3>1, Ranges
  <2>5. f.ack \in Numbers /\ f.seq \in Numbers /\ f.len \in 0 .. BodyLen
    BY <2>1, <2>4
  <2>6. m.conn = conn[m.client] /\ f.syn => f.ack = Plus(iss[m.client], 1)
    BY <2>1, <2>3
  <2> HIDE DEF f
  <2>7. QED
    BY <1>7, <2>1, <2>2, <2>5, <2>6, Zenon
<1>9. CASE HandleGet(m)
  <2> DEFINE f == Frame(m, m.ack, Plus(m.seq, m.len), FALSE, BodyLen)
  <2>1. /\ f.dir = "out" /\ f.client = m.client /\ f.conn = m.conn
        /\ f.seq = m.ack /\ f.ack = Plus(m.seq, m.len) /\ ~f.syn /\ f.len = BodyLen
    BY DEF Frame
  <2>2. net' = net \cup {f} /\ ~m.syn /\ m.get
    BY <1>9 DEF HandleGet
  <2>3. Plus(m.seq, m.len) \in Numbers /\ BodyLen \in 0 .. BodyLen
    <3>1. m.len \in 0 .. GetLen + 1 /\ BodyLen \in 0 .. BodyLen
      BY <1>4, NetAssumption
    <3>2. QED
      BY <1>4, <3>1, Ranges
  <2>4. ASSUME m.conn = conn[m.client]
        PROVE  /\ f.ack = Plus(iss[m.client], 1 + FirstLen(plan[m.client]))
               /\ FirstLen(plan[m.client]) <= sent[m.client]
    <3>1. /\ m.seq = Plus(iss[m.client], 1) /\ m.len = FirstLen(plan[m.client])
          /\ m.len <= sent[m.client]
      BY <1>2, <2>2, <2>4 DEF AskedOK
    <3>2. Plus(Plus(iss[m.client], 1), m.len) = Plus(iss[m.client], 1 + m.len)
      BY <1>4, <1>6, PlusPlus, NetAssumption DEF Numbers
    <3>3. QED
      BY <2>1, <3>1, <3>2
  <2> HIDE DEF f
  <2>5. QED
    BY <1>4, <1>7, <2>1, <2>2, <2>3, <2>4
<1>10. QED
  BY <1>8, <1>9

\* A client's segments, first sent or repeated.
LEMMA AskOK ==
    ASSUME NetInv, NEW c \in Clients, Request(c)
    PROVE  NetInv'
<1>0. NetTypeOK /\ iss[c] \in Numbers /\ conn[c] \in Nat \ {0} /\ rcvNxt[c] \in Numbers
  BY Ranges DEF NetInv, NetTypeOK
<1>1. ASSUME NEW f, f.dir = "in", net' = net \cup {f}, AskedOK(f)', NetTypeOK',
             UNCHANGED <<conn, iss, plan>>,
             \A d \in Clients : sent'[d] \in Nat /\ sent'[d] >= sent[d]
      PROVE  NetInv'
  <2>1. AnsweredOK(f)'
    BY <1>1 DEF AnsweredOK
  <2>2. ASSUME NEW o \in net PROVE AskedOK(o)' /\ AnsweredOK(o)'
    BY <1>1, OldSegments
  <2>3. QED
    BY <1>1, <2>1, <2>2 DEF NetInv
<1>2. CASE Connect(c)
  <2>0. PICK f : f = [dir |-> "in", client |-> c, seq |-> iss[c], ack |-> 0,
                   syn |-> TRUE, psh |-> FALSE, get |-> FALSE, len |-> 0, conn |-> conn[c]]
    OBVIOUS
  <2>1. /\ f.dir = "in" /\ f.client = c /\ f.conn = conn[c]
        /\ f.seq = iss[c] /\ f.ack = 0 /\ f.syn /\ f.len = 0
    BY <2>0
  <2>2. net' = net \cup {f} /\ state' = [state EXCEPT ![c] = "synSent"]
    BY <1>2, <2>0 DEF Connect
  <2>3. UNCHANGED <<conn, iss, plan, sent, acked, rcvNxt, got>>
    BY <1>2 DEF Connect
  <2>4. NetTypeOK'
    BY <1>0, <2>2, <2>3 DEF NetTypeOK
  <2>5. 0 \in Numbers /\ 0 \in 0 .. GetLen /\ conn[c] <= conn[c]
    BY <1>0, Ranges, NetAssumption
  <2>6. AskedOK(f)'
    BY <1>0, <2>1, <2>3, <2>5 DEF AskedOK
  <2>7. \A d \in Clients : sent'[d] \in Nat /\ sent'[d] >= sent[d]
    BY <1>0, <2>3 DEF NetTypeOK
  <2>8. QED
    BY <1>1, <2>1, <2>2, <2>3, <2>4, <2>6, <2>7
<1>3. ASSUME NEW s \in Segments(plan[c]), SendRequest(c, s) PROVE NetInv'
  <2>0. PICK f : f = [dir |-> "in", client |-> c, seq |-> Plus(iss[c], 1 + s.off),
                   ack |-> rcvNxt[c], syn |-> FALSE, psh |-> s.psh, get |-> s.get,
                   len |-> s.len, conn |-> conn[c]]
    OBVIOUS
  <2>1. /\ f.dir = "in" /\ f.client = c /\ f.conn = conn[c]
        /\ f.seq = Plus(iss[c], 1 + s.off) /\ f.ack = rcvNxt[c] /\ ~f.syn
        /\ f.get = s.get /\ f.len = s.len
    BY <2>0
  <2>2. net' = net \cup {f}
    BY <1>3, <2>0 DEF SendRequest
  <2>3. UNCHANGED <<state, conn, iss, plan, acked, rcvNxt, got>>
    BY <1>3 DEF SendRequest
  <2>4. sent' = [sent EXCEPT ![c] = IF s.off + s.len > @ THEN s.off + s.len ELSE @]
    BY <1>3 DEF SendRequest
  <2>5. /\ s.off \in 0 .. GetLen /\ s.len \in 0 .. GetLen /\ s.off + s.len \in 0 .. GetLen
        /\ s.get => s.off = 0 /\ s.len = FirstLen(plan[c])
    BY SegmentShape
  <2>6. sent \in [Clients -> 0 .. GetLen] /\ sent[c] \in Nat
    BY <1>0 DEF NetTypeOK
  <2>7. /\ sent' \in [Clients -> 0 .. GetLen]
        /\ sent'[c] = IF s.off + s.len > sent[c] THEN s.off + s.len ELSE sent[c]
        /\ \A d \in Clients : d # c => sent'[d] = sent[d]
    BY <2>4, <2>5, <2>6
  <2>8. sent'[c] >= sent[c] /\ sent'[c] >= s.off + s.len
    BY <2>5, <2>6, <2>7
  <2>9. \A d \in Clients : sent'[d] \in Nat /\ sent'[d] >= sent[d]
    BY <2>6, <2>7, <2>8
  <2>10. NetTypeOK'
    BY <1>0, <2>3, <2>7 DEF NetTypeOK
  <2>11. 1 + s.off \in 0 .. GetLen + 1 /\ conn[c] <= conn[c] /\ s.len <= s.off + s.len
    BY <1>0, <2>5, NetAssumption
  <2>12. Plus(iss[c], 1 + s.off) \in Numbers
    BY <1>0, <2>11, Ranges
  <2>13. s.get => 1 + s.off = 1 /\ s.len <= sent'[c]
    BY <2>5, <2>7, <2>8
  <2>14. /\ f.client \in Clients /\ f.conn \in Nat \ {0} /\ f.conn <= conn'[f.client]
         /\ f.seq \in Numbers /\ f.ack \in Numbers /\ f.len \in 0 .. GetLen
    BY <1>0, <2>1, <2>3, <2>5, <2>11, <2>12
  <2>15. f.get => /\ f.seq = Plus(iss'[f.client], 1)
                  /\ f.len = FirstLen(plan'[f.client]) /\ f.len <= sent'[f.client]
    BY <2>1, <2>3, <2>5, <2>13
  <2>16. AskedOK(f)'
    BY <2>1, <2>14, <2>15 DEF AskedOK
  <2>17. QED
    BY <1>1, <2>1, <2>2, <2>3, <2>9, <2>10, <2>16
<1>4. QED
  BY <1>2, <1>3 DEF Request

\* What a client receives changes nothing that was sent.
LEMMA ReceiveOK ==
    ASSUME NetInv, NEW c \in Clients, Receive(c)
    PROVE  NetInv'
<1>1. PICK m \in net : RecvSynAck(c, m) \/ RecvData(c, m)
  BY DEF Receive
<1>2. NetTypeOK /\ AnsweredOK(m) /\ m.dir = "out" /\ m.client = c
  BY <1>1 DEF NetInv, RecvSynAck, RecvData, Reaches
<1>3. m.seq \in Numbers /\ m.len \in 0 .. BodyLen /\ m.ack \in Numbers /\ m.conn \in Nat
  BY <1>2 DEF AnsweredOK
<1>4. UNCHANGED <<net, conn, iss, plan, sent>>
  BY <1>1 DEF RecvSynAck, RecvData
<1>5. 1 \in 0 .. GetLen + 1
  BY NetAssumption
<1>6. Plus(m.seq, m.len) \in Numbers /\ Plus(m.seq, 1) \in Numbers
  BY <1>3, <1>5, Ranges
<1>7. NetTypeOK'
  <2>1. CASE RecvSynAck(c, m)
    BY <1>2, <1>4, <1>6, <2>1 DEF RecvSynAck, NetTypeOK
  <2>2. CASE RecvData(c, m)
    <3>1. /\ rcvNxt' = [rcvNxt EXCEPT ![c] = Plus(m.seq, m.len)]
          /\ state' = [state EXCEPT ![c] = "done"]
      BY <2>2 DEF RecvData
    <3>2. /\ acked' = [acked EXCEPT ![c] = IF Covers(c, m) > @ THEN Covers(c, m) ELSE @]
          /\ Covers(c, m) <= sent[c]
      BY <2>2 DEF RecvData
    <3>3. got' = [got EXCEPT ![c] = Append(@, <<m.conn, conn[c]>>)]
      BY <2>2 DEF RecvData
    <3>4. Covers(c, m) \in Nat
      <4>1. iss[c] \in Numbers
        BY <1>2, Ranges DEF NetTypeOK
      <4>2. Plus(iss[c], 1) \in Numbers
        BY <1>5, <4>1, Ranges
      <4>3. QED
        BY <1>3, <4>2, MinusValue DEF Covers, Numbers
    <3>5. sent[c] \in 0 .. GetLen /\ acked \in [Clients -> 0 .. GetLen]
      BY <1>2 DEF NetTypeOK
    <3>6. Covers(c, m) \in 0 .. GetLen
      BY <3>2, <3>4, <3>5, NetAssumption
    <3>7. acked' \in [Clients -> 0 .. GetLen]
      BY <3>2, <3>5, <3>6
    <3>8. conn[c] \in Nat /\ got \in [Clients -> Seq(Nat \X Nat)]
      BY <1>2 DEF NetTypeOK
    <3>9. got' \in [Clients -> Seq(Nat \X Nat)]
      <4>1. <<m.conn, conn[c]>> \in Nat \X Nat
        BY <1>3, <3>8
      <4>2. Append(got[c], <<m.conn, conn[c]>>) \in Seq(Nat \X Nat)
        BY <3>8, <4>1
      <4>3. QED
        BY <3>3, <3>8, <4>2
    <3>10. QED
      BY <1>2, <1>4, <1>6, <3>1, <3>7, <3>9 DEF NetTypeOK
  <2>3. QED
    BY <1>1, <2>1, <2>2
<1>8. \A d \in Clients : sent'[d] \in Nat /\ sent'[d] >= sent[d]
  BY <1>2, <1>4 DEF NetTypeOK
<1>9. QED
  BY <1>4, <1>7, <1>8, OldSegments DEF NetInv

\* A client that opens its next connection leaves all its segments in an old one.
LEMMA ReconnectOK ==
    ASSUME NetInv, NEW c \in Clients, NEW n \in ClientIss, Reconnect(c, n)
    PROVE  NetInv'
<1>1. /\ state' = [state EXCEPT ![c] = "closed"]
      /\ iss' = [iss EXCEPT ![c] = n] /\ UNCHANGED <<net, plan, rcvNxt, got>>
  BY DEF Reconnect
<1>2. conn' = [conn EXCEPT ![c] = @ + 1]
  BY DEF Reconnect
<1>3. sent' = [sent EXCEPT ![c] = 0] /\ acked' = [acked EXCEPT ![c] = 0]
  BY DEF Reconnect
<1>4. NetTypeOK
  BY DEF NetInv
<1>5. 0 \in 0 .. GetLen /\ conn[c] + 1 \in Nat \ {0}
  BY <1>4, NetAssumption DEF NetTypeOK
<1>6. NetTypeOK'
  BY <1>1, <1>2, <1>3, <1>4, <1>5 DEF NetTypeOK
<1>7. ASSUME NEW m \in net PROVE AskedOK(m)' /\ AnsweredOK(m)'
  <2>1. AskedOK(m) /\ AnsweredOK(m)
    BY DEF NetInv
  <2>2. CASE m.dir \in {"in", "out"} /\ m.client = c
    <3>1. m.client \in Clients /\ m.conn \in Nat \ {0} /\ m.conn <= conn[m.client]
      BY <2>1, <2>2 DEF AskedOK, AnsweredOK
    <3>2. conn'[c] = conn[c] + 1 /\ conn[c] \in Nat
      BY <1>2, <1>4 DEF NetTypeOK
    <3>3. m.conn <= conn'[m.client] /\ m.conn # conn'[m.client]
      BY <2>2, <3>1, <3>2
    <3>4. QED
      BY <2>1, <3>1, <3>3 DEF AskedOK, AnsweredOK
  <2>3. CASE m.dir \in {"in", "out"} /\ m.client # c
    <3>1. m.client \in Clients
      BY <2>1, <2>3 DEF AskedOK, AnsweredOK
    <3>2. /\ conn'[m.client] = conn[m.client] /\ iss'[m.client] = iss[m.client]
          /\ sent'[m.client] = sent[m.client] /\ plan'[m.client] = plan[m.client]
      BY <1>1, <1>2, <1>3, <1>4, <2>3, <3>1 DEF NetTypeOK
    <3>3. QED
      BY <2>1, <3>1, <3>2 DEF AskedOK, AnsweredOK
  <2>4. QED
    BY <2>2, <2>3 DEF AskedOK, AnsweredOK
<1>8. QED
  BY <1>1, <1>6, <1>7 DEF NetInv

\* Steps that leave the clients and the network alone.
LEMMA NetIdle ==
    ASSUME NetInv, UNCHANGED <<net, clientVars>>
    PROVE  NetInv'
<1>1. NetTypeOK'
  BY DEF NetInv, NetTypeOK, clientVars
<1>2. \A d \in Clients : sent'[d] \in Nat /\ sent'[d] >= sent[d]
  BY DEF NetInv, NetTypeOK, clientVars
<1>3. \A m \in net : AskedOK(m)' /\ AnsweredOK(m)'
  BY <1>2, OldSegments DEF clientVars
<1>4. QED
  BY <1>1, <1>3 DEF NetInv

\* Every segment in the network, however old, is one a client sent or one the server
\* computed from it, with the numbers of its connection.
THEOREM SegmentsCorrect == Spec => []NetInv
<1>1. Init => NetInv
  <2> SUFFICES ASSUME Init PROVE NetInv
    OBVIOUS
  <2>1. 0 \in 0 .. GetLen /\ 0 \in Numbers /\ 1 \in Nat \ {0}
    BY NetAssumption DEF Numbers
  <2>2. got = [c \in Clients |-> <<>>] /\ <<>> \in Seq(Nat \X Nat)
    BY DEF Init
  <2>3. NetTypeOK
    BY <2>1, <2>2 DEF Init, NetTypeOK
  <2>4. QED
    BY <2>3 DEF Init, NetInv
<1>2. NetInv /\ [Next]_vars => NetInv'
  <2> SUFFICES ASSUME NetInv, [Next]_vars PROVE NetInv'
    OBVIOUS
  <2>1. CASE UNCHANGED vars
    BY <2>1, NetIdle DEF vars
  <2>2. ASSUME NEW ip, NEW mac, HandleOtherArp(ip, mac) PROVE NetInv'
    BY <2>2, NetIdle DEF HandleOtherArp
  <2>3. ASSUME NEW c \in Clients, ArpFrom(c) PROVE NetInv'
    BY <2>3, NetIdle DEF ArpFrom, HandleArp
  <2>4. ASSUME NEW c \in Clients, Serve(c) PROVE NetInv'
    BY <2>4, AnswerOK DEF Serve
  <2>5. QED
    BY <2>1, <2>2, <2>3, <2>4, AskOK, ReceiveOK, ReconnectOK DEF Next
<1>3. QED
  BY <1>1, <1>2, PTL DEF Spec

\* The server, which keeps no connection state, never acknowledges bytes the client
\* has not sent in the connection.
THEOREM AcksAreWithin == Spec => []AckWithinSent
<1>1. NetInv => AckWithinSent
  <2> SUFFICES ASSUME NetInv, NEW m \in net, m.dir = "out", m.conn = conn[m.client]
               PROVE  Covers(m.client, m) <= sent[m.client]
    BY DEF AckWithinSent
  <2>1. AnsweredOK(m)
    BY DEF NetInv
  <2>2. m.client \in Clients
    BY <2>1 DEF AnsweredOK
  <2>3. iss[m.client] \in 0 .. SeqMod - 1 /\ sent[m.client] \in Nat
    <3>1. iss[m.client] \in ClientIss /\ sent[m.client] \in 0 .. GetLen
      BY <2>2 DEF NetInv, NetTypeOK
    <3>2. iss[m.client] \in Numbers
      BY <3>1, Ranges
    <3>3. sent[m.client] \in Nat
      BY <3>1, NetAssumption
    <3>4. QED
      BY <3>2, <3>3 DEF Numbers
  <2>4. CASE m.syn
    <3>1. m.ack = Plus(iss[m.client], 1)
      BY <2>1, <2>4 DEF AnsweredOK
    <3>2. 0 \in 0 .. GetLen /\ 1 + 0 = 1
      BY NetAssumption
    <3>3. Minus(Plus(iss[m.client], 1 + 0), Plus(iss[m.client], 1)) = 0
      BY <2>3, <3>2, CoversValue
    <3>4. Covers(m.client, m) = 0
      BY <3>1, <3>2, <3>3 DEF Covers
    <3>5. QED
      BY <2>3, <3>4
  <2>5. CASE ~m.syn
    <3> DEFINE k == FirstLen(plan[m.client])
    <3>1. m.ack = Plus(iss[m.client], 1 + k) /\ k <= sent[m.client]
      BY <2>1, <2>5 DEF AnsweredOK
    <3>2. k \in 1 .. GetLen
      BY Ranges
    <3> HIDE DEF k
    <3>3. k \in 0 .. GetLen
      BY <3>2
    <3>4. Minus(Plus(iss[m.client], 1 + k), Plus(iss[m.client], 1)) = k
      BY <2>3, <3>3, CoversValue
    <3>5. QED
      BY <3>1, <3>4 DEF Covers
  <2>6. QED
    BY <2>4, <2>5
<1>2. QED
  BY <1>1, SegmentsCorrect, PTL

-----------------------------------------------------------------------------
(* Pages.                                                                   *)

\* Segments stay what they are when the network grows.
LEMMA OldFresh ==
    ASSUME PageInv, NEW m \in net, net \subseteq net'
    PROVE  FreshAsked(m)' /\ FreshAnswered(m)'
<1>1. FreshAsked(m) /\ FreshAnswered(m)
  BY DEF PageInv
<1>2. FreshAsked(m)'
  BY <1>1 DEF FreshAsked, SynOf
<1>3. FreshAnswered(m)'
  BY <1>1 DEF FreshAnswered, SynOf
<1>4. QED
  BY <1>2, <1>3

\* A client that is not touched stays where it is, unless it sends a SYN.
LEMMA OldClient ==
    ASSUME PageInv, NEW c \in Clients, net \subseteq net',
           \A o \in net' : o \in net \/ ~(o.dir = "in" /\ o.syn /\ o.client = c /\ o.conn # conn[c]),
           state'[c] = state[c], conn'[c] = conn[c], iss'[c] = iss[c],
           plan'[c] = plan[c], acked'[c] = acked[c], rcvNxt'[c] = rcvNxt[c],
           got'[c] = got[c]
    PROVE  SynKept(c)' /\ Progress(c)'
<1>1. SynKept(c) /\ Progress(c)
  BY DEF PageInv
<1>2. SynKept(c)'
  BY <1>1 DEF SynKept, SynOf, Apart
<1>3. Progress(c)'
  BY <1>1 DEF Progress
<1>4. QED
  BY <1>2, <1>3

\* An answer takes its numbers from the segment it answers.
LEMMA AnswerFresh ==
    ASSUME NetInv, PageInv, NEW m \in net, HandleSyn(m) \/ HandleGet(m)
    PROVE  PageInv'
<1>1. UNCHANGED clientVars /\ m.dir = "in" /\ FreshAsked(m) /\ AskedOK(m)
  BY DEF HandleSyn, HandleGet, PageInv, NetInv
<1>2. ASSUME NEW f, f.dir = "out", net' = net \cup {f}, FreshAnswered(f)' PROVE PageInv'
  <2>1. FreshAsked(f)'
    BY <1>2 DEF FreshAsked
  <2>2. \A o \in net : FreshAsked(o)' /\ FreshAnswered(o)'
    BY <1>2, OldFresh
  <2>3. ASSUME NEW c \in Clients PROVE SynKept(c)' /\ Progress(c)'
    <3>1. \A o \in net' : o \in net \/ ~(o.dir = "in" /\ o.syn /\ o.client = c /\ o.conn # conn[c])
      BY <1>2
    <3>2. net \subseteq net'
      BY <1>2
    <3>3. QED
      BY <1>1, <3>1, <3>2, OldClient DEF clientVars
  <2>4. QED
    BY <1>2, <2>1, <2>2, <2>3 DEF PageInv
<1>3. CASE HandleSyn(m)
  <2>0. PICK f : f = Frame(m, ServerIss, Plus(m.seq, 1), TRUE, 0)
    OBVIOUS
  <2>1. f.dir = "out" /\ f.seq = ServerIss /\ f.syn
    BY <2>0 DEF Frame
  <2>2. net' = net \cup {f}
    BY <1>3, <2>0 DEF HandleSyn
  <2>3. FreshAnswered(f)'
    BY <2>1 DEF FreshAnswered
  <2>4. QED
    BY <1>2, <2>1, <2>2, <2>3
<1>4. CASE HandleGet(m)
  <2>0. PICK f : f = Frame(m, m.ack, Plus(m.seq, m.len), FALSE, BodyLen)
    OBVIOUS
  <2>1. /\ f.dir = "out" /\ f.client = m.client /\ f.conn = m.conn
        /\ f.seq = m.ack /\ f.ack = Plus(m.seq, m.len) /\ ~f.syn /\ f.len = BodyLen
    BY <2>0 DEF Frame
  <2>2. net' = net \cup {f} /\ ~m.syn /\ m.get
    BY <1>4, <2>0 DEF HandleGet
  <2>3. PICK o \in net : SynOf(o, m.client, m.conn) /\ m.seq = Plus(o.seq, 1)
    BY <1>1, <2>2 DEF FreshAsked
  <2>4. m.ack = Plus(ServerIss, 1)
    BY <1>1, <2>2 DEF FreshAsked
  <2>5. o.seq \in 0 .. SeqMod - 1
    <3>1. AskedOK(o)
      BY DEF NetInv
    <3>2. QED
      BY <2>3, <3>1 DEF AskedOK, SynOf, Numbers
  <2>6. m.len \in 0 .. GetLen
    BY <1>1 DEF AskedOK
  <2>7. Plus(Plus(o.seq, 1), m.len) = Plus(o.seq, 1 + m.len)
    BY <2>5, <2>6, PlusPlus, NetAssumption
  <2>8. SynOf(o, f.client, f.conn) /\ f.ack = Plus(o.seq, 1 + m.len) /\ o \in net'
    BY <2>1, <2>2, <2>3, <2>7
  <2>9. FreshAnswered(f)'
    BY <2>1, <2>4, <2>6, <2>8 DEF FreshAnswered, SynOf
  <2>10. QED
    BY <1>2, <2>1, <2>2, <2>9
<1>5. QED
  BY <1>3, <1>4

\* A request is only sent, or repeated, before its response has come.
LEMMA AskFresh ==
    ASSUME NetInv, PageInv, NEW c \in Clients, Request(c)
    PROVE  PageInv'
<1>0. NetTypeOK /\ SynKept(c) /\ Progress(c)
  BY DEF NetInv, PageInv
<1>1. ASSUME NEW f, f.dir = "in", f.client = c, f.conn = conn[c], net' = net \cup {f},
             FreshAsked(f)', SynKept(c)', Progress(c)',
             UNCHANGED <<conn, iss, plan, acked, rcvNxt, got>>,
             \A d \in Clients : d # c => state'[d] = state[d]
      PROVE  PageInv'
  <2>1. FreshAnswered(f)'
    BY <1>1 DEF FreshAnswered
  <2>2. \A o \in net : FreshAsked(o)' /\ FreshAnswered(o)'
    BY <1>1, OldFresh
  <2>3. ASSUME NEW d \in Clients, d # c PROVE SynKept(d)' /\ Progress(d)'
    <3>1. \A o \in net' : o \in net \/ ~(o.dir = "in" /\ o.syn /\ o.client = d /\ o.conn # conn[d])
      BY <1>1, <2>3
    <3>2. net \subseteq net' /\ state'[d] = state[d]
      BY <1>1, <2>3
    <3>3. QED
      BY <1>1, <3>1, <3>2, OldClient
  <2>4. QED
    BY <1>1, <2>1, <2>2, <2>3 DEF PageInv
<1>2. CASE Connect(c)
  <2>0. PICK f : f = [dir |-> "in", client |-> c, seq |-> iss[c], ack |-> 0,
                   syn |-> TRUE, psh |-> FALSE, get |-> FALSE, len |-> 0, conn |-> conn[c]]
    OBVIOUS
  <2>1. f.dir = "in" /\ f.client = c /\ f.conn = conn[c] /\ f.seq = iss[c] /\ f.syn
    BY <2>0
  <2>2. net' = net \cup {f} /\ state[c] = "closed"
    BY <1>2, <2>0 DEF Connect
  <2>3. UNCHANGED <<conn, iss, plan, acked, rcvNxt, got>>
    BY <1>2 DEF Connect
  <2>4. state'[c] = "synSent" /\ \A d \in Clients : d # c => state'[d] = state[d]
    BY <1>0, <1>2 DEF Connect, NetTypeOK
  <2>5. FreshAsked(f)'
    BY <2>1 DEF FreshAsked
  <2>6. SynKept(c)'
    BY <1>0, <2>1, <2>2, <2>3 DEF SynKept, SynOf, Apart
  <2>7. Progress(c)'
    BY <1>0, <2>2, <2>3, <2>4 DEF Progress
  <2>8. QED
    BY <2>4, <2>5, <2>6, <2>7, <1>1, <2>1, <2>2, <2>3
<1>3. ASSUME NEW s \in Segments(plan[c]), SendRequest(c, s) PROVE PageInv'
  <2>0. PICK f : f = [dir |-> "in", client |-> c, seq |-> Plus(iss[c], 1 + s.off),
                   ack |-> rcvNxt[c], syn |-> FALSE, psh |-> s.psh, get |-> s.get,
                   len |-> s.len, conn |-> conn[c]]
    OBVIOUS
  <2>1. /\ f.dir = "in" /\ f.client = c /\ f.conn = conn[c]
        /\ f.seq = Plus(iss[c], 1 + s.off) /\ f.ack = rcvNxt[c] /\ ~f.syn
        /\ f.get = s.get
    BY <2>0
  <2>2. net' = net \cup {f}
    BY <1>3, <2>0 DEF SendRequest
  <2>3. UNCHANGED <<state, conn, iss, plan, acked, rcvNxt, got>>
    BY <1>3 DEF SendRequest
  <2>4. state[c] \in {"established", "done"}
    BY <1>3 DEF SendRequest
  <2>5. acked[c] < s.off + s.len
    BY <1>3 DEF SendRequest
  <2>6. /\ s.off \in 0 .. GetLen /\ s.len \in 0 .. GetLen
        /\ s.get => s.off = 0 /\ s.len = FirstLen(plan[c])
    BY SegmentShape
  <2>7. s.get => state[c] = "established"
    <3>1. acked[c] \in Nat /\ FirstLen(plan[c]) \in Nat
      BY <1>0, Ranges, NetAssumption DEF NetTypeOK
    <3>2. state[c] = "done" => acked[c] >= FirstLen(plan[c])
      BY <1>0 DEF Progress
    <3>3. s.get => acked[c] < FirstLen(plan[c])
      BY <2>5, <2>6
    <3>4. QED
      BY <2>4, <3>1, <3>2, <3>3
  <2>8. PICK o \in net : SynOf(o, c, conn[c]) /\ o.seq = iss[c]
    BY <1>0, <2>4 DEF SynKept
  <2>9. s.get => f.ack = Plus(ServerIss, 1) /\ f.seq = Plus(o.seq, 1)
    <3>1. s.get => 1 + s.off = 1
      BY <2>6
    <3>2. s.get => rcvNxt[c] = Plus(ServerIss, 1)
      BY <1>0, <2>7 DEF Progress
    <3>3. QED
      BY <2>1, <2>8, <3>1, <3>2
  <2>10. FreshAsked(f)'
    BY <2>1, <2>2, <2>8, <2>9 DEF FreshAsked, SynOf
  <2>11. net \subseteq net'
    BY <2>2
  <2>12. \A q \in net' : q \in net \/ ~(q.dir = "in" /\ q.syn /\ q.client = c /\ q.conn # conn[c])
    BY <2>1, <2>2
  <2>13. SynKept(c)' /\ Progress(c)'
    BY <2>3, <2>11, <2>12, OldClient
  <2>14. QED
    BY <1>1, <2>1, <2>2, <2>3, <2>10, <2>13
<1>4. QED
  BY <1>2, <1>3 DEF Request

\* What a client accepts: the SYN-ACK, then one response, that of its present
\* connection.
LEMMA ReceiveFresh ==
    ASSUME NetInv, PageInv, NEW c \in Clients, Receive(c)
    PROVE  PageInv'
<1>1. PICK m \in net : RecvSynAck(c, m) \/ RecvData(c, m)
  BY DEF Receive
<1>2. NetTypeOK /\ AnsweredOK(m) /\ FreshAnswered(m) /\ m.dir = "out" /\ m.client = c
  BY <1>1 DEF NetInv, PageInv, RecvSynAck, RecvData, Reaches
<1>3. UNCHANGED <<net, conn, iss, plan, sent>>
  BY <1>1 DEF RecvSynAck, RecvData
<1>4. SynKept(c) /\ Progress(c)
  BY DEF PageInv
<1>5. state[c] # "closed"
  BY <1>1 DEF RecvSynAck, RecvData
<1>6. SynKept(c)'
  BY <1>3, <1>4, <1>5 DEF SynKept, SynOf, Apart
<1>7. ASSUME Progress(c)',
             \A d \in Clients : d # c => /\ state'[d] = state[d] /\ acked'[d] = acked[d]
                                        /\ rcvNxt'[d] = rcvNxt[d] /\ got'[d] = got[d]
      PROVE  PageInv'
  <2>1. \A o \in net : FreshAsked(o)' /\ FreshAnswered(o)'
    BY <1>3, OldFresh
  <2>2. ASSUME NEW d \in Clients, d # c PROVE SynKept(d)' /\ Progress(d)'
    BY <1>3, <1>7, <2>2, OldClient
  <2>3. QED
    BY <1>3, <1>6, <1>7, <2>1, <2>2 DEF PageInv
<1>8. CASE RecvSynAck(c, m)
  <2>1. state' = [state EXCEPT ![c] = "established"] /\ state[c] = "synSent"
    BY <1>8 DEF RecvSynAck
  <2>2. rcvNxt' = [rcvNxt EXCEPT ![c] = Plus(m.seq, 1)] /\ m.syn
    BY <1>8 DEF RecvSynAck
  <2>3. UNCHANGED <<acked, got>>
    BY <1>8 DEF RecvSynAck
  <2>4. m.seq = ServerIss
    BY <1>2, <2>2 DEF FreshAnswered
  <2>5. rcvNxt'[c] = Plus(ServerIss, 1) /\ state'[c] = "established"
    BY <1>2, <2>1, <2>2, <2>4 DEF NetTypeOK
  <2>6. Progress(c)'
    BY <1>3, <1>4, <2>1, <2>3, <2>5 DEF Progress
  <2>7. \A d \in Clients : d # c => state'[d] = state[d] /\ rcvNxt'[d] = rcvNxt[d]
    BY <1>2, <2>1, <2>2 DEF NetTypeOK
  <2>8. QED
    BY <1>7, <2>3, <2>6, <2>7
<1>9. CASE RecvData(c, m)
  <2>1. state[c] \in {"established", "done"} /\ ~m.syn
    BY <1>9 DEF RecvData
  <2>2. m.seq = rcvNxt[c]
    BY <1>9 DEF RecvData
  <2>3. Covers(c, m) <= sent[c]
    BY <1>9 DEF RecvData
  <2>4. acked' = [acked EXCEPT ![c] = IF Covers(c, m) > @ THEN Covers(c, m) ELSE @]
    BY <1>9 DEF RecvData
  <2>5. rcvNxt' = [rcvNxt EXCEPT ![c] = Plus(m.seq, m.len)]
    BY <1>9 DEF RecvData
  <2>6. got' = [got EXCEPT ![c] = Append(@, <<m.conn, conn[c]>>)]
    BY <1>9 DEF RecvData
  <2>7. state' = [state EXCEPT ![c] = "done"]
    BY <1>9 DEF RecvData
  <2>8. m.seq = Plus(ServerIss, 1) /\ m.len = BodyLen
    BY <1>2, <2>1 DEF FreshAnswered
  <2>9. PICK o \in net, k \in 0 .. GetLen : SynOf(o, c, m.conn) /\ m.ack = Plus(o.seq, 1 + k)
    BY <1>2, <2>1 DEF FreshAnswered
  <2>10. o.seq \in 0 .. SeqMod - 1
    <3>1. AskedOK(o)
      BY DEF NetInv
    <3>2. QED
      BY <2>9, <3>1 DEF AskedOK, SynOf, Numbers
  <2>11. iss[c] \in 0 .. SeqMod - 1
    BY <1>2, Ranges DEF NetTypeOK, Numbers
  <2>12. sent[c] \in 0 .. GetLen /\ acked[c] \in 0 .. GetLen
    BY <1>2 DEF NetTypeOK
  <2>13. m.conn = conn[c]
    <3> SUFFICES ASSUME m.conn # conn[c] PROVE FALSE
      OBVIOUS
    <3>1. Minus(iss[c], o.seq) > GetLen /\ Minus(o.seq, iss[c]) > GetLen
      BY <1>4, <2>9 DEF SynKept, SynOf, Apart
    <3>2. Minus(Plus(o.seq, 1 + k), Plus(iss[c], 1)) > GetLen
      BY <2>10, <2>11, <3>1, OldOutOfWindow
    <3>3. Covers(c, m) > GetLen /\ Covers(c, m) \in Nat
      <4>1. Covers(c, m) > GetLen
        BY <2>9, <3>2 DEF Covers
      <4>2. m.ack \in Numbers /\ Plus(iss[c], 1) \in Numbers
        <5>1. 1 \in 0 .. GetLen + 1
          BY NetAssumption
        <5>2. QED
          BY <1>2, <2>11, <5>1, Ranges DEF AnsweredOK, Numbers
      <4>3. QED
        BY <4>1, <4>2, MinusValue DEF Covers, Numbers
    <3>4. QED
      BY <2>3, <2>12, <3>3, NetAssumption
  <2>14. state[c] = "established"
    <3> SUFFICES ASSUME state[c] = "done" PROVE FALSE
      BY <2>1
    <3>1. rcvNxt[c] = Plus(Plus(ServerIss, 1), BodyLen)
      BY <1>4 DEF Progress
    <3> DEFINE p == Plus(ServerIss, 1)
    <3>2. p \in 0 .. SeqMod - 1 /\ BodyLen \in 0 .. SeqMod - 1
      <4>1. 1 \in 0 .. SeqMod - 1 /\ ServerIss \in 0 .. SeqMod - 1 /\ BodyLen \in 0 .. SeqMod - 1
        BY NetAssumption
      <4>2. QED
        BY <4>1, PlusValue
    <3>3. p = Plus(p, BodyLen)
      BY <2>2, <2>8, <3>1
    <3> HIDE DEF p
    <3>4. Plus(p, BodyLen) = IF p + BodyLen < SeqMod THEN p + BodyLen ELSE p + BodyLen - SeqMod
      BY <3>2, PlusValue
    <3>5. QED
      BY <3>2, <3>3, <3>4, NetAssumption
  <2>15. FirstLen(plan[c]) \in 1 .. GetLen
    BY Ranges
  <2>16. Covers(c, m) = FirstLen(plan[c])
    <3>1. m.ack = Plus(iss[c], 1 + FirstLen(plan[c]))
      BY <1>2, <2>1, <2>13 DEF AnsweredOK
    <3>2. FirstLen(plan[c]) \in 0 .. GetLen
      BY <2>15
    <3>3. Minus(Plus(iss[c], 1 + FirstLen(plan[c])), Plus(iss[c], 1)) = FirstLen(plan[c])
      BY <2>11, <3>2, CoversValue
    <3>4. QED
      BY <3>1, <3>3 DEF Covers
  <2>17. acked'[c] = IF FirstLen(plan[c]) > acked[c] THEN FirstLen(plan[c]) ELSE acked[c]
    BY <1>2, <2>4, <2>16 DEF NetTypeOK
  <2>18. acked'[c] >= FirstLen(plan[c])
    BY <2>12, <2>15, <2>17, NetAssumption
  <2>19. rcvNxt'[c] = Plus(Plus(ServerIss, 1), BodyLen) /\ state'[c] = "done"
    BY <1>2, <2>5, <2>7, <2>8 DEF NetTypeOK
  <2>20. got[c] \in Seq(Nat \X Nat) /\ conn[c] \in Nat \ {0}
    BY <1>2 DEF NetTypeOK
  <2>21. Len(got[c]) = conn[c] - 1 /\ \A i \in 1 .. Len(got[c]) : got[c][i] = <<i, i>>
    BY <1>4, <2>14 DEF Progress
  <2>22. got'[c] = Append(got[c], <<conn[c], conn[c]>>)
    BY <1>2, <2>6, <2>13 DEF NetTypeOK
  <2>23. <<conn[c], conn[c]>> \in Nat \X Nat
    BY <2>20
  <2>24. Len(got'[c]) = conn[c]
    BY <2>20, <2>21, <2>22, <2>23
  <2>25. \A i \in 1 .. conn[c] - 1 : got'[c][i] = <<i, i>>
    BY <2>20, <2>21, <2>22, <2>23
  <2>26. got'[c][conn[c]] = <<conn[c], conn[c]>>
    BY <2>20, <2>21, <2>22, <2>23
  <2>27. \A i \in 1 .. conn[c] : got'[c][i] = <<i, i>>
    BY <2>20, <2>25, <2>26
  <2>28. Progress(c)'
    BY <1>3, <2>18, <2>19, <2>24, <2>27 DEF Progress
  <2>29. \A d \in Clients : d # c => /\ state'[d] = state[d] /\ acked'[d] = acked[d]
                                     /\ rcvNxt'[d] = rcvNxt[d] /\ got'[d] = got[d]
    BY <1>2, <2>4, <2>5, <2>6, <2>7 DEF NetTypeOK
  <2>30. QED
    BY <1>7, <2>28, <2>29
<1>10. QED
  BY <1>1, <1>8, <1>9

\* The next connection: the number it starts from leaves every older SYN behind.
LEMMA ReconnectFresh ==
    ASSUME NetInv, PageInv, NEW c \in Clients, NEW n \in ClientIss, Reconnect(c, n)
    PROVE  PageInv'
<1>1. /\ state' = [state EXCEPT ![c] = "closed"] /\ state[c] = "done"
      /\ iss' = [iss EXCEPT ![c] = n] /\ UNCHANGED <<net, plan, rcvNxt, got>>
  BY DEF Reconnect
<1>2. conn' = [conn EXCEPT ![c] = @ + 1]
  BY DEF Reconnect
<1>3. acked' = [acked EXCEPT ![c] = 0]
  BY DEF Reconnect
<1>4. \A m \in net : m.dir = "in" /\ m.client = c /\ m.syn => Apart(n, m.seq)
  BY DEF Reconnect
<1>5. NetTypeOK /\ Progress(c)
  BY DEF NetInv, PageInv
<1>6. state'[c] = "closed" /\ iss'[c] = n
  BY <1>1, <1>5 DEF NetTypeOK
<1>7. conn'[c] = conn[c] + 1 /\ conn[c] \in Nat
  BY <1>2, <1>5 DEF NetTypeOK
<1>8. SynKept(c)'
  BY <1>1, <1>4, <1>6 DEF SynKept, Apart, Minus
<1>9. Progress(c)'
  <2>1. Len(got[c]) = conn[c] /\ \A i \in 1 .. Len(got[c]) : got[c][i] = <<i, i>>
    BY <1>1, <1>5 DEF Progress
  <2>2. Len(got'[c]) = conn'[c] - 1
    BY <1>1, <1>7, <2>1
  <2>3. QED
    BY <1>1, <1>6, <2>1, <2>2 DEF Progress
<1>10. ASSUME NEW d \in Clients, d # c PROVE SynKept(d)' /\ Progress(d)'
  <2>1. /\ state'[d] = state[d] /\ conn'[d] = conn[d] /\ iss'[d] = iss[d]
        /\ acked'[d] = acked[d]
    BY <1>1, <1>2, <1>3, <1>5, <1>10 DEF NetTypeOK
  <2>2. QED
    BY <1>1, <2>1, OldClient
<1>11. \A o \in net : FreshAsked(o)' /\ FreshAnswered(o)'
  BY <1>1, OldFresh
<1>12. QED
  BY <1>1, <1>8, <1>9, <1>10, <1>11 DEF PageInv

\* Steps that leave the clients and the network alone.
LEMMA PageIdle ==
    ASSUME PageInv, UNCHANGED <<net, clientVars>>
    PROVE  PageInv'
<1>1. \A o \in net : FreshAsked(o)' /\ FreshAnswered(o)'
  BY OldFresh
<1>2. \A d \in Clients : SynKept(d)' /\ Progress(d)'
  BY OldClient DEF clientVars
<1>3. QED
  BY <1>1, <1>2 DEF PageInv

\* Every client is where its present connection should be, whatever of the older
\* ones arrives late.
THEOREM PagesCorrect == Spec => []PageInv
<1>1. Init => PageInv
  <2> SUFFICES ASSUME Init PROVE PageInv
    OBVIOUS
  <2>1. net = {} /\ conn = [c \in Clients |-> 1] /\ got = [c \in Clients |-> <<>>]
    BY DEF Init
  <2>2. state = [c \in Clients |-> "closed"]
    BY DEF Init
  <2>3. ASSUME NEW c \in Clients PROVE SynKept(c) /\ Progress(c)
    <3>1. conn[c] = 1 /\ got[c] = <<>> /\ state[c] = "closed"
      BY <2>1, <2>2
    <3>2. Len(got[c]) = 0 /\ conn[c] - 1 = 0
      BY <3>1
    <3>3. \A i \in 1 .. Len(got[c]) : got[c][i] = <<i, i>>
      BY <3>2
    <3>4. QED
      BY <2>1, <3>1, <3>2, <3>3 DEF SynKept, Progress
  <2>4. QED
    BY <2>1, <2>3 DEF PageInv
<1>2. NetInv /\ PageInv /\ [Next]_vars => PageInv'
  <2> SUFFICES ASSUME NetInv, PageInv, [Next]_vars PROVE PageInv'
    OBVIOUS
  <2>1. CASE UNCHANGED vars
    BY <2>1, PageIdle DEF vars
  <2>2. ASSUME NEW ip, NEW mac, HandleOtherArp(ip, mac) PROVE PageInv'
    BY <2>2, PageIdle DEF HandleOtherArp
  <2>3. ASSUME NEW c \in Clients, ArpFrom(c) PROVE PageInv'
    BY <2>3, PageIdle DEF ArpFrom, HandleArp
  <2>4. ASSUME NEW c \in Clients, Serve(c) PROVE PageInv'
    BY <2>4, AnswerFresh DEF Serve
  <2>5. QED
    BY <2>1, <2>2, <2>3, <2>4, AskFresh, ReceiveFresh, ReconnectFresh DEF Next
<1>3. QED
  BY <1>1, <1>2, SegmentsCorrect, PTL DEF Spec

\* Every connection's page is accepted at most once and answers a request of that
\* very connection, for any number of connections.
THEOREM PagesOnce == Spec => []BodyOnce
<1>1. NetInv /\ PageInv => BodyOnce
  <2> SUFFICES ASSUME NetInv, PageInv, NEW c \in Clients, NEW i \in DOMAIN got[c]
               PROVE  got[c][i] = <<i, i>>
    BY DEF BodyOnce
  <2>1. got[c] \in Seq(Nat \X Nat) /\ Progress(c)
    BY DEF NetInv, NetTypeOK, PageInv
  <2>2. i \in 1 .. Len(got[c])
    BY <2>1
  <2>3. QED
    BY <2>1, <2>2 DEF Progress
<1>2. QED
  BY <1>1, SegmentsCorrect, PagesCorrect, PTL

\* The whole stack implements the ARP table's specification: its other handlers
\* leave the table alone.
THEOREM StackUsesTable == Spec => ArpSpec
<1>1. Init => ArpInit
  BY DEF Init
<1>2. [Next]_vars => [ArpNext]_arpVars
  <2> SUFFICES ASSUME [Next]_vars PROVE [ArpNext]_arpVars
    OBVIOUS
  <2>1. CASE UNCHANGED vars
    BY <2>1 DEF vars
  <2>2. ASSUME NEW ip \in Ips, NEW mac \in Macs, HandleOtherArp(ip, mac) PROVE ArpNext
    BY <2>2 DEF HandleOtherArp, ArpNext
  <2>3. ASSUME NEW c \in Clients, ArpFrom(c) PROVE ArpNext
    <3>1. c \in Ips /\ c \in Macs
      BY NetAssumption
    <3>2. QED
      BY <2>3, <3>1 DEF ArpFrom, HandleArp, ArpNext
  <2>4. ASSUME NEW c \in Clients, Serve(c) \/ Request(c) \/ Receive(c)
        PROVE  UNCHANGED arpVars
    BY <2>4 DEF Serve, Request, Receive, HandleSyn, HandleGet, Connect, SendRequest,
                RecvSynAck, RecvData
  <2>5. QED
    <3>1. CASE Next
      <4>1. CASE \E ip \in Ips \ Clients, mac \in Macs \ Clients : HandleOtherArp(ip, mac)
        BY <2>2, <4>1
      <4>2. CASE \E c \in Clients : ArpFrom(c)
        BY <2>3, <4>2
      <4>3. CASE \E c \in Clients, n \in ClientIss : Reconnect(c, n)
        BY <4>3 DEF Reconnect
      <4>4. CASE \E c \in Clients : Serve(c) \/ Request(c) \/ Receive(c)
        BY <2>4, <4>4
      <4>5. QED
        BY <3>1, <4>1, <4>2, <4>3, <4>4 DEF Next
    <3>2. QED
      BY <2>1, <3>1
<1>3. QED
  BY <1>1, <1>2, PTL DEF Spec, ArpSpec

\* In the whole stack, lookup() never gives an address older than the host's last
\* announcement.
THEOREM StackLookup == Spec => []NeverStale
  BY StackUsesTable, LookupCurrent, PTL

\* In the whole stack, a host once in the table is never lost from it.
THEOREM StackRemembers == Spec => NeverForgotten
  BY StackUsesTable, Remembered, PTL
=============================================================================
