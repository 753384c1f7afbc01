------------------------------ MODULE ArpCache ------------------------------
(***************************************************************************)
(* The ARP table of the network driver (e1000.rs, ArpCache): a fixed array *)
(* that poll() fills from every ARP packet it sees and the TCP code looks  *)
(* addresses up in.  Entries are never removed; when the array is full a   *)
(* new address is dropped without a word.                                  *)
(***************************************************************************)
EXTENDS Naturals

CONSTANTS Ips, Macs,
          NumEntries   \* length of the array (16 in the driver)

VARIABLES entries,     \* the array
          latest       \* history: the last address each host announced

arpVars == <<entries, latest>>

Slots == 0 .. NumEntries - 1
None == "none"         \* no address known (and the content of an unused entry)

ASSUME ArpAssumption == NumEntries \in Nat /\ None \notin Macs

\* A loop that stops at the first entry of the array satisfying its test.
First(S) == CHOOSE i \in S : \A j \in S : i <= j

Holding(ip) == {i \in Slots : entries[i].active /\ entries[i].ip = ip}
Inactive == {i \in Slots : ~entries[i].active}

\* lookup(): the address of the first active entry for ip.
lookup(ip) == IF Holding(ip) = {} THEN None ELSE entries[First(Holding(ip))].mac

\* Mutant: a known host's entry is left as it is.
insert_KeepsOld(ip, mac) ==
    entries' = IF Holding(ip) # {} THEN entries
               ELSE IF Inactive # {}
                    THEN [entries EXCEPT ![First(Inactive)] =
                             [ip |-> ip, mac |-> mac, active |-> TRUE]]
                    ELSE entries

\* Mutant: a full table starts again at its first entry.
insert_Evicts(ip, mac) ==
    entries' = IF Holding(ip) # {}
               THEN [entries EXCEPT ![First(Holding(ip))].mac = mac]
               ELSE [entries EXCEPT ![IF Inactive # {} THEN First(Inactive) ELSE 0] =
                        [ip |-> ip, mac |-> mac, active |-> TRUE]]

\* insert(): update the host's entry, else take the first inactive one, else
\* drop the address.
insert(ip, mac) ==
    entries' = IF Holding(ip) # {}
               THEN [entries EXCEPT ![First(Holding(ip))].mac = mac]
               ELSE IF Inactive # {}
                    THEN [entries EXCEPT ![First(Inactive)] =
                             [ip |-> ip, mac |-> mac, active |-> TRUE]]
                    ELSE entries

\* A const table of inactive entries.
ArpInit ==
    /\ entries = [i \in Slots |-> [ip |-> None, mac |-> None, active |-> FALSE]]
    /\ latest = [ip \in Ips |-> None]

\* poll() sees an ARP packet of host ip with hardware address mac.
HearArp(ip, mac) ==
    /\ insert(ip, mac)
    /\ latest' = [latest EXCEPT ![ip] = mac]

ArpNext == \E ip \in Ips, mac \in Macs : HearArp(ip, mac)

ArpSpec == ArpInit /\ [][ArpNext]_arpVars

-----------------------------------------------------------------------------
(* Properties.                                                              *)

\* Entries are well formed.
ArpTypeOK ==
    /\ entries \in [Slots -> [ip : Ips \cup {None}, mac : Macs \cup {None},
                              active : BOOLEAN]]
    /\ latest \in [Ips -> Macs \cup {None}]

\* No host has two active entries: insert() updates the one lookup() will find.
OneEntryPerHost ==
    \A i, j \in Slots :
        entries[i].active /\ entries[j].active /\ entries[i].ip = entries[j].ip => i = j

\* Every active entry belongs to a host and holds its last announcement.
EntriesCurrent ==
    \A i \in Slots : entries[i].active =>
        /\ entries[i].ip \in Ips
        /\ entries[i].mac = latest[entries[i].ip]
        /\ entries[i].mac \in Macs

\* lookup() never gives an address older than the host's last announcement: the
\* current one, or none because the table was full.
NeverStale == \A ip \in Ips : lookup(ip) \in {None, latest[ip]}

\* A host once in the table is never lost from it, and only a full table turns
\* a host away.
NeverForgotten ==
    [][\A ip \in Ips :
          /\ lookup(ip) # None => lookup(ip)' # None
          /\ latest'[ip] # None /\ lookup(ip)' = None => Inactive = {}]_arpVars
=============================================================================
