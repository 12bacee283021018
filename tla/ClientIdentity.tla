--------------------------- MODULE ClientIdentity ---------------------------
(***************************************************************************)
(* Who a client is to the servers: the number that main computes from an   *)
(* IP address when the file system is mounted (get_ip, ip_to_int,          *)
(* get_ip_addr).  Every request carries it as "ip", and the servers make   *)
(* it the owner of what the client creates: the set Ips of FuseRpcServer.  *)
(*                                                                         *)
(* A text is the sequence of its characters, a digit being its value.      *)
(***************************************************************************)
EXTENDS Integers, SequencesExt

CONSTANTS Hosts,   \* the client machines
          Octets,  \* the numbers their addresses are made of
          None     \* "no value"

VARIABLES address,  \* address[h]: what gethostbyname found for the name of h
          ip        \* ip[h]: the number of the client process of h, or None

vars == <<address, ip>>

Addresses == Octets \X Octets \X Octets \X Octets

\* What /etc/hosts of the README gives for the name of the machine itself.
HostsEntry == <<127, 0, 1, 1>>

Dot == 10

Digits(n) ==
  CASE n < 10  -> <<n>>
    [] n < 100 -> <<n \div 10, n % 10>>
    [] OTHER   -> <<n \div 100, (n \div 10) % 10, n % 10>>

inet_ntoa(a) ==
  Digits(a[1]) \o <<Dot>> \o Digits(a[2]) \o <<Dot>> \o Digits(a[3]) \o <<Dot>> \o Digits(a[4])

\* One round of the loop of ip_to_int.  A result has at most 24 bits.
Round(val, char) ==
  IF char = Dot THEN [res |-> val.res * 256 + val.cur, cur |-> 0]
  ELSE [val EXCEPT !.cur = @ * 10 + char]

ip_to_int(text) == FoldLeft(Round, [res |-> 0, cur |-> 0], text).res

Init == /\ address = [h \in Hosts |-> None]
        /\ ip = [h \in Hosts |-> None]

\* get_ip takes the first address found, get_ip_addr keeps its number.
Mount(h) ==
  /\ ip[h] = None
  /\ \E a \in Addresses \cup {HostsEntry} :
       /\ address' = [address EXCEPT ![h] = a]
       /\ ip' = [ip EXCEPT ![h] = ip_to_int(inet_ntoa(a))]

\* The file system is unmounted, and may be mounted again under another address.
Unmount(h) ==
  /\ ip[h] # None
  /\ ip' = [ip EXCEPT ![h] = None]
  /\ UNCHANGED address

Next == \E h \in Hosts : Mount(h) \/ Unmount(h)

Spec == Init /\ [][Next]_vars

-----------------------------------------------------------------------------
\* "Every *_arg has a data member called ip, which is used to differentiate
\* seperate path for distinct clients": clients with different addresses have
\* different numbers.
DistinctIdentities ==
  \A h, k \in Hosts :
    (ip[h] # None /\ ip[k] # None /\ address[h] # address[k]) => ip[h] # ip[k]
=============================================================================
