----------------------------- MODULE ClientLease -----------------------------
(***************************************************************************)
(* What the server promises about the ports it hands to a client: a lease. *)
(* The ports are opened one by one before the client hears of them, kept   *)
(* open for as long as the lease is granted, and closed once it expires.   *)
(* A lease is granted at most once and nothing of it outlives its release. *)
(* ServerSession implements this specification.                            *)
(***************************************************************************)
CONSTANTS
    Conns,     \* the connections that may ask for a lease
    Usb        \* those whose lease has a video port besides the touch port

VARIABLES
    lease,     \* how far the lease of a connection has come
    ports      \* the ports of a connection that listen

leaseVars == <<lease, ports>>

PortsOf(c) == IF c \in Usb THEN {"touch", "video"} ELSE {"touch"}

LeaseTypeOK ==
    /\ lease \in [Conns -> {"free", "reserved", "granted", "ending", "released"}]
    /\ ports \in [Conns -> SUBSET {"touch", "video"}]

LeaseInit ==
    /\ lease = [c \in Conns |-> "free"]
    /\ ports = [c \in Conns |-> {}]

OpenPort(c, p) ==
    /\ lease[c] = "free"
    /\ p \in PortsOf(c) \ ports[c]
    /\ ports' = [ports EXCEPT ![c] = @ \cup {p}]
    /\ UNCHANGED lease

(* One of the ports could not be opened: the others are closed again.      *)
Abandon(c) ==
    /\ lease[c] = "free"
    /\ ports' = [ports EXCEPT ![c] = {}]
    /\ lease' = [lease EXCEPT ![c] = "released"]

Reserve(c) ==
    /\ lease[c] = "free" /\ ports[c] = PortsOf(c)
    /\ lease' = [lease EXCEPT ![c] = "reserved"]
    /\ UNCHANGED ports

Grant(c) ==
    /\ lease[c] = "reserved"
    /\ lease' = [lease EXCEPT ![c] = "granted"]
    /\ UNCHANGED ports

Expire(c) ==
    /\ lease[c] = "granted"
    /\ lease' = [lease EXCEPT ![c] = "ending"]
    /\ UNCHANGED ports

ClosePort(c, p) ==
    /\ lease[c] = "ending" /\ p \in ports[c]
    /\ ports' = [ports EXCEPT ![c] = @ \ {p}]
    /\ UNCHANGED lease

Release(c) ==
    /\ lease[c] = "ending" /\ ports[c] = {}
    /\ lease' = [lease EXCEPT ![c] = "released"]
    /\ UNCHANGED ports

LeaseNext ==
    \E c \in Conns :
        \/ Abandon(c) \/ Reserve(c) \/ Grant(c) \/ Expire(c) \/ Release(c)
        \/ \E p \in {"touch", "video"} : OpenPort(c, p) \/ ClosePort(c, p)

LeaseSpec == LeaseInit /\ [][LeaseNext]_leaseVars
=============================================================================
