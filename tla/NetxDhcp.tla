------------------------------ MODULE NetxDhcp ------------------------------
(***************************************************************************)
(* DHCP: clients, each with one interface, and the server of one link,     *)
(* whose records of clients and list of addresses are two tables that      *)
(* every message, the session timer and the lease timer change together.   *)
(* (nxd_dhcp_client.c and nxd_dhcp_server.c)                               *)
(*                                                                         *)
(* The network loses messages and keeps the order between one client and   *)
(* the server.  Time is counted for leases only: all other timers may fire *)
(* whenever they run, but a client does not begin anew before its earlier  *)
(* messages are gone.  Each handler runs with the mutex of its side.       *)
(***************************************************************************)
EXTENDS Integers, FiniteSetsExt, Sequences

CONSTANTS
  Clients,
  Callers,     \* those whose applications do more than start them
  None,        \* no address, no record, nobody, and an infinite lease
  Addresses,   \* the server's list, searched from its lowest
  Asked,       \* addresses an application may ask for
  TableSize,   \* NX_DHCP_CLIENT_RECORD_TABLE_SIZE
  Lease,       \* NX_DHCP_DEFAULT_LEASE_TIME
  MinRenew,    \* NX_DHCP_MIN_RENEW_TIMEOUT
  Interval,    \* NX_DHCP_SLOW_PERIODIC_TIME_INTERVAL
  UnderWay,    \* bound on the messages under way in a direction
  MaxFailures, \* bound on losses and on sessions that time out
  MaxCalls     \* bound on calls of applications that started a client

DhcpAssumption ==
  /\ Addresses \subseteq Nat \ {0} /\ Asked \subseteq Nat \ {0}
  /\ Callers \subseteq Clients
  /\ TableSize \in Nat /\ UnderWay \in Nat \ {0} /\ MaxFailures \in Nat /\ MaxCalls \in Nat
  /\ Lease = None \/ Lease \in {n \in Nat : n >= 8}
  /\ MinRenew \in Nat \ {0} /\ Interval \in Nat \ {0}

VARIABLES
  client,      \* interface record of each client, and its interface's address
  record,      \* client_records: what the server knows of each client
  owner,       \* owner_mac of each address, when it is assigned
  lease,       \* lease_time of each address
  phase,       \* of the slow periodic timer
  toServer, toClient,
  failures, calls

tables == <<record, owner, lease>>
network == <<toServer, toClient>>
bounds == <<failures, calls>>
dhcpVars == <<client, tables, phase, network, bounds>>

Started == {"INIT", "SELECTING", "REQUESTING"}
Leased == {"BOUND", "RENEWING", "REBINDING"}

(* _nx_dhcp_interface_reinitialize: the interface gives its address up when *)
(* it is the one of the record.                                             *)
Reinitialized(k) ==
  [k EXCEPT !.state = "NOT_STARTED", !.ip = None, !.server = FALSE, !.skip = FALSE,
            !.addr = IF k.ip # None /\ k.addr = k.ip THEN None ELSE k.addr,
            !.timer = 0, !.rtr = 0, !.remain = 0]
Restarted(k) == [Reinitialized(k) EXCEPT !.state = "INIT"]

Init ==
  /\ client = [c \in Clients |->
       [state |-> "NOT_STARTED", ip |-> None, server |-> FALSE, skip |-> FALSE,
        addr |-> None, timer |-> 0, rtr |-> 0, remain |-> 0]]
  /\ record = [c \in Clients |-> None]
  /\ owner = [a \in Addresses |-> None] /\ lease = [a \in Addresses |-> 0]
  /\ phase = 0
  /\ toServer = [c \in Clients |-> <<>>] /\ toClient = [c \in Clients |-> <<>>]
  /\ failures = 0 /\ calls = 0

-----------------------------------------------------------------------------
(* What a client sends (_nx_dhcp_send_request_internal): a request repeats  *)
(* the address and the server it has been offered, but renewing and         *)
(* rebinding only name the address it has.                                  *)
Message(type, req, server, ciaddr) ==
  [type |-> type, req |-> req, server |-> server, ciaddr |-> ciaddr]
Discover(k) == Message("DISCOVER", k.ip, "absent", None)
Request(k) ==
  IF k.state \in {"RENEWING", "REBINDING"}
  THEN Message("REQUEST", None, "absent", k.ip)
  ELSE Message("REQUEST", k.ip, IF k.server THEN "ours" ELSE "zero", None)

Post(c, m) == toServer' = [toServer EXCEPT ![c] = Append(@, m)]
Send(c, m) == Len(toServer[c]) < UnderWay /\ Post(c, m)
Quiet(c) == toServer[c] = <<>> /\ toClient[c] = <<>>
Becomes(c, k) == client' = [client EXCEPT ![c] = k]
Calls == calls < MaxCalls /\ calls' = calls + 1

(* Applications.  A client that was stopped is reinitialized before it is   *)
(* started again, and an address is asked for before the start.             *)
Start(c) ==
  /\ client[c].state = "NOT_STARTED" /\ client[c].addr = None
  /\ Becomes(c, [client[c] EXCEPT !.state = "INIT"])
  /\ UNCHANGED <<tables, phase, network, bounds>>
RequestClientIp(c, a, skip) ==
  /\ client[c].state = "NOT_STARTED" /\ client[c].ip = None
  /\ Becomes(c, [client[c] EXCEPT !.ip = a, !.skip = skip])
  /\ UNCHANGED <<tables, phase, network, bounds>>
Stop(c) ==
  /\ client[c].state # "NOT_STARTED" /\ Calls
  /\ Becomes(c, [client[c] EXCEPT !.state = "NOT_STARTED"])
  /\ UNCHANGED <<tables, phase, network, failures>>
Reinitialize(c) ==
  /\ \/ client[c].state # "NOT_STARTED" /\ Calls
     \/ client[c].state = "NOT_STARTED" /\ UNCHANGED calls
  /\ Becomes(c, Reinitialized(client[c]))
  /\ UNCHANGED <<tables, phase, network, failures>>
Release(c) ==
  /\ client[c].state \in Leased /\ Calls
  /\ Send(c, Message("RELEASE", None, "ours", client[c].ip))
  /\ Becomes(c, Reinitialized(client[c]))
  /\ UNCHANGED <<tables, phase, toClient, failures>>
Decline(c) ==
  /\ client[c].state \in Leased /\ Calls
  /\ Send(c, Message("DECLINE", client[c].ip, "ours", None))
  /\ Becomes(c, Restarted(client[c]))
  /\ UNCHANGED <<tables, phase, toClient, failures>>

(* The times between two tries to renew (_nx_dhcp_update_renewal_timeout).  *)
UpdateRenewal(t) ==
  IF t > 2 * MinRenew THEN t \div 2 ELSE IF t > MinRenew THEN MinRenew ELSE t
RenewalTime == IF Lease = None THEN 0 ELSE Lease \div 2
RebindTime == IF Lease = None THEN 0 ELSE 7 * (Lease \div 8)
LeaseTime == IF Lease = None THEN 0 ELSE Lease
Tries(k, s, left) ==
  [k EXCEPT !.state = s, !.remain = left,
            !.timer = UpdateRenewal(left), !.rtr = UpdateRenewal(left)]

ForceRenew(c) ==
  /\ client[c].state \in Leased /\ Calls
  /\ LET k == Tries(client[c], "RENEWING", RebindTime - RenewalTime)
     IN Becomes(c, k) /\ Send(c, Request(k))
  /\ UNCHANGED <<tables, phase, toClient, failures>>

(* The timers before there is a lease: the first message, after a second or *)
(* more, and its repetitions, which never end.                              *)
TimerFires(c) ==
  /\ client[c].state = "INIT" => Quiet(c)
  /\ LET k == client[c]
     IN \/ /\ k.state = "INIT" /\ k.ip # None /\ k.skip
           /\ Send(c, Request(k)) /\ Becomes(c, [k EXCEPT !.state = "REQUESTING"])
        \/ /\ k.state = "INIT" /\ ~ (k.ip # None /\ k.skip)
           /\ Send(c, Discover(k)) /\ Becomes(c, [k EXCEPT !.state = "SELECTING"])
        \/ k.state = "SELECTING" /\ Send(c, Discover(k)) /\ UNCHANGED client
        \/ k.state = "REQUESTING" /\ Send(c, Request(k)) /\ UNCHANGED client
  /\ UNCHANGED <<tables, phase, toClient, bounds>>

Extracted(k, m) == [k EXCEPT !.ip = m.ip, !.server = TRUE]
Bound(k) ==
  [k EXCEPT !.state = "BOUND", !.addr = k.ip, !.timer = RenewalTime, !.remain = 0, !.rtr = 0]

Granted(k, m) == m.type = "ACK" /\ k.state \in {"REQUESTING", "RENEWING", "REBINDING"}
(* Mistake: a NACK is passed over while the address is asked for.           *)
RefusedLater(k, m) == m.type = "NACK" /\ k.state \in {"RENEWING", "REBINDING"}
Refused(k, m) == m.type = "NACK" /\ k.state \in {"REQUESTING", "RENEWING", "REBINDING"}

(* _nx_dhcp_packet_process.                                                 *)
ReceiveAnswer(c) ==
  /\ toClient[c] # <<>>
  /\ LET k == client[c]
         m == Head(toClient[c])
         offered == Extracted(k, m)
     IN \/ /\ k.state = "SELECTING" /\ m.type = "OFFER"
           /\ Post(c, Request(offered))
           /\ Becomes(c, [offered EXCEPT !.state = "REQUESTING"])
        \/ Granted(k, m) /\ Becomes(c, Bound(offered)) /\ UNCHANGED toServer
        \/ Refused(k, m) /\ Becomes(c, Restarted(k)) /\ UNCHANGED toServer
        \/ /\ ~ (k.state = "SELECTING" /\ m.type = "OFFER")
           /\ ~ Granted(k, m) /\ ~ Refused(k, m)
           /\ UNCHANGED <<client, toServer>>
  /\ toClient' = [toClient EXCEPT ![c] = Tail(@)]
  /\ UNCHANGED <<tables, phase, bounds>>

-----------------------------------------------------------------------------
(* The server.  A message is read into the client's record, over what was   *)
(* there: options that are absent leave the last ones.  A client without a  *)
(* record gets one while the table has room.                                *)
NewRecord == [state |-> "INIT", assigned |-> None, requested |-> None,
              server |-> FALSE, session |-> FALSE]
Known == {c \in Clients : record[c] # None}
HasRoom(c) == c \in Known \/ Cardinality(Known) < TableSize
Read(c, m) ==
  LET r == IF c \in Known THEN record[c] ELSE NewRecord
  IN [r EXCEPT !.requested = IF m.req = None THEN @ ELSE m.req,
               !.server = IF m.server = "absent" THEN @ ELSE m.server = "ours"]

(* _nx_dhcp_clear_client_session; the address that is assigned stays.       *)
Cleared(r) == [r EXCEPT !.requested = None, !.server = FALSE, !.session = FALSE]

(* Mistake: an address is made available whoever has it.                    *)
AvailableAnyway(c, a) ==
  /\ owner' = IF a \in Addresses THEN [owner EXCEPT ![a] = None] ELSE owner
  /\ lease' = IF a \in Addresses THEN [lease EXCEPT ![a] = 0] ELSE lease
MarkAvailable(c, a) ==
  LET own == a \in Addresses /\ owner[a] = c
  IN /\ owner' = IF own THEN [owner EXCEPT ![a] = None] ELSE owner
     /\ lease' = IF own THEN [lease EXCEPT ![a] = 0] ELSE lease

(* The end of _nx_dhcp_server_packet_process: the answer, and whether the   *)
(* session is over or waits for the client's next message.                  *)
Finish(c, r, answer, ip) ==
  LET state == IF answer = "ACK" THEN "BOUND" ELSE r.state
      over == state \in {"INIT", "BOUND"}
      done == IF over THEN Cleared(r) ELSE [r EXCEPT !.session = TRUE]
  IN /\ record' = [record EXCEPT ![c] = [done EXCEPT !.state = state]]
     /\ toClient' = IF answer = "SILENT" THEN toClient
                    ELSE [toClient EXCEPT ![c] = Append(@, [type |-> answer, ip |-> ip])]

(* _nx_dhcp_server_assign_ip_address: the address the record names, unless  *)
(* somebody else has it; for a discovery that names none of the list, the   *)
(* first that is free.                                                      *)
Free == {a \in Addresses : owner[a] = None}
Assign(c, r, answer) ==
  LET listed == r.assigned \in Addresses
      given == IF listed
               THEN IF owner[r.assigned] \in {None, c} THEN r.assigned ELSE None
               ELSE IF answer = "OFFER" /\ Free # {} THEN Min(Free) ELSE None
  IN IF given = None
     THEN /\ Finish(c, [r EXCEPT !.state = "INIT", !.assigned = None], "NACK", None)
          /\ UNCHANGED <<owner, lease>>
     ELSE /\ Finish(c, [r EXCEPT !.assigned = given], answer, given)
          /\ owner' = [owner EXCEPT ![given] = c]
          /\ lease' = [lease EXCEPT ![given] = LeaseTime]
Refuse(c, r) == Finish(c, r, "NACK", None)

(* A record without an address takes the one that is asked for.             *)
Wanted(r) == IF r.assigned = None THEN r.requested ELSE r.assigned

ServeDiscover(c, m, r) ==
  /\ m.type = "DISCOVER"
  /\ Assign(c, [r EXCEPT !.state = "SELECTING", !.assigned = Wanted(r)], "OFFER")

(* A request in answer to an offer, or, with no server named, for an        *)
(* address of an earlier time.  When another address is assigned, that one  *)
(* is given back, and the record still names it.                            *)
ServeRequest(c, m, r) ==
  LET misnamed == r.assigned \notin {None, r.requested}
  IN /\ m.type = "REQUEST" /\ r.requested # None
     /\ \/ m.ciaddr # None /\ Refuse(c, r) /\ UNCHANGED <<owner, lease>>
        \/ m.ciaddr = None /\ misnamed /\ MarkAvailable(c, r.assigned) /\ Refuse(c, r)
        \/ /\ m.ciaddr = None /\ r.server /\ r.assigned = None
           /\ Refuse(c, r) /\ UNCHANGED <<owner, lease>>
        \/ /\ m.ciaddr = None /\ ~ misnamed /\ ~ (r.server /\ r.assigned = None)
           /\ Assign(c, [r EXCEPT !.state = "REQUESTING", !.assigned = Wanted(r)], "ACK")

(* A request to renew or to rebind.                                         *)
ServeRenew(c, m, r) ==
  /\ m.type = "REQUEST" /\ r.requested = None /\ ~ r.server
  /\ \/ /\ r.assigned = None
        /\ Refuse(c, [r EXCEPT !.state = "INIT"]) /\ UNCHANGED <<owner, lease>>
     \/ r.assigned # None /\ Assign(c, [r EXCEPT !.state = "RENEWING"], "ACK")

ServeRelease(c, m, r) ==
  /\ m.type = "RELEASE"
  /\ \/ /\ r.assigned # None /\ m.ciaddr = r.assigned
        /\ MarkAvailable(c, r.assigned)
        /\ Finish(c, [r EXCEPT !.state = "INIT", !.assigned = None], "SILENT", None)
     \/ /\ ~ (r.assigned # None /\ m.ciaddr = r.assigned)
        /\ Finish(c, r, "SILENT", None) /\ UNCHANGED <<owner, lease>>

(* An address that is declined is never assigned again.                     *)
ServeDecline(c, m, r) ==
  /\ m.type = "DECLINE"
  /\ LET declined == r.assigned \in Addresses
     IN /\ owner' = IF declined THEN [owner EXCEPT ![r.assigned] = "declined"] ELSE owner
        /\ lease' = IF declined THEN [lease EXCEPT ![r.assigned] = 0] ELSE lease
  /\ Finish(c, [r EXCEPT !.state = "INIT", !.assigned = None], "SILENT", None)

Serve(c) ==
  /\ toServer[c] # <<>> /\ Len(toClient[c]) < UnderWay
  /\ toServer' = [toServer EXCEPT ![c] = Tail(@)]
  /\ LET m == Head(toServer[c])
         r == Read(c, m)
     IN \/ ~ HasRoom(c) /\ UNCHANGED <<tables, toClient>>
        \/ /\ HasRoom(c)
           /\ \/ ServeDiscover(c, m, r)
              \/ ServeRequest(c, m, r)
              \/ ServeRenew(c, m, r)
              \/ ServeRelease(c, m, r)
              \/ ServeDecline(c, m, r)
  /\ UNCHANGED <<client, phase, bounds>>

(* The fast periodic timer: a session that waits too long gives its address *)
(* back.                                                                    *)
SessionTimesOut(c) ==
  /\ failures < MaxFailures /\ failures' = failures + 1
  /\ c \in Known /\ record[c].session
  /\ record[c].state # "BOUND" /\ record[c].assigned # None
  /\ MarkAvailable(c, record[c].assigned)
  /\ record' = [record EXCEPT ![c] =
       Cleared([record[c] EXCEPT !.state = "INIT", !.assigned = None])]
  /\ UNCHANGED <<client, phase, network, calls>>

(* The slow periodic timer: leases that are over.  The record to change is  *)
(* looked up by the address.                                                *)
Over == {a \in Addresses : owner[a] \in Clients /\ lease[a] <= Interval}
Holders(a) == {c \in Known : record[c].assigned = a}
SlowPeriod ==
  /\ owner' = [a \in Addresses |-> IF a \in Over THEN None ELSE owner[a]]
  /\ lease' = [a \in Addresses |->
       IF owner[a] \notin Clients \/ a \in Over THEN 0 ELSE lease[a] - Interval]
  /\ \E found \in [Over -> Clients \cup {None}] :
       /\ \A a \in Over : found[a] \in IF Holders(a) = {} THEN {None} ELSE Holders(a)
       /\ record' = [c \in Clients |->
            IF \E a \in Over : found[a] = c
            THEN Cleared([record[c] EXCEPT !.state = "INIT", !.assigned = None])
            ELSE record[c]]

(* Time passes at the clients and at the server alike; a message takes less *)
(* than a unit of it.                                                       *)
LeaseTimer(k) ==
  LET left == IF k.remain >= k.rtr THEN k.remain - k.rtr ELSE 0
  IN CASE k.state = "BOUND" -> Tries(k, "RENEWING", RebindTime - RenewalTime)
       [] k.state # "BOUND" /\ left > 0 -> Tries(k, k.state, left)
       [] k.state = "RENEWING" /\ left = 0 -> Tries(k, "REBINDING", LeaseTime - RebindTime)
       [] k.state = "REBINDING" /\ left = 0 -> Restarted(k)
Tick ==
  /\ Lease # None /\ \A c \in Clients : Quiet(c)
  /\ LET counts == {c \in Clients : client[c].state \in Leased}
         fires == {c \in counts : client[c].timer = 1}
         after == [c \in Clients |->
           IF c \in fires THEN LeaseTimer(client[c])
           ELSE IF c \in counts THEN [client[c] EXCEPT !.timer = @ - 1] ELSE client[c]]
     IN /\ client' = after
        /\ toServer' = [c \in Clients |->
             IF c \in fires /\ after[c].state # "INIT" THEN <<Request(after[c])>> ELSE <<>>]
  /\ phase' = (phase + 1) % Interval
  /\ IF phase' = 0 THEN SlowPeriod ELSE UNCHANGED tables
  /\ UNCHANGED <<toClient, bounds>>

Lose(c) ==
  /\ failures < MaxFailures /\ failures' = failures + 1
  /\ \/ /\ toServer[c] # <<>> /\ toServer' = [toServer EXCEPT ![c] = Tail(@)]
        /\ UNCHANGED toClient
     \/ /\ toClient[c] # <<>> /\ toClient' = [toClient EXCEPT ![c] = Tail(@)]
        /\ UNCHANGED toServer
  /\ UNCHANGED <<client, tables, phase, calls>>

Application(c) ==
  \/ Stop(c) \/ Reinitialize(c) \/ Release(c) \/ Decline(c) \/ ForceRenew(c)
  \/ \E a \in Asked, skip \in BOOLEAN : RequestClientIp(c, a, skip)
GoesOn(c) == TimerFires(c) \/ ReceiveAnswer(c) \/ Serve(c)
CanGoOn(c) == client[c].state \in Started \/ ~ Quiet(c)
Next ==
  \/ \E c \in Callers : Application(c)
  \/ \E c \in Clients : Start(c) \/ GoesOn(c) \/ SessionTimesOut(c) \/ Lose(c)
  \/ Tick

Spec == Init /\ [][Next]_dhcpVars

(* Timers fire, and threads run that have a message: WF_dhcpVars(GoesOn(c)), *)
(* for GoesOn(c) is enabled, and changes something, when CanGoOn(c).        *)
FairSpec ==
  Spec /\ \A c \in Clients : []<>~ CanGoOn(c) \/ []<><<GoesOn(c)>>_dhcpVars
-----------------------------------------------------------------------------
TypeOK ==
  /\ client \in [Clients ->
       [state : {"NOT_STARTED"} \cup Started \cup Leased,
        ip : Addresses \cup Asked \cup {None}, server : BOOLEAN, skip : BOOLEAN,
        addr : Addresses \cup {None},
        timer : 0..LeaseTime, rtr : 0..LeaseTime, remain : 0..LeaseTime]]
  /\ record \in [Clients -> {None} \cup
       [state : {"INIT", "SELECTING", "BOUND"}, assigned : Addresses \cup Asked \cup {None},
        requested : Addresses \cup Asked \cup {None}, server : BOOLEAN, session : BOOLEAN]]
  /\ owner \in [Addresses -> Clients \cup {None, "declined"}]
  /\ lease \in [Addresses -> 0..LeaseTime] /\ phase \in 0..(Interval - 1)

(* A client that uses an address has it from the server, which has it down  *)
(* as that client's: no two clients use one.                                *)
Uses(c) == client[c].state \in Leased
AddressesOwned ==
  \A c \in Clients : Uses(c) =>
    /\ client[c].addr = client[c].ip /\ client[c].addr \in Addresses
    /\ owner[client[c].addr] = c

(* A client that has been started is given an address, as long as the       *)
(* server has one and a record for it, and it does not ask for one that     *)
(* somebody else has.                                                       *)
Servable(c) ==
  /\ HasRoom(c)
  /\ \E a \in Addresses : owner[a] \in {None, c}
  /\ client[c].ip \in Addresses => owner[client[c].ip] \in {None, c}
Unserved(c) == client[c].state \in Started /\ Servable(c)
ClientBinds == \A c \in Clients : Unserved(c) ~> ~ Unserved(c)
=============================================================================
