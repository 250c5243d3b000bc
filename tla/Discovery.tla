------------------------------ MODULE Discovery ------------------------------
(***************************************************************************)
(* UDP bootstrap discovery of the central node.                            *)
(*                                                                         *)
(*   src/cmd/carisma-orchestrator/app/discovery.go  handleDiscovery        *)
(*   src/pkg/udp/broadcast.go    NewBroadcastService, RepeatedlyWriteMessage,*)
(*                               ReadPacketWithTimeout                     *)
(*   src/pkg/udp/message.go      IsCARISMAMessage, DecodeBroadcastMessage,  *)
(*                               BroadcastMessage.Bytes                    *)
(*   src/cmd/carisma-orchestrator/app/app.go:76-86  the dial that follows  *)
(*                                                                         *)
(* The central node's handleDiscovery starts a beacon goroutine and        *)
(* returns; its deferred Close shuts the socket the goroutine writes to.   *)
(* A satellite whose configured central hostname is empty reads packets    *)
(* until one decodes, each read with its own deadline, and then dials the  *)
(* central node's gRPC port at the hostname it learnt.                     *)
(*                                                                         *)
(* A packet is abstracted to what the parsing code looks at: its length    *)
(* class relative to the 9-byte magic, whether it starts with the magic,   *)
(* and the payload gob decodes to (a hostname or Garbage).  An address     *)
(* built by net.JoinHostPort is a pair <<host, port>>; a host that is       *)
(* itself such a pair stands for "h:p", which JoinHostPort brackets into   *)
(* "[h:p]:port", an address no resolver accepts.                           *)
(***************************************************************************)
EXTENDS Integers, Sequences, FiniteSets, SequencesExt

CONSTANTS
  Sats,        \* satellites with discovery enabled and no central hostname
  Central,     \* cfg.NodeHostname of the central node
  GRPCPort,    \* cfg.GRPCPort, the same on every node
  Garbage,     \* a payload gob cannot decode into a BroadcastMessage
  MaxLosses,   \* bound on lost broadcast deliveries over a behaviour
  MaxForeign,  \* bound on packets from other senders on the UDP port
  BindFaults   \* whether binding the UDP port may fail (port in use)

ASSUME BindFaults \in BOOLEAN

\* The empty hostname string (a sequence, so it compares with addresses).
NoHost == <<>>

\* net.JoinHostPort
JoinHostPort(h, p) == <<h, p>>

CentralAddr == JoinHostPort(Central, GRPCPort)

Packet == [len : {"short", "nine", "long"}, magic : BOOLEAN,
           payload : {CentralAddr, Garbage}]

\* BroadcastMessage.Bytes: magic, type byte, gob of the hostname the central
\* node puts in it (discovery.go:28).
BeaconPacket == [len |-> "long", magic |-> TRUE, payload |-> CentralAddr]

\* Other traffic on the port: shorter than the magic, the bare magic, the
\* magic followed by bytes gob rejects, and long packets without the magic.
ForeignPackets ==
  { [len |-> "short", magic |-> FALSE, payload |-> Garbage],
    [len |-> "nine",  magic |-> TRUE,  payload |-> Garbage],
    [len |-> "long",  magic |-> TRUE,  payload |-> Garbage],
    [len |-> "long",  magic |-> FALSE, payload |-> Garbage] }

\* IsCARISMAMessage: at least len(magicString) bytes, starting with it.
IsCARISMAMessage(pk) == pk.len # "short" /\ pk.magic

\* DecodeBroadcastMessage slices msg[len(magicString)+1:]: on a packet of
\* exactly 9 bytes the low bound exceeds the length and the slice panics.
DecodePanics(pk) == pk.len = "nine"

DecodeFails(pk) == pk.payload = Garbage

VARIABLES
  cPc,      \* central handleDiscovery: "listen", "spawned", "done"
  sock,     \* central UDP socket: "none", "open", "closed"
  bPc,      \* beacon goroutine: "idle", "tick", "done"
  sPc,      \* per satellite: "listen", "read", "done", "crashed"
  inbox,    \* per satellite: packets queued on its socket
  host,     \* per satellite: cfg.CentralNodeHostname
  dial,     \* per satellite: the address grpc.NewClient was given
  losses,   \* lost broadcast deliveries so far
  foreign   \* foreign packets sent so far

vars == <<cPc, sock, bPc, sPc, inbox, host, dial, losses, foreign>>

Init ==
  /\ cPc = "listen"
  /\ sock = "none"
  /\ bPc = "idle"
  /\ sPc = [s \in Sats |-> "listen"]
  /\ inbox = [s \in Sats |-> <<>>]
  /\ host = [s \in Sats |-> NoHost]
  /\ dial = [s \in Sats |-> NoHost]
  /\ losses = 0
  /\ foreign = 0

-----------------------------------------------------------------------------
(* Central node.                                                           *)

\* handleDiscovery, lines 16-37: NewBroadcastService binds the UDP port and
\* the beacon goroutine is started; a failed bind returns at once.
CentralListen ==
  /\ cPc = "listen"
  /\ \/ /\ sock' = "open"
        /\ bPc' = "tick"
        /\ cPc' = "spawned"
     \/ /\ BindFaults
        /\ cPc' = "done"
        /\ UNCHANGED <<sock, bPc>>
  /\ UNCHANGED <<sPc, inbox, host, dial, losses, foreign>>

\* handleDiscovery returns after starting the goroutine (line 37); the
\* deferred broadcaster.Close (line 23) closes the socket.
CentralReturn ==
  /\ cPc = "spawned"
  /\ cPc' = "done"
  /\ sock' = "closed"
  /\ UNCHANGED <<bPc, sPc, inbox, host, dial, losses, foreign>>

\* Satellites whose socket is bound and that hold no beacon yet: further
\* copies of the same beacon behind a queued one change nothing.
Listening == {s \in Sats : sPc[s] = "read" /\ ~Contains(inbox[s], BeaconPacket)}

\* RepeatedlyWriteMessage, lines 68-96: the first WriteTo waits for the
\* first tick of a ticker of period UDPDelay (lines 69, 78), while
\* handleDiscovery returns as soon as the goroutine is started; so no tick
\* comes before CentralReturn. WriteTo the broadcast address reaches each
\* listening satellite unless the packet is lost; a write on a closed
\* socket fails and the goroutine returns (lines 89-91).
BeaconTick ==
  /\ bPc = "tick"
  /\ cPc = "done"
  /\ \/ /\ sock = "open"
        /\ \E lost \in SUBSET Listening :
             /\ losses + Cardinality(lost) <= MaxLosses
             /\ losses' = losses + Cardinality(lost)
             /\ inbox' = [s \in Sats |->
                           IF s \in Listening \ lost
                           THEN Append(inbox[s], BeaconPacket) ELSE inbox[s]]
        /\ UNCHANGED bPc
     \/ /\ sock = "closed"
        /\ bPc' = "done"
        /\ UNCHANGED <<inbox, losses>>
  /\ UNCHANGED <<cPc, sock, sPc, host, dial, foreign>>

\* Another sender puts a packet on the UDP port of a listening satellite.
ForeignSend(s, pk) ==
  /\ sPc[s] = "read"
  /\ foreign < MaxForeign
  /\ inbox' = [inbox EXCEPT ![s] = Append(@, pk)]
  /\ foreign' = foreign + 1
  /\ UNCHANGED <<cPc, sock, bPc, sPc, host, dial, losses>>

-----------------------------------------------------------------------------
(* Satellite.                                                              *)

\* Run, lines 80-86: after handleDiscovery the satellite dials
\* JoinHostPort(cfg.CentralNodeHostname, cfg.GRPCPort).
Leave(s) ==
  /\ sPc' = [sPc EXCEPT ![s] = "done"]
  /\ dial' = [dial EXCEPT ![s] = JoinHostPort(host'[s], GRPCPort)]

\* handleDiscovery, lines 16-21 and 40: bind the UDP port and read, the
\* configured hostname being empty; a failed bind returns at once.
SatListen(s) ==
  /\ sPc[s] = "listen"
  /\ \/ /\ host[s] = NoHost
        /\ sPc' = [sPc EXCEPT ![s] = "read"]
        /\ UNCHANGED dial
     \/ /\ BindFaults
        /\ host' = host
        /\ Leave(s)
  /\ UNCHANGED <<cPc, sock, bPc, inbox, host, losses, foreign>>

\* ReadPacketWithTimeout returns the next packet (lines 42-63): a packet
\* that is not a CARISMA message or does not decode is skipped; a decoded
\* one sets cfg.CentralNodeHostname and ends the loop; the bare magic
\* panics in DecodeBroadcastMessage and the orchestrator process dies.
SatRead(s) ==
  /\ sPc[s] = "read"
  /\ inbox[s] # <<>>
  /\ LET pk == Head(inbox[s]) IN
       /\ inbox' = [inbox EXCEPT ![s] = Tail(@)]
       /\ \/ /\ ~IsCARISMAMessage(pk) \/ (~DecodePanics(pk) /\ DecodeFails(pk))
             /\ UNCHANGED <<sPc, host, dial>>
          \/ /\ IsCARISMAMessage(pk) /\ DecodePanics(pk)
             /\ sPc' = [sPc EXCEPT ![s] = "crashed"]
             /\ UNCHANGED <<host, dial>>
          \/ /\ IsCARISMAMessage(pk) /\ ~DecodePanics(pk) /\ ~DecodeFails(pk)
             /\ host' = [host EXCEPT ![s] = pk.payload]
             /\ Leave(s)
  /\ UNCHANGED <<cPc, sock, bPc, losses, foreign>>

\* ReadPacketWithTimeout's deadline passes (lines 42-47): no packet is
\* queued and no beacon is on its way (the beacon interval, 5 s, is far
\* below the read timeout, 60 s, so a running beacon always wins); the
\* loop returns with the hostname still empty.
SatTimeout(s) ==
  /\ sPc[s] = "read"
  /\ inbox[s] = <<>>
  /\ bPc # "tick"
  /\ host' = host
  /\ Leave(s)
  /\ UNCHANGED <<cPc, sock, bPc, inbox, losses, foreign>>

-----------------------------------------------------------------------------
Next ==
  \/ CentralListen \/ CentralReturn \/ BeaconTick
  \/ \E s \in Sats, pk \in ForeignPackets : ForeignSend(s, pk)
  \/ \E s \in Sats : SatListen(s) \/ SatRead(s) \/ SatTimeout(s)

\* The goroutines and the read deadline progress on their own (weak
\* fairness); other senders and packet loss are not obliged to happen.
Fairness ==
  /\ WF_vars(CentralListen) /\ WF_vars(CentralReturn) /\ WF_vars(BeaconTick)
  /\ \A s \in Sats : WF_vars(SatListen(s)) /\ WF_vars(SatRead(s)) /\ WF_vars(SatTimeout(s))

Spec == Init /\ [][Next]_vars /\ Fairness

-----------------------------------------------------------------------------
(* Properties.                                                             *)

TypeOK ==
  /\ cPc \in {"listen", "spawned", "done"}
  /\ sock \in {"none", "open", "closed"}
  /\ bPc \in {"idle", "tick", "done"}
  /\ sPc \in [Sats -> {"listen", "read", "done", "crashed"}]
  /\ inbox \in [Sats -> Seq(Packet)]
  /\ host \in [Sats -> {NoHost, CentralAddr}]
  /\ losses \in 0 .. MaxLosses /\ foreign \in 0 .. MaxForeign

\* Every satellite that runs discovery eventually learns the address the
\* central node advertises in its beacon (spec.md: a satellite "discovers
\* central (optional UDP beacon)"): the beacon goroutine must get a packet
\* through before the satellites' read deadline, past lost packets and
\* other traffic on the port (discovery.go 16-66, broadcast.go 68-118).
SatelliteLearnsCentral ==
  \A s \in Sats : <>(host[s] = CentralAddr)

=============================================================================
